------------------------------- MODULE Judge -------------------------------
(***************************************************************************)
(* The in-process judgement of a locked tool: the source-hash gate, the    *)
(* load, the runtime pin, the binding to plan.lock, the dependency walk,   *)
(* the seal of the local helpers, the run of the body and the verdict      *)
(* (acid_engine/cli_judge.py, judge.py, level3/script/runner.py,           *)
(* level2/local_deps.py), with the file system it reads under concurrent   *)
(* saves by whoever else works in the directory.                           *)
(*                                                                         *)
(* A file's bytes are a member of Contents: a record of what judging them  *)
(* can tell apart.  SHA-256 is taken as injective, so a digest is the      *)
(* content it digests.  Each action is one access to state that another    *)
(* thread or another program shares (the disk, _PINNED_SOURCE,             *)
(* sys.modules) with the local steps that follow it.                       *)
(***************************************************************************)
EXTENDS Integers, FiniteSets

CONSTANTS
  Contexts,     \* threads of the process, each with its own contextvars
  Dirs,         \* directories that hold tools
  Names,        \* import names (= module files) inside a directory
  Contents,     \* what the .py files may contain
  Canons,       \* AST canons of a tool's entry body
  Contracts,    \* declarations of a ScriptModule, all but the body
  Runtimes,     \* versions of the files in RUNTIME_PIN_PATHS
  Pythons,      \* minor versions of interpreters
  Python,       \* the one of this process
  Absent,       \* no file, no module, no hash
  SysPath,      \* the directory on sys.path, or a value outside Dirs
  Locks,        \* the lock JSONs that exist
  May,          \* the locks a context is handed
  Entries,      \* ways into the judge: "admit" (CLI), "library"
  Saves,        \* the contents that may be saved in each file
  Relocates,    \* TRUE: files may be unlinked and created while judging
  MaxEdits,     \* bound: writes by other programs
  MaxRuns       \* bound: judgements per context

Files == Dirs \X Names

(* imports: names imported anywhere in the AST; eager: at module level.    *)
(* exec: how executing the module ends (a plain Exception or an exit).     *)
Content == [id : Nat, canon : Canons, contract : Contracts,
            imports : SUBSET Names, eager : SUBSET Names,
            dynamic : BOOLEAN, exec : {"ok", "raise", "exit"}]

Slot == Contents \cup {Absent}

(* What a lock pins of the engine that took it. *)
Contours == [files : Runtimes, python : Pythons]

Lock == [dir : Dirs, tool : Names, source : Slot,
         body : (Canons \X Contracts) \cup {Absent},
         deps : [Names -> Slot], contour : Contours \cup {Absent},
         complete : BOOLEAN, iface : BOOLEAN, dynamic : BOOLEAN]

(* The part of a tool that is called; its other parts have import names. *)
Entry == "entry"

ASSUME ContentsAssumption ==
  /\ Entry \notin Names
  /\ Contents \subseteq Content
  /\ \A c \in Contents : c.eager \subseteq c.imports
  /\ Absent \notin Contents
  /\ Absent \notin Canons \X Contracts
  /\ Absent \notin Contours
  /\ Pythons \subseteq Nat
  /\ Python \in Pythons

ASSUME LocksAssumption ==
  /\ Locks \subseteq Lock
  /\ Locks # {}
  /\ May \in [Contexts -> SUBSET Locks]

ASSUME EnvironmentAssumption ==
  /\ Saves \in [Files -> SUBSET Contents]
  /\ Relocates \in BOOLEAN
  /\ Entries \subseteq {"admit", "library"}
  /\ MaxEdits \in Nat
  /\ MaxRuns \in Nat

VARIABLES
  disk,      \* [Files -> Slot]
  contour,   \* the runtime files on disk
  pinned,    \* _PINNED_SOURCE, one per process, never cleared
  modules,   \* sys.modules under bare import names, one per process
  edits,     \* writes made so far by other programs
  pc,        \* where each context stands
  entry,     \* how the judgement was entered
  lock,      \* the lock it judges against
  src,       \* bytes the gate holds
  code,      \* bytes the ScriptModule was executed from
  walk,      \* the dependency walk under way
  sealed,    \* _SEALED of the context: import name -> sealed bytes
  outer,     \* the value the seal's token restores
  ran,       \* helper bytes bound by the tool, under their import name
  need,      \* import statements still to be executed
  verdict,   \* [status, why]
  runs       \* judgements started

shared == <<disk, contour, pinned, modules, edits>>
vars == <<disk, contour, pinned, modules, edits, pc, entry, lock, src, code,
          walk, sealed, outer, ran, need, verdict, runs>>

Labels == {"idle", "check", "read", "pin", "readback", "repin", "load",
           "loading", "admitPin", "judgePin", "planPin", "bind", "collect",
           "dynamic", "origin", "discover", "exec", "body"}

Unsealed == [n \in Names |-> Absent]
NoWalk == [todo |-> {}, open |-> {}, got |-> Unsealed]

Statuses == {"none", "PASS", "FAIL", "SKIPPED", "raised"}
Reasons == {"none", "source_hash", "load", "runtime", "lock", "interface",
            "module_hash", "dependency_hash", "drift", "dynamic_import",
            "helper", "conformance"}
Verdict == [status : Statuses, why : Reasons]

TypeOK ==
  /\ disk \in [Files -> Slot]
  /\ contour \in Runtimes
  /\ pinned \in [Files -> Slot]
  /\ modules \in [Names -> Slot]
  /\ edits \in Nat
  /\ pc \in [Contexts -> Labels]
  /\ entry \in [Contexts -> {"admit", "library"}]
  /\ lock \in [Contexts -> Locks]
  /\ src \in [Contexts -> Slot]
  /\ code \in [Contexts -> Slot]
  /\ walk \in [Contexts -> [todo : SUBSET Names, open : SUBSET Names,
                            got : [Names -> Slot]]]
  /\ sealed \in [Contexts -> [Names -> Slot]]
  /\ outer \in [Contexts -> [Names -> Slot]]
  /\ ran \in [Contexts -> SUBSET (Names \X Contents)]
  /\ need \in [Contexts -> SUBSET Names]
  /\ verdict \in [Contexts -> Verdict]
  /\ runs \in [Contexts -> Nat]

Init ==
  /\ disk \in [Files -> Slot]
  /\ \A f \in Files : IF Saves[f] = {} THEN disk[f] = Absent
                      ELSE disk[f] \in Saves[f]
  /\ contour \in Runtimes
  /\ pinned = [f \in Files |-> Absent]
  /\ modules = Unsealed
  /\ edits = 0
  /\ pc = [x \in Contexts |-> "idle"]
  /\ entry = [x \in Contexts |-> "admit"]
  /\ lock = [x \in Contexts |-> CHOOSE l \in Locks : TRUE]
  /\ src = [x \in Contexts |-> Absent]
  /\ code = [x \in Contexts |-> Absent]
  /\ walk = [x \in Contexts |-> NoWalk]
  /\ sealed = [x \in Contexts |-> Unsealed]
  /\ outer = [x \in Contexts |-> Unsealed]
  /\ ran = [x \in Contexts |-> {}]
  /\ need = [x \in Contexts |-> {}]
  /\ verdict = [x \in Contexts |-> [status |-> "none", why |-> "none"]]
  /\ runs = [x \in Contexts |-> 0]

-----------------------------------------------------------------------------
(* Reading files and locks *)

File(x, n) == <<lock[x].dir, n>>
Tool(x) == File(x, lock[x].tool)

(* Mutant of Read: the load reads the file again. *)
ReadDisk(f) == disk[f]

(* read_source_bytes: the pinned snapshot if there is one, else the disk. *)
Read(f) == IF pinned[f] # Absent THEN pinned[f] ELSE disk[f]

(* Mutant of Resolved: imports inside functions are not looked at. *)
ResolvedAtTopLevel(x, c) == {n \in c.eager : disk[File(x, n)] # Absent}

(* _resolve: the imports of c that are files of the tool's directory now. *)
Resolved(x, c) == {n \in c.imports : disk[File(x, n)] # Absent}

(* ScriptModule.content_hash: the declaration of the object at hand and the *)
(* canon of its body, which inspect.getsource takes from the file.         *)
ContentHash(x) == <<disk[Tool(x)].canon, code[x].contract>>

(* The file the ordinary finder reads for an import name. *)
OnSysPath(n) == IF SysPath \in Dirs THEN disk[<<SysPath, n>>] ELSE Absent

(* Mutant of Import: the ordinary import system. *)
ImportUnhooked(x, n) ==
  IF modules[n] # Absent THEN modules[n] ELSE OnSysPath(n)

(* builtins.__import__ under the hook: the context's sealed module, else   *)
(* sys.modules, else the file on sys.path.                                 *)
Import(x, n) ==
  IF sealed[x][n] # Absent THEN sealed[x][n]
  ELSE IF modules[n] # Absent THEN modules[n]
  ELSE OnSysPath(n)

(* lock_toolchain in this process. *)
Engine == [files |-> contour, python |-> Python]

(* What dump_script_lock writes for tool t of directory d when the disk is *)
(* dk and nothing moves meanwhile: the digest of every local file that is  *)
(* reachable from the tool by imports (the tool itself too, on a cycle).   *)
DumpLock(d, t, dk, ct) ==
  LET present == {n \in Names : dk[<<d, n>>] # Absent}
      next(n) == dk[<<d, n>>].imports \cap present
      closed(S) == /\ next(t) \subseteq S
                   /\ \A n \in S : next(n) \subseteq S
      reached == {n \in present :
                    \A S \in SUBSET present : closed(S) => n \in S}
  IN  [dir |-> d, tool |-> t, source |-> dk[<<d, t>>],
       body |-> <<dk[<<d, t>>].canon, dk[<<d, t>>].contract>>,
       deps |-> [n \in Names |-> IF n \in reached THEN dk[<<d, n>>]
                                 ELSE Absent],
       contour |-> ct, complete |-> TRUE, iface |-> TRUE, dynamic |-> FALSE]

-----------------------------------------------------------------------------
(* Control *)

Goto(x, label) == pc' = [pc EXCEPT ![x] = label]

(* The judgement returns (or raises to its caller). *)
Return(x, status, why) ==
  /\ Goto(x, "idle")
  /\ verdict' = [verdict EXCEPT ![x] = [status |-> status, why |-> why]]

Begin(x, e, l) ==
  /\ pc[x] = "idle"
  /\ runs[x] < MaxRuns
  /\ l \in May[x]
  /\ e \in Entries
  /\ runs' = [runs EXCEPT ![x] = @ + 1]
  /\ entry' = [entry EXCEPT ![x] = e]
  /\ lock' = [lock EXCEPT ![x] = l]
  /\ src' = [src EXCEPT ![x] = Absent]
  /\ walk' = [walk EXCEPT ![x] = NoWalk]
  /\ ran' = [ran EXCEPT ![x] = {}]

(* admit_judge up to the source_hash lookup of the gate. *)
Admit(x, l) ==
  /\ Begin(x, "admit", l)
  /\ code' = [code EXCEPT ![x] = Absent]
  /\ need' = [need EXCEPT ![x] = {}]
  /\ IF l.source = Absent
       THEN Return(x, "SKIPPED", "source_hash")
       ELSE /\ Goto(x, "check")
            /\ verdict' = [verdict EXCEPT ![x] =
                             [status |-> "none", why |-> "none"]]
  /\ UNCHANGED <<shared, sealed, outer>>

(* The host program imports the tool itself and hands judge_script the     *)
(* ScriptModule: the bytes are those on disk when it was imported.         *)
ImportByHost(x, l) ==
  LET c == disk[<<l.dir, l.tool>>] IN
  /\ Begin(x, "library", l)
  /\ c # Absent
  /\ c.exec = "ok"
  /\ code' = [code EXCEPT ![x] = c]
  /\ need' = [need EXCEPT ![x] = c.eager]
  /\ verdict' = [verdict EXCEPT ![x] = [status |-> "none", why |-> "none"]]
  /\ Goto(x, "loading")
  /\ UNCHANGED <<shared, sealed, outer>>

-----------------------------------------------------------------------------
(* source_hash_gate: snapshot_exec_target looks the path up in             *)
(* _PINNED_SOURCE, reads the file, pins what it read, reads the pin back;  *)
(* on a match the gate pins the bytes it compared.                         *)

(* Mutant of GateCheck: every judgement reads the file and pins it anew. *)
GateCheckAgain(x) ==
  /\ pc[x] = "check"
  /\ Goto(x, "read")
  /\ UNCHANGED <<shared, entry, lock, src, code, walk, sealed, outer, ran,
                 need, verdict, runs>>

GateCheck(x) ==
  /\ pc[x] = "check"
  /\ Goto(x, IF pinned[Tool(x)] = Absent THEN "read" ELSE "readback")
  /\ UNCHANGED <<shared, entry, lock, src, code, walk, sealed, outer, ran,
                 need, verdict, runs>>

GateRead(x) ==
  /\ pc[x] = "read"
  /\ IF disk[Tool(x)] = Absent
       THEN Return(x, "FAIL", "source_hash") /\ UNCHANGED src
       ELSE /\ Goto(x, "pin")
            /\ src' = [src EXCEPT ![x] = disk[Tool(x)]]
            /\ UNCHANGED verdict
  /\ UNCHANGED <<shared, entry, lock, code, walk, sealed, outer, ran, need,
                 runs>>

GatePin(x) ==
  /\ pc[x] = "pin"
  /\ pinned' = [pinned EXCEPT ![Tool(x)] = src[x]]
  /\ Goto(x, "readback")
  /\ UNCHANGED <<disk, contour, modules, edits, entry, lock, src, code, walk,
                 sealed, outer, ran, need, verdict, runs>>

GateCompare(x) ==
  /\ pc[x] = "readback"
  /\ src' = [src EXCEPT ![x] = pinned[Tool(x)]]
  /\ IF pinned[Tool(x)] = lock[x].source
       THEN Goto(x, "repin") /\ UNCHANGED verdict
       ELSE Return(x, "FAIL", "source_hash")
  /\ UNCHANGED <<shared, entry, lock, code, walk, sealed, outer, ran, need,
                 runs>>

GateRepin(x) ==
  /\ pc[x] = "repin"
  /\ pinned' = [pinned EXCEPT ![Tool(x)] = src[x]]
  /\ Goto(x, "load")
  /\ UNCHANGED <<disk, contour, modules, edits, entry, lock, src, code, walk,
                 sealed, outer, ran, need, verdict, runs>>

(* load_script_from_file: exec of what read_source_bytes returns. *)
LoadScript(x) ==
  LET c == Read(Tool(x)) IN
  /\ pc[x] = "load"
  /\ IF disk[Tool(x)] = Absent
       THEN Return(x, "raised", "load") /\ UNCHANGED <<code, need>>
       ELSE /\ code' = [code EXCEPT ![x] = c]
            /\ IF c.exec = "ok"
                 THEN /\ need' = [need EXCEPT ![x] = c.eager]
                      /\ Goto(x, "loading")
                      /\ UNCHANGED verdict
                 ELSE Return(x, "raised", "load") /\ UNCHANGED need
  /\ UNCHANGED <<shared, entry, lock, src, walk, sealed, outer, ran, runs>>

(* Every module-level import of the tool has been executed. *)
LoadDone(x) ==
  /\ pc[x] = "loading"
  /\ need[x] = {}
  /\ Goto(x, IF entry[x] = "admit" THEN "admitPin" ELSE "judgePin")
  /\ UNCHANGED <<shared, entry, lock, src, code, walk, sealed, outer, ran,
                 need, verdict, runs>>

-----------------------------------------------------------------------------
(* verify_runtime_pin, called by admit_judge, judge_script and             *)
(* _prepare_execution in turn; the canon kind is that of the tool's body   *)
(* as inspect sees it, "bytecode" once the file is gone.  Of a body with a *)
(* source the Python of the lock may be a minor version away.              *)
RuntimeOk(x) ==
  LET pin == lock[x].contour IN
  /\ pin # Absent
  /\ pin.files = contour
  /\ pin.python - Python \in -1..1
  /\ disk[Tool(x)] # Absent

(* Mutant of VerifyRuntimePin: a lock without runtime hashes is let pass. *)
VerifyRuntimePinIfAny(x) ==
  /\ pc[x] \in {"admitPin", "judgePin", "planPin"}
  /\ pc[x] = "judgePin" => lock[x].complete
  /\ IF lock[x].contour = Absent \/ RuntimeOk(x)
       THEN /\ Goto(x, IF pc[x] = "admitPin" THEN "judgePin"
                       ELSE IF pc[x] = "judgePin" THEN "planPin" ELSE "bind")
            /\ UNCHANGED verdict
       ELSE Return(x, "FAIL", "runtime")
  /\ UNCHANGED <<shared, entry, lock, src, code, walk, sealed, outer, ran,
                 need, runs>>

VerifyRuntimePin(x) ==
  /\ pc[x] \in {"admitPin", "judgePin", "planPin"}
  /\ pc[x] = "judgePin" => lock[x].complete
  /\ IF RuntimeOk(x)
       THEN /\ Goto(x, IF pc[x] = "admitPin" THEN "judgePin"
                       ELSE IF pc[x] = "judgePin" THEN "planPin" ELSE "bind")
            /\ UNCHANGED verdict
       ELSE Return(x, "FAIL", "runtime")
  /\ UNCHANGED <<shared, entry, lock, src, code, walk, sealed, outer, ran,
                 need, runs>>

(* judge_script without plan, iface or toolchain. *)
SkipIncomplete(x) ==
  /\ pc[x] = "judgePin"
  /\ ~lock[x].complete
  /\ Return(x, "SKIPPED", "lock")
  /\ UNCHANGED <<shared, entry, lock, src, code, walk, sealed, outer, ran,
                 need, runs>>

-----------------------------------------------------------------------------
(* bind_script_to_plan *)

(* The interface hash, then the module hash of the body, under any of the  *)
(* three keys it may have.                                                 *)
BindBody(x) ==
  /\ pc[x] = "bind"
  /\ IF ~lock[x].iface
       THEN Return(x, "FAIL", "interface") /\ UNCHANGED walk
     ELSE IF lock[x].body = Absent
       THEN Return(x, "SKIPPED", "module_hash") /\ UNCHANGED walk
     ELSE IF disk[Tool(x)] = Absent \/ ContentHash(x) # lock[x].body
       THEN Return(x, "FAIL", "module_hash") /\ UNCHANGED walk
     ELSE /\ walk' = [walk EXCEPT ![x] =
               [todo |-> {}, open |-> {lock[x].tool}, got |-> Unsealed]]
          /\ Goto(x, "collect")
          /\ UNCHANGED verdict
  /\ UNCHANGED <<shared, entry, lock, src, code, sealed, outer, ran, need,
                 runs>>

(* Mutant of CollectParse: hashed imports are collected again. *)
CollectParseAgain(x, n) ==
  LET w == walk[x] IN
  /\ pc[x] = "collect"
  /\ n \in w.open
  /\ disk[File(x, n)] # Absent
  /\ walk' = [walk EXCEPT ![x] =
       [todo |-> w.todo \cup Resolved(x, Read(File(x, n))),
        open |-> w.open \ {n}, got |-> w.got]]
  /\ UNCHANGED <<shared, pc, entry, lock, src, code, sealed, outer, ran,
                 need, verdict, runs>>

(* _walk parses a file: its unhashed local imports are to be hashed. *)
CollectParse(x, n) ==
  LET w == walk[x]
      found == IF disk[File(x, n)] = Absent THEN {}
               ELSE {m \in Resolved(x, Read(File(x, n))) : w.got[m] = Absent}
  IN
  /\ pc[x] = "collect"
  /\ n \in w.open
  /\ walk' = [walk EXCEPT ![x] = [todo |-> w.todo \cup found,
                                 open |-> w.open \ {n}, got |-> w.got]]
  /\ UNCHANGED <<shared, pc, entry, lock, src, code, sealed, outer, ran,
                 need, verdict, runs>>

(* _walk hashes a local import and then opens it, once; a file that        *)
(* disappeared since it was resolved raises out of the judge.              *)
CollectHash(x, n) ==
  LET w == walk[x]
      c == Read(File(x, n))
      opened == IF n = lock[x].tool THEN {} ELSE {n}
  IN
  /\ pc[x] = "collect"
  /\ n \in w.todo
  /\ IF c = Absent
       THEN Return(x, "raised", "dependency_hash") /\ UNCHANGED walk
       ELSE /\ walk' = [walk EXCEPT ![x] =
                 [todo |-> w.todo \ {n}, open |-> w.open \cup opened,
                  got |-> [w.got EXCEPT ![n] = c]]]
            /\ UNCHANGED <<pc, verdict>>
  /\ UNCHANGED <<shared, entry, lock, src, code, sealed, outer, ran, need,
                 runs>>

(* Mutant of BindDeps: status and reason of the result change places. *)
BindDepsSwapped(x) ==
  /\ pc[x] = "collect"
  /\ walk[x].todo = {} /\ walk[x].open = {}
  /\ IF walk[x].got = lock[x].deps
       THEN Goto(x, "dynamic") /\ UNCHANGED verdict
       ELSE Return(x, "dependency_hash", "FAIL")
  /\ UNCHANGED <<shared, entry, lock, src, code, walk, sealed, outer, ran,
                 need, runs>>

(* The live dependency hashes must be the locked ones, name for name. *)
BindDeps(x) ==
  /\ pc[x] = "collect"
  /\ walk[x].todo = {} /\ walk[x].open = {}
  /\ IF walk[x].got = lock[x].deps
       THEN Goto(x, "dynamic") /\ UNCHANGED verdict
       ELSE Return(x, "FAIL", "dependency_hash")
  /\ UNCHANGED <<shared, entry, lock, src, code, walk, sealed, outer, ran,
                 need, runs>>

(* dynamic_import_leak: import_module, exec, eval in the tool's own AST. *)
DynamicImportLeak(x) ==
  /\ pc[x] = "dynamic"
  /\ IF /\ ~lock[x].dynamic
        /\ disk[Tool(x)] # Absent
        /\ Read(Tool(x)).dynamic
       THEN Return(x, "FAIL", "dynamic_import")
       ELSE Goto(x, "origin") /\ UNCHANGED verdict
  /\ UNCHANGED <<shared, entry, lock, src, code, walk, sealed, outer, ran,
                 need, runs>>

-----------------------------------------------------------------------------
(* sealed_deps / _seal_enter *)

(* Import statements inside functions of the tool and of what it bound. *)
LazyImports(x) ==
  UNION {c.imports \ c.eager : c \in {code[x]} \cup {p[2] : p \in ran[x]}}

(* _origin_file: no file, nothing to seal, and the body runs. *)
SealOrigin(x) ==
  /\ pc[x] = "origin"
  /\ IF disk[Tool(x)] = Absent
       THEN /\ outer' = [outer EXCEPT ![x] = sealed[x]]
            /\ need' = [need EXCEPT ![x] = LazyImports(x)]
            /\ Goto(x, "body")
            /\ UNCHANGED walk
       ELSE /\ walk' = [walk EXCEPT ![x] =
                 [todo |-> {lock[x].tool}, open |-> {}, got |-> Unsealed]]
            /\ Goto(x, "discover")
            /\ UNCHANGED <<outer, need>>
  /\ UNCHANGED <<shared, entry, lock, src, code, sealed, ran, verdict, runs>>

(* _discover: one read of a file gives both its bytes and its imports. *)
Discover(x, n) ==
  LET w == walk[x]
      c == Read(File(x, n))
      found == {m \in Resolved(x, c) : w.got[m] = Absent}
  IN
  /\ pc[x] = "discover"
  /\ n \in w.todo
  /\ walk' = [walk EXCEPT ![x] =
       IF disk[File(x, n)] = Absent
         THEN [todo |-> w.todo \ {n}, open |-> {}, got |-> w.got]
         ELSE [todo |-> (w.todo \cup found) \ {n}, open |-> {},
               got |-> [w.got EXCEPT ![n] = c]]]
  /\ UNCHANGED <<shared, pc, entry, lock, src, code, sealed, outer, ran,
                 need, verdict, runs>>

(* Mutants of SealVerify: what binding compared is not compared again; a   *)
(* locked helper that was not found is passed over.                        *)
SealVerifyTrusting(x) ==
  /\ pc[x] = "discover"
  /\ walk[x].todo = {}
  /\ outer' = [outer EXCEPT ![x] = sealed[x]]
  /\ sealed' = [sealed EXCEPT ![x] =
                  [walk[x].got EXCEPT ![lock[x].tool] = Absent]]
  /\ Goto(x, "exec")
  /\ UNCHANGED <<shared, entry, lock, src, code, walk, ran, need, verdict,
                 runs>>

SealVerifyLenient(x) ==
  /\ \A n \in Names : walk[x].got[n] \in {Absent, lock[x].deps[n]}
                       \/ n = lock[x].tool
  /\ SealVerifyTrusting(x)

(* The files found, but for the tool itself, against the locked hashes: an *)
(* undeclared, a changed or a missing file is drift.                       *)
SealVerify(x) ==
  LET deps == [walk[x].got EXCEPT ![lock[x].tool] = Absent] IN
  /\ pc[x] = "discover"
  /\ walk[x].todo = {}
  /\ IF deps = lock[x].deps
       THEN /\ outer' = [outer EXCEPT ![x] = sealed[x]]
            /\ sealed' = [sealed EXCEPT ![x] = deps]
            /\ Goto(x, "exec")
            /\ UNCHANGED verdict
       ELSE Return(x, "FAIL", "drift") /\ UNCHANGED <<outer, sealed>>
  /\ UNCHANGED <<shared, entry, lock, src, code, walk, ran, need, runs>>

(* The sealed bytes are executed.  An Exception restores the outer seal    *)
(* and is raised to the caller; an exit is raised past the handler.        *)
ExecEnds(x, how) == \E n \in Names : /\ sealed[x][n] # Absent
                                     /\ sealed[x][n].exec = how

(* Mutant of ExecSealed: whatever is raised passes the handler. *)
ExecSealedUncaught(x) ==
  /\ pc[x] = "exec"
  /\ \/ /\ ~ExecEnds(x, "raise") /\ ~ExecEnds(x, "exit")
        /\ need' = [need EXCEPT ![x] = LazyImports(x)]
        /\ Goto(x, "body")
        /\ UNCHANGED verdict
     \/ /\ ExecEnds(x, "raise") \/ ExecEnds(x, "exit")
        /\ Return(x, "raised", "helper")
        /\ UNCHANGED need
  /\ UNCHANGED <<shared, entry, lock, src, code, walk, sealed, outer, ran,
                 runs>>

ExecSealed(x) ==
  /\ pc[x] = "exec"
  /\ \/ /\ ~ExecEnds(x, "raise") /\ ~ExecEnds(x, "exit")
        /\ need' = [need EXCEPT ![x] = LazyImports(x)]
        /\ Goto(x, "body")
        /\ UNCHANGED <<sealed, verdict>>
     \/ /\ ExecEnds(x, "raise")
        /\ sealed' = [sealed EXCEPT ![x] = outer[x]]
        /\ Return(x, "raised", "helper")
        /\ UNCHANGED need
     \/ /\ ExecEnds(x, "exit")
        /\ Return(x, "raised", "helper")
        /\ UNCHANGED <<sealed, need>>
  /\ UNCHANGED <<shared, entry, lock, src, code, walk, outer, ran, runs>>

-----------------------------------------------------------------------------
(* Imports while the tool loads and while its body runs, the run and the   *)
(* verdict.                                                                *)

(* An import statement succeeds.  While loading, the module-level imports  *)
(* of the module follow; the body is taken to reach all of them.           *)
ImportModule(x, n) ==
  LET c == Import(x, n) IN
  /\ pc[x] \in {"loading", "body"}
  /\ n \in need[x]
  /\ c # Absent
  /\ sealed[x][n] # Absent \/ c.exec = "ok"
  /\ ran' = [ran EXCEPT ![x] = @ \cup {<<n, c>>}]
  /\ need' = [need EXCEPT ![x] =
       (@ \ {n}) \cup IF <<n, c>> \in ran[x] THEN {}
                      ELSE IF pc[x] = "loading" THEN c.eager
                      ELSE c.imports]
  /\ modules' = IF sealed[x][n] # Absent THEN modules
                ELSE [modules EXCEPT ![n] = c]
  /\ UNCHANGED <<disk, contour, pinned, edits, pc, entry, lock, src, code,
                 walk, sealed, outer, verdict, runs>>

(* No such module, or executing it raised: the importing code handles it,  *)
(* or the load raises, or the run is a failed observation.  An exit passes *)
(* through run_script, and sealed_deps restores the outer seal.            *)
ImportFails(x, n) ==
  LET c == Import(x, n)
      how == IF c = Absent THEN "missing"
             ELSE IF sealed[x][n] # Absent THEN "ok" ELSE c.exec
  IN
  /\ pc[x] \in {"loading", "body"}
  /\ n \in need[x]
  /\ how # "ok"
  /\ \/ /\ how # "exit"
        /\ need' = [need EXCEPT ![x] = @ \ {n}]
        /\ UNCHANGED <<pc, verdict, sealed>>
     \/ /\ pc[x] = "loading"
        /\ Return(x, "raised", "load")
        /\ UNCHANGED <<need, sealed>>
     \/ /\ pc[x] = "body"
        /\ IF how = "exit" THEN Return(x, "raised", "helper")
                           ELSE Return(x, "FAIL", "conformance")
        /\ sealed' = [sealed EXCEPT ![x] = outer[x]]
        /\ UNCHANGED need
  /\ UNCHANGED <<shared, entry, lock, src, code, walk, outer, ran, runs>>

(* The body calls importlib.reload on a helper it holds: the sealed bytes  *)
(* again for a sealed name, else the file.                                 *)
ReloadModule(x, n) ==
  LET c == IF sealed[x][n] # Absent THEN sealed[x][n] ELSE OnSysPath(n) IN
  /\ pc[x] = "body"
  /\ \E p \in ran[x] : p[1] = n
  /\ c # Absent
  /\ c.exec = "ok"
  /\ ran' = [ran EXCEPT ![x] = @ \cup {<<n, c>>}]
  /\ need' = [need EXCEPT ![x] = @ \cup IF <<n, c>> \in ran[x] THEN {}
                                        ELSE c.imports]
  /\ modules' = IF sealed[x][n] # Absent THEN modules
                ELSE [modules EXCEPT ![n] = c]
  /\ UNCHANGED <<disk, contour, pinned, edits, pc, entry, lock, src, code,
                 walk, sealed, outer, verdict, runs>>

(* run_script and check_conformance: a failed observation is FAIL, a       *)
(* completed one is judged by its output, its effects and the policy.      *)
CheckConformance(x) ==
  /\ pc[x] = "body"
  /\ need[x] = {}
  /\ \E status \in {"PASS", "FAIL", "SKIPPED"} :
       Return(x, status, "conformance")
  /\ sealed' = [sealed EXCEPT ![x] = outer[x]]
  /\ UNCHANGED <<shared, entry, lock, src, code, walk, outer, ran, need,
                 runs>>

-----------------------------------------------------------------------------
(* Other programs: an editor saves a file, a checkout unlinks and creates  *)
(* files, an upgrade replaces the files of the engine (the interpreter of  *)
(* a process stays what it is).                                            *)

locals == <<pc, entry, lock, src, code, walk, sealed, outer, ran, need,
           verdict, runs>>

Save(f, c) ==
  /\ edits < MaxEdits
  /\ c \in Saves[f] \ {disk[f]}
  /\ disk[f] # Absent \/ Relocates
  /\ disk' = [disk EXCEPT ![f] = c]
  /\ edits' = edits + 1
  /\ UNCHANGED <<contour, pinned, modules, locals>>

Unlink(f) ==
  /\ Relocates
  /\ edits < MaxEdits
  /\ disk[f] # Absent
  /\ disk' = [disk EXCEPT ![f] = Absent]
  /\ edits' = edits + 1
  /\ UNCHANGED <<contour, pinned, modules, locals>>

Upgrade(v) ==
  /\ edits < MaxEdits
  /\ v # contour
  /\ contour' = v
  /\ edits' = edits + 1
  /\ UNCHANGED <<disk, pinned, modules, locals>>

Environment ==
  \/ \E f \in Files : Unlink(f) \/ \E c \in Contents : Save(f, c)
  \/ \E v \in Runtimes : Upgrade(v)

Continue(x) ==
  \/ GateCheck(x) \/ GateRead(x) \/ GatePin(x) \/ GateCompare(x)
  \/ GateRepin(x) \/ LoadScript(x) \/ LoadDone(x)
  \/ VerifyRuntimePin(x) \/ SkipIncomplete(x)
  \/ BindBody(x) \/ BindDeps(x) \/ DynamicImportLeak(x)
  \/ SealOrigin(x) \/ SealVerify(x) \/ ExecSealed(x)
  \/ CheckConformance(x)
  \/ \E n \in Names : \/ CollectParse(x, n) \/ CollectHash(x, n)
                      \/ Discover(x, n)
                      \/ ImportModule(x, n) \/ ImportFails(x, n)

(* Everything a context does. *)
Step(x) ==
  \/ \E l \in Locks : Admit(x, l) \/ ImportByHost(x, l)
  \/ Continue(x)
  \/ \E n \in Names : ReloadModule(x, n)

Next == (\E x \in Contexts : Step(x)) \/ Environment

Spec == Init /\ [][Next]_vars

(* A context that has begun a judgement keeps taking its own steps; nobody *)
(* is obliged to begin one, to reload a helper or to write a file.         *)
FairSpec == Spec /\ \A x \in Contexts : WF_vars(Continue(x))
-----------------------------------------------------------------------------
(* Properties *)

Running(x) == pc[x] = "body" \/ verdict[x].status = "PASS"

(* What is sealed is what is locked, name for name and byte for byte: while *)
(* the helpers execute and the body runs, a seal other than the one that   *)
(* was there before maps exactly the locked names to their locked bytes    *)
(* (_seal_enter), whatever was saved, unlinked or created since binding.   *)
SealedIsLocked ==
  \A x \in Contexts :
    /\ pc[x] = "exec" => sealed[x] = lock[x].deps
    /\ pc[x] = "body" => sealed[x] \in {lock[x].deps, outer[x]}

(* The bytes that matched source_hash are the bytes the CLI executes: no   *)
(* statement of another version of the tool's file is ever run            *)
(* (source_hash_gate, load_script_from_file).                              *)
ToolBytesApproved ==
  \A x \in Contexts :
    entry[x] = "admit" /\ (pc[x] \in {"loading", "admitPin"} \/ Running(x))
      => code[x] = lock[x].source

(* Local helpers run from their locked bytes: every module the tool holds  *)
(* while its body runs, or ran with for a PASS, is the locked version of   *)
(* that name, unless no file of the tool's directory has the name          *)
(* (bind_script_to_plan, sealed_deps, _sealed_import, _sealed_reload).     *)
HelperBytesApproved ==
  \A x \in Contexts :
    Running(x) => \A p \in ran[x] : \/ p[2] = lock[x].deps[p[1]]
                                    \/ Saves[File(x, p[1])] = {}

(* PASS needs every fact: a source hash for the CLI, a module hash, plan,  *)
(* interface and toolchain together, the interface the plan was made for,  *)
(* and an opt-in if the CLI's tool has dynamic imports                     *)
(* (source_hash_gate, judge_script, _prepare_execution).                   *)
PassHasFacts ==
  \A x \in Contexts :
    verdict[x].status = "PASS" =>
      /\ lock[x].body # Absent /\ lock[x].complete /\ lock[x].iface
      /\ lock[x].contour # Absent
      /\ entry[x] = "admit" => /\ lock[x].source # Absent
                               /\ code[x].dynamic => lock[x].dynamic

(* A helper that raises while the seal is being taken, and a body that     *)
(* raises or exits later, leave no seal behind: a context that is not      *)
(* judging imports as if no judgement had ever run in it.  The one way out *)
(* that keeps the seal is a helper that exits as it is executed, which     *)
(* _seal_enter does not catch (_seal_enter, sealed_deps).                  *)
SealScoped ==
  \A x \in Contexts :
    pc[x] = "idle" => sealed[x] = Unsealed \/ ExecEnds(x, "exit")

(* No false refusal: as long as nothing was written, a tool judged against *)
(* the very lock its files give is not refused by a hash check, neither at *)
(* the gate nor at the binding nor at the seal                             *)
(* (dump_script_lock against source_hash_gate, bind_script_to_plan,        *)
(* _seal_enter: four traversals that must agree).                          *)
NoFalseRefusal ==
  \A x \in Contexts :
    /\ edits = 0
    /\ verdict[x].status = "FAIL"
    /\ verdict[x].why \notin {"none", "conformance", "dynamic_import",
                              "interface"}
    => lock[x] # [DumpLock(lock[x].dir, lock[x].tool, disk, Engine)
                    EXCEPT !.dynamic = lock[x].dynamic]

(* Pinned bytes are for good: once a path is in _PINNED_SOURCE no later    *)
(* judgement of the process replaces its bytes, so a load that follows a   *)
(* match executes what matched (pin_source_bytes, snapshot_exec_target).   *)
PinStable ==
  [][\A f \in Files : pinned[f] # Absent => pinned'[f] = pinned[f]]_vars

(* Every judgement that begins ends: the dependency walks terminate, on    *)
(* import cycles and under concurrent saves too, and every check leads to  *)
(* a verdict or to an exception for the caller.                            *)
JudgementEnds ==
  \A x \in Contexts : pc[x] # "idle" ~> pc[x] = "idle"

-----------------------------------------------------------------------------
(* The promise, in this process: the CLI approves the bytes behind         *)
(* source_hash for the entry, a host whatever it presents; for an import   *)
(* name the locked bytes, or anything where the tool's directory has no    *)
(* file of the name.                                                       *)
Asked(x) ==
  [p \in Names \cup {Entry} |->
     IF p = Entry
       THEN IF entry[x] = "library" THEN Contents ELSE {lock[x].source} \ {Absent}
     ELSE IF Saves[File(x, p)] = {} THEN Contents
     ELSE {lock[x].deps[p]} \ {Absent}]

RanHere(x) ==
  ran[x] \cup IF code[x] = Absent THEN {} ELSE {<<Entry, code[x]>>}

Promise ==
  INSTANCE Approval WITH
    Clients <- Contexts, Parts <- Names \cup {Entry}, Bytes <- Contents,
    asked <- [x \in Contexts |-> Asked(x)],
    open <- {x \in Contexts : pc[x] # "idle"},
    ran <- [x \in Contexts |-> RanHere(x)],
    answer <- [x \in Contexts |-> verdict[x].status]

(* Judge implements the promise: from the request to the answer each step  *)
(* runs approved bytes or none, the request stays what it was, nothing     *)
(* runs after the answer, and a PASS is given for an entry that ran        *)
(* (admit_judge, judge_script, execute_plan, sealed_deps).                 *)
IsApproval == Promise!ApprovalSpec
=============================================================================
