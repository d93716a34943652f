----------------------------- MODULE Supervisor -----------------------------
(***************************************************************************)
(* The supervisor binary and its Python worker: hash the judge's own       *)
(* files, let a first process identify the tool, bind the answer to the    *)
(* lock, let a second process run the body, and judge what it reports      *)
(* (rust/acid-judge/src/lib.rs, acid_engine/worker.py), while other        *)
(* programs save files and either process may die at any point.            *)
(*                                                                         *)
(* A process is fresh: it reads every file for itself, has no pins and no  *)
(* modules of another.  Whatever makes it end without an answer that       *)
(* parses (an exception, an exit, a kill, a tool that prints) is a death.  *)
(***************************************************************************)
EXTENDS FiniteSets, Verdict

CONSTANTS
  Contour,      \* files of the engine, which a request may pin
  Pinned,       \* RUNTIME_PIN_PATHS, which it must
  Worker,       \* worker.py among them
  Strays,       \* paths that pin_rel_ok rejects
  Versions,     \* versions of a contour file
  Names,        \* modules of the tool's directory
  ToolName,     \* the tool among them
  Contents,     \* what they may contain
  Canons,       \* AST canons of an entry body
  Outcomes,     \* what a body may do when it runs
  Absent,       \* no file, no hash, no entry
  Empty,        \* an empty string where a hash is expected
  Bytecode,     \* the hash of a callable whose source is gone
  Engines,      \* where the engine may be installed at first
  Requests,     \* what the supervisor may be asked
  Saves,        \* the contents that may be saved in each module
  Relocates,    \* TRUE: modules may be unlinked and created
  OnPath,       \* TRUE: the tool's directory is on PYTHONPATH
  MaxEdits      \* bound: writes by other programs

(* fails: executing the module raises or exits. *)
Content == [id : Nat, canon : Canons, imports : SUBSET Names,
            eager : SUBSET Names, dynamic : BOOLEAN, fails : BOOLEAN,
            contract : Contract]
Slot == Contents \cup {Absent}
Field == Slot \cup {Empty}

(* Where an engine may be: under ACID_ENGINE_ROOT, where python -P looks,  *)
(* in the working directory.                                               *)
Places == {"env", "site", "cwd"}
Installation == [Contour -> Versions]
Paths == Contour \cup Strays

(* The request: hashes as the files they are hashes of.  body is the entry *)
(* of module_hashes under the tool's name, modDeps its dep:* entries,      *)
(* claimed the caller's own script_hash, limit its own max_latency_ms; env *)
(* tells if ACID_ENGINE_ROOT is set.                                       *)
Request == [env : BOOLEAN, worker : Versions \cup {Absent},
            runtime : [Paths -> Versions \cup {Absent}],
            source : Slot, body : Canons \cup {Absent},
            claimed : Canons \cup {Absent},
            deps : [Names -> Field], modDeps : [Names -> Field],
            dynamic : BOOLEAN, limit : Limits]

ASSUME SupervisorAssumption ==
  /\ Worker \in Pinned
  /\ Pinned \subseteq Contour
  /\ Strays \cap Contour = {}
  /\ ToolName \in Names
  /\ "entry" \notin Names
  /\ Contents \subseteq Content
  /\ \A c \in Contents : c.eager \subseteq c.imports
  /\ Absent \notin Contents /\ Absent \notin Canons /\ Absent \notin Versions
  /\ Absent \notin Places
  /\ Empty \notin Contents /\ Empty # Absent
  /\ Bytecode \notin Canons /\ Bytecode # Absent
  /\ Engines \subseteq [Places -> Installation \cup {Absent}]
  /\ Absent \notin Installation
  /\ Requests \subseteq Request
  /\ Outcomes \subseteq Outcome
  /\ Saves \in [Names -> SUBSET Contents]
  /\ {Relocates, OnPath} \subseteq BOOLEAN
  /\ MaxEdits \in Nat

VARIABLES
  disk,      \* the tool's directory
  engine,    \* the installations of the contour
  edits,     \* writes made by other programs
  req,       \* the request
  pc,        \* where the supervisor stands
  boot,      \* the worker bytes it read, and both processes execute
  root,      \* the place whose files it hashes
  left,      \* paths of the request still to be hashed
  ident,     \* script_hash of the identify answer
  bound,     \* the declaration it came with
  child,     \* the process at work
  result     \* [status, property, err]

files == <<disk, engine, edits>>
parent == <<req, pc, boot, root, left, ident, bound, result>>
vars == <<files, parent, child>>

Unsealed == [n \in Names |-> Absent]
Undeclared == [type |-> "any", pure |-> FALSE, limit |-> NoLimit]
Unobserved == [status |-> "none", kind |-> "None", effects |-> FALSE,
               latency |-> 0]

(* A process: the place that leads its PYTHONPATH, the contour files it    *)
(* imports and imported, the tool's bytes, the helpers bound so far (ran), *)
(* sys.modules, the seal, the observation.                                 *)
Process(op, place) ==
  [op |-> op, at |-> "boot", root |-> place, left |-> Contour \ {Worker},
   loaded |-> [f \in Contour |-> Absent], code |-> Absent, need |-> {},
   todo |-> {}, got |-> Unsealed, sealed |-> Unsealed, modules |-> Unsealed,
   ran |-> {}, obs |-> Unobserved, hash |-> Absent, err |-> "none"]

Stages == {"none", "boot", "load", "dynamic", "collect", "origin",
           "discover", "body", "answer", "done", "dead"}
Errors == {"none", "source_hash", "dynamic_import", "unpinned", "drift",
           "other"}
Properties == {"none", "worker_hash", "runtime_hash", "source_hash", "worker",
               "script_hash", "module_hash", "dependency_hash", "status",
               "output_type", "pure", "max_latency_ms"}

TypeOK ==
  /\ disk \in [Names -> Slot]
  /\ engine \in [Places -> Installation \cup {Absent}]
  /\ edits \in 0..MaxEdits
  /\ req \in Requests
  /\ root \in Places \cup {Absent}
  /\ pc \in {"start", "locate", "runtime", "identify", "run", "done"}
  /\ boot \in Versions \cup {Absent}
  /\ left \subseteq Paths
  /\ ident \in Canons \cup {Absent, Bytecode}
  /\ bound \in Contract
  /\ child \in [op : {"identify", "run"}, at : Stages,
                root : Places \cup {Absent}, left : SUBSET Contour,
                loaded : [Contour -> Versions \cup {Absent}],
                code : Slot, need : SUBSET Names, todo : SUBSET Names,
                got : [Names -> Slot], sealed : [Names -> Slot],
                modules : [Names -> Slot],
                ran : SUBSET (Names \X Contents),
                obs : [status : {"none", "completed", "failed"}, kind : Kinds,
                       effects : BOOLEAN, latency : Nat],
                hash : Canons \cup {Absent, Bytecode}, err : Errors]
  /\ result \in [status : {"none", "PASS", "FAIL", "SKIPPED"},
                 property : Properties, err : Errors]

Init ==
  /\ disk \in [Names -> Slot]
  /\ \A n \in Names : IF Saves[n] = {} THEN disk[n] = Absent
                      ELSE disk[n] \in Saves[n]
  /\ engine \in Engines
  /\ edits = 0
  /\ req \in Requests
  /\ pc = "start"
  /\ boot = Absent
  /\ root = Absent
  /\ left = {}
  /\ ident = Absent
  /\ bound = Undeclared
  /\ child = [Process("identify", Absent) EXCEPT !.at = "none"]
  /\ result = [status |-> "none", property |-> "none", err |-> "none"]

-----------------------------------------------------------------------------
(* The supervisor *)

(* Mutant of Locked: the dep:* entries of module_hashes are not read. *)
LockedDependencyHashes(n) == IF req.deps[n] = Empty THEN Absent
                             ELSE req.deps[n]

(* _locked_deps: dependency_hashes, overridden by the dep:* entries of     *)
(* module_hashes; empty strings are no hashes.                             *)
Locked(n) ==
  IF req.modDeps[n] \notin {Absent, Empty} THEN req.modDeps[n]
  ELSE IF req.deps[n] \notin {Absent, Empty} THEN req.deps[n] ELSE Absent

Respond(status, property, err) ==
  /\ pc' = "done"
  /\ result' = [status |-> status, property |-> property, err |-> err]

Installed(place) == engine[place] # Absent

(* resolve_root_dir: the place, if the engine is there.                    *)
Present(place) == IF Installed(place) THEN place ELSE Absent

(* locate_via_python: the installed package, if there is one.              *)
Located == {"site"} \cap {Present("site")}

(* engine_root, asked anew for every read, pin and process: an interpreter *)
(* that fails to look is as good as no package.                            *)
EngineRoots ==
  IF req.env THEN {Present("env")} ELSE Located \cup {Present("cwd")}

(* sha256_bytes: the digest (the bytes, SHA-256 being injective), or none  *)
(* when no hash tool of the system delivers one.                           *)
Digests(bytes) == {bytes, Absent}

Vanished(op) == [Process(op, Absent) EXCEPT !.at = "dead", !.err = "other"]

(* Mutant of Spawn: the working directory leads the PYTHONPATH.            *)
SpawnInCwd(op) ==
  /\ pc' = op
  /\ child' = Process(op, "cwd")
  /\ UNCHANGED result

(* A process with the engine's root first on its PYTHONPATH.               *)
Spawn(op) ==
  /\ pc' = op
  /\ \E place \in EngineRoots :
       child' = IF place = Absent THEN Vanished(op) ELSE Process(op, place)
  /\ UNCHANGED result

(* The worker pin and the one read of worker.py it is compared with.       *)
ReadWorker ==
  /\ pc = "start"
  /\ IF req.worker = Absent
       THEN Respond("SKIPPED", "worker_hash", "none") /\ UNCHANGED boot
       ELSE \E place \in EngineRoots :
              IF place = Absent
                THEN Respond("FAIL", "worker_hash", "other") /\ UNCHANGED boot
                ELSE /\ boot' = engine[place][Worker]
                     /\ \E digest \in Digests(engine[place][Worker]) :
                          IF digest = req.worker
                            THEN pc' = "locate" /\ UNCHANGED result
                            ELSE Respond("FAIL", "worker_hash",
                                         IF digest = Absent THEN "other"
                                         ELSE "none")
  /\ UNCHANGED <<files, req, root, left, ident, bound, child>>

(* pin_runtime: every file of RUNTIME_PIN_PATHS has a hash, and a root.    *)
LocateRuntime ==
  /\ pc = "locate"
  /\ root' \in EngineRoots
  /\ left' = {f \in Paths : req.runtime[f] # Absent}
  /\ IF \E f \in Pinned : req.runtime[f] = Absent
       THEN Respond("SKIPPED", "runtime_hash", "none")
     ELSE IF root' = Absent
       THEN Respond("FAIL", "runtime_hash", "other")
     ELSE pc' = "runtime" /\ UNCHANGED result
  /\ UNCHANGED <<files, req, boot, ident, bound, child>>

(* It reads and hashes the files of the request one by one.                *)
HashRuntime(f) ==
  /\ pc = "runtime"
  /\ f \in left
  /\ IF f \in Strays
       THEN Respond("FAIL", "runtime_hash", "none")
       ELSE \E digest \in IF Installed(root) THEN Digests(engine[root][f])
                          ELSE {Absent} :
              IF digest = req.runtime[f]
                THEN UNCHANGED <<pc, result>>
                ELSE Respond("FAIL", "runtime_hash",
                             IF digest = Absent THEN "other" ELSE "none")
  /\ left' = left \ {f}
  /\ UNCHANGED <<files, req, boot, root, ident, bound, child>>

Identify ==
  /\ pc = "runtime"
  /\ left = {}
  /\ IF req.source = Absent
       THEN Respond("SKIPPED", "source_hash", "none") /\ UNCHANGED child
       ELSE Spawn("identify")
  /\ UNCHANGED <<files, req, boot, root, left, ident, bound>>

(* bind_dep_forward: no listed dependency lost its dep:* entry. *)
DepsForwarded ==
  \A n \in Names :
    /\ req.deps[n] # Absent => /\ req.deps[n] # Empty
                               /\ req.modDeps[n] \notin {Absent, Empty}
    /\ req.modDeps[n] # Empty

(* Mutant of BindTo: any module hash under the tool's name will do. *)
BindToAny(hash) ==
  IF req.body = Absent
    THEN [status |-> "SKIPPED", property |-> "module_hash"]
    ELSE [status |-> "BOUND", property |-> "none"]

(* bind: the module hash under the tool's name, then the dependencies. *)
BindTo(hash) ==
  IF req.body = Absent
    THEN [status |-> "SKIPPED", property |-> "module_hash"]
  ELSE IF req.body # hash
    THEN [status |-> "FAIL", property |-> "module_hash"]
  ELSE IF ~DepsForwarded
    THEN [status |-> "FAIL", property |-> "dependency_hash"]
  ELSE [status |-> "BOUND", property |-> "none"]

(* The answer to identify: the claimed hash, bind, and the run. *)
Bind ==
  LET binding == BindTo(child.hash) IN
  /\ pc = "identify"
  /\ child.at \in {"done", "dead"}
  /\ ident' = child.hash
  /\ bound' = IF child.at = "done" THEN child.code.contract ELSE bound
  /\ IF child.at = "dead"
       THEN Respond("FAIL", "worker", child.err) /\ UNCHANGED child
     ELSE IF req.claimed \notin {Absent, child.hash}
       THEN Respond("FAIL", "script_hash", "none") /\ UNCHANGED child
     ELSE IF binding.status # "BOUND"
       THEN Respond(binding.status, binding.property, "none") /\ UNCHANGED child
     ELSE Spawn("run")
  /\ UNCHANGED <<files, req, boot, root, left>>

(* Mutant of Required: the request's limit comes first. *)
RequiredByRequest ==
  [bound EXCEPT !.type = child.code.contract.type,
                !.limit = IF req.limit = NoLimit THEN @ ELSE req.limit]

(* Purity and limit as identify reported them, or the request's own limit  *)
(* for a tool without one; the type as run reported it.                    *)
Required ==
  [bound EXCEPT !.type = child.code.contract.type,
                !.limit = IF @ = NoLimit THEN req.limit ELSE @]

(* The answer to run: the hash again, then the verdict on the observation. *)
Conclude ==
  LET verdict == SupervisorVerdict(Required, child.obs) IN
  /\ pc = "run"
  /\ child.at \in {"done", "dead"}
  /\ IF child.at = "dead" THEN Respond("FAIL", "worker", child.err)
     ELSE IF child.hash # ident THEN Respond("FAIL", "script_hash", "none")
     ELSE Respond(verdict.status, verdict.property, "none")
  /\ UNCHANGED <<files, req, boot, root, left, ident, bound, child>>

-----------------------------------------------------------------------------
(* The worker *)

(* The child's own step: e is what becomes of its record. *)
Works(e) ==
  /\ child' = e
  /\ UNCHANGED <<files, parent>>

Dead(err) == [child EXCEPT !.at = "dead", !.err = err]

Live == child.at \notin {"none", "done", "dead"}

(* The engine's modules are imported from disk, whatever was hashed: from  *)
(* the root, else, as long as none is imported, from what is installed.    *)
WorkerImports(f) ==
  LET fresh == child.left = Contour \ {Worker}
      place == IF Installed(child.root) \/ ~fresh THEN child.root ELSE "site"
  IN
  /\ child.at = "boot"
  /\ f \in child.left
  /\ Works(IF Installed(place)
             THEN [child EXCEPT !.left = @ \ {f}, !.root = place,
                                !.loaded[f] = engine[place][f]]
             ELSE Dead("other"))

(* handle: one read of the tool, compared, pinned and executed. *)
WorkerGate ==
  /\ child.at = "boot"
  /\ child.left = {}
  /\ IF disk[ToolName] # req.source
       THEN Works(Dead("source_hash"))
       ELSE Works([child EXCEPT !.at = "load", !.code = req.source,
                                !.need = req.source.eager])

(* Mutant of WorkerSees: the seal is not looked at. *)
WorkerSeesUnsealed(n) ==
  IF child.modules[n] # Absent THEN child.modules[n]
  ELSE IF OnPath THEN disk[n] ELSE Absent

(* What an import statement of the tool or of a helper binds.  A module    *)
(* that raised while it was executed is not one of sys.modules.            *)
WorkerSees(n) ==
  IF child.sealed[n] # Absent THEN child.sealed[n]
  ELSE IF child.modules[n] # Absent THEN child.modules[n]
  ELSE IF OnPath THEN disk[n] ELSE Absent

(* An import statement, at module level or in the body; a module that is   *)
(* not there, or raises, is handled by the code that imports it, or is a   *)
(* death.                                                                  *)
WorkerImportsModule(n) ==
  LET c == WorkerSees(n) IN
  /\ child.at \in {"load", "body"}
  /\ n \in child.need
  /\ IF c = Absent
       THEN Works([child EXCEPT !.need = @ \ {n}])
       ELSE Works([child EXCEPT
              !.ran = @ \cup {<<n, c>>},
              !.modules[n] = IF child.sealed[n] # Absent \/ c.fails THEN @
                             ELSE c,
              !.need = (@ \ {n}) \cup
                         IF <<n, c>> \in child.ran THEN {}
                         ELSE IF child.at = "load" THEN c.eager
                         ELSE c.imports])

(* The tool is loaded, and looked through for imports under made up names. *)
WorkerDynamic ==
  /\ child.at = "load"
  /\ child.need = {}
  /\ IF child.code.fails THEN Works(Dead("other"))
     ELSE IF child.code.dynamic /\ ~req.dynamic /\ disk[ToolName] # Absent
       THEN Works(Dead("dynamic_import"))
       ELSE Works([child EXCEPT !.at = "collect"])

(* The imports of module n, with contents c, that are files now. *)
Resolved(c) == {m \in c.imports : disk[m] # Absent}

(* A tool with local imports and a request without hashes for any. *)
WorkerCollect ==
  /\ child.at = "collect"
  /\ IF /\ disk[ToolName] # Absent
        /\ Resolved(child.code) # {}
        /\ \A n \in Names : Locked(n) = Absent
       THEN Works(Dead("unpinned"))
       ELSE Works([child EXCEPT !.at = "origin"])

LazyImports ==
  UNION {c.imports \ c.eager : c \in {child.code} \cup {p[2] : p \in child.ran}}

(* Identify computes the hash under the seal, run runs the body there. *)
Sealed(e) ==
  IF child.op = "identify" THEN [e EXCEPT !.at = "answer"]
  ELSE [e EXCEPT !.at = "body", !.need = LazyImports]

(* _seal_enter: a tool without a file has nothing sealed. *)
WorkerOrigin ==
  /\ child.at = "origin"
  /\ Works(IF disk[ToolName] = Absent THEN Sealed(child)
           ELSE [child EXCEPT !.at = "discover", !.todo = {ToolName}])

(* Mutant of Found: only what the tool itself imports is found. *)
FoundDirect(n, c) == IF n = ToolName THEN Resolved(c) ELSE {}

(* Mutant of Found: what was found before is found again. *)
FoundAgain(n, c) == {m \in Names : m \in Resolved(c)}

(* What reading module n with contents c adds to the walk. *)
Found(n, c) == {m \in Resolved(c) : child.got[m] = Absent}

WorkerDiscover(n) ==
  LET c == IF n = ToolName THEN child.code ELSE disk[n] IN
  /\ child.at = "discover"
  /\ n \in child.todo
  /\ Works(IF disk[n] = Absent
             THEN [child EXCEPT !.todo = @ \ {n}]
             ELSE [child EXCEPT !.todo = (@ \cup Found(n, c)) \ {n},
                                !.got[n] = c])

(* The files found, but for the tool, against the locked hashes; then each *)
(* is executed.                                                            *)
WorkerSeal ==
  LET deps == [child.got EXCEPT ![ToolName] = Absent] IN
  /\ child.at = "discover"
  /\ child.todo = {}
  /\ Works(IF deps # [n \in Names |-> Locked(n)] THEN Dead("drift")
           ELSE IF \E n \in Names : deps[n] # Absent /\ deps[n].fails
             THEN Dead("other")
           ELSE Sealed([child EXCEPT !.sealed = deps]))

(* run_body: the run of the body and its observation. *)
WorkerBodyDone ==
  /\ child.at = "body"
  /\ child.need = {}
  /\ \E outcome \in Outcomes :
       Works([child EXCEPT !.at = "answer", !.obs = Observed(outcome)])

(* identify_script: the canon is that of the file as it is now.  An answer *)
(* that cannot be written as JSON ends the process.                        *)
WorkerAnswers ==
  /\ child.at = "answer"
  /\ Works(IF Dumps(child.obs.kind)
             THEN [child EXCEPT !.at = "done",
                     !.hash = IF disk[ToolName] = Absent THEN Bytecode
                              ELSE disk[ToolName].canon]
             ELSE Dead("other"))

WorkerDies == Live /\ Works(Dead("other"))

-----------------------------------------------------------------------------
(* Other programs *)

Save(n, c) ==
  /\ edits < MaxEdits
  /\ c \in Saves[n] \ {disk[n]}
  /\ disk[n] # Absent \/ Relocates
  /\ disk' = [disk EXCEPT ![n] = c]
  /\ edits' = edits + 1
  /\ UNCHANGED <<engine, parent, child>>

Unlink(n) ==
  /\ Relocates
  /\ edits < MaxEdits
  /\ disk[n] # Absent
  /\ disk' = [disk EXCEPT ![n] = Absent]
  /\ edits' = edits + 1
  /\ UNCHANGED <<engine, parent, child>>

Upgrade(place, f, v) ==
  /\ edits < MaxEdits
  /\ Installed(place)
  /\ v # engine[place][f]
  /\ engine' = [engine EXCEPT ![place][f] = v]
  /\ edits' = edits + 1
  /\ UNCHANGED <<disk, parent, child>>

(* Installed where it was not, or removed. *)
Install(place, contour) ==
  /\ Relocates
  /\ edits < MaxEdits
  /\ Absent \in {engine[place], contour}
  /\ engine[place] # contour
  /\ engine' = [engine EXCEPT ![place] = contour]
  /\ edits' = edits + 1
  /\ UNCHANGED <<disk, parent, child>>

Environment ==
  \/ \E n \in Names : Unlink(n) \/ \E c \in Contents : Save(n, c)
  \/ \E place \in Places :
       \/ \E f \in Contour, v \in Versions : Upgrade(place, f, v)
       \/ \E c \in {Absent} \cup {e[place] : e \in Engines} : Install(place, c)

Supervise ==
  \/ ReadWorker \/ LocateRuntime \/ Identify \/ Bind \/ Conclude
  \/ \E f \in Paths : HashRuntime(f)

(* The worker's own code, without its accidents. *)
Work ==
  \/ WorkerGate \/ WorkerDynamic \/ WorkerCollect \/ WorkerOrigin
  \/ WorkerSeal \/ WorkerBodyDone \/ WorkerAnswers
  \/ \E f \in Contour : WorkerImports(f)
  \/ \E n \in Names : WorkerImportsModule(n) \/ WorkerDiscover(n)

Next == Supervise \/ Work \/ WorkerDies \/ Environment

Spec == Init /\ [][Next]_vars

(* The supervisor and the processes it spawns keep running: bodies end.    *)
(* There is no timeout: without fairness of the worker nothing ends it.    *)
FairSpec == Spec /\ WF_vars(Supervise) /\ WF_vars(Work)
-----------------------------------------------------------------------------
(* Properties *)

(* A PASS is a PASS of what is locked: the process that answered it ran    *)
(* the hashed worker bytes, the tool's bytes of source_hash, and helpers   *)
(* of the locked bytes only, whatever was saved before, between and during *)
(* the two processes (judge_with_worker, handle, sealed_deps).             *)
PassIsLocked ==
  result.status = "PASS" =>
    /\ boot = req.worker
    /\ child.code = req.source
    /\ \A p \in child.ran : p[2] = Locked(p[1]) \/ Saves[p[1]] = {}

(* The body runs only once bound: while the second process is at work, the *)
(* tool it holds is the locked one and what identify answered is the       *)
(* locked module hash (Bind before Spawn("run")).                          *)
BodyAfterBind ==
  child.op = "run" /\ child.at = "body" =>
    /\ ident = req.body
    /\ child.code = req.source
    /\ \A n \in Names : child.sealed[n] \in {Absent, Locked(n)}

(* The worker imports what was hashed: where nothing is saved and the      *)
(* engine can be found in one way only, the other contour files that run   *)
(* for a PASS are the pinned ones, though the supervisor asks for the root *)
(* four times and hands the processes a search path and not the bytes      *)
(* (engine_root, pin_runtime, spawn_worker).                               *)
PinnedIsImported ==
  /\ edits = 0
  /\ result.status = "PASS"
  /\ req.env \/ ~Installed("site") \/ ~Installed("cwd")
  => \A f \in Contour \ {Worker} : req.runtime[f] \in {Absent, child.loaded[f]}

(* The dependencies reachable from the tool on the disk as it is. *)
Reachable ==
  LET present == {n \in Names : disk[n] # Absent}
      next(n) == disk[n].imports \cap present
      closed(S) == /\ next(ToolName) \subseteq S
                   /\ \A n \in S : next(n) \subseteq S
      reached == {n \in present :
                    \A S \in SUBSET present : closed(S) => n \in S}
  IN  [n \in Names |-> IF n \in reached \ {ToolName} THEN disk[n] ELSE Absent]

(* On a still tree the two processes together check what                   *)
(* bind_script_to_plan checks in one: a PASS means that the tool, its      *)
(* body's canon and every file reachable by imports are the locked ones,   *)
(* though the supervisor hashes none of them itself.                       *)
StillTreeAgrees ==
  edits = 0 /\ result.status = "PASS" =>
    /\ disk[ToolName] = req.source
    /\ disk[ToolName].canon = req.body
    /\ Reachable = [n \in Names |-> Locked(n)]

(* The bound body ran, answered and was judged. *)
Judged == pc = "done" /\ child.op = "run" /\ child.at = "done"
            /\ child.hash = ident

(* The two judges agree: on a value that JSON carries without widening it, *)
(* the supervisor answers what check_conformance says of the same run of   *)
(* the locked declaration.  It is stricter in two cases only: an integer   *)
(* beyond 64 bits is of no output type, and the request's own limit, which *)
(* check_conformance has no notion of, binds a tool that declares none and *)
(* conforms otherwise (verdict, type_matches and the fallback of           *)
(* judge_with_worker against check_conformance, METHOD.md).                *)
VerdictIsConformance ==
  LET judged == Says(result.status, result.property)
      declared == req.source.contract
      conformance == CheckConformance(declared, child.obs)
  IN  Judged /\ child.obs.kind \notin {"tuple", "odict"} =>
        \/ judged = conformance
        \/ child.obs.kind = "bigint" /\ judged = Says("FAIL", "output_type")
        \/ /\ declared.limit = NoLimit
           /\ Exceeds(child.obs.latency, req.limit)
           /\ conformance.status = "PASS"
           /\ judged = Says("FAIL", "max_latency_ms")

(* What a judge of a still tree may refuse for: an engine that is there    *)
(* and is not the pinned one, or a fact of the request the tree denies.    *)
Entitled ==
  \/ \E place \in Places :
       /\ Installed(place)
       /\ \/ engine[place][Worker] # req.worker
          \/ \E f \in Contour : req.runtime[f] \notin {Absent, engine[place][f]}
  \/ \E f \in Strays : req.runtime[f] # Absent
  \/ disk[ToolName] # req.source
  \/ req.body # disk[ToolName].canon
  \/ req.claimed \notin {Absent, req.body}
  \/ ~DepsForwarded
  \/ Reachable # [n \in Names |-> IF req.modDeps[n] = Absent THEN req.deps[n]
                                 ELSE req.modDeps[n]]

(* A fresh request on a still tree is not refused by a hash: the walk of   *)
(* the worker finds what the lock names, in whichever of its two fields.   *)
NoFalseRefusal ==
  /\ edits = 0
  /\ result.status = "FAIL"
  /\ ~Judged
  /\ result.err \notin {"other", "dynamic_import"}
  => Entitled

(* The promise, across processes: the supervisor keeps it with what the    *)
(* process at work has executed, and never executes anything itself.       *)
Parts == Names \cup {"entry"}
Callers == {"caller"}

Asked ==
  [p \in Parts |->
     IF p = "entry" THEN {req.source} \ {Absent}
     ELSE IF Saves[p] = {} THEN Contents
     ELSE {Locked(p)} \ {Absent}]

RanInChild ==
  child.ran \cup IF child.code = Absent THEN {} ELSE {<<"entry", child.code>>}

Promise ==
  INSTANCE Approval WITH
    Clients <- Callers, Entry <- "entry", Bytes <- Contents,
    asked <- [c \in Callers |-> Asked],
    open <- IF pc \in {"start", "done"} THEN {} ELSE Callers,
    ran <- [c \in Callers |-> RanInChild],
    answer <- [c \in Callers |-> result.status]

(* The supervisor implements the promise that the judge in one process     *)
(* implements: in either of its workers nothing runs before the request is *)
(* open, but the bytes it approves, or after the answer, and a PASS is for *)
(* an entry that ran in the process that answered (judge_with_worker,      *)
(* handle, sealed_deps).                                                   *)
IsApproval == Promise!ApprovalSpec

(* Every request is answered: with bodies that end, neither the pins nor   *)
(* the two processes, whose death is an answer too, keep it waiting.       *)
Answered == <>(pc = "done")
=============================================================================
