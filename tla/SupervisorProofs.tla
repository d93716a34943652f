--------------------------- MODULE SupervisorProofs ---------------------------
(***************************************************************************)
(* The supervisor and its two processes, for every engine, request and     *)
(* tree: types, what the body runs under, what a PASS ran, the promise of  *)
(* Approval, the verdict, and what holds while nothing is saved.           *)
(***************************************************************************)
EXTENDS Supervisor, TLAPS

ChildRecord ==
  [op : {"identify", "run"}, at : Stages,
   root : Places \cup {Absent}, left : SUBSET Contour,
   loaded : [Contour -> Versions \cup {Absent}],
   code : Slot, need : SUBSET Names, todo : SUBSET Names,
   got : [Names -> Slot], sealed : [Names -> Slot],
   modules : [Names -> Slot],
   ran : SUBSET (Names \X Contents),
   obs : [status : {"none", "completed", "failed"}, kind : Kinds,
          effects : BOOLEAN, latency : Nat],
   hash : Canons \cup {Absent, Bytecode}, err : Errors]

Statuses == {"none", "PASS", "FAIL", "SKIPPED"}

(* TypeOK, with the process as one record. *)
Typed ==
  /\ disk \in [Names -> Slot]
  /\ engine \in [Places -> Installation \cup {Absent}]
  /\ edits \in 0..MaxEdits
  /\ req \in Requests
  /\ root \in Places \cup {Absent}
  /\ pc \in {"start", "locate", "runtime", "identify", "run", "done"}
  /\ boot \in Versions \cup {Absent}
  /\ left \subseteq Paths
  /\ ident \in Canons \cup {Absent, Bytecode}
  /\ bound \in Contract
  /\ child \in ChildRecord
  /\ result \in [status : Statuses, property : Properties, err : Errors]

(* What there is of a tool in a process: nothing before the gate, the      *)
(* bytes of source_hash after it, a seal that is the lock's or none.       *)
CodeInv ==
  /\ Live => child.root # Absent
  /\ child.at # "none" => req.source # Absent
  /\ child.code \in {Absent, req.source}
  /\ child.at \in {"none", "boot"} => child.code = Absent /\ child.ran = {}
  /\ child.at \notin {"none", "boot", "dead"} => child.code = req.source
  /\ \A n \in Names : child.sealed[n] \in {Absent, Locked(n)}

TypeInv == Typed /\ CodeInv

LEMMA DeadRecord ==
  ASSUME NEW e \in ChildRecord, NEW err \in Errors
  PROVE  [e EXCEPT !.at = "dead", !.err = err] \in ChildRecord
  BY DEF ChildRecord, Stages

LEMMA FreshProcess ==
  ASSUME NEW op \in {"identify", "run"}, NEW place \in Places \cup {Absent}
  PROVE  /\ Process(op, place) \in ChildRecord
         /\ Vanished(op) \in ChildRecord
<1>1. Unsealed \in [Names -> Slot]
  BY DEF Unsealed, Slot
<1>2. Unobserved \in [status : {"none", "completed", "failed"}, kind : Kinds,
                      effects : BOOLEAN, latency : Nat]
  BY DEF Unobserved, Kinds
<1>3. [f \in Contour |-> Absent] \in [Contour -> Versions \cup {Absent}]
  OBVIOUS
<1>4. \A p \in Places \cup {Absent} : Process(op, p) \in ChildRecord
  BY <1>1, <1>2, <1>3 DEF Process, ChildRecord, Stages, Slot, Errors
<1>5. Absent \in Places \cup {Absent}
  OBVIOUS
<1>6. Vanished(op) \in ChildRecord
  BY <1>4, <1>5, DeadRecord DEF Vanished, Errors
<1> QED
  BY <1>4, <1>6

LEMMA VerdictType ==
  ASSUME NEW contract, NEW obs
  PROVE  /\ SupervisorVerdict(contract, obs).status \in {"PASS", "FAIL", "SKIPPED"}
         /\ SupervisorVerdict(contract, obs).property \in Properties
  BY DEF SupervisorVerdict, Says, Properties

LEMMA RequestFields ==
  ASSUME req \in Requests
  PROVE  /\ req.source \in Slot
         /\ req.body \in Canons \cup {Absent}
         /\ \A n \in Names : Locked(n) \in Slot
<1>1. req \in Request
  BY SupervisorAssumption
<1>2. \A n \in Names : req.deps[n] \in Field /\ req.modDeps[n] \in Field
  BY <1>1 DEF Request
<1>3. \A n \in Names : Locked(n) \in Slot
  BY <1>2 DEF Locked, Field, Slot
<1> QED
  BY <1>1, <1>3 DEF Request

LEMMA ContentFields ==
  ASSUME NEW c \in Contents
  PROVE  /\ c \in Slot /\ c # Absent
         /\ c.canon \in Canons /\ c.contract \in Contract
         /\ c.imports \in SUBSET Names /\ c.eager \in SUBSET Names
<1>1. c \in Content
  BY SupervisorAssumption
<1> QED
  BY <1>1, SupervisorAssumption DEF Content, Slot

LEMMA RootsType ==
  ASSUME engine \in [Places -> Installation \cup {Absent}]
  PROVE  EngineRoots \subseteq Places \cup {Absent}
  BY DEF EngineRoots, Located, Present, Places

(* Present answers only where the engine is. *)
LEMMA RootsInstalled ==
  ASSUME NEW place \in EngineRoots, place # Absent
  PROVE  Installed(place)
  BY DEF EngineRoots, Located, Present

LEMMA TypeInit == Init => TypeInv
<1> SUFFICES ASSUME Init PROVE TypeInv
  OBVIOUS
<1>1. child \in ChildRecord
  <2>1. Process("identify", Absent) \in ChildRecord
    BY FreshProcess
  <2> QED
    BY <2>1 DEF Init, ChildRecord, Stages
<1>2. engine \in [Places -> Installation \cup {Absent}]
  BY SupervisorAssumption DEF Init
<1>3. edits \in 0..MaxEdits
  BY SupervisorAssumption DEF Init
<1>4. bound \in Contract
  BY DEF Init, Undeclared, Contract, Limits, NoLimit
<1>5. Typed
  BY <1>1, <1>2, <1>3, <1>4 DEF Init, Typed, Statuses, Properties, Errors
<1>6. CodeInv
  BY DEF Init, CodeInv, Process, Unsealed, Live
<1> QED
  BY <1>5, <1>6 DEF TypeInv

-----------------------------------------------------------------------------
(* Types, action by action *)

(* The engine is where a root is. *)
LEMMA EngineFiles ==
  ASSUME Typed, NEW place \in Places, Installed(place), NEW f \in Contour
  PROVE  engine[place][f] \in Versions
<1>1. engine[place] \in Installation
  BY DEF Installed, Typed
<1> QED
  BY <1>1 DEF Installation

LEMMA SpawnType ==
  ASSUME TypeInv, NEW op \in {"identify", "run"}, Spawn(op),
         req.source # Absent, req' = req
  PROVE  /\ child' \in ChildRecord /\ CodeInv'
         /\ pc' = op /\ result' = result
         /\ child'.ran = {} /\ child'.code = Absent
         /\ child'.op = op /\ child'.at \in {"boot", "dead"}
         /\ \E place : child' = Process(op, place) \/ child' = Vanished(op)
<1>1. PICK place \in EngineRoots :
        child' = IF place = Absent THEN Vanished(op) ELSE Process(op, place)
  BY DEF Spawn
<1>2. place \in Places \cup {Absent}
  BY <1>1, RootsType DEF TypeInv, Typed
<1>3. child' \in ChildRecord
  BY <1>1, <1>2, FreshProcess
<1>4. /\ child'.ran = {} /\ child'.code = Absent
      /\ child'.op = op /\ child'.at \in {"boot", "dead"}
      /\ child'.sealed = Unsealed
      /\ child'.at = "boot" => child'.root # Absent
  BY <1>1 DEF Process, Vanished
<1>5. CodeInv'
  BY <1>4 DEF CodeInv, Unsealed, Live
<1> QED
  BY <1>1, <1>3, <1>4, <1>5 DEF Spawn

(* A step of the supervisor that leaves the process alone leaves its code. *)
LEMMA CodeFrame ==
  ASSUME CodeInv, child' = child, req' = req
  PROVE  CodeInv'
  BY DEF CodeInv, Locked, Live

LEMMA TypeSupervise ==
  ASSUME TypeInv, Supervise
  PROVE  TypeInv'
<1> USE DEF TypeInv, Typed
<1>1. CASE ReadWorker
  <2>1. CodeInv'
    BY <1>1, CodeFrame DEF ReadWorker
  <2>2. boot' \in Versions \cup {Absent}
    <3>1. ASSUME NEW place \in EngineRoots, place # Absent
          PROVE  engine[place][Worker] \in Versions
      BY <3>1, RootsType, RootsInstalled, EngineFiles, SupervisorAssumption
    <3> QED
      BY <1>1, <3>1 DEF ReadWorker
  <2>3. /\ pc' \in {"start", "locate", "runtime", "identify", "run", "done"}
        /\ result' \in [status : Statuses, property : Properties, err : Errors]
    BY <1>1 DEF ReadWorker, Respond, Statuses, Properties, Errors
  <2> QED
    BY <1>1, <2>1, <2>2, <2>3 DEF ReadWorker, files
<1>2. CASE LocateRuntime
  <2>1. CodeInv'
    BY <1>2, CodeFrame DEF LocateRuntime
  <2>2. root' \in Places \cup {Absent}
    BY <1>2, RootsType DEF LocateRuntime
  <2>3. /\ pc' \in {"start", "locate", "runtime", "identify", "run", "done"}
        /\ result' \in [status : Statuses, property : Properties, err : Errors]
    BY <1>2 DEF LocateRuntime, Respond, Statuses, Properties, Errors
  <2> QED
    BY <1>2, <2>1, <2>2, <2>3 DEF LocateRuntime, files
<1>3. ASSUME NEW f \in Paths, HashRuntime(f)
      PROVE  TypeInv'
  <2>1. CodeInv'
    BY <1>3, CodeFrame DEF HashRuntime
  <2>2. /\ pc' \in {"start", "locate", "runtime", "identify", "run", "done"}
        /\ result' \in [status : Statuses, property : Properties, err : Errors]
    BY <1>3 DEF HashRuntime, Respond, Statuses, Properties, Errors
  <2> QED
    BY <1>3, <2>1, <2>2 DEF HashRuntime, files
<1>4. CASE Identify
  <2>1. CASE req.source = Absent
    BY <1>4, <2>1, CodeFrame
       DEF Identify, Respond, files, Statuses, Properties, Errors
  <2>2. CASE req.source # Absent
    <3>1. Spawn("identify") /\ req' = req
      BY <1>4, <2>2 DEF Identify
    <3>2. child' \in ChildRecord /\ CodeInv' /\ pc' = "identify" /\ result' = result
      BY <2>2, <3>1, SpawnType
    <3> QED
      BY <1>4, <3>2 DEF Identify, files
  <2> QED
    BY <2>1, <2>2
<1>5. CASE Bind
  <2>1. ident' \in Canons \cup {Absent, Bytecode} /\ bound' \in Contract
    <3>1. child.at = "done" => child.code \in Contents
      BY <1>5, RequestFields DEF CodeInv, Slot
    <3>2. child.at = "done" => child.code.contract \in Contract
      BY <3>1, ContentFields
    <3> QED
      BY <1>5, <3>2 DEF Bind, ChildRecord
  <2>2. CASE Spawn("run")
    <3>1. req.source # Absent /\ req' = req
      BY <1>5 DEF Bind, CodeInv
    <3>2. child' \in ChildRecord /\ CodeInv' /\ pc' = "run" /\ result' = result
      BY <2>2, <3>1, SpawnType
    <3> QED
      BY <1>5, <2>1, <3>2 DEF Bind, files
  <2>3. CASE ~Spawn("run")
    <3>1. child' = child
      BY <1>5, <2>3 DEF Bind
    <3>2. CodeInv'
      BY <1>5, <3>1, CodeFrame DEF Bind
    <3>3. BindTo(child.hash).status # "BOUND" =>
            /\ BindTo(child.hash).status \in Statuses
            /\ BindTo(child.hash).property \in Properties
      BY DEF BindTo, Statuses, Properties
    <3>4. child.err \in Errors
      BY DEF ChildRecord
    <3>5. pc' = "done" /\ result' \in
            [status : Statuses, property : Properties, err : Errors]
      BY <1>5, <2>3, <3>3, <3>4
         DEF Bind, Respond, Statuses, Properties, Errors
    <3> QED
      BY <1>5, <2>1, <3>1, <3>2, <3>5 DEF Bind, files
  <2> QED
    BY <2>2, <2>3
<1>6. CASE Conclude
  <2>1. CodeInv'
    BY <1>6, CodeFrame DEF Conclude
  <2>2. child.err \in Errors
    BY DEF ChildRecord
  <2>3. pc' = "done" /\ result' \in
          [status : Statuses, property : Properties, err : Errors]
    <3> DEFINE verdict == SupervisorVerdict(Required, child.obs)
    <3>1. verdict.status \in Statuses /\ verdict.property \in Properties
      BY VerdictType DEF Statuses
    <3> HIDE DEF verdict
    <3>2. /\ pc' = "done"
          /\ \/ result' = [status |-> "FAIL", property |-> "worker", err |-> child.err]
             \/ result' = [status |-> "FAIL", property |-> "script_hash", err |-> "none"]
             \/ result' = [status |-> verdict.status, property |-> verdict.property,
                           err |-> "none"]
      BY <1>6 DEF Conclude, Respond, verdict
    <3> QED
      BY <2>2, <3>1, <3>2 DEF Statuses, Properties, Errors
  <2> QED
    BY <1>6, <2>1, <2>3 DEF Conclude, files
<1> QED
  BY <1>1, <1>2, <1>3, <1>4, <1>5, <1>6 DEF Supervise

(* The steps of a process; each is Works(e) for a record e. *)
LEMMA WorksType ==
  ASSUME TypeInv, NEW e \in ChildRecord, Works(e), Live,
         e.root # Absent,
         e.code \in {Absent, req.source},
         e.at # "none",
         e.at = "boot" => e.code = Absent /\ e.ran = {},
         e.at \notin {"boot", "dead"} => e.code = req.source,
         \A n \in Names : e.sealed[n] \in {Absent, Locked(n)}
  PROVE  TypeInv'
<1>1. Typed'
  BY DEF TypeInv, Typed, Works, files, parent
<1>2. CodeInv'
  BY DEF TypeInv, CodeInv, Works, parent, Live, Locked
<1> QED
  BY <1>1, <1>2 DEF TypeInv

LEMMA DeathType ==
  ASSUME TypeInv, NEW err \in Errors, Works(Dead(err)), Live
  PROVE  TypeInv'
<1> DEFINE e == Dead(err)
<1>1. e \in ChildRecord
  BY DeadRecord DEF Dead, TypeInv, Typed
<1>2. /\ e.at = "dead" /\ e.code = child.code /\ e.sealed = child.sealed
      /\ e.root = child.root
  BY DEF Dead, TypeInv, Typed, ChildRecord
<1> HIDE DEF e
<1>3. /\ e.code \in {Absent, req.source} /\ e.root # Absent
      /\ \A n \in Names : e.sealed[n] \in {Absent, Locked(n)}
  BY <1>2 DEF TypeInv, CodeInv
<1>4. Works(e)
  BY DEF e
<1> QED
  BY <1>1, <1>2, <1>3, <1>4, WorksType

(* What a module that is imported has for bytes. *)
LEMMA SeenType ==
  ASSUME TypeInv, NEW n \in Names, WorkerSees(n) # Absent
  PROVE  WorkerSees(n) \in Contents
<1>1. /\ child.sealed[n] \in Slot /\ child.modules[n] \in Slot
      /\ disk[n] \in Slot
  BY DEF TypeInv, Typed, ChildRecord
<1> QED
  BY <1>1 DEF WorkerSees, Slot

(* Identify or run, the seal's end leads on. *)
LEMMA SealedType ==
  ASSUME TypeInv, Live, child.at # "boot", NEW e \in ChildRecord, Works(Sealed(e)),
         e.code = child.code, e.op = child.op, e.root = child.root,
         \A n \in Names : e.sealed[n] \in {Absent, Locked(n)}
  PROVE  TypeInv'
<1>1. child.code = req.source /\ child.root # Absent
  BY DEF TypeInv, CodeInv, Live
<1>2. LazyImports \subseteq Names
  <2>1. req.source \in Contents
    BY <1>1, RequestFields DEF TypeInv, CodeInv, Typed, Slot, Live
  <2>2. \A p \in child.ran : p[2] \in Contents
    BY DEF TypeInv, Typed, ChildRecord
  <2> QED
    BY <1>1, <2>1, <2>2, ContentFields DEF LazyImports
<1> DEFINE f == Sealed(e)
<1>3. /\ f \in ChildRecord /\ f.at \in {"answer", "body"}
      /\ f.code = e.code /\ f.sealed = e.sealed /\ f.root = e.root
  BY <1>2 DEF Sealed, ChildRecord, Stages
<1> HIDE DEF f
<1>4. Works(f)
  BY DEF f
<1> QED
  BY <1>1, <1>3, <1>4, WorksType

(* An engine's module, imported by the process. *)
LEMMA ImportsType ==
  ASSUME TypeInv, NEW f \in Contour, WorkerImports(f)
  PROVE  TypeInv'
<1> DEFINE fresh == child.left = Contour \ {Worker}
           place == IF Installed(child.root) \/ ~fresh THEN child.root ELSE "site"
           e == [child EXCEPT !.left = @ \ {f}, !.root = place,
                              !.loaded[f] = engine[place][f]]
<1>1. child.at = "boot" /\ Live
  BY DEF WorkerImports, Live
<1>2. CASE ~Installed(place)
  BY <1>1, <1>2, DeathType DEF WorkerImports, Errors
<1>3. CASE Installed(place) /\ place \in Places
  <2>1. engine[place][f] \in Versions
    BY <1>3, EngineFiles DEF TypeInv
  <2>2. /\ e \in ChildRecord
        /\ e.at = child.at /\ e.code = child.code /\ e.ran = child.ran
        /\ e.sealed = child.sealed /\ e.root = place
    BY <1>3, <2>1 DEF TypeInv, Typed, ChildRecord
  <2>3. Works(e)
    BY <1>3 DEF WorkerImports
  <2>4. place # Absent
    BY <1>3, SupervisorAssumption
  <2> HIDE DEF e
  <2> QED
    BY <1>1, <2>2, <2>3, <2>4, WorksType DEF TypeInv, CodeInv
<1>4. place \in Places
  <2>1. child.root \in Places
    BY <1>1 DEF TypeInv, Typed, CodeInv, ChildRecord
  <2> QED
    BY <2>1 DEF Places
<1> QED
  BY <1>2, <1>3, <1>4

LEMMA GateType ==
  ASSUME TypeInv, WorkerGate
  PROVE  TypeInv'
<1> DEFINE e == [child EXCEPT !.at = "load", !.code = req.source,
                              !.need = req.source.eager]
<1>1. child.at = "boot" /\ Live
  BY DEF WorkerGate, Live
<1>2. CASE disk[ToolName] # req.source
  BY <1>1, <1>2, DeathType DEF WorkerGate, Errors
<1>3. CASE disk[ToolName] = req.source
  <2>1. req.source \in Contents
    BY <1>1, RequestFields DEF TypeInv, Typed, CodeInv, Slot
  <2>2. req.source \in Slot /\ req.source.eager \in SUBSET Names
    BY <2>1, ContentFields
  <2>3. /\ e \in ChildRecord
        /\ e.at = "load" /\ e.code = req.source /\ e.sealed = child.sealed
        /\ e.root = child.root
    BY <2>2 DEF TypeInv, Typed, ChildRecord, Stages
  <2>4. Works(e)
    BY <1>3 DEF WorkerGate
  <2> HIDE DEF e
  <2> QED
    BY <1>1, <2>3, <2>4, WorksType DEF TypeInv, CodeInv
<1> QED
  BY <1>2, <1>3

(* The steps that leave the code and the seal, after the gate. *)
LEMMA LaterType ==
  ASSUME TypeInv, Live, child.at # "boot", NEW e \in ChildRecord, Works(e),
         e.at \notin {"none", "boot"}, e.code = child.code,
         e.sealed = child.sealed, e.root = child.root
  PROVE  TypeInv'
<1>1. child.code = req.source /\ child.root # Absent
  BY DEF TypeInv, CodeInv, Live
<1> QED
  BY <1>1, WorksType DEF TypeInv, CodeInv

LEMMA ImportType ==
  ASSUME TypeInv, NEW n \in Names, WorkerImportsModule(n)
  PROVE  TypeInv'
<1> DEFINE c == WorkerSees(n)
           d == [child EXCEPT !.need = @ \ {n}]
           e == [child EXCEPT
                  !.ran = @ \cup {<<n, c>>},
                  !.modules[n] = IF child.sealed[n] # Absent \/ c.fails THEN @
                                 ELSE c,
                  !.need = (@ \ {n}) \cup
                             IF <<n, c>> \in child.ran THEN {}
                             ELSE IF child.at = "load" THEN c.eager
                             ELSE c.imports]
<1>1. child.at \in {"load", "body"} /\ Live
  BY DEF WorkerImportsModule, Live
<1>2. CASE c = Absent
  <2>1. /\ d \in ChildRecord
        /\ d.at = child.at /\ d.code = child.code /\ d.sealed = child.sealed
        /\ d.root = child.root
    BY DEF TypeInv, Typed, ChildRecord
  <2>2. Works(d)
    BY <1>2 DEF WorkerImportsModule
  <2> HIDE DEF d
  <2> QED
    BY <1>1, <2>1, <2>2, LaterType
<1>3. CASE c # Absent
  <2>1. c \in Contents /\ c \in Slot
    BY <1>3, SeenType DEF Slot
  <2>2. c.eager \in SUBSET Names /\ c.imports \in SUBSET Names
    BY <2>1, ContentFields
  <2>3. Works(e)
    BY <1>3 DEF WorkerImportsModule
  <2> HIDE DEF c
  <2>4. /\ e \in ChildRecord
        /\ e.at = child.at /\ e.code = child.code /\ e.sealed = child.sealed
        /\ e.root = child.root
    <3> DEFINE ran == child.ran \cup {<<n, c>>}
               bytes == IF child.sealed[n] # Absent \/ c.fails THEN child.modules[n]
                        ELSE c
               need == (child.need \ {n}) \cup
                         IF <<n, c>> \in child.ran THEN {}
                         ELSE IF child.at = "load" THEN c.eager ELSE c.imports
    <3>1. ran \in SUBSET (Names \X Contents)
      BY <2>1 DEF TypeInv, Typed, ChildRecord
    <3>2. bytes \in Slot
      BY <2>1 DEF TypeInv, Typed, ChildRecord
    <3>3. need \in SUBSET Names
      BY <2>2 DEF TypeInv, Typed, ChildRecord
    <3>4. e = [child EXCEPT !.ran = ran, !.modules[n] = bytes, !.need = need]
      OBVIOUS
    <3> HIDE DEF ran, bytes, need, e
    <3> QED
      BY <3>1, <3>2, <3>3, <3>4 DEF TypeInv, Typed, ChildRecord
  <2> HIDE DEF e
  <2> QED
    BY <1>1, <2>3, <2>4, LaterType
<1> QED
  BY <1>2, <1>3

LEMMA DynamicType ==
  ASSUME TypeInv, WorkerDynamic \/ WorkerCollect
  PROVE  TypeInv'
<1>1. child.at \in {"load", "collect"} /\ Live
  BY DEF WorkerDynamic, WorkerCollect, Live
<1>2. ASSUME NEW at \in {"collect", "origin"}, Works([child EXCEPT !.at = at])
      PROVE  TypeInv'
  <2> DEFINE e == [child EXCEPT !.at = at]
  <2>1. /\ e \in ChildRecord
        /\ e.at = at /\ e.code = child.code /\ e.sealed = child.sealed
        /\ e.root = child.root
    BY DEF TypeInv, Typed, ChildRecord, Stages
  <2>2. Works(e)
    BY <1>2
  <2> HIDE DEF e
  <2> QED
    BY <1>1, <2>1, <2>2, LaterType
<1>3. ASSUME NEW err \in Errors, Works(Dead(err))
      PROVE  TypeInv'
  BY <1>1, <1>3, DeathType
<1>4. CASE WorkerDynamic
  <2>1. \/ Works(Dead("dynamic_import")) \/ Works(Dead("other"))
        \/ Works([child EXCEPT !.at = "collect"])
    BY <1>4 DEF WorkerDynamic
  <2> QED
    BY <1>2, <1>3, <2>1 DEF Errors
<1>5. CASE WorkerCollect
  <2>1. Works(Dead("unpinned")) \/ Works([child EXCEPT !.at = "origin"])
    BY <1>5 DEF WorkerCollect
  <2> QED
    BY <1>2, <1>3, <2>1 DEF Errors
<1> QED
  BY <1>4, <1>5

LEMMA OriginType ==
  ASSUME TypeInv, WorkerOrigin
  PROVE  TypeInv'
<1> DEFINE e == [child EXCEPT !.at = "discover", !.todo = {ToolName}]
<1>1. child.at = "origin" /\ Live
  BY DEF WorkerOrigin, Live
<1>2. CASE disk[ToolName] = Absent
  <2>1. Works(Sealed(child))
    BY <1>2 DEF WorkerOrigin
  <2> QED
    BY <1>1, <2>1, SealedType DEF TypeInv, Typed, CodeInv
<1>3. CASE disk[ToolName] # Absent
  <2>1. /\ e \in ChildRecord
        /\ e.at = "discover" /\ e.code = child.code /\ e.sealed = child.sealed
        /\ e.root = child.root
    BY SupervisorAssumption DEF TypeInv, Typed, ChildRecord, Stages
  <2>2. Works(e)
    BY <1>3 DEF WorkerOrigin
  <2> HIDE DEF e
  <2> QED
    BY <1>1, <2>1, <2>2, LaterType
<1> QED
  BY <1>2, <1>3

LEMMA DiscoverType ==
  ASSUME TypeInv, NEW n \in Names, WorkerDiscover(n)
  PROVE  TypeInv'
<1> DEFINE c == IF n = ToolName THEN child.code ELSE disk[n]
           d == [child EXCEPT !.todo = @ \ {n}]
           e == [child EXCEPT !.todo = (@ \cup Found(n, c)) \ {n}, !.got[n] = c]
<1>1. child.at = "discover" /\ Live
  BY DEF WorkerDiscover, Live
<1>2. CASE disk[n] = Absent
  <2>1. /\ d \in ChildRecord
        /\ d.at = child.at /\ d.code = child.code /\ d.sealed = child.sealed
        /\ d.root = child.root
    BY DEF TypeInv, Typed, ChildRecord
  <2>2. Works(d)
    BY <1>2 DEF WorkerDiscover
  <2> HIDE DEF d
  <2> QED
    BY <1>1, <2>1, <2>2, LaterType
<1>3. CASE disk[n] # Absent
  <2>1. child.code = req.source /\ child.code # Absent
    BY <1>1 DEF TypeInv, CodeInv
  <2>2. c \in Slot /\ c # Absent
    BY <1>3, <2>1 DEF TypeInv, Typed, ChildRecord
  <2>3. c.imports \in SUBSET Names
    BY <2>2, ContentFields DEF Slot
  <2>4. Works(e)
    BY <1>3 DEF WorkerDiscover
  <2> HIDE DEF c
  <2>5. Found(n, c) \in SUBSET Names
    BY <2>3 DEF Found, Resolved
  <2>6. /\ e \in ChildRecord
        /\ e.at = child.at /\ e.code = child.code /\ e.sealed = child.sealed
        /\ e.root = child.root
    BY <2>2, <2>5 DEF TypeInv, Typed, ChildRecord
  <2> HIDE DEF e
  <2> QED
    BY <1>1, <2>4, <2>6, LaterType
<1> QED
  BY <1>2, <1>3

LEMMA SealType ==
  ASSUME TypeInv, WorkerSeal
  PROVE  TypeInv'
<1> DEFINE deps == [child.got EXCEPT ![ToolName] = Absent]
           e == [child EXCEPT !.sealed = deps]
<1>1. child.at = "discover" /\ Live
  BY DEF WorkerSeal, Live
<1> DEFINE fails == \E n \in Names : deps[n] # Absent /\ deps[n].fails
<1>2. CASE deps # [n \in Names |-> Locked(n)] \/ fails
  BY <1>1, <1>2, DeathType DEF WorkerSeal, Errors
<1>3. CASE deps = [n \in Names |-> Locked(n)] /\ ~fails
  <2>1. deps \in [Names -> Slot]
    BY DEF TypeInv, Typed, ChildRecord, Slot
  <2>2. \A n \in Names : deps[n] = Locked(n)
    BY <1>3
  <2>3. Works(Sealed(e))
    BY <1>3 DEF WorkerSeal
  <2> HIDE DEF deps
  <2>4. /\ e \in ChildRecord
        /\ e.code = child.code /\ e.op = child.op /\ e.root = child.root
        /\ e.sealed = deps
    BY <2>1 DEF TypeInv, Typed, ChildRecord
  <2> HIDE DEF e
  <2> QED
    BY <1>1, <2>2, <2>3, <2>4, SealedType
<1> QED
  BY <1>2, <1>3

LEMMA AnswerType ==
  ASSUME TypeInv, WorkerBodyDone \/ WorkerAnswers
  PROVE  TypeInv'
<1>1. child.at \in {"body", "answer"} /\ Live
  BY DEF WorkerBodyDone, WorkerAnswers, Live
<1>2. CASE WorkerBodyDone
  <2>1. PICK outcome \in Outcomes :
          Works([child EXCEPT !.at = "answer", !.obs = Observed(outcome)])
    BY <1>2 DEF WorkerBodyDone
  <2> DEFINE e == [child EXCEPT !.at = "answer", !.obs = Observed(outcome)]
  <2>2. Observed(outcome) \in [status : {"none", "completed", "failed"},
                               kind : Kinds, effects : BOOLEAN, latency : Nat]
    <3>1. outcome \in Outcome
      BY SupervisorAssumption
    <3> QED
      BY <3>1 DEF Observed, Outcome, Kinds
  <2>3. /\ e \in ChildRecord
        /\ e.at = "answer" /\ e.code = child.code /\ e.sealed = child.sealed
        /\ e.root = child.root
    BY <2>2 DEF TypeInv, Typed, ChildRecord, Stages
  <2>4. Works(e)
    BY <2>1
  <2> HIDE DEF e
  <2> QED
    BY <1>1, <2>3, <2>4, LaterType
<1>3. CASE WorkerAnswers /\ Dumps(child.obs.kind)
  <2> DEFINE hash == IF disk[ToolName] = Absent THEN Bytecode
                     ELSE disk[ToolName].canon
             e == [child EXCEPT !.at = "done", !.hash = hash]
  <2>1. hash \in Canons \cup {Absent, Bytecode}
    <3>1. disk[ToolName] \in Slot
      BY SupervisorAssumption DEF TypeInv, Typed
    <3>2. disk[ToolName] # Absent => disk[ToolName].canon \in Canons
      BY <3>1, ContentFields DEF Slot
    <3> QED
      BY <3>2
  <2>2. Works(e)
    BY <1>3 DEF WorkerAnswers
  <2> HIDE DEF hash
  <2>3. /\ e \in ChildRecord
        /\ e.at = "done" /\ e.code = child.code /\ e.sealed = child.sealed
        /\ e.root = child.root
    BY <2>1 DEF TypeInv, Typed, ChildRecord, Stages
  <2> HIDE DEF e
  <2> QED
    BY <1>1, <2>2, <2>3, LaterType
<1>4. CASE WorkerAnswers /\ ~Dumps(child.obs.kind)
  BY <1>1, <1>4, DeathType DEF WorkerAnswers, Errors
<1> QED
  BY <1>2, <1>3, <1>4

LEMMA TypeWork ==
  ASSUME TypeInv, Work \/ WorkerDies
  PROVE  TypeInv'
<1>1. WorkerDies => TypeInv'
  BY DeathType DEF WorkerDies, Errors
<1> QED
  BY <1>1, GateType, ImportType, DynamicType, OriginType, DiscoverType, SealType,
     AnswerType, ImportsType DEF Work

(* Other programs have no part in the supervisor and its processes. *)
LEMMA EnvironmentFrame == Environment => UNCHANGED <<parent, child>>
  BY DEF Environment, Unlink, Save, Upgrade, Install

LEMMA TypeEnvironment ==
  ASSUME TypeInv, Environment
  PROVE  TypeInv'
<1>1. UNCHANGED <<parent, child>>
  BY EnvironmentFrame
<1>2. CodeInv'
  BY <1>1, CodeFrame DEF parent, TypeInv
<1>3. disk' \in [Names -> Slot]
  BY DEF Environment, Unlink, Save, Upgrade, Install, TypeInv, Typed, Slot
<1>4. edits' \in 0..MaxEdits
  BY SupervisorAssumption
     DEF Environment, Unlink, Save, Upgrade, Install, TypeInv, Typed
<1>5. engine' \in [Places -> Installation \cup {Absent}]
  <2>1. ASSUME NEW place \in Places, NEW f \in Contour, NEW v \in Versions,
               Upgrade(place, f, v)
        PROVE  engine' \in [Places -> Installation \cup {Absent}]
    <3>1. engine[place] \in Installation
      BY <2>1 DEF Upgrade, Installed, TypeInv, Typed
    <3>2. [engine[place] EXCEPT ![f] = v] \in Installation
      BY <3>1 DEF Installation
    <3> QED
      BY <2>1, <3>2 DEF Upgrade, TypeInv, Typed
  <2>2. ASSUME NEW place \in Places,
               NEW c \in {Absent} \cup {e[place] : e \in Engines},
               Install(place, c)
        PROVE  engine' \in [Places -> Installation \cup {Absent}]
    <3>1. c \in Installation \cup {Absent}
      BY SupervisorAssumption
    <3> QED
      BY <2>2, <3>1 DEF Install, TypeInv, Typed
  <2>3. ASSUME NEW n \in Names, Unlink(n) \/ \E c \in Contents : Save(n, c)
        PROVE  engine' \in [Places -> Installation \cup {Absent}]
    BY <2>3 DEF Unlink, Save, TypeInv, Typed
  <2> QED
    BY <2>1, <2>2, <2>3 DEF Environment
<1> QED
  BY <1>1, <1>2, <1>3, <1>4, <1>5 DEF TypeInv, Typed, parent

LEMMA TypeStep == TypeInv /\ [Next]_vars => TypeInv'
<1>1. TypeInv /\ UNCHANGED vars => TypeInv'
  BY CodeFrame DEF TypeInv, Typed, vars, files, parent
<1> QED
  BY <1>1, TypeSupervise, TypeWork, TypeEnvironment DEF Next

LEMMA TypeInvariant == Spec => []TypeInv
<1> QED
  BY TypeInit, TypeStep, PTL DEF Spec

(* The type theorem: the supervisor's variables keep their types, whatever *)
(* is saved, installed or killed.                                          *)
THEOREM SupervisorTypeTheorem == Spec => []TypeOK
<1>1. TypeInv => TypeOK
  BY DEF TypeInv, Typed, TypeOK, ChildRecord, Statuses
<1> QED
  BY <1>1, TypeInvariant, PTL

-----------------------------------------------------------------------------
(* What the body runs under *)

(* The supervisor and the process take turns: the process is at work only  *)
(* while it is waited for, in the order identify, bind, run.               *)
OrderInv ==
  /\ pc \in {"start", "locate", "runtime"} => child.at = "none"
  /\ pc \in {"identify", "run"} => child.op = pc /\ child.at # "none"
  /\ child.op = "run" => ident = req.body /\ pc \in {"run", "done"}
  /\ pc = "done" => child.at \in {"none", "done", "dead"}
  /\ pc \in {"locate", "runtime", "identify", "run"} => boot = req.worker
  /\ pc = "done" <=> result.status # "none"
  /\ result.status = "PASS" =>
       boot = req.worker /\ child.op = "run" /\ child.at = "done"

LEMMA WorkFrame ==
  ASSUME TypeInv, Work \/ WorkerDies
  PROVE  /\ Live /\ UNCHANGED parent
         /\ child'.op = child.op /\ child'.at # "none"
<1> USE DEF TypeInv, Typed, ChildRecord, Works, Dead, Live
<1>1. CASE WorkerGate \/ WorkerDynamic \/ WorkerCollect \/ WorkerDies
  BY <1>1 DEF WorkerGate, WorkerDynamic, WorkerCollect, WorkerDies
<1>2. CASE WorkerOrigin \/ WorkerSeal
  BY <1>2 DEF WorkerOrigin, WorkerSeal, Sealed
<1>3. CASE WorkerBodyDone \/ WorkerAnswers
  BY <1>3 DEF WorkerBodyDone, WorkerAnswers
<1>4. ASSUME NEW f \in Contour, WorkerImports(f)
      PROVE  /\ Live /\ UNCHANGED parent
             /\ child'.op = child.op /\ child'.at # "none"
  BY <1>4 DEF WorkerImports
<1>5. ASSUME NEW n \in Names, WorkerImportsModule(n) \/ WorkerDiscover(n)
      PROVE  /\ Live /\ UNCHANGED parent
             /\ child'.op = child.op /\ child'.at # "none"
  BY <1>5 DEF WorkerImportsModule, WorkerDiscover
<1> QED
  BY <1>1, <1>2, <1>3, <1>4, <1>5 DEF Work

LEMMA BindStatus ==
  ASSUME NEW hash
  PROVE  /\ BindTo(hash).status \in {"BOUND", "FAIL", "SKIPPED"}
         /\ BindTo(hash).status = "BOUND" => req.body = hash
  BY DEF BindTo

LEMMA OrderSupervise ==
  ASSUME TypeInv, OrderInv, Supervise
  PROVE  OrderInv'
<1> USE DEF OrderInv, TypeInv, Typed, Respond
<1>1. CASE ReadWorker
  <2>1. /\ pc = "start" /\ UNCHANGED <<req, ident, child>>
        /\ \/ /\ pc' = "done"
              /\ result'.status \in {"FAIL", "SKIPPED"}
           \/ pc' = "locate" /\ boot' = req.worker /\ result' = result
    BY <1>1 DEF ReadWorker, Digests
  <2> QED
    BY <2>1
<1>2. CASE LocateRuntime
  BY <1>2 DEF LocateRuntime
<1>3. ASSUME NEW f \in Paths, HashRuntime(f)
      PROVE  OrderInv'
  BY <1>3 DEF HashRuntime
<1>4. CASE Identify /\ req.source = Absent
  BY <1>4 DEF Identify
<1>5. CASE Identify /\ req.source # Absent
  <2>1. Spawn("identify") /\ req' = req
    BY <1>5 DEF Identify
  <2>2. pc' = "identify" /\ child'.op = "identify" /\ child'.at # "none"
         /\ result' = result
    BY <1>5, <2>1, SpawnType
  <2> QED
    BY <1>5, <2>2 DEF Identify
<1>6. CASE Bind /\ Spawn("run") /\ child' # child
  <2>1. req' = req /\ req.source # Absent
    BY <1>6 DEF Bind, CodeInv
  <2>2. pc' = "run" /\ child'.op = "run" /\ child'.at # "none"
         /\ result' = result
    BY <1>6, <2>1, SpawnType
  <2>3. ident' = req.body
    BY <1>6, BindStatus DEF Bind
  <2> QED
    BY <1>6, <2>1, <2>2, <2>3 DEF Bind
<1>7. CASE Bind /\ ~(Spawn("run") /\ child' # child)
  <2>1. CASE Spawn("run")
    <3>1. child' = child /\ req' = req /\ req.source # Absent
      BY <1>7, <2>1 DEF Bind, CodeInv
    <3>2. child'.op = "run"
      BY <2>1, <3>1, SpawnType
    <3> QED
      BY <1>7, <3>1, <3>2 DEF Bind
  <2>2. CASE ~Spawn("run")
    <3>1. /\ child' = child /\ req' = req /\ boot' = boot /\ pc' = "done"
          /\ result'.status \in {"FAIL", "SKIPPED"}
      BY <1>7, <2>2, BindStatus DEF Bind
    <3>2. pc = "identify" /\ child.at \in {"done", "dead"}
      BY <1>7 DEF Bind
    <3> QED
      BY <3>1, <3>2
  <2> QED
    BY <2>1, <2>2
<1>8. CASE Conclude
  <2> DEFINE verdict == SupervisorVerdict(Required, child.obs)
  <2>1. verdict.status \in {"PASS", "FAIL", "SKIPPED"}
    BY VerdictType
  <2> HIDE DEF verdict
  <2>2. /\ child' = child /\ req' = req /\ boot' = boot /\ pc' = "done"
        /\ ident' = ident
        /\ result'.status \in {"PASS", "FAIL", "SKIPPED"}
        /\ result'.status = "PASS" => child.at = "done"
    BY <1>8, <2>1 DEF Conclude, verdict
  <2>3. pc = "run" /\ child.at \in {"done", "dead"}
    BY <1>8 DEF Conclude
  <2> QED
    BY <2>2, <2>3
<1> QED
  BY <1>1, <1>2, <1>3, <1>4, <1>5, <1>6, <1>7, <1>8 DEF Supervise

LEMMA OrderStep == TypeInv /\ OrderInv /\ [Next]_vars => OrderInv'
<1> SUFFICES ASSUME TypeInv, OrderInv, [Next]_vars PROVE OrderInv'
  OBVIOUS
<1>1. CASE Supervise
  BY <1>1, OrderSupervise
<1>2. CASE Work \/ WorkerDies
  BY <1>2, WorkFrame DEF OrderInv, parent, Live
<1>3. CASE Environment \/ UNCHANGED vars
  <2>1. UNCHANGED <<parent, child>>
    BY <1>3, EnvironmentFrame DEF vars
  <2> QED
    BY <2>1 DEF OrderInv, parent
<1> QED
  BY <1>1, <1>2, <1>3 DEF Next

LEMMA OrderInvariant == Spec => [](TypeInv /\ OrderInv)
<1>1. Init => OrderInv
  <2>1. Init => child.op = "identify" /\ child.at = "none"
    BY DEF Init, Process
  <2> QED
    BY <2>1 DEF Init, OrderInv
<1> QED
  BY <1>1, OrderStep, TypeInvariant, PTL DEF Spec

(* The bind theorem: for every tree, request and interleaving, the body    *)
(* runs only in a process whose tool is the locked one, under a seal of    *)
(* locked bytes, and after identify answered the locked module hash.       *)
THEOREM BindTheorem == Spec => []BodyAfterBind
<1>1. TypeInv /\ OrderInv => BodyAfterBind
  BY DEF TypeInv, CodeInv, OrderInv, BodyAfterBind
<1> QED
  BY <1>1, OrderInvariant, PTL

-----------------------------------------------------------------------------
(* What a PASS ran, and the promise *)

(* Where the tool's directory is not searched nothing of it is imported    *)
(* but under the seal; where it is, its files must stay, be imported only  *)
(* by the body and never import the tool.                                  *)
Steady ==
  OnPath => /\ ~Relocates
            /\ \A c \in Contents : c.eager = {} /\ ToolName \notin c.imports

(* n cannot be imported, or its bytes are in S. *)
Covered(n, S) == S[n] # Absent \/ Saves[n] = {}

(* No module is imported but what the seal holds: the process has no       *)
(* module of its own and nothing of the tool runs before the seal.         *)
RanInv ==
  /\ child.modules = Unsealed
  /\ child.at \notin {"body", "answer", "done", "dead"} =>
       child.ran = {} /\ child.sealed = Unsealed
  /\ \A p \in child.ran : p[2] = Locked(p[1])

FilesStay ==
  OnPath => \A n \in Names : disk[n] = Absent <=> Saves[n] = {}

(* The walk ends with a set of files closed under imports. *)
WalkInv ==
  OnPath =>
    /\ child.at = "load" => child.need = {}
    /\ child.at \notin {"none", "boot", "dead"} => Saves[ToolName] # {}
    /\ child.at \in {"none", "boot", "load", "collect", "origin"} =>
         child.got = Unsealed
    /\ child.at = "discover" =>
         /\ ToolName \in child.todo \/ child.got[ToolName] = child.code
         /\ \A n \in Names : child.got[n] # Absent =>
              \A m \in child.got[n].imports :
                m \in child.todo \/ Covered(m, child.got)
    /\ child.at = "body" =>
         /\ \A m \in child.need : Covered(m, child.sealed)
         /\ \A n \in Names : child.sealed[n] # Absent =>
              \A m \in child.sealed[n].imports : Covered(m, child.sealed)

SafeInv == RanInv /\ FilesStay /\ WalkInv

(* The process that an import statement asks finds sealed bytes or nothing.*)
LEMMA SeesLocked ==
  ASSUME Steady, TypeInv, SafeInv, NEW n \in Names, n \in child.need,
         child.at \in {"load", "body"}, WorkerSees(n) # Absent
  PROVE  /\ child.at = "body"
         /\ WorkerSees(n) = child.sealed[n]
         /\ WorkerSees(n) = Locked(n)
<1>1. child.modules[n] = Absent
  BY DEF SafeInv, RanInv, Unsealed
<1>2. child.sealed[n] # Absent
  <2>1. CASE ~OnPath
    BY <1>1, <2>1 DEF WorkerSees
  <2>2. CASE OnPath /\ child.at = "load"
    BY <2>2 DEF SafeInv, WalkInv
  <2>3. CASE OnPath /\ child.at = "body" /\ child.sealed[n] = Absent
    <3>1. Saves[n] = {}
      BY <2>3 DEF SafeInv, WalkInv, Covered
    <3> QED
      BY <1>1, <2>3, <3>1 DEF SafeInv, FilesStay, WorkerSees
  <2> QED
    BY <2>1, <2>2, <2>3
<1>3. child.at = "body"
  BY <1>2 DEF SafeInv, RanInv, Unsealed
<1> QED
  BY <1>2, <1>3 DEF WorkerSees, TypeInv, CodeInv

LEMMA SafeImports ==
  ASSUME TypeInv, SafeInv, NEW f \in Contour, WorkerImports(f)
  PROVE  SafeInv'
<1>1. /\ child'.modules = child.modules /\ child'.ran = child.ran
      /\ child'.sealed = child.sealed /\ child'.got = child.got
      /\ child'.at \in {"boot", "dead"} /\ child.at = "boot"
  BY DEF WorkerImports, Works, Dead, TypeInv, Typed, ChildRecord
<1>2. UNCHANGED <<disk, req>>
  BY DEF WorkerImports, Works, files, parent
<1> QED
  BY <1>1, <1>2 DEF SafeInv, RanInv, FilesStay, WalkInv, Locked

LEMMA SafeDead ==
  ASSUME TypeInv, SafeInv, NEW err, Works(Dead(err))
  PROVE  SafeInv'
<1>1. /\ child'.modules = child.modules /\ child'.ran = child.ran
      /\ child'.at = "dead"
  BY DEF Works, Dead, TypeInv, Typed, ChildRecord
<1>2. UNCHANGED <<disk, req>>
  BY DEF Works, files, parent
<1> QED
  BY <1>1, <1>2 DEF SafeInv, RanInv, FilesStay, WalkInv, Locked

LEMMA SafeGate ==
  ASSUME Steady, TypeInv, SafeInv, WorkerGate
  PROVE  SafeInv'
<1>1. CASE disk[ToolName] # req.source
  BY <1>1, SafeDead DEF WorkerGate
<1>2. CASE disk[ToolName] = req.source
  <2>1. /\ child'.modules = child.modules /\ child'.ran = child.ran
        /\ child'.sealed = child.sealed /\ child'.got = child.got
        /\ child'.at = "load" /\ child.at = "boot"
        /\ child'.need = req.source.eager
        /\ UNCHANGED <<disk, req>>
    BY <1>2 DEF WorkerGate, Works, TypeInv, Typed, ChildRecord, files, parent
  <2>2. req.source \in Contents
    BY <2>1, RequestFields DEF TypeInv, Typed, CodeInv, Slot
  <2>3. OnPath => req.source.eager = {}
    BY <2>2 DEF Steady
  <2>4. OnPath => Saves[ToolName] # {}
    BY <1>2, <2>2, SupervisorAssumption DEF SafeInv, FilesStay
  <2> QED
    BY <2>1, <2>3, <2>4 DEF SafeInv, RanInv, FilesStay, WalkInv, Locked
<1> QED
  BY <1>1, <1>2

LEMMA SafeImport ==
  ASSUME Steady, TypeInv, SafeInv, NEW n \in Names, WorkerImportsModule(n)
  PROVE  SafeInv'
<1> DEFINE c == WorkerSees(n)
<1>1. /\ child.at \in {"load", "body"} /\ n \in child.need
      /\ child'.at = child.at /\ child'.sealed = child.sealed
      /\ child'.got = child.got
      /\ UNCHANGED <<disk, req>>
  BY DEF WorkerImportsModule, Works, TypeInv, Typed, ChildRecord, files, parent
<1>2. CASE c = Absent
  <2>1. /\ child'.need = child.need \ {n}
        /\ child'.modules = child.modules /\ child'.ran = child.ran
    BY <1>2 DEF WorkerImportsModule, Works, TypeInv, Typed, ChildRecord
  <2> QED
    BY <1>1, <2>1 DEF SafeInv, RanInv, FilesStay, WalkInv, Locked, Covered
<1>3. CASE c # Absent
  <2>1. child.at = "body" /\ c = child.sealed[n] /\ c = Locked(n)
    BY <1>1, <1>3, SeesLocked
  <2>2. /\ child'.ran = child.ran \cup {<<n, c>>}
        /\ child'.modules = [child.modules EXCEPT ![n] = child.modules[n]]
        /\ child'.need \subseteq child.need \cup c.imports
    <3> DEFINE sealing == IF child.sealed[n] # Absent \/ c.fails THEN child.modules[n]
                          ELSE c
               need == (child.need \ {n}) \cup
                         IF <<n, c>> \in child.ran THEN {}
                         ELSE IF child.at = "load" THEN c.eager ELSE c.imports
    <3>1. sealing = child.modules[n] /\ need \subseteq child.need \cup c.imports
      BY <1>3, <2>1
    <3>2. child' = [child EXCEPT !.ran = @ \cup {<<n, c>>},
                                 !.modules[n] = sealing, !.need = need]
      BY <1>3 DEF WorkerImportsModule, Works
    <3> HIDE DEF c, sealing, need
    <3> QED
      BY <3>1, <3>2 DEF TypeInv, Typed, ChildRecord
  <2>3. child'.modules = child.modules
    BY <2>2 DEF TypeInv, Typed, ChildRecord
  <2>4. OnPath => \A m \in child'.need : Covered(m, child.sealed)
    BY <1>3, <2>1, <2>2 DEF SafeInv, WalkInv
  <2> HIDE DEF c
  <2>5. RanInv'
    <3>1. \A p \in child'.ran : p[2] = Locked(p[1])
      BY <2>1, <2>2 DEF SafeInv, RanInv
    <3> QED
      BY <1>1, <2>1, <2>3, <3>1 DEF SafeInv, RanInv, Locked
  <2>6. FilesStay' /\ WalkInv'
    BY <1>1, <2>1, <2>4 DEF SafeInv, FilesStay, WalkInv, Covered
  <2> QED
    BY <2>5, <2>6 DEF SafeInv
<1> QED
  BY <1>2, <1>3

LEMMA SafeDynamic ==
  ASSUME TypeInv, SafeInv, WorkerDynamic \/ WorkerCollect
  PROVE  SafeInv'
<1>1. ASSUME NEW err, Works(Dead(err))
      PROVE  SafeInv'
  BY <1>1, SafeDead
<1>2. ASSUME NEW at \in {"collect", "origin"}, Works([child EXCEPT !.at = at]),
             child.at \in {"load", "collect"}
      PROVE  SafeInv'
  <2>1. /\ child'.modules = child.modules /\ child'.ran = child.ran
        /\ child'.sealed = child.sealed /\ child'.got = child.got
        /\ child'.at = at
        /\ UNCHANGED <<disk, req>>
    BY <1>2 DEF Works, TypeInv, Typed, ChildRecord, files, parent
  <2> QED
    BY <1>2, <2>1 DEF SafeInv, RanInv, FilesStay, WalkInv, Locked
<1>3. CASE WorkerDynamic
  <2>1. \/ Works(Dead("dynamic_import")) \/ Works(Dead("other"))
        \/ child.at = "load" /\ Works([child EXCEPT !.at = "collect"])
    BY <1>3 DEF WorkerDynamic
  <2> QED
    BY <1>1, <1>2, <2>1
<1>4. CASE WorkerCollect
  <2>1. \/ Works(Dead("unpinned"))
        \/ child.at = "collect" /\ Works([child EXCEPT !.at = "origin"])
    BY <1>4 DEF WorkerCollect
  <2> QED
    BY <1>1, <1>2, <2>1
<1> QED
  BY <1>3, <1>4

(* What the body may import once the walk is over. *)
LEMMA SafeSealed ==
  ASSUME Steady, TypeInv, SafeInv, NEW e \in ChildRecord, Works(Sealed(e)),
         child.at \in {"origin", "discover"},
         e.ran = child.ran, e.modules = child.modules,
         OnPath => /\ \A m \in child.code.imports : Covered(m, e.sealed)
                   /\ \A n \in Names : e.sealed[n] # Absent =>
                        \A m \in e.sealed[n].imports : Covered(m, e.sealed)
  PROVE  SafeInv'
<1>1. child.ran = {} /\ child.modules = Unsealed
  BY DEF SafeInv, RanInv
<1>2. LazyImports \subseteq child.code.imports
  BY <1>1 DEF LazyImports
<1>3. child.code \in Contents
  BY RequestFields DEF TypeInv, Typed, CodeInv, Slot
<1>4. LazyImports \subseteq Names
  BY <1>2, <1>3, ContentFields
<1> DEFINE f == Sealed(e)
<1>5. /\ f.at \in {"answer", "body"} /\ f.ran = {} /\ f.modules = Unsealed
      /\ f.sealed = e.sealed
      /\ f.at = "body" => f.need = LazyImports
  BY <1>1 DEF Sealed, ChildRecord
<1>6. child' = f /\ UNCHANGED <<disk, req>>
  BY DEF Works, files, parent
<1> HIDE DEF f
<1>7. RanInv'
  BY <1>5, <1>6 DEF RanInv
<1>8. FilesStay'
  BY <1>6 DEF SafeInv, FilesStay
<1>9. WalkInv'
  <2>1. OnPath => Saves[ToolName] # {}
    BY DEF SafeInv, WalkInv
  <2> QED
    BY <1>2, <1>5, <1>6, <2>1 DEF WalkInv, Covered
<1> QED
  BY <1>7, <1>8, <1>9 DEF SafeInv

LEMMA SafeOrigin ==
  ASSUME Steady, TypeInv, SafeInv, WorkerOrigin
  PROVE  SafeInv'
<1>1. child.at = "origin"
  BY DEF WorkerOrigin
<1>2. CASE disk[ToolName] = Absent
  <2>1. ~OnPath
    BY <1>1, <1>2, SupervisorAssumption DEF SafeInv, FilesStay, WalkInv
  <2>2. Works(Sealed(child))
    BY <1>2 DEF WorkerOrigin
  <2> QED
    BY <1>1, <2>1, <2>2, SafeSealed DEF TypeInv, Typed
<1>3. CASE disk[ToolName] # Absent
  <2>1. /\ child'.modules = child.modules /\ child'.ran = child.ran
        /\ child'.sealed = child.sealed /\ child'.got = child.got
        /\ child'.at = "discover" /\ child'.todo = {ToolName}
        /\ UNCHANGED <<disk, req>>
    BY <1>3 DEF WorkerOrigin, Works, TypeInv, Typed, ChildRecord, files, parent
  <2>2. RanInv' /\ FilesStay'
    BY <1>1, <2>1 DEF SafeInv, RanInv, FilesStay, Locked
  <2>3. OnPath => \A n \in Names : child'.got[n] = Absent
    BY <1>1, <2>1 DEF SafeInv, WalkInv, Unsealed
  <2>4. OnPath => Saves[ToolName] # {}
    BY <1>1 DEF SafeInv, WalkInv
  <2>5. WalkInv'
    BY <2>1, <2>3, <2>4 DEF WalkInv
  <2> QED
    BY <2>2, <2>5 DEF SafeInv
<1> QED
  BY <1>2, <1>3

(* A module that was read has all it imports found, or seen to be no file. *)
LEMMA SafeDiscover ==
  ASSUME Steady, TypeInv, SafeInv, NEW n \in Names, WorkerDiscover(n)
  PROVE  SafeInv'
<1> DEFINE c == IF n = ToolName THEN child.code ELSE disk[n]
<1>1. /\ child.at = "discover" /\ n \in child.todo
      /\ child'.modules = child.modules /\ child'.ran = child.ran
      /\ child'.sealed = child.sealed /\ child'.at = "discover"
      /\ child'.code = child.code
      /\ UNCHANGED <<disk, req>>
  BY DEF WorkerDiscover, Works, TypeInv, Typed, ChildRecord, files, parent
<1>2. RanInv' /\ FilesStay'
  BY <1>1 DEF SafeInv, RanInv, FilesStay, Locked
<1>3. OnPath => Saves[ToolName] # {}
  BY <1>1 DEF SafeInv, WalkInv
<1>4. CASE OnPath /\ disk[n] = Absent
  <2>1. child'.todo = child.todo \ {n} /\ child'.got = child.got
    BY <1>4 DEF WorkerDiscover, Works, TypeInv, Typed, ChildRecord
  <2>2. Saves[n] = {}
    BY <1>4 DEF SafeInv, FilesStay
  <2>3. n # ToolName
    BY <1>3, <1>4, <2>2
  <2>4. WalkInv'
    BY <1>1, <1>3, <2>1, <2>2, <2>3 DEF SafeInv, WalkInv, Covered
  <2> QED
    BY <1>2, <2>4 DEF SafeInv
<1>5. CASE OnPath /\ disk[n] # Absent
  <2>1. /\ child'.todo = (child.todo \cup Found(n, c)) \ {n}
        /\ child'.got = [child.got EXCEPT ![n] = c]
    BY <1>5 DEF WorkerDiscover, Works, TypeInv, Typed, ChildRecord
  <2>2. child.code \in Contents
    BY <1>1, RequestFields DEF TypeInv, Typed, CodeInv, Slot
  <2>3. c \in Contents /\ c # Absent
    BY <1>5, <2>2, SupervisorAssumption DEF TypeInv, Typed, Slot
  <2>4. c.imports \subseteq Names
    BY <2>3, ContentFields
  <2>5. n = ToolName => c = child.code
    OBVIOUS
  <2> HIDE DEF c
  <2>6. \A m \in Names : child'.got[m] = IF m = n THEN c ELSE child.got[m]
    BY <2>1 DEF TypeInv, Typed, ChildRecord
  <2>7. ASSUME NEW m \in c.imports
        PROVE  m \in child'.todo \/ Covered(m, child'.got)
    <3>1. m \in Names
      BY <2>4
    <3>2. CASE m = n
      BY <2>3, <2>6, <3>1, <3>2 DEF Covered
    <3>3. CASE m # n /\ child.got[m] # Absent
      BY <2>6, <3>1, <3>3 DEF Covered
    <3>4. CASE m # n /\ child.got[m] = Absent /\ disk[m] # Absent
      BY <2>1, <3>4 DEF Found, Resolved
    <3>5. CASE disk[m] = Absent
      BY <1>5, <3>1, <3>5 DEF SafeInv, FilesStay, Covered
    <3> QED
      BY <3>2, <3>3, <3>4, <3>5
  <2>8. ASSUME NEW k \in Names, k # n, child'.got[k] # Absent,
               NEW m \in child'.got[k].imports
        PROVE  m \in child'.todo \/ Covered(m, child'.got)
    <3>1. child'.got[k] = child.got[k]
      BY <2>6, <2>8
    <3>2. m \in child.todo \/ Covered(m, child.got)
      BY <1>1, <1>5, <2>8, <3>1 DEF SafeInv, WalkInv
    <3>3. m \in Names
      <4>1. child.got[k] \in Contents
        BY <2>8, <3>1 DEF TypeInv, Typed, ChildRecord, Slot
      <4> QED
        BY <2>8, <3>1, <4>1, ContentFields
    <3>4. CASE m = n
      BY <2>3, <2>6, <3>3, <3>4 DEF Covered
    <3>5. CASE m # n
      BY <2>1, <2>6, <3>2, <3>3, <3>5 DEF Covered
    <3> QED
      BY <3>4, <3>5
  <2>9. ToolName \in child'.todo \/ child'.got[ToolName] = child'.code
    BY <1>1, <1>5, <2>1, <2>5, <2>6, SupervisorAssumption DEF SafeInv, WalkInv
  <2>10. \A k \in Names : child'.got[k] # Absent =>
           \A m \in child'.got[k].imports :
             m \in child'.todo \/ Covered(m, child'.got)
    BY <2>6, <2>7, <2>8
  <2>11. WalkInv'
    BY <1>1, <1>3, <2>9, <2>10 DEF WalkInv, Covered
  <2> QED
    BY <1>2, <2>11 DEF SafeInv
<1>6. CASE ~OnPath
  BY <1>2, <1>6 DEF SafeInv, WalkInv
<1> QED
  BY <1>4, <1>5, <1>6

LEMMA SafeSeal ==
  ASSUME Steady, TypeInv, SafeInv, WorkerSeal
  PROVE  SafeInv'
<1> DEFINE deps == [child.got EXCEPT ![ToolName] = Absent]
           e == [child EXCEPT !.sealed = deps]
<1>1. child.at = "discover" /\ child.todo = {}
  BY DEF WorkerSeal
<1> DEFINE fails == \E n \in Names : deps[n] # Absent /\ deps[n].fails
<1>2. CASE deps # [n \in Names |-> Locked(n)] \/ fails
  BY <1>2, SafeDead DEF WorkerSeal
<1>3. CASE deps = [n \in Names |-> Locked(n)] /\ ~fails
  <2>1. Works(Sealed(e))
    BY <1>3 DEF WorkerSeal
  <2>2. deps \in [Names -> Slot]
    BY DEF TypeInv, Typed, ChildRecord, Slot
  <2>3. \A n \in Names : deps[n] = IF n = ToolName THEN Absent ELSE child.got[n]
    BY DEF TypeInv, Typed, ChildRecord
  <2> HIDE DEF deps
  <2>4. /\ e \in ChildRecord /\ e.ran = child.ran
        /\ e.modules = child.modules /\ e.sealed = deps
    BY <2>2 DEF TypeInv, Typed, ChildRecord
  <2> HIDE DEF e
  <2>5. ASSUME OnPath, NEW n \in Names, child.got[n] # Absent,
               NEW m \in child.got[n].imports
        PROVE  Covered(m, deps)
    <3>1. child.got[n] \in Contents
      BY <2>5 DEF TypeInv, Typed, ChildRecord, Slot
    <3>2. m \in Names /\ m # ToolName
      BY <2>5, <3>1, ContentFields DEF Steady
    <3>3. Covered(m, child.got)
      BY <1>1, <2>5 DEF SafeInv, WalkInv
    <3> QED
      BY <2>3, <3>2, <3>3 DEF Covered
  <2>6. OnPath => \A m \in child.code.imports : Covered(m, deps)
    <3>1. OnPath => child.got[ToolName] = child.code
      BY <1>1 DEF SafeInv, WalkInv
    <3>2. child.code # Absent
      BY <1>1 DEF TypeInv, CodeInv
    <3> QED
      BY <2>5, <3>1, <3>2, SupervisorAssumption
  <2>7. OnPath => \A n \in Names : deps[n] # Absent =>
                    \A m \in deps[n].imports : Covered(m, deps)
    BY <2>3, <2>5
  <2> QED
    BY <1>1, <2>1, <2>4, <2>6, <2>7, SafeSealed
<1> QED
  BY <1>2, <1>3

LEMMA SafeAnswer ==
  ASSUME TypeInv, SafeInv, WorkerBodyDone \/ WorkerAnswers
  PROVE  SafeInv'
<1>1. CASE WorkerAnswers /\ ~Dumps(child.obs.kind)
  BY <1>1, SafeDead DEF WorkerAnswers
<1>2. CASE WorkerBodyDone \/ (WorkerAnswers /\ Dumps(child.obs.kind))
  <2>1. /\ child'.modules = child.modules /\ child'.ran = child.ran
        /\ child'.at \in {"answer", "done"} /\ child.at \in {"body", "answer"}
        /\ UNCHANGED <<disk, req>>
    BY <1>2 DEF WorkerBodyDone, WorkerAnswers, Works, TypeInv, Typed,
                ChildRecord, files, parent
  <2> QED
    BY <2>1 DEF SafeInv, RanInv, FilesStay, WalkInv, Locked
<1> QED
  BY <1>1, <1>2

LEMMA SafeSupervise ==
  ASSUME TypeInv, SafeInv, Supervise
  PROVE  SafeInv' /\ UNCHANGED <<disk, req>>
<1>1. /\ UNCHANGED <<disk, req>>
      /\ child' = child \/ \E op \in {"identify", "run"} :
                             req.source # Absent /\ Spawn(op)
  <2>1. CASE \/ ReadWorker \/ LocateRuntime \/ Conclude
             \/ \E f \in Paths : HashRuntime(f)
    BY <2>1 DEF ReadWorker, LocateRuntime, Conclude, HashRuntime, files
  <2>2. CASE Identify
    BY <2>2 DEF Identify, files
  <2>3. CASE Bind
    BY <2>3 DEF Bind, files, TypeInv, CodeInv
  <2> QED
    BY <2>1, <2>2, <2>3 DEF Supervise
<1>2. CASE child' = child
  BY <1>1, <1>2 DEF SafeInv, RanInv, FilesStay, WalkInv, Locked
<1>3. ASSUME NEW op \in {"identify", "run"}, req.source # Absent, Spawn(op)
      PROVE  SafeInv'
  <2>1. PICK place : child' = Process(op, place) \/ child' = Vanished(op)
    BY <1>1, <1>3, SpawnType
  <2>2. /\ child'.modules = Unsealed /\ child'.ran = {}
        /\ child'.sealed = Unsealed /\ child'.got = Unsealed
        /\ child'.at \in {"boot", "dead"}
    <3>1. CASE child' = Process(op, place)
      BY <3>1 DEF Process
    <3>2. CASE child' = Vanished(op)
      BY <3>2 DEF Vanished, Process
    <3> QED
      BY <2>1, <3>1, <3>2
  <2> QED
    BY <1>1, <2>2 DEF SafeInv, RanInv, FilesStay, WalkInv
<1> QED
  BY <1>1, <1>2, <1>3

LEMMA SafeEnvironment ==
  ASSUME Steady, TypeInv, SafeInv, Environment
  PROVE  SafeInv'
<1>1. UNCHANGED <<req, child>>
  BY EnvironmentFrame DEF parent
<1>2. FilesStay'
  <2> SUFFICES ASSUME OnPath, NEW n \in Names
               PROVE  disk'[n] = Absent <=> Saves[n] = {}
    BY DEF FilesStay
  <2>1. ~Relocates /\ (disk[n] = Absent <=> Saves[n] = {})
    BY DEF Steady, SafeInv, FilesStay
  <2>2. ASSUME NEW m \in Names, NEW c \in Contents, Save(m, c)
        PROVE  disk'[n] = Absent <=> Saves[n] = {}
    BY <2>1, <2>2, SupervisorAssumption DEF Save, TypeInv, Typed
  <2>3. CASE disk' = disk
    BY <2>1, <2>3
  <2> QED
    BY <2>1, <2>2, <2>3 DEF Environment, Unlink, Upgrade, Install
<1> QED
  BY <1>1, <1>2 DEF SafeInv, RanInv, WalkInv, Locked

LEMMA SafeStep == Steady /\ TypeInv /\ SafeInv /\ [Next]_vars => SafeInv'
<1> SUFFICES ASSUME Steady, TypeInv, SafeInv, [Next]_vars PROVE SafeInv'
  OBVIOUS
<1>1. CASE Supervise
  BY <1>1, SafeSupervise
<1>2. CASE Work
  BY <1>2, SafeGate, SafeImport, SafeDynamic, SafeOrigin, SafeDiscover,
     SafeSeal, SafeAnswer, SafeImports DEF Work
<1>3. CASE WorkerDies
  BY <1>3, SafeDead DEF WorkerDies
<1>4. CASE Environment
  BY <1>4, SafeEnvironment
<1>5. CASE UNCHANGED vars
  BY <1>5 DEF vars, files, parent, SafeInv, RanInv, FilesStay, WalkInv, Locked
<1> QED
  BY <1>1, <1>2, <1>3, <1>4, <1>5 DEF Next

LEMMA SafeInit == Init => SafeInv
<1> SUFFICES ASSUME Init PROVE SafeInv
  OBVIOUS
<1>1. /\ child.modules = Unsealed /\ child.ran = {}
      /\ child.sealed = Unsealed /\ child.got = Unsealed
      /\ child.at = "none"
  BY DEF Init, Process
<1>2. FilesStay
  BY SupervisorAssumption DEF Init, FilesStay
<1> QED
  BY <1>1, <1>2 DEF SafeInv, RanInv, WalkInv

LEMMA SafeInvariant ==
  ASSUME Steady
  PROVE  Spec => [](TypeInv /\ OrderInv /\ SafeInv)
<1>1. TypeInv /\ SafeInv /\ [Next]_vars => SafeInv'
  BY SafeStep
<1> QED
  BY <1>1, SafeInit, OrderInvariant, PTL DEF Spec

(* The lock theorem: where the tool's directory is not on the path of the  *)
(* worker, or its files stay and are imported by the body only, a PASS ran *)
(* the hashed worker, the locked tool and locked helpers, whatever is      *)
(* saved, installed or killed meanwhile.                                   *)
THEOREM LockTheorem ==
  ASSUME Steady
  PROVE  Spec => []PassIsLocked
<1>1. TypeInv /\ OrderInv /\ SafeInv => PassIsLocked
  BY DEF TypeInv, CodeInv, OrderInv, SafeInv, RanInv, PassIsLocked
<1> QED
  BY <1>1, SafeInvariant, PTL

(* The promise *)

LEMMA AskedType ==
  ASSUME TypeInv
  PROVE  Asked \in [Parts -> SUBSET Contents]
<1>1. /\ req.source \in Slot /\ \A n \in Names : Locked(n) \in Slot
  BY RequestFields DEF TypeInv, Typed
<1>2. ASSUME NEW p \in Parts
      PROVE  Asked[p] \in SUBSET Contents
  <2>1. CASE p = "entry"
    BY <1>1, <2>1 DEF Asked, Slot
  <2>2. CASE p # "entry"
    <3>1. p \in Names
      BY <2>2 DEF Parts
    <3> QED
      BY <1>1, <2>2, <3>1 DEF Asked, Slot
  <2> QED
    BY <2>1, <2>2
<1> QED
  BY <1>2 DEF Asked

(* What has run in the process at work was asked for. *)
ApprovedInv == \A p \in RanInChild : p[2] \in Asked[p[1]]

LEMMA RanAsked == TypeInv /\ SafeInv => ApprovedInv
<1> SUFFICES ASSUME TypeInv, SafeInv, NEW p \in RanInChild
             PROVE  p[2] \in Asked[p[1]]
  BY DEF ApprovedInv
<1>1. CASE p \in child.ran
  <2>1. p[1] \in Names /\ p[2] \in Contents /\ p[2] = Locked(p[1])
    BY <1>1 DEF TypeInv, Typed, ChildRecord, SafeInv, RanInv
  <2>2. p[1] \in Parts /\ p[1] # "entry"
    BY <2>1, SupervisorAssumption DEF Parts
  <2> QED
    BY <2>1, <2>2, SupervisorAssumption DEF Asked
<1>2. CASE p \notin child.ran
  <2>1. child.code # Absent /\ p = <<"entry", child.code>>
    BY <1>2 DEF RanInChild
  <2>2. child.code = req.source
    BY <2>1 DEF TypeInv, CodeInv
  <2> QED
    BY <2>1, <2>2 DEF Asked, Parts
<1> QED
  BY <1>1, <1>2

(* A step of a process adds to what it ran. *)
LEMMA WorkGrows ==
  ASSUME TypeInv, Work \/ WorkerDies
  PROVE  RanInChild \subseteq RanInChild'
<1> USE DEF TypeInv, Typed, ChildRecord, Works, Dead, RanInChild
<1>1. CASE WorkerGate
  <2>1. child.code = Absent
    BY <1>1 DEF WorkerGate, CodeInv
  <2>2. child'.ran = child.ran
    BY <1>1 DEF WorkerGate
  <2> QED
    BY <2>1, <2>2
<1>2. CASE \/ WorkerDynamic \/ WorkerCollect \/ WorkerDies
           \/ WorkerBodyDone \/ WorkerAnswers
  BY <1>2 DEF WorkerDynamic, WorkerCollect, WorkerDies, WorkerBodyDone,
              WorkerAnswers
<1>3. CASE WorkerOrigin \/ WorkerSeal
  BY <1>3 DEF WorkerOrigin, WorkerSeal, Sealed
<1>4. ASSUME NEW f \in Contour, WorkerImports(f)
      PROVE  RanInChild \subseteq RanInChild'
  BY <1>4 DEF WorkerImports
<1>5. ASSUME NEW n \in Names, WorkerDiscover(n)
      PROVE  RanInChild \subseteq RanInChild'
  BY <1>5 DEF WorkerDiscover
<1>6. ASSUME NEW n \in Names, WorkerImportsModule(n)
      PROVE  RanInChild \subseteq RanInChild'
  <2> DEFINE c == WorkerSees(n)
             ran == child.ran \cup {<<n, c>>}
             modules == [child.modules EXCEPT
                           ![n] = IF child.sealed[n] # Absent \/ c.fails THEN @ ELSE c]
             need == (child.need \ {n}) \cup
                       IF <<n, c>> \in child.ran THEN {}
                       ELSE IF child.at = "load" THEN c.eager ELSE c.imports
  <2>1. \/ child' = [child EXCEPT !.need = @ \ {n}]
        \/ child' = [child EXCEPT !.ran = ran, !.modules = modules,
                                  !.need = need]
    BY <1>6 DEF WorkerImportsModule
  <2>2. child.ran \subseteq ran
    OBVIOUS
  <2> HIDE DEF c, ran, modules, need
  <2>3. child'.code = child.code /\ child.ran \subseteq child'.ran
    BY <2>1, <2>2
  <2> QED
    BY <2>3
<1> QED
  BY <1>1, <1>2, <1>3, <1>4, <1>5, <1>6 DEF Work

(* A step of the supervisor leaves the process or starts a fresh one.      *)
LEMMA SuperviseRan ==
  ASSUME TypeInv, Supervise
  PROVE  \/ child' = child
         \/ pc' \in {"identify", "run"} /\ RanInChild' = {}
<1>1. CASE \/ ReadWorker \/ LocateRuntime \/ Conclude
           \/ \E f \in Paths : HashRuntime(f)
  BY <1>1 DEF ReadWorker, LocateRuntime, Conclude, HashRuntime
<1>2. ASSUME NEW op \in {"identify", "run"}, Spawn(op), req.source # Absent,
             req' = req
      PROVE  pc' \in {"identify", "run"} /\ RanInChild' = {}
  BY <1>2, SpawnType DEF RanInChild
<1>3. CASE Identify
  BY <1>2, <1>3 DEF Identify
<1>4. CASE Bind
  BY <1>2, <1>4 DEF Bind, TypeInv, CodeInv
<1> QED
  BY <1>1, <1>3, <1>4 DEF Supervise

(* The answer is given once, and PASS by a process that ran the entry. *)
LEMMA SuperviseAnswers ==
  ASSUME TypeInv, TypeInv', OrderInv, OrderInv', Supervise
  PROVE  /\ pc # "done" /\ req' = req
         /\ result'.status \in Statuses
         /\ pc' # "done" => pc' # "start" /\ result'.status = "none"
         /\ result'.status = "PASS" =>
              pc # "start" /\ child'.code = req.source /\ req.source # Absent
<1>1. req' = req /\ pc # "done" /\ pc' # "start"
  BY DEF Supervise, ReadWorker, LocateRuntime, Conclude, HashRuntime,
         Identify, Bind, Spawn, Respond
<1>2. result'.status \in Statuses
  BY DEF TypeInv, Typed
<1>3. pc' # "done" => result'.status = "none"
  BY DEF OrderInv
<1>4. ASSUME result'.status = "PASS"
      PROVE  pc # "start" /\ child'.code = req.source /\ req.source # Absent
  <2>1. child'.at = "done" /\ child'.op = "run"
    BY <1>4 DEF OrderInv
  <2>2. child'.code = req.source /\ req.source # Absent
    BY <1>1, <2>1 DEF TypeInv, CodeInv
  <2>3. pc # "start"
    <3>1. pc = "start" => ReadWorker
      BY DEF Supervise, LocateRuntime, Conclude, HashRuntime, Identify, Bind
    <3>2. ReadWorker => child' = child
      BY DEF ReadWorker
    <3>3. pc = "start" => child.at = "none"
      BY DEF OrderInv
    <3> QED
      BY <2>1, <3>1, <3>2, <3>3
  <2> QED
    BY <2>2, <2>3
<1> QED
  BY <1>1, <1>2, <1>3, <1>4

LEMMA AskedFrame == UNCHANGED req => UNCHANGED Asked
  BY DEF Asked, Locked

LEMMA SuperviseKeepsPromise ==
  ASSUME TypeInv, TypeInv', OrderInv, OrderInv', ApprovedInv', Supervise
  PROVE  Promise!ApprovalNext
<1> DEFINE caller == "caller"
<1>1. /\ pc # "done" /\ req' = req
      /\ result'.status \in Statuses
      /\ pc' # "done" => pc' # "start" /\ result'.status = "none"
      /\ result'.status = "PASS" =>
           pc # "start" /\ child'.code = req.source /\ req.source # Absent
  BY SuperviseAnswers
<1>2. /\ result.status = "none"
      /\ pc' = "done" => result'.status # "none"
  BY <1>1 DEF OrderInv
<1>3. Asked' = Asked /\ Asked \in Promise!Request
  BY <1>1, AskedFrame, AskedType DEF Promise!Request
<1>4. Promise!OthersWait(caller)
  BY <1>3 DEF Promise!OthersWait, Callers
<1>5. Promise!RanApproved(caller)
  BY DEF ApprovedInv, Promise!RanApproved, Callers
<1>6. \/ RanInChild' = RanInChild
      \/ pc' \in {"identify", "run"} /\ RanInChild' = {}
  BY SuperviseRan DEF RanInChild
<1>7. result'.status = "PASS" => \E p \in RanInChild' : p[1] = "entry"
  <2>1. CASE result'.status = "PASS"
    <3>1. <<"entry", child'.code>> \in RanInChild'
      BY <1>1, <2>1 DEF RanInChild
    <3> QED
      BY <3>1
  <2> QED
    BY <2>1
<1>8. CASE pc = "start"
  <2>1. /\ pc' # "done" => result'.status = "none"
        /\ pc' = "done" => result'.status \in {"FAIL", "SKIPPED"}
    BY <1>1, <1>2, <1>8 DEF Statuses
  <2>2. Promise!Ask(caller)
    BY <1>1, <1>4, <1>5, <1>8, <2>1
       DEF Promise!Ask, Promise!Answers, Callers
  <2> QED
    BY <2>2 DEF Promise!ApprovalNext, Callers
<1>9. CASE pc # "start"
  <2>1. Promise!Run(caller)
    BY <1>1, <1>2, <1>3, <1>4, <1>5, <1>6, <1>7, <1>9
       DEF Promise!Run, Promise!Answers, Callers, Statuses
  <2> QED
    BY <2>1 DEF Promise!ApprovalNext, Callers
<1> QED
  BY <1>8, <1>9

LEMMA WorkKeepsPromise ==
  ASSUME TypeInv, OrderInv, ApprovedInv', Work \/ WorkerDies
  PROVE  Promise!ApprovalNext
<1> DEFINE caller == "caller"
<1>1. /\ pc \in {"identify", "run"} /\ pc' = pc /\ req' = req
      /\ result' = result
  BY WorkFrame DEF OrderInv, Live, parent, TypeInv, Typed
<1>2. Asked' = Asked /\ Asked \in Promise!Request
  BY <1>1, AskedFrame, AskedType DEF Promise!Request
<1>3. Promise!OthersWait(caller)
  BY <1>2 DEF Promise!OthersWait, Callers
<1>4. Promise!RanApproved(caller)
  BY DEF ApprovedInv, Promise!RanApproved, Callers
<1>5. RanInChild \subseteq RanInChild'
  BY WorkGrows
<1>6. Promise!Run(caller)
  BY <1>1, <1>2, <1>3, <1>4, <1>5 DEF Promise!Run, Callers
<1> QED
  BY <1>6 DEF Promise!ApprovalNext, Callers

(* The promise theorem: the supervisor with its two processes implements   *)
(* the same abstract specification as the judge in one process.            *)
THEOREM SupervisorPromise ==
  ASSUME Steady
  PROVE  Spec => IsApproval
<1> DEFINE Inv == TypeInv /\ OrderInv /\ ApprovedInv
<1>1. Init /\ Inv => Promise!ApprovalInit
  <2> SUFFICES ASSUME Init, Inv PROVE Promise!ApprovalInit
    OBVIOUS
  <2>1. Asked \in Promise!Request
    BY AskedType DEF Promise!Request
  <2>2. RanInChild = {}
    BY DEF Init, Process, RanInChild
  <2> QED
    BY <2>1, <2>2 DEF Init, Promise!ApprovalInit
<1>2. Inv /\ Inv' /\ [Next]_vars => [Promise!ApprovalNext]_(Promise!promise)
  <2> SUFFICES ASSUME Inv, Inv', [Next]_vars
               PROVE  [Promise!ApprovalNext]_(Promise!promise)
    OBVIOUS
  <2>1. CASE Supervise
    BY <2>1, SuperviseKeepsPromise
  <2>2. CASE Work \/ WorkerDies
    BY <2>2, WorkKeepsPromise
  <2>3. CASE Environment \/ UNCHANGED vars
    <3>1. UNCHANGED <<parent, child>>
      BY <2>3, EnvironmentFrame DEF vars
    <3>2. UNCHANGED Asked
      BY <3>1, AskedFrame DEF parent
    <3> QED
      BY <3>1, <3>2 DEF parent, Promise!promise, RanInChild
  <2> QED
    BY <2>1, <2>2, <2>3 DEF Next
<1> QED
  BY <1>1, <1>2, SafeInvariant, RanAsked, PTL
     DEF Spec, IsApproval, Promise!ApprovalSpec

-----------------------------------------------------------------------------
(* The verdict *)

LEMMA EnvironmentCounts ==
  ASSUME TypeInv, Environment
  PROVE  edits' # 0
<1>1. edits \in Nat /\ edits' = edits + 1
  BY SupervisorAssumption
     DEF TypeInv, Typed, Environment, Unlink, Save, Upgrade, Install
<1> QED
  BY <1>1

(* The locked declaration with the request's own limit, if it has none.    *)
Limited ==
  [req.source.contract EXCEPT !.limit = IF @ = NoLimit THEN req.limit ELSE @]

(* What a process that runs is asked to judge is the locked declaration,   *)
(* and no run is observed to return what has no number in JSON.            *)
VerdictInv ==
  /\ child.obs.kind # "nan"
  /\ pc = "run" => bound = req.source.contract
  /\ Judged => Says(result.status, result.property) =
                 SupervisorVerdict(Limited, child.obs)

(* A declaration that is put together of two answers for the same bytes.   *)
LEMMA RequiredIsLocked ==
  ASSUME req.source \in Contents, child.code = req.source,
         bound = req.source.contract
  PROVE  Required = Limited
<1>1. bound \in Contract
  BY ContentFields
<1> QED
  BY <1>1 DEF Required, Limited, Contract

LEMMA VerdictSupervise ==
  ASSUME TypeInv, OrderInv, OrderInv', VerdictInv, Supervise
  PROVE  VerdictInv'
<1>1. CASE ReadWorker \/ LocateRuntime \/ \E f \in Paths : HashRuntime(f)
  <2>1. /\ child' = child /\ req' = req /\ bound' = bound
        /\ pc' # "run" /\ child.op = "identify"
    BY <1>1 DEF ReadWorker, LocateRuntime, HashRuntime, Respond, OrderInv,
                TypeInv, Typed, ChildRecord
  <2> QED
    BY <2>1 DEF VerdictInv, Judged, Limited
<1>2. ASSUME NEW op \in {"identify", "run"}, Spawn(op), req.source # Absent,
             req' = req
      PROVE  child'.obs.kind # "nan" /\ pc' = op
  <2>1. /\ pc' = op
        /\ \E place : child' = Process(op, place) \/ child' = Vanished(op)
    BY <1>2, SpawnType
  <2>2. \A place : Process(op, place).obs.kind = "None"
    BY DEF Process, Unobserved
  <2>3. Vanished(op).obs.kind = "None"
    BY <2>2 DEF Vanished, Process, Unobserved
  <2> QED
    BY <2>1, <2>2, <2>3
<1>3. CASE Identify
  <2>1. pc' # "run" /\ child'.obs.kind # "nan" /\ ~Judged'
    <3>1. CASE req.source = Absent
      BY <1>3, <3>1
         DEF Identify, Respond, OrderInv, VerdictInv, Judged
    <3>2. CASE req.source # Absent
      BY <1>2, <1>3, <3>2 DEF Identify, Judged
    <3> QED
      BY <3>1, <3>2
  <2> QED
    BY <2>1 DEF VerdictInv
<1>4. CASE Bind
  <2>1. req.source # Absent /\ req' = req /\ child.op = "identify"
    BY <1>4 DEF Bind, TypeInv, CodeInv, OrderInv
  <2>2. CASE child.at = "done" /\ Spawn("run")
    <3>1. child'.obs.kind # "nan" /\ pc' = "run"
      BY <1>2, <2>1, <2>2
    <3>2. bound' = req'.source.contract
      BY <1>4, <2>1, <2>2 DEF Bind, TypeInv, CodeInv
    <3> QED
      BY <3>1, <3>2 DEF VerdictInv, Judged, Limited
  <2>3. CASE child' = child /\ pc' = "done"
    BY <2>1, <2>3 DEF VerdictInv, Judged, Limited
  <2> QED
    BY <1>4, <2>2, <2>3 DEF Bind, Respond
<1>5. CASE Conclude
  <2>1. /\ pc = "run" /\ child' = child /\ req' = req /\ pc' = "done"
        /\ ident' = ident
    BY <1>5 DEF Conclude, Respond
  <2>2. ASSUME child.at = "done", child.hash = ident
        PROVE  Says(result'.status, result'.property) =
                 SupervisorVerdict(Limited, child.obs)
    <3>1. child.code = req.source /\ req.source \in Contents
      BY <2>2, RequestFields DEF TypeInv, Typed, CodeInv, Slot
    <3>2. Required = Limited
      BY <2>1, <3>1, RequiredIsLocked DEF VerdictInv
    <3> DEFINE verdict == SupervisorVerdict(Required, child.obs)
    <3>3. result' = [status |-> verdict.status, property |-> verdict.property,
                     err |-> "none"]
      BY <1>5, <2>2 DEF Conclude, Respond
    <3>4. verdict = Says(verdict.status, verdict.property)
      BY DEF SupervisorVerdict, Says
    <3> HIDE DEF verdict
    <3>5. Says(result'.status, result'.property) = verdict
      BY <3>3, <3>4
    <3> QED
      BY <3>2, <3>5 DEF verdict
  <2> QED
    BY <2>1, <2>2 DEF VerdictInv, Judged, Limited
<1> QED
  BY <1>1, <1>3, <1>4, <1>5 DEF Supervise

LEMMA VerdictWork ==
  ASSUME TypeInv, OrderInv, VerdictInv, Work \/ WorkerDies
  PROVE  VerdictInv'
<1>1. Live /\ UNCHANGED parent /\ child'.op = child.op
  BY WorkFrame
<1>2. pc # "done"
  BY <1>1 DEF OrderInv, Live
<1>3. child'.obs.kind # "nan"
  <2> USE DEF TypeInv, Typed, ChildRecord, Works, Dead, VerdictInv
  <2>1. CASE WorkerBodyDone
    <3>1. PICK outcome \in Outcomes :
            Works([child EXCEPT !.at = "answer", !.obs = Observed(outcome)])
      BY <2>1 DEF WorkerBodyDone
    <3>2. Observed(outcome).kind # "nan"
      BY DEF Observed, Canonical
    <3> QED
      BY <3>1, <3>2
  <2>2. CASE \/ WorkerGate \/ WorkerDynamic \/ WorkerCollect \/ WorkerDies
             \/ WorkerAnswers
    BY <2>2 DEF WorkerGate, WorkerDynamic, WorkerCollect, WorkerDies,
                WorkerAnswers
  <2>3. CASE WorkerOrigin \/ WorkerSeal
    BY <2>3 DEF WorkerOrigin, WorkerSeal, Sealed
  <2>4. ASSUME NEW f \in Contour, WorkerImports(f)
        PROVE  child'.obs = child.obs
    BY <2>4 DEF WorkerImports
  <2>5. ASSUME NEW n \in Names, WorkerImportsModule(n) \/ WorkerDiscover(n)
        PROVE  child'.obs = child.obs
    BY <2>5 DEF WorkerImportsModule, WorkerDiscover
  <2> QED
    BY <2>1, <2>2, <2>3, <2>4, <2>5 DEF Work
<1> QED
  BY <1>1, <1>2, <1>3 DEF VerdictInv, Judged, Limited, parent

LEMMA VerdictInvariant == Spec => [](TypeInv /\ OrderInv /\ VerdictInv)
<1>1. Init => VerdictInv
  <2>1. Init => child.obs.kind = "None" /\ pc = "start"
    BY DEF Init, Process, Unobserved
  <2> QED
    BY <2>1 DEF VerdictInv, Judged, Limited
<1>2. TypeInv /\ OrderInv /\ OrderInv' /\ VerdictInv /\ [Next]_vars => VerdictInv'
  <2>1. UNCHANGED <<parent, child>> /\ VerdictInv => VerdictInv'
    BY DEF parent, VerdictInv, Judged, Limited
  <2>2. UNCHANGED vars => UNCHANGED <<parent, child>>
    BY DEF vars
  <2> QED
    BY <2>1, <2>2, VerdictSupervise, VerdictWork, EnvironmentFrame DEF Next
<1> QED
  BY <1>1, <1>2, OrderInvariant, PTL DEF Spec

(* The two verdicts say the same of every kind of value but the widest.    *)
LEMMA KindsAgree ==
  ASSUME NEW contract, NEW obs, obs.kind \in Kinds,
         obs.kind \notin {"nan", "tuple", "odict"}
  PROVE  \/ SupervisorVerdict(contract, obs) = CheckConformance(contract, obs)
         \/ /\ obs.kind = "bigint"
            /\ SupervisorVerdict(contract, obs) = Says("FAIL", "output_type")
<1>1. CASE contract.type \in OutputTypes
  <2>1. obs.kind # "bigint" =>
          (JsonMatches(contract.type, Parsed(obs.kind))
             <=> TypeMatches(contract.type, obs.kind))
    BY <1>1 DEF JsonMatches, Parsed, TypeMatches, PythonType, OutputTypes, Kinds
  <2>2. obs.kind = "bigint" /\ JsonMatches(contract.type, Parsed(obs.kind))
          => TypeMatches(contract.type, obs.kind)
    BY <1>1 DEF JsonMatches, Parsed, TypeMatches, PythonType
  <2> QED
    BY <2>1, <2>2 DEF SupervisorVerdict, CheckConformance
<1>2. CASE contract.type \notin OutputTypes
  BY <1>2 DEF SupervisorVerdict, CheckConformance
<1> QED
  BY <1>1, <1>2

(* A limit in place of none only adds a refusal over the latency.          *)
LEMMA LimitOnlyRefuses ==
  ASSUME NEW contract, NEW limited, NEW obs,
         limited.type = contract.type, limited.pure = contract.pure,
         contract.limit = NoLimit
  PROVE  \/ CheckConformance(limited, obs) = CheckConformance(contract, obs)
         \/ /\ Exceeds(obs.latency, limited.limit)
            /\ CheckConformance(contract, obs).status = "PASS"
            /\ CheckConformance(limited, obs) = Says("FAIL", "max_latency_ms")
  BY DEF CheckConformance, Exceeds, Says

(* The conformance theorem: whatever is saved between and during the two   *)
(* processes, the supervisor's answer to a run is what check_conformance   *)
(* says of it under the locked declaration, for every value that JSON      *)
(* carries without widening it, or a refusal over the latency limit of a   *)
(* request for a tool that declares none (verdict, type_matches, the       *)
(* fallback of judge_with_worker).                                         *)
THEOREM ConformanceTheorem == Spec => []VerdictIsConformance
<1>1. TypeInv /\ VerdictInv => VerdictIsConformance
  <2> DEFINE judged == Says(result.status, result.property)
             declared == req.source.contract
             conformance == CheckConformance(declared, child.obs)
  <2> SUFFICES ASSUME TypeInv, VerdictInv, Judged,
                      child.obs.kind \notin {"tuple", "odict"}
               PROVE  \/ judged = conformance
                      \/ /\ child.obs.kind = "bigint"
                         /\ judged = Says("FAIL", "output_type")
                      \/ /\ declared.limit = NoLimit
                         /\ Exceeds(child.obs.latency, req.limit)
                         /\ conformance.status = "PASS"
                         /\ judged = Says("FAIL", "max_latency_ms")
    BY DEF VerdictIsConformance
  <2>1. child.obs.kind \in Kinds /\ child.obs.kind # "nan"
    BY DEF TypeInv, Typed, ChildRecord, VerdictInv
  <2>2. judged = SupervisorVerdict(Limited, child.obs)
    BY DEF VerdictInv
  <2>3. \/ judged = CheckConformance(Limited, child.obs)
        \/ /\ child.obs.kind = "bigint"
           /\ judged = Says("FAIL", "output_type")
    BY <2>1, <2>2, KindsAgree
  <2>4. req.source \in Contents
    BY RequestFields DEF TypeInv, Typed, CodeInv, Judged, Slot
  <2>5. declared \in Contract
    BY <2>4, ContentFields
  <2>6. CASE declared.limit # NoLimit
    <3>1. Limited = declared
      BY <2>5, <2>6 DEF Limited, Contract
    <3> QED
      BY <2>3, <3>1
  <2>7. CASE declared.limit = NoLimit
    <3>1. /\ Limited.type = declared.type /\ Limited.pure = declared.pure
          /\ Limited.limit = req.limit
      BY <2>5, <2>7 DEF Limited, Contract
    <3> HIDE DEF judged, declared
    <3> QED
      BY <2>3, <2>7, <3>1, LimitOnlyRefuses
  <2> QED
    BY <2>6, <2>7
<1> QED
  BY <1>1, VerdictInvariant, PTL

-----------------------------------------------------------------------------
(* What is hashed and what is imported *)

(* The engine is found in one way only. *)
OneWay == req.env \/ ~Installed("site") \/ ~Installed("cwd")

LEMMA RootsAgree ==
  ASSUME OneWay, NEW p \in EngineRoots, NEW q \in EngineRoots,
         p # Absent, q # Absent
  PROVE  p = q
  BY DEF OneWay, EngineRoots, Located, Present, Installed

(* Nothing was written, and there is one place to look in: then root is    *)
(* that place, hashed as far as left says, and the process at work imports *)
(* from there.                                                             *)
PinInv ==
  edits = 0 /\ OneWay =>
    /\ pc \in {"runtime", "identify", "run"} =>
         /\ root \in EngineRoots /\ root # Absent
         /\ \A f \in left : req.runtime[f] # Absent
         /\ \A f \in Contour \ left : req.runtime[f] \in {Absent, engine[root][f]}
    /\ pc \in {"identify", "run"} => left = {}
    /\ Live => child.root = root
    /\ child.at \notin {"none", "boot", "dead"} => child.left = {}
    /\ child.at \notin {"none", "dead"} =>
         \A f \in Contour \ {Worker} :
           f \in child.left \/ req.runtime[f] \in {Absent, child.loaded[f]}

LEMMA PinSpawn ==
  ASSUME TypeInv, PinInv, NEW op \in {"identify", "run"}, Spawn(op),
         (pc = "runtime" /\ left = {}) \/ pc = "identify",
         UNCHANGED <<files, req, root, left>>
  PROVE  PinInv'
<1>1. PICK place \in EngineRoots :
        child' = IF place = Absent THEN Vanished(op) ELSE Process(op, place)
  BY DEF Spawn
<1>2. pc' = op
  BY DEF Spawn
<1>3. EngineRoots' = EngineRoots /\ OneWay' = OneWay /\ edits' = edits
  BY DEF EngineRoots, Located, Present, Installed, OneWay, files
<1>4. SUFFICES ASSUME edits = 0, OneWay PROVE PinInv'
  BY <1>3 DEF PinInv
<1>5. /\ root \in EngineRoots /\ root # Absent /\ left = {}
      /\ \A f \in Contour : req.runtime[f] \in {Absent, engine[root][f]}
  BY <1>4 DEF PinInv
<1>6. CASE place = Absent
  <2>1. child'.at = "dead"
    BY <1>1, <1>6 DEF Vanished, Process
  <2> QED
    BY <1>2, <1>3, <1>5, <2>1 DEF PinInv, Live, files
<1>7. CASE place # Absent
  <2>1. place = root
    BY <1>4, <1>5, <1>7, RootsAgree
  <2>2. /\ child'.at = "boot" /\ child'.root = root
        /\ child'.left = Contour \ {Worker}
    BY <1>1, <1>7, <2>1 DEF Process
  <2> QED
    BY <1>2, <1>3, <1>5, <2>2 DEF PinInv, Live, files
<1> QED
  BY <1>6, <1>7

LEMMA PinSupervise ==
  ASSUME TypeInv, OrderInv, PinInv, Supervise
  PROVE  PinInv'
<1>1. /\ UNCHANGED <<files, req>>
      /\ EngineRoots' = EngineRoots /\ OneWay' = OneWay /\ edits' = edits
      /\ engine' = engine
  BY DEF Supervise, ReadWorker, LocateRuntime, Conclude, HashRuntime,
         Identify, Bind, EngineRoots, Located, Present, Installed, OneWay, files
<1>2. CASE ReadWorker \/ Conclude
  BY <1>1, <1>2 DEF ReadWorker, Conclude, Respond, PinInv, Live
<1>3. CASE LocateRuntime
  <2>1. child' = child /\ ~Live
    BY <1>3 DEF LocateRuntime, OrderInv, Live
  <2>2. pc' \in {"runtime", "done"}
    BY <1>3 DEF LocateRuntime, Respond
  <2>3. pc' = "runtime" =>
          /\ root' \in EngineRoots /\ root' # Absent
          /\ left' = {f \in Paths : req.runtime[f] # Absent}
    BY <1>3 DEF LocateRuntime, Respond
  <2> QED
    BY <1>1, <2>1, <2>2, <2>3 DEF PinInv, Live, Paths
<1>4. ASSUME NEW f \in Paths, HashRuntime(f)
      PROVE  PinInv'
  <2>1. /\ child' = child /\ ~Live /\ root' = root /\ left' = left \ {f}
        /\ pc = "runtime" /\ pc' \in {"runtime", "done"} /\ f \in left
    BY <1>4 DEF HashRuntime, Respond, OrderInv, Live
  <2>2. ASSUME pc' = "runtime", edits = 0, OneWay
        PROVE  f \in Contour /\ engine[root][f] = req.runtime[f]
    <3>0. f \in Contour
      BY <1>4, <2>2 DEF HashRuntime, Respond, Paths
    <3>1. Installed(root)
      BY <2>1, <2>2, RootsInstalled DEF PinInv
    <3>2. engine[root][f] \in Versions
      BY <2>1, <2>2, <3>0, <3>1, EngineFiles DEF PinInv, TypeInv, Typed
    <3>3. \E digest \in Digests(engine[root][f]) : digest = req.runtime[f]
      BY <1>4, <2>2, <3>0, <3>1, SupervisorAssumption DEF HashRuntime, Respond
    <3> QED
      BY <2>1, <2>2, <3>0, <3>2, <3>3 DEF Digests, PinInv
  <2> QED
    BY <1>1, <2>1, <2>2 DEF PinInv, Live
<1>5. CASE Identify
  <2>1. CASE req.source = Absent
    BY <1>1, <1>5, <2>1 DEF Identify, Respond, PinInv, Live
  <2>2. CASE req.source # Absent
    BY <1>5, <2>2, PinSpawn DEF Identify
  <2> QED
    BY <2>1, <2>2
<1>6. CASE Bind
  <2>1. CASE Spawn("run")
    BY <1>6, <2>1, PinSpawn DEF Bind, PinInv
  <2>2. CASE child' = child /\ pc' = "done"
    BY <1>1, <1>6, <2>2 DEF Bind, PinInv, Live
  <2> QED
    BY <1>6, <2>1, <2>2 DEF Bind, Respond
<1> QED
  BY <1>2, <1>3, <1>4, <1>5, <1>6 DEF Supervise

(* The steps after the imports leave them alone. *)
LEMMA LaterImports ==
  ASSUME TypeInv, Work \/ WorkerDies, \A f \in Contour : ~WorkerImports(f)
  PROVE  /\ child'.root = child.root /\ child'.left = child.left
         /\ child'.loaded = child.loaded
         /\ child.at = "boot" /\ child'.at # "dead" => child.left = {}
<1> USE DEF TypeInv, Typed, ChildRecord, Works, Dead
<1>1. CASE WorkerGate \/ WorkerDynamic \/ WorkerCollect \/ WorkerDies
  BY <1>1 DEF WorkerGate, WorkerDynamic, WorkerCollect, WorkerDies
<1>2. CASE WorkerOrigin
  BY <1>2 DEF WorkerOrigin, Sealed
<1>3. CASE WorkerSeal
  BY <1>3 DEF WorkerSeal, Sealed
<1>4. CASE WorkerBodyDone \/ WorkerAnswers
  BY <1>4 DEF WorkerBodyDone, WorkerAnswers
<1>5. ASSUME NEW n \in Names, WorkerImportsModule(n) \/ WorkerDiscover(n)
      PROVE  /\ child'.root = child.root /\ child'.left = child.left
             /\ child'.loaded = child.loaded /\ child.at # "boot"
  BY <1>5 DEF WorkerImportsModule, WorkerDiscover
<1> QED
  BY <1>1, <1>2, <1>3, <1>4, <1>5 DEF Work

LEMMA PinWork ==
  ASSUME TypeInv, OrderInv, PinInv, Work \/ WorkerDies
  PROVE  PinInv'
<1>1. Live /\ UNCHANGED parent /\ child'.at # "none"
  BY WorkFrame
<1>2. UNCHANGED files
  BY DEF Work, WorkerDies, Works, WorkerGate, WorkerDynamic, WorkerCollect,
         WorkerOrigin, WorkerSeal, WorkerBodyDone, WorkerAnswers,
         WorkerImports, WorkerImportsModule, WorkerDiscover
<1>3. /\ EngineRoots' = EngineRoots /\ OneWay' = OneWay /\ edits' = edits
      /\ UNCHANGED <<engine, req, pc, root, left>>
  BY <1>1, <1>2 DEF EngineRoots, Located, Present, Installed, OneWay, files,
                    parent
<1>4. SUFFICES ASSUME edits = 0, OneWay PROVE PinInv'
  BY <1>3 DEF PinInv
<1>5. pc \in {"identify", "run"}
  BY <1>1 DEF OrderInv, Live, TypeInv, Typed
<1>6. /\ root \in EngineRoots /\ root # Absent /\ left = {}
      /\ child.root = root
      /\ \A f \in Contour : req.runtime[f] \in {Absent, engine[root][f]}
  BY <1>1, <1>4, <1>5 DEF PinInv
<1>7. ASSUME NEW f \in Contour, WorkerImports(f)
      PROVE  PinInv'
  <2>1. child.at = "boot"
    BY <1>7 DEF WorkerImports
  <2>2. Installed(child.root)
    BY <1>6, RootsInstalled
  <2>3. /\ child' = [child EXCEPT !.left = @ \ {f}, !.root = root,
                                  !.loaded[f] = engine[root][f]]
    BY <1>6, <1>7, <2>2 DEF WorkerImports, Works
  <2>4. /\ child'.at = "boot" /\ child'.root = root
        /\ child'.left = child.left \ {f}
        /\ child'.loaded = [child.loaded EXCEPT ![f] = engine[root][f]]
    BY <1>6, <2>1, <2>3 DEF TypeInv, Typed, ChildRecord
  <2>5. \A g \in Contour \ {Worker} :
          g \in child'.left \/ req.runtime[g] \in {Absent, child'.loaded[g]}
    BY <1>4, <1>6, <2>1, <2>4 DEF PinInv, TypeInv, Typed, ChildRecord
  <2> QED
    BY <1>3, <1>4, <1>5, <2>4, <2>5 DEF PinInv
<1>8. CASE \A f \in Contour : ~WorkerImports(f)
  <2>1. /\ child'.root = child.root /\ child'.left = child.left
        /\ child'.loaded = child.loaded
        /\ child.at = "boot" /\ child'.at # "dead" => child.left = {}
    BY <1>8, LaterImports
  <2> QED
    BY <1>1, <1>3, <1>4, <1>6, <2>1 DEF PinInv, Live
<1> QED
  BY <1>7, <1>8

LEMMA PinInvariant == Spec => [](TypeInv /\ OrderInv /\ PinInv)
<1>1. Init => PinInv
  <2>1. Init => child.at = "none" /\ pc = "start"
    BY DEF Init, Process
  <2> QED
    BY <2>1 DEF PinInv, Live
<1>2. TypeInv /\ TypeInv' /\ OrderInv /\ PinInv /\ [Next]_vars => PinInv'
  <2>1. Environment /\ TypeInv => PinInv'
    BY EnvironmentCounts DEF PinInv
  <2>2. UNCHANGED vars /\ PinInv => PinInv'
    BY DEF vars, files, parent, PinInv, Live, OneWay, EngineRoots, Located,
           Present, Installed
  <2> QED
    BY <2>1, <2>2, PinSupervise, PinWork DEF Next
<1> QED
  BY <1>1, <1>2, OrderInvariant, PTL DEF Spec

(* The import theorem: on a still tree with one engine to find, each file  *)
(* of the contour that the process of a PASS imported is the one that was  *)
(* hashed, though a search path and not bytes was handed to it (pin_       *)
(* runtime, spawn_worker).                                                 *)
THEOREM ImportTheorem == Spec => []PinnedIsImported
<1>1. OrderInv /\ PinInv => PinnedIsImported
  <2> SUFFICES ASSUME OrderInv, PinInv, edits = 0, result.status = "PASS",
                      OneWay, NEW f \in Contour \ {Worker}
               PROVE  req.runtime[f] \in {Absent, child.loaded[f]}
    BY DEF PinnedIsImported, OneWay
  <2>1. child.at = "done"
    BY DEF OrderInv
  <2> QED
    BY <2>1 DEF PinInv
<1> QED
  BY <1>1, PinInvariant, PTL

-----------------------------------------------------------------------------
(* A still tree *)

(* What Reachable says, with names for its parts: the files there are, the *)
(* ones among them that n imports, and the sets that no import leaves.     *)
OnDisk == {n \in Names : disk[n] # Absent}
LocalImports(n) == disk[n].imports \cap OnDisk
Closed(S) == /\ LocalImports(ToolName) \subseteq S
             /\ \A n \in S : LocalImports(n) \subseteq S
Reached == {n \in OnDisk : \A S \in SUBSET OnDisk : Closed(S) => n \in S}

LEMMA ReachableIs ==
  Reachable = [n \in Names |-> IF n \in Reached \ {ToolName} THEN disk[n]
                               ELSE Absent]
  BY DEF Reachable, Reached, Closed, LocalImports, OnDisk

(* The walk: each file it read is as it is on the disk and reached by      *)
(* imports; what a file it read imports was read or is to be.              *)
HasRead == {n \in Names : child.got[n] # Absent}

Walked ==
  /\ ToolName \in child.todo \cup HasRead
  /\ \A n \in HasRead : /\ child.got[n] = disk[n]
                     /\ LocalImports(n) \subseteq child.todo \cup HasRead
  /\ \A S \in SUBSET OnDisk :
       Closed(S) => \A n \in child.todo \cup HasRead : n = ToolName \/ n \in S

StillInv ==
  edits = 0 =>
    /\ child.at \notin {"none", "boot", "dead"} => disk[ToolName] = req.source
    /\ child.at \in {"boot", "load", "dynamic", "collect", "origin"} =>
         child.got = Unsealed
    /\ child.at = "discover" => Walked
    /\ child.at \in {"body", "answer", "done"} =>
         Reachable = [n \in Names |-> Locked(n)]
    /\ child.at = "done" => child.hash = req.source.canon
    /\ result.status = "PASS" => child.hash = ident

(* A walk that has ended found what is reachable. *)
LEMMA WalkEnds ==
  ASSUME TypeInv, Walked, child.todo = {}
  PROVE  Reachable = [child.got EXCEPT ![ToolName] = Absent]
<1>1. \A n \in HasRead : child.got[n] = disk[n] /\ n \in OnDisk
  BY DEF Walked, HasRead, OnDisk
<1>2. HasRead \in SUBSET OnDisk /\ Closed(HasRead)
  BY <1>1 DEF Walked, Closed
<1>3. ASSUME NEW n \in Names \ {ToolName}
      PROVE  n \in Reached <=> n \in HasRead
  BY <1>1, <1>2 DEF Walked, Reached
<1>4. ASSUME NEW n \in Names
      PROVE  Reachable[n] = [child.got EXCEPT ![ToolName] = Absent][n]
  <2>1. child.got \in [Names -> Slot]
    BY DEF TypeInv, Typed, ChildRecord
  <2>2. CASE n = ToolName
    BY <2>1, <2>2, ReachableIs
  <2>3. CASE n # ToolName
    BY <1>1, <1>3, <2>1, <2>3, ReachableIs DEF HasRead
  <2> QED
    BY <2>2, <2>3
<1>5. [child.got EXCEPT ![ToolName] = Absent] = [n \in Names |->
         [child.got EXCEPT ![ToolName] = Absent][n]]
  BY DEF TypeInv, Typed, ChildRecord
<1>6. Reachable = [n \in Names |-> Reachable[n]]
  BY ReachableIs
<1> QED
  BY <1>4, <1>5, <1>6

LEMMA ReachableFrame == UNCHANGED disk => UNCHANGED Reachable
  BY DEF Reachable

LEMMA WalkedFrame ==
  UNCHANGED disk => UNCHANGED OnDisk /\ (\A n : UNCHANGED LocalImports(n))
                    /\ (\A S : UNCHANGED Closed(S))
  BY DEF OnDisk, LocalImports, Closed

LEMMA StillFrame ==
  UNCHANGED <<disk, req, child>> =>
    UNCHANGED <<Walked, Reachable, [n \in Names |-> Locked(n)]>>
<1> SUFFICES ASSUME UNCHANGED <<disk, req, child>>
             PROVE  UNCHANGED <<Walked, Reachable, [n \in Names |-> Locked(n)]>>
  OBVIOUS
<1>1. /\ UNCHANGED OnDisk /\ (\A n : UNCHANGED LocalImports(n))
      /\ (\A S : UNCHANGED Closed(S))
  BY WalkedFrame
<1>2. UNCHANGED HasRead
  BY DEF HasRead
<1>3. UNCHANGED Walked
  BY <1>1, <1>2 DEF Walked
<1> QED
  BY <1>3, ReachableFrame DEF Locked

(* One file of the walk. *)
LEMMA StillDiscover ==
  ASSUME TypeInv, Walked, NEW n \in Names, WorkerDiscover(n),
         disk[ToolName] = req.source
  PROVE  Walked' /\ child'.at = "discover"
<1> DEFINE c == IF n = ToolName THEN child.code ELSE disk[n]
<1>1. /\ child.at = "discover" /\ n \in child.todo /\ disk' = disk
      /\ child'.at = "discover"
  BY DEF WorkerDiscover, Works, TypeInv, Typed, ChildRecord, files
<1>2. child.code = req.source /\ c = disk[n] /\ disk[ToolName] # Absent
  BY <1>1 DEF TypeInv, CodeInv
<1>3. /\ OnDisk' = OnDisk /\ (\A m : LocalImports(m)' = LocalImports(m))
      /\ \A S : Closed(S)' = Closed(S)
  BY <1>1, WalkedFrame
<1>4. CASE disk[n] = Absent
  <2>1. child'.todo = child.todo \ {n} /\ child'.got = child.got
    BY <1>4 DEF WorkerDiscover, Works, TypeInv, Typed, ChildRecord
  <2>2. HasRead' = HasRead
    BY <2>1 DEF HasRead
  <2>3. n # ToolName /\ n \notin OnDisk
    BY <1>2, <1>4 DEF OnDisk
  <2>4. \A m : n \notin LocalImports(m)
    BY <2>3 DEF LocalImports
  <2>5. ToolName \in child'.todo \cup HasRead'
    BY <2>1, <2>2, <2>3 DEF Walked
  <2>6. \A m \in HasRead' : /\ child'.got[m] = disk'[m]
                         /\ LocalImports(m)' \subseteq child'.todo \cup HasRead'
    BY <1>1, <1>3, <2>1, <2>2, <2>4 DEF Walked
  <2>7. \A S \in SUBSET OnDisk' : Closed(S)' =>
          \A m \in child'.todo \cup HasRead' : m = ToolName \/ m \in S
    BY <1>3, <2>1, <2>2 DEF Walked
  <2> QED
    BY <1>1, <2>5, <2>6, <2>7 DEF Walked
<1>5. CASE disk[n] # Absent
  <2>1. /\ child'.todo = (child.todo \cup Found(n, c)) \ {n}
        /\ child'.got = [child.got EXCEPT ![n] = c]
    BY <1>5 DEF WorkerDiscover, Works, TypeInv, Typed, ChildRecord
  <2>2. c = disk[n] /\ c \in Contents
    BY <1>2, <1>5 DEF TypeInv, Typed, Slot
  <2>3. Found(n, c) = {m \in LocalImports(n) : child.got[m] = Absent}
    <3>1. c.imports \subseteq Names
      BY <2>2, ContentFields
    <3> QED
      BY <2>2, <3>1 DEF Found, Resolved, LocalImports, OnDisk
  <2> HIDE DEF c
  <2>4. \A m \in Names : child'.got[m] = IF m = n THEN disk[n] ELSE child.got[m]
    BY <2>1, <2>2 DEF TypeInv, Typed, ChildRecord
  <2>5. HasRead' = HasRead \cup {n}
    BY <1>5, <2>4 DEF HasRead
  <2>6. LocalImports(n) \subseteq child'.todo \cup HasRead'
    <3>1. LocalImports(n) \subseteq Names
      BY DEF LocalImports, OnDisk
    <3> QED
      BY <2>1, <2>3, <2>5, <3>1 DEF HasRead
  <2>7. child'.todo \cup HasRead' \subseteq child.todo \cup HasRead \cup LocalImports(n)
    BY <1>1, <2>1, <2>3, <2>5
  <2>8. child.todo \cup HasRead \subseteq child'.todo \cup HasRead'
    BY <2>1, <2>5
  <2>9. \A m \in HasRead' : /\ child'.got[m] = disk'[m]
                         /\ LocalImports(m)' \subseteq child'.todo \cup HasRead'
    <3>1. ASSUME NEW m \in HasRead', m # n
          PROVE  child'.got[m] = disk[m] /\ LocalImports(m) \subseteq child.todo \cup HasRead
      BY <2>4, <2>5, <3>1 DEF Walked, HasRead
    <3>2. child'.got[n] = disk[n]
      BY <2>4
    <3> QED
      BY <1>1, <1>3, <2>6, <2>8, <3>1, <3>2
  <2>10. ASSUME NEW S \in SUBSET OnDisk, Closed(S)
         PROVE  \A m \in child'.todo \cup HasRead' : m = ToolName \/ m \in S
    <3>1. n = ToolName \/ n \in S
      BY <1>1, <2>10 DEF Walked
    <3>2. LocalImports(n) \subseteq S
      BY <2>10, <3>1 DEF Closed
    <3> QED
      BY <2>7, <2>10, <3>2 DEF Walked
  <2>11. ToolName \in child'.todo \cup HasRead'
    BY <2>8 DEF Walked
  <2> QED
    BY <1>1, <1>3, <2>9, <2>10, <2>11 DEF Walked
<1> QED
  BY <1>4, <1>5

(* The start of the walk. *)
LEMMA StillOrigin ==
  ASSUME TypeInv, WorkerOrigin, disk[ToolName] = req.source,
         child.got = Unsealed
  PROVE  Walked' /\ child'.at = "discover"
<1>1. disk[ToolName] # Absent
  BY DEF WorkerOrigin, TypeInv, CodeInv
<1>2. /\ child'.at = "discover" /\ child'.todo = {ToolName}
      /\ child'.got = Unsealed
  BY <1>1 DEF WorkerOrigin, Works, TypeInv, Typed, ChildRecord
<1>3. HasRead' = {}
  BY <1>2 DEF HasRead, Unsealed
<1> QED
  BY <1>2, <1>3 DEF Walked

LEMMA StillSeal ==
  ASSUME TypeInv, WorkerSeal, Walked
  PROVE  \/ child'.at = "dead"
         \/ /\ child'.at \in {"body", "answer"}
            /\ Reachable = [n \in Names |-> Locked(n)]
<1> DEFINE deps == [child.got EXCEPT ![ToolName] = Absent]
<1>1. child.todo = {}
  BY DEF WorkerSeal
<1>2. Reachable = deps
  BY <1>1, WalkEnds
<1> DEFINE fails == \E n \in Names : deps[n] # Absent /\ deps[n].fails
<1>3. CASE deps = [n \in Names |-> Locked(n)] /\ ~fails
  <2>1. child' = Sealed([child EXCEPT !.sealed = deps])
    BY <1>3 DEF WorkerSeal, Works
  <2>2. child'.at \in {"body", "answer"}
    BY <2>1 DEF Sealed, TypeInv, Typed, ChildRecord
  <2> QED
    BY <1>2, <1>3, <2>2
<1>4. CASE deps # [n \in Names |-> Locked(n)] \/ fails
  BY <1>4 DEF WorkerSeal, Works, Dead, TypeInv, Typed, ChildRecord
<1> QED
  BY <1>3, <1>4

LEMMA StillWork ==
  ASSUME TypeInv, OrderInv, StillInv, Work \/ WorkerDies
  PROVE  StillInv'
<1>1. Live /\ UNCHANGED parent
  BY WorkFrame
<1>2. UNCHANGED files
  BY DEF Work, WorkerDies, Works, WorkerGate, WorkerDynamic, WorkerCollect,
         WorkerOrigin, WorkerSeal, WorkerBodyDone, WorkerAnswers,
         WorkerImports, WorkerImportsModule, WorkerDiscover
<1>3. /\ UNCHANGED <<disk, edits, req, ident, result>>
      /\ Reachable' = Reachable /\ \A n \in Names : Locked(n)' = Locked(n)
  BY <1>1, <1>2, ReachableFrame DEF files, parent, Locked
<1>4. result.status # "PASS"
  BY <1>1 DEF OrderInv, Live
<1>5. SUFFICES ASSUME edits = 0 PROVE StillInv'
  BY <1>3 DEF StillInv
<1> USE DEF TypeInv, Typed, ChildRecord, Works, Dead
<1>6. CASE WorkerGate
  <2>1. child.at = "boot" /\ child.got = Unsealed
    BY <1>5, <1>6 DEF WorkerGate, StillInv
  <2> QED
    BY <1>3, <1>4, <1>5, <1>6, <2>1 DEF WorkerGate, StillInv
<1>7. CASE WorkerDynamic \/ WorkerCollect \/ WorkerDies \/ WorkerBodyDone
  <2>1. /\ child'.got = child.got
        /\ \/ child'.at = "dead"
           \/ child.at \in {"load", "collect"} /\ child'.at \in {"collect", "origin"}
           \/ child.at = "body" /\ child'.at = "answer"
    BY <1>7 DEF WorkerDynamic, WorkerCollect, WorkerDies, WorkerBodyDone
  <2> QED
    BY <1>3, <1>4, <1>5, <2>1 DEF StillInv
<1>8. CASE WorkerOrigin
  BY <1>3, <1>4, <1>5, <1>8, StillOrigin DEF WorkerOrigin, StillInv
<1>9. CASE WorkerSeal
  <2>1. Walked /\ disk[ToolName] = req.source
    BY <1>5, <1>9 DEF WorkerSeal, StillInv
  <2>2. \/ child'.at = "dead"
        \/ /\ child'.at \in {"body", "answer"}
           /\ Reachable = [n \in Names |-> Locked(n)]
    BY <1>9, <2>1, StillSeal
  <2>3. Reachable = [n \in Names |-> Locked(n)] =>
          Reachable' = [n \in Names |-> Locked(n)']
    BY <1>3
  <2> QED
    BY <1>3, <1>4, <2>1, <2>2, <2>3 DEF StillInv
<1>10. CASE WorkerAnswers
  <2>1. disk[ToolName] = req.source /\ req.source # Absent
    BY <1>5, <1>10 DEF WorkerAnswers, StillInv, CodeInv
  <2> QED
    BY <1>3, <1>4, <1>5, <1>10, <2>1 DEF WorkerAnswers, StillInv
<1>11. ASSUME NEW n \in Names, WorkerDiscover(n)
       PROVE  StillInv'
  BY <1>3, <1>4, <1>5, <1>11, StillDiscover DEF WorkerDiscover, StillInv
<1>12. ASSUME NEW n \in Names, WorkerImportsModule(n)
       PROVE  StillInv'
  <2>1. child'.at = child.at /\ child'.got = child.got /\ child.at \in {"load", "body"}
    BY <1>12 DEF WorkerImportsModule
  <2> QED
    BY <1>3, <1>4, <1>5, <2>1 DEF StillInv
<1>13. ASSUME NEW f \in Contour, WorkerImports(f)
       PROVE  StillInv'
  <2>1. /\ child.at = "boot" /\ child'.at \in {"boot", "dead"}
        /\ child'.got = child.got
    BY <1>13 DEF WorkerImports
  <2> QED
    BY <1>3, <1>4, <1>5, <2>1 DEF StillInv
<1> QED
  BY <1>6, <1>7, <1>8, <1>9, <1>10, <1>11, <1>12, <1>13 DEF Work

LEMMA StillSupervise ==
  ASSUME TypeInv, OrderInv, OrderInv', StillInv, Supervise
  PROVE  StillInv'
<1>1. UNCHANGED <<disk, edits, req>>
  BY DEF Supervise, ReadWorker, LocateRuntime, Conclude, HashRuntime, Identify,
         Bind, files
<1>2. SUFFICES ASSUME edits = 0 PROVE StillInv'
  BY <1>1 DEF StillInv
<1>3. result'.status = "PASS" => child'.hash = ident'
  <2>1. CASE Conclude
    BY <2>1 DEF Conclude, Respond, OrderInv
  <2>2. CASE ~Conclude
    <3>1. result'.status # "PASS"
      <4>1. BindTo(child.hash).status # "PASS"
        BY DEF BindTo
      <4>2. result.status # "PASS"
        BY <2>2 DEF OrderInv, Supervise, ReadWorker, LocateRuntime, HashRuntime,
                    Identify, Bind
      <4> QED
        BY <2>2, <4>1, <4>2
           DEF Supervise, ReadWorker, LocateRuntime, HashRuntime, Identify,
               Bind, Spawn, Respond
    <3> QED
      BY <3>1
  <2> QED
    BY <2>1, <2>2
<1>4. CASE child' = child
  BY <1>1, <1>2, <1>3, <1>4, StillFrame DEF StillInv
<1>5. CASE child' # child
  <2>1. PICK op \in {"identify", "run"} : Spawn(op) /\ req.source # Absent
    BY <1>5 DEF Supervise, ReadWorker, LocateRuntime, Conclude, HashRuntime,
                Identify, Bind, TypeInv, CodeInv
  <2>2. /\ child'.at \in {"boot", "dead"}
        /\ \E place : child' = Process(op, place) \/ child' = Vanished(op)
    BY <1>1, <2>1, SpawnType
  <2>3. child'.at = "boot" => child'.got = Unsealed
    <3>1. \A place : Process(op, place).got = Unsealed
      BY DEF Process
    <3>2. Vanished(op).at = "dead"
      BY DEF Vanished, Process
    <3> QED
      BY <2>2, <3>1, <3>2
  <2> QED
    BY <1>3, <2>2, <2>3 DEF StillInv
<1> QED
  BY <1>4, <1>5

LEMMA StillInvariant == Spec => [](TypeInv /\ OrderInv /\ StillInv)
<1>1. Init => StillInv
  <2>1. Init => child.at = "none" /\ result.status = "none"
    BY DEF Init, Process
  <2> QED
    BY <2>1 DEF StillInv
<1>2. TypeInv /\ TypeInv' /\ OrderInv /\ OrderInv' /\ StillInv /\ [Next]_vars
        => StillInv'
  <2>1. Environment /\ TypeInv => StillInv'
    BY EnvironmentCounts DEF StillInv
  <2>2. UNCHANGED vars /\ StillInv => StillInv'
    BY StillFrame DEF StillInv, vars, files, parent
  <2> QED
    BY <2>1, <2>2, StillSupervise, StillWork DEF Next
<1> QED
  BY <1>1, <1>2, OrderInvariant, PTL DEF Spec

(* The tree theorem: where nothing is saved, a PASS means that the tool,   *)
(* the canon of its body and each file that imports reach are the locked   *)
(* ones: what the two processes check, one after the other and each for    *)
(* itself, is what one binding checks (judge_with_worker, handle).         *)
THEOREM TreeTheorem == Spec => []StillTreeAgrees
<1>1. TypeInv /\ OrderInv /\ StillInv => StillTreeAgrees
  <2> SUFFICES ASSUME TypeInv, OrderInv, StillInv,
                      edits = 0, result.status = "PASS"
               PROVE  /\ disk[ToolName] = req.source
                      /\ disk[ToolName].canon = req.body
                      /\ Reachable = [n \in Names |-> Locked(n)]
    BY DEF StillTreeAgrees
  <2>1. child.at = "done" /\ child.op = "run" /\ ident = req.body
    BY DEF OrderInv
  <2> QED
    BY <2>1 DEF StillInv
<1> QED
  BY <1>1, StillInvariant, PTL

-----------------------------------------------------------------------------
(* No false refusal *)

(* No tool that is asked for imports its own file: the one before the seal *)
(* would take it for a local import that has no hash (WorkerCollect).      *)
Outward == \A r \in Requests :
             r.source # Absent => ToolName \notin r.source.imports

(* Deaths and refusals that are not over a hash, or that the lock allows.  *)
Accidents == {"other", "dynamic_import"}

(* On a still tree a process dies of an accident or for what entitles the  *)
(* supervisor to refuse, and both processes hash the same file.            *)
RefusalInv ==
  edits = 0 =>
    /\ pc = "runtime" => root # Absent /\ \A f \in left : req.runtime[f] # Absent
    /\ child.at = "dead" => child.err \in Accidents \/ Entitled
    /\ pc = "run" => ident = req.source.canon
    /\ result.status = "FAIL" =>
         result.err \in Accidents \/ Entitled \/ Judged

LEMMA EntitledFrame == UNCHANGED <<disk, engine, req>> => UNCHANGED Entitled
<1> SUFFICES ASSUME UNCHANGED <<disk, engine, req>> PROVE UNCHANGED Entitled
  OBVIOUS
<1>1. UNCHANGED Reachable
  BY ReachableFrame
<1>2. UNCHANGED DepsForwarded
  BY DEF DepsForwarded
<1> QED
  BY <1>1, <1>2 DEF Entitled, Installed

(* Where the two fields of the request agree, they are what Locked reads.  *)
LEMMA ForwardedIsLocked ==
  ASSUME DepsForwarded
  PROVE  [n \in Names |-> IF req.modDeps[n] = Absent THEN req.deps[n]
                          ELSE req.modDeps[n]] = [n \in Names |-> Locked(n)]
  BY DEF DepsForwarded, Locked

LEMMA LockDenied ==
  ASSUME Reachable # [n \in Names |-> Locked(n)]
  PROVE  Entitled
  BY ForwardedIsLocked DEF Entitled

LEMMA EngineDenied ==
  ASSUME NEW place \in Places, Installed(place),
         \/ engine[place][Worker] # req.worker
         \/ \E f \in Contour : req.runtime[f] \notin {Absent, engine[place][f]}
  PROVE  Entitled
<1>1. \E p \in Places :
        /\ Installed(p)
        /\ \/ engine[p][Worker] # req.worker
           \/ \E f \in Contour : req.runtime[f] \notin {Absent, engine[p][f]}
  OBVIOUS
<1> QED
  BY <1>1 DEF Entitled

LEMMA StrayDenied ==
  ASSUME NEW f \in Strays, req.runtime[f] # Absent
  PROVE  Entitled
  BY DEF Entitled

(* A direct import that is there is reachable.                             *)
LEMMA DirectIsReachable ==
  ASSUME NEW n \in LocalImports(ToolName), n # ToolName
  PROVE  n \in Names /\ Reachable[n] = disk[n] /\ disk[n] # Absent
<1>1. n \in Names /\ disk[n] # Absent /\ n \in OnDisk
  BY DEF LocalImports, OnDisk
<1>2. n \in Reached
  BY <1>1 DEF Reached, Closed
<1> QED
  BY <1>1, <1>2, ReachableIs

(* The refusal of a tool whose imports have no hash at all.                *)
LEMMA CollectRefuses ==
  ASSUME Outward, TypeInv, disk[ToolName] = req.source,
         child.code = req.source, disk[ToolName] # Absent,
         Resolved(child.code) # {}, \A n \in Names : Locked(n) = Absent
  PROVE  Entitled
<1>1. req.source \in Contents /\ req \in Requests
  BY RequestFields DEF TypeInv, Typed, Slot
<1>2. ToolName \notin child.code.imports /\ child.code.imports \subseteq Names
  BY <1>1, ContentFields DEF Outward
<1>3. PICK n \in child.code.imports : disk[n] # Absent
  BY DEF Resolved
<1>4. n \in LocalImports(ToolName) /\ n # ToolName
  BY <1>2, <1>3 DEF LocalImports, OnDisk
<1>5. n \in Names /\ Reachable[n] # Absent
  BY <1>4, DirectIsReachable
<1>6. Reachable # [m \in Names |-> Locked(m)]
  BY <1>5
<1> QED
  BY <1>6, LockDenied

(* A step of the worker: what it may die of.                               *)
LEMMA RefusalWork ==
  ASSUME Outward, TypeInv, OrderInv, StillInv, RefusalInv, edits = 0,
         Work \/ WorkerDies
  PROVE  child'.at = "dead" => child'.err \in Accidents \/ Entitled
<1>1. Live /\ child.at # "dead"
  BY WorkFrame DEF Live
<1> USE DEF TypeInv, Typed, ChildRecord, Works, Dead
<1>2. CASE WorkerGate
  BY <1>1, <1>2 DEF WorkerGate, Entitled
<1>3. CASE WorkerDynamic \/ WorkerDies \/ WorkerBodyDone \/ WorkerAnswers
  BY <1>1, <1>3
     DEF WorkerDynamic, WorkerDies, WorkerBodyDone, WorkerAnswers, Accidents
<1>4. CASE WorkerCollect
  <2>1. child.code = req.source /\ disk[ToolName] = req.source
    BY <1>4 DEF WorkerCollect, CodeInv, StillInv
  <2>2. CASE /\ disk[ToolName] # Absent /\ Resolved(child.code) # {}
             /\ \A n \in Names : Locked(n) = Absent
    BY <2>1, <2>2, CollectRefuses
  <2>3. CASE ~(/\ disk[ToolName] # Absent /\ Resolved(child.code) # {}
               /\ \A n \in Names : Locked(n) = Absent)
    BY <1>4, <2>3 DEF WorkerCollect
  <2> QED
    BY <2>2, <2>3
<1>5. CASE WorkerOrigin
  BY <1>1, <1>5 DEF WorkerOrigin, Sealed
<1>6. CASE WorkerSeal
  <2>1. child.todo = {} /\ Walked
    BY <1>6 DEF WorkerSeal, StillInv
  <2>2. Reachable = [child.got EXCEPT ![ToolName] = Absent]
    BY <2>1, WalkEnds
  <2>3. CASE Reachable = [n \in Names |-> Locked(n)]
    <3>1. \/ child' = Sealed([child EXCEPT !.sealed = Reachable])
          \/ child' = Dead("other")
      BY <1>6, <2>2, <2>3 DEF WorkerSeal
    <3> QED
      BY <3>1 DEF Sealed, Accidents
  <2>4. CASE Reachable # [n \in Names |-> Locked(n)]
    BY <2>4, LockDenied
  <2> QED
    BY <2>3, <2>4
<1>7. ASSUME NEW f \in Contour, WorkerImports(f)
      PROVE  child'.at = "dead" => child'.err \in Accidents
  BY <1>1, <1>7 DEF WorkerImports, Accidents
<1>8. ASSUME NEW n \in Names, WorkerImportsModule(n) \/ WorkerDiscover(n)
      PROVE  child'.at # "dead"
  BY <1>1, <1>8 DEF WorkerImportsModule, WorkerDiscover
<1> QED
  BY <1>2, <1>3, <1>4, <1>5, <1>6, <1>7, <1>8 DEF Work

(* What becomes of the supervisor before there is a process.               *)
LEMMA RefusalPins ==
  ASSUME TypeInv, OrderInv, RefusalInv, edits = 0,
         ReadWorker \/ LocateRuntime \/ \E f \in Paths : HashRuntime(f)
  PROVE  /\ pc' = "runtime" =>
              root' # Absent /\ \A f \in left' : req.runtime[f] # Absent
         /\ result'.status = "FAIL" => result'.err \in Accidents \/ Entitled
<1>1. pc # "done" /\ result.status = "none"
  BY DEF ReadWorker, LocateRuntime, HashRuntime, OrderInv, TypeInv, Typed, Statuses
<1> USE DEF Respond, Accidents
<1>2. CASE ReadWorker
  <2>1. pc' # "runtime"
    BY <1>2 DEF ReadWorker
  <2>2. CASE result'.status = "FAIL" /\ result'.err # "other"
    <3>1. PICK place \in EngineRoots :
            /\ place # Absent
            /\ engine[place][Worker] # req.worker
      BY <1>1, <1>2, <2>2 DEF ReadWorker, Digests
    <3>2. place \in Places /\ Installed(place)
      BY <3>1, RootsType, RootsInstalled DEF TypeInv, Typed
    <3> QED
      BY <2>1, <3>1, <3>2, EngineDenied
  <2> QED
    BY <2>1, <2>2
<1>3. CASE LocateRuntime
  BY <1>1, <1>3 DEF LocateRuntime
<1>4. ASSUME NEW f \in Paths, HashRuntime(f)
      PROVE  /\ pc' = "runtime" =>
                  root' # Absent /\ \A g \in left' : req.runtime[g] # Absent
             /\ result'.status = "FAIL" => result'.err \in Accidents \/ Entitled
  <2>1. /\ pc = "runtime" /\ root' = root /\ root \in Places /\ root # Absent
        /\ left' \subseteq left /\ req.runtime[f] # Absent
    BY <1>4 DEF HashRuntime, RefusalInv, TypeInv, Typed
  <2>2. ASSUME result'.status = "FAIL", result'.err # "other"
        PROVE  Entitled
    <3>1. CASE f \in Strays
      BY <2>1, <3>1, StrayDenied
    <3>2. CASE f \in Contour
      <4>1. Installed(root) /\ engine[root][f] # req.runtime[f]
        BY <1>1, <1>4, <2>2, <3>2, SupervisorAssumption DEF HashRuntime, Digests
      <4>2. \E g \in Contour : req.runtime[g] \notin {Absent, engine[root][g]}
        BY <2>1, <3>2, <4>1
      <4> QED
        BY <2>1, <4>1, <4>2, EngineDenied
    <3> QED
      BY <3>1, <3>2 DEF Paths
  <2> QED
    BY <2>1, <2>2 DEF RefusalInv
<1> QED
  BY <1>2, <1>3, <1>4

(* What becomes of it when a process starts or has ended.                  *)
LEMMA RefusalAnswers ==
  ASSUME TypeInv, OrderInv, StillInv, RefusalInv, edits = 0,
         Identify \/ Bind \/ Conclude
  PROVE  /\ pc' # "runtime"
         /\ child'.at = "dead" => child'.err \in Accidents \/ Entitled
         /\ pc' = "run" => ident' = req.source.canon
         /\ result'.status = "FAIL" =>
              result'.err \in Accidents \/ Entitled \/ Judged'
<1>1. pc # "done" /\ result.status = "none"
  BY DEF Identify, Bind, Conclude, OrderInv, TypeInv, Typed, Statuses
<1>2. ASSUME NEW op \in {"identify", "run"}, Spawn(op)
      PROVE  /\ pc' = op /\ result' = result
             /\ child'.at = "dead" => child'.err \in Accidents
  BY <1>2 DEF Spawn, Vanished, Process, Accidents
<1>3. child.at = "done" => child.hash = req.source.canon
                           /\ disk[ToolName] = req.source
  BY DEF StillInv
<1>4. child.at = "dead" => child.err \in Accidents \/ Entitled
  BY DEF RefusalInv
<1>5. CASE Identify
  <2>1. CASE req.source = Absent
    BY <1>4, <1>5, <2>1 DEF Identify, Respond
  <2>2. CASE req.source # Absent
    BY <1>1, <1>2, <1>5, <2>2 DEF Identify
  <2> QED
    BY <2>1, <2>2
<1>6. CASE Bind /\ child.at = "dead"
  BY <1>4, <1>6 DEF Bind, Respond
<1>7. CASE Bind /\ child.at = "done"
  <2>1. ident' = child.hash
    BY <1>7 DEF Bind
  <2>2. CASE req.claimed \notin {Absent, child.hash}
    <3>1. Entitled
      BY <1>3, <1>7, <2>2 DEF Entitled
    <3> QED
      BY <1>7, <2>2, <3>1 DEF Bind, Respond
  <2>3. CASE /\ req.claimed \in {Absent, child.hash}
             /\ BindTo(child.hash).status # "BOUND"
    <3>1. BindTo(child.hash).status = "FAIL" => Entitled
      BY <1>3, <1>7 DEF BindTo, Entitled
    <3>2. /\ pc' = "done" /\ child' = child
          /\ result'.status = BindTo(child.hash).status
      BY <1>7, <2>3 DEF Bind, Respond
    <3> QED
      BY <1>7, <3>1, <3>2
  <2>4. CASE /\ req.claimed \in {Absent, child.hash}
             /\ BindTo(child.hash).status = "BOUND"
    <3>1. Spawn("run")
      BY <1>7, <2>4 DEF Bind
    <3> QED
      BY <1>1, <1>2, <1>3, <1>7, <2>1, <3>1
  <2> QED
    BY <2>2, <2>3, <2>4
<1>8. CASE Conclude
  <2>1. /\ pc = "run" /\ pc' = "done" /\ child' = child /\ ident' = ident
        /\ child.at \in {"done", "dead"} /\ child.op = "run"
    BY <1>8 DEF Conclude, Respond, OrderInv
  <2>2. CASE child.at = "dead"
    <3>1. result'.err = child.err
      BY <1>8, <2>2 DEF Conclude, Respond
    <3> QED
      BY <1>4, <2>1, <2>2, <3>1
  <2>3. CASE child.at = "done"
    <3>1. child.hash = ident
      BY <1>3, <2>1, <2>3 DEF RefusalInv
    <3> QED
      BY <2>1, <2>3, <3>1 DEF Judged
  <2> QED
    BY <2>1, <2>2, <2>3
<1> QED
  BY <1>5, <1>6, <1>7, <1>8 DEF Bind

LEMMA RefusalStep ==
  ASSUME Outward, TypeInv, OrderInv, OrderInv', StillInv, RefusalInv,
         [Next]_vars
  PROVE  RefusalInv'
<1>1. CASE Environment
  BY <1>1, EnvironmentCounts DEF RefusalInv
<1>2. CASE UNCHANGED vars
  BY <1>2, EntitledFrame DEF RefusalInv, Judged, vars, files, parent
<1>3. CASE Work \/ WorkerDies
  <2>1. Live /\ UNCHANGED parent
    BY <1>3, WorkFrame
  <2>2. UNCHANGED files
    BY <1>3
       DEF Work, WorkerDies, Works, WorkerGate, WorkerDynamic, WorkerCollect,
           WorkerOrigin, WorkerSeal, WorkerBodyDone, WorkerAnswers,
           WorkerImports, WorkerImportsModule, WorkerDiscover
  <2>3. UNCHANGED Entitled
    BY <2>1, <2>2, EntitledFrame DEF files, parent
  <2>4. result.status # "FAIL"
    BY <2>1 DEF OrderInv, Live
  <2> QED
    BY <1>3, <2>1, <2>2, <2>3, <2>4, RefusalWork DEF RefusalInv, files, parent
<1>4. CASE ReadWorker \/ LocateRuntime \/ \E f \in Paths : HashRuntime(f)
  <2>1. /\ UNCHANGED <<files, req, child>> /\ pc' # "run"
        /\ pc \in {"start", "locate", "runtime"}
    BY <1>4 DEF ReadWorker, LocateRuntime, HashRuntime, Respond
  <2>2. UNCHANGED Entitled
    BY <2>1, EntitledFrame DEF files
  <2> QED
    BY <1>4, <2>1, <2>2, RefusalPins DEF RefusalInv, OrderInv, files
<1>5. CASE Identify \/ Bind \/ Conclude
  <2>1. UNCHANGED <<files, req>>
    BY <1>5 DEF Identify, Bind, Conclude
  <2>2. UNCHANGED Entitled
    BY <2>1, EntitledFrame DEF files
  <2> QED
    BY <1>5, <2>1, <2>2, RefusalAnswers DEF RefusalInv, files
<1> QED
  BY <1>1, <1>2, <1>3, <1>4, <1>5 DEF Next, Supervise

(* The refusal theorem: on a still tree, whatever the tool's helpers       *)
(* import, each other and the tool among them, a request the tree agrees   *)
(* with is not refused by a hash, of the engine, of the tool, of its body  *)
(* or of a dependency: what the two walks of the worker find is what the   *)
(* lock names (judge_with_worker, handle, _walk, _discover).               *)
THEOREM FreshTheorem == ASSUME Outward PROVE Spec => []NoFalseRefusal
<1>1. Init => RefusalInv
  <2>1. Init => child.at = "none" /\ result.status = "none" /\ pc = "start"
    BY DEF Init, Process
  <2> QED
    BY <2>1 DEF RefusalInv
<1>2. /\ TypeInv /\ OrderInv /\ OrderInv' /\ StillInv /\ RefusalInv
      /\ [Next]_vars
      => RefusalInv'
  BY RefusalStep
<1>3. RefusalInv => NoFalseRefusal
  BY DEF RefusalInv, NoFalseRefusal, Accidents
<1> QED
  BY <1>1, <1>2, <1>3, StillInvariant, PTL DEF Spec
=============================================================================
