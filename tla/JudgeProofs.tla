---------------------------- MODULE JudgeProofs ----------------------------
(***************************************************************************)
(* What is proved of Judge for every choice of files, contents, locks and  *)
(* contexts.                                                               *)
(***************************************************************************)
EXTENDS Judge, TLAPS

LEMMA ContentFields ==
  ASSUME NEW c \in Contents
  PROVE  /\ c \in Content
         /\ c.imports \in SUBSET Names
         /\ c.eager \in SUBSET Names
         /\ c # Absent
  BY ContentsAssumption DEF Content

LEMMA LockFields ==
  ASSUME NEW l \in Locks
  PROVE  /\ l.dir \in Dirs
         /\ l.tool \in Names
         /\ l.source \in Slot
         /\ l.deps \in [Names -> Slot]
  BY LocksAssumption DEF Lock

LEMMA FileTypes ==
  ASSUME TypeOK, NEW x \in Contexts
  PROVE  /\ lock[x] \in Locks
         /\ Tool(x) \in Files
         /\ \A n \in Names : File(x, n) \in Files
  BY LockFields DEF TypeOK, Tool, File, Files

LEMMA ReadType ==
  ASSUME TypeOK, NEW f \in Files
  PROVE  Read(f) \in Slot
  BY DEF TypeOK, Read

LEMMA ImportType ==
  ASSUME TypeOK, NEW x \in Contexts, NEW n \in Names
  PROVE  Import(x, n) \in Slot /\ OnSysPath(n) \in Slot
  BY DEF TypeOK, Import, OnSysPath, Files, Slot

LEMMA LazyType ==
  ASSUME TypeOK, NEW x \in Contexts, code[x] # Absent
  PROVE  LazyImports(x) \in SUBSET Names
<1>1. \A c \in {code[x]} \cup {p[2] : p \in ran[x]} : c \in Contents
  BY DEF TypeOK, Slot
<1>2. \A c \in {code[x]} \cup {p[2] : p \in ran[x]} :
         c.imports \ c.eager \subseteq Names
  BY <1>1, ContentFields
<1> QED
  BY <1>2 DEF LazyImports

LEMMA ReadPresent ==
  ASSUME TypeOK, NEW f \in Files, disk[f] # Absent
  PROVE  Read(f) \in Contents
  BY DEF TypeOK, Read, Slot

(* From the load on there is code. *)
Early == {"idle", "check", "read", "pin", "readback", "repin", "load"}
Loaded == \A x \in Contexts : pc[x] \notin Early => code[x] # Absent

TypeInv == TypeOK /\ Loaded

(* Control moves keep their types. *)
LEMMA GotoType ==
  ASSUME TypeOK, NEW x \in Contexts, NEW label \in Labels, Goto(x, label)
  PROVE  /\ pc' \in [Contexts -> Labels]
         /\ pc'[x] = label
         /\ \A y \in Contexts \ {x} : pc'[y] = pc[y]
  BY DEF TypeOK, Goto

LEMMA ReturnType ==
  ASSUME TypeOK, NEW x \in Contexts, NEW s \in Statuses, NEW w \in Reasons,
         Return(x, s, w)
  PROVE  /\ pc' \in [Contexts -> Labels]
         /\ pc'[x] = "idle"
         /\ \A y \in Contexts \ {x} : pc'[y] = pc[y]
         /\ verdict' \in [Contexts -> Verdict]
         /\ verdict'[x].status = s
         /\ \A y \in Contexts \ {x} : verdict'[y] = verdict[y]
<1>1. [status |-> s, why |-> w] \in Verdict
  BY DEF Verdict
<1>2. "idle" \in Labels
  BY DEF Labels
<1> QED
  BY <1>1, <1>2, GotoType DEF Return, TypeOK

(* The actions of a context that leave the files it walks alone. *)
LEMMA GateTypes ==
  ASSUME TypeInv, NEW x \in Contexts,
         \/ GateCheck(x) \/ GateRead(x) \/ GatePin(x) \/ GateCompare(x)
         \/ GateRepin(x)
  PROVE  TypeInv'
<1> USE FileTypes DEF TypeInv, Loaded, shared
<1> USE DEF Early, Labels, Statuses, Reasons
<1>1. CASE GateCheck(x)
  BY <1>1 DEF TypeOK, GateCheck, Goto
<1>2. CASE GateRead(x)
  <2>1. CASE disk[Tool(x)] = Absent
    BY <1>2, <2>1, ReturnType DEF TypeOK, GateRead
  <2>2. CASE disk[Tool(x)] # Absent
    <3>1. disk[Tool(x)] \in Slot
      BY DEF TypeOK
    <3>2. src' \in [Contexts -> Slot] /\ UNCHANGED verdict
      BY <1>2, <2>2, <3>1 DEF TypeOK, GateRead
    <3> QED
      BY <1>2, <2>2, <3>2 DEF TypeOK, GateRead, Goto
  <2> QED
    BY <2>1, <2>2
<1>3. CASE GatePin(x)
  BY <1>3 DEF TypeOK, GatePin, Goto
<1>4. CASE GateCompare(x)
  <2>1. CASE pinned[Tool(x)] = lock[x].source
    BY <1>4, <2>1 DEF TypeOK, GateCompare, Goto
  <2>2. CASE pinned[Tool(x)] # lock[x].source
    BY <1>4, <2>2, ReturnType DEF TypeOK, GateCompare
  <2> QED
    BY <2>1, <2>2
<1>5. CASE GateRepin(x)
  BY <1>5 DEF TypeOK, GateRepin, Goto
<1> QED
  BY <1>1, <1>2, <1>3, <1>4, <1>5

LEMMA CheckTypes ==
  ASSUME TypeInv, NEW x \in Contexts,
         \/ LoadDone(x) \/ VerifyRuntimePin(x) \/ SkipIncomplete(x)
         \/ BindDeps(x) \/ DynamicImportLeak(x) \/ CheckConformance(x)
  PROVE  TypeInv'
<1> USE DEF TypeInv, Loaded, shared
<1> USE DEF Early, Labels, Statuses, Reasons
<1>1. CASE LoadDone(x)
  BY <1>1 DEF TypeOK, LoadDone, Goto
<1>2. CASE VerifyRuntimePin(x)
  <2>1. CASE RuntimeOk(x)
    BY <1>2, <2>1 DEF TypeOK, VerifyRuntimePin, Goto
  <2>2. CASE ~RuntimeOk(x)
    BY <1>2, <2>2, ReturnType DEF TypeOK, VerifyRuntimePin
  <2> QED
    BY <2>1, <2>2
<1>3. CASE SkipIncomplete(x)
  BY <1>3, ReturnType DEF TypeOK, SkipIncomplete
<1>4. CASE BindDeps(x)
  <2>1. CASE walk[x].got = lock[x].deps
    BY <1>4, <2>1 DEF TypeOK, BindDeps, Goto
  <2>2. CASE walk[x].got # lock[x].deps
    BY <1>4, <2>2, ReturnType DEF TypeOK, BindDeps
  <2> QED
    BY <2>1, <2>2
<1>5. CASE DynamicImportLeak(x)
  <2>1. CASE Return(x, "FAIL", "dynamic_import")
    BY <1>5, <2>1, ReturnType DEF TypeOK, DynamicImportLeak
  <2>2. CASE Goto(x, "origin") /\ UNCHANGED verdict
    BY <1>5, <2>2 DEF TypeOK, DynamicImportLeak, Goto
  <2> QED
    BY <1>5, <2>1, <2>2 DEF DynamicImportLeak
<1>6. CASE CheckConformance(x)
  <2>1. PICK s \in {"PASS", "FAIL", "SKIPPED"} : Return(x, s, "conformance")
    BY <1>6 DEF CheckConformance
  <2> QED
    BY <1>6, <2>1, ReturnType DEF TypeOK, CheckConformance
<1> QED
  BY <1>1, <1>2, <1>3, <1>4, <1>5, <1>6

LEMMA BeginTypes ==
  ASSUME TypeInv, NEW x \in Contexts, NEW l \in Locks,
         Admit(x, l) \/ ImportByHost(x, l)
  PROVE  TypeInv'
<1> USE DEF TypeInv, Loaded, shared, Early, Labels, Statuses, Reasons
<1>1. ASSUME NEW e \in {"admit", "library"}, Begin(x, e, l)
      PROVE  /\ runs' \in [Contexts -> Nat]
             /\ entry' \in [Contexts -> {"admit", "library"}]
             /\ lock' \in [Contexts -> Locks]
             /\ src' \in [Contexts -> Slot]
             /\ walk' \in [Contexts -> [todo : SUBSET Names,
                             open : SUBSET Names, got : [Names -> Slot]]]
             /\ ran' \in [Contexts -> SUBSET (Names \X Contents)]
  BY <1>1 DEF Begin, TypeOK, NoWalk, Unsealed, Slot
<1>2. [status |-> "none", why |-> "none"] \in Verdict
  BY DEF Verdict
<1>3. CASE Admit(x, l)
  <2>1. Begin(x, "admit", l) /\ UNCHANGED <<shared, sealed, outer>>
    BY <1>3 DEF Admit
  <2>2. /\ code' \in [Contexts -> Slot]
        /\ need' \in [Contexts -> SUBSET Names]
        /\ \A y \in Contexts \ {x} : code'[y] = code[y]
    BY <1>3 DEF Admit, TypeOK, Slot
  <2>3. CASE l.source = Absent
    <3>1. Return(x, "SKIPPED", "source_hash")
      BY <1>3, <2>3 DEF Admit
    <3> QED
      BY <1>1, <2>1, <2>2, <3>1, ReturnType DEF TypeOK
  <2>4. CASE l.source # Absent
    <3>1. Goto(x, "check") /\ verdict' \in [Contexts -> Verdict]
      BY <1>2, <1>3, <2>4 DEF Admit, TypeOK
    <3> QED
      BY <1>1, <2>1, <2>2, <3>1, GotoType DEF TypeOK
  <2> QED
    BY <2>3, <2>4
<1>4. CASE ImportByHost(x, l)
  <2> DEFINE c == disk[<<l.dir, l.tool>>]
  <2>1. /\ Begin(x, "library", l)
        /\ UNCHANGED <<shared, sealed, outer>>
        /\ Goto(x, "loading")
        /\ c # Absent
        /\ code' = [code EXCEPT ![x] = c]
        /\ need' = [need EXCEPT ![x] = c.eager]
    BY <1>4 DEF ImportByHost
  <2>2. c \in Contents
    BY <2>1, LockFields DEF TypeOK, Slot, Files
  <2>3. c.eager \in SUBSET Names
    BY <2>2, ContentFields
  <2>4. /\ code' \in [Contexts -> Slot]
        /\ need' \in [Contexts -> SUBSET Names]
        /\ code'[x] # Absent
        /\ \A y \in Contexts \ {x} : code'[y] = code[y]
    BY <2>1, <2>2, <2>3 DEF TypeOK, Slot
  <2>5. verdict' \in [Contexts -> Verdict]
    BY <1>2, <1>4 DEF ImportByHost, TypeOK
  <2> QED
    BY <1>1, <2>1, <2>4, <2>5, GotoType DEF TypeOK
<1> QED
  BY <1>3, <1>4

LEMMA LoadTypes ==
  ASSUME TypeInv, NEW x \in Contexts, LoadScript(x)
  PROVE  TypeInv'
<1> USE DEF TypeInv, Loaded, shared, Early, Labels, Statuses, Reasons
<1> DEFINE c == Read(Tool(x))
<1>1. CASE disk[Tool(x)] = Absent
  BY <1>1, ReturnType DEF LoadScript, TypeOK
<1>2. CASE disk[Tool(x)] # Absent
  <2>1. c \in Contents /\ c.eager \in SUBSET Names
    BY <1>2, FileTypes, ReadPresent, ContentFields
  <2>2. /\ code' \in [Contexts -> Slot]
        /\ code'[x] # Absent
        /\ \A y \in Contexts \ {x} : code'[y] = code[y]
    <3>1. code' = [code EXCEPT ![x] = c]
      BY <1>2 DEF LoadScript
    <3> QED
      BY <2>1, <3>1, ContentFields DEF TypeOK, Slot
  <2>3. CASE c.exec = "ok"
    <3>1. need' \in [Contexts -> SUBSET Names]
      BY <1>2, <2>1, <2>3 DEF LoadScript, TypeOK
    <3>2. Goto(x, "loading") /\ UNCHANGED verdict
      BY <1>2, <2>3 DEF LoadScript
    <3> QED
      BY <2>2, <3>1, <3>2, GotoType DEF LoadScript, TypeOK
  <2>4. CASE c.exec # "ok"
    <3>1. Return(x, "raised", "load") /\ UNCHANGED need
      BY <1>2, <2>4 DEF LoadScript
    <3> QED
      BY <2>2, <3>1, ReturnType DEF LoadScript, TypeOK
  <2> QED
    BY <2>3, <2>4
<1> QED
  BY <1>1, <1>2

(* A walk is well typed after its fields are. *)
LEMMA WalkType ==
  ASSUME TypeOK, NEW x \in Contexts,
         NEW T \in SUBSET Names, NEW O \in SUBSET Names,
         NEW G \in [Names -> Slot],
         walk' = [walk EXCEPT ![x] = [todo |-> T, open |-> O, got |-> G]]
  PROVE  walk' \in [Contexts -> [todo : SUBSET Names, open : SUBSET Names,
                                 got : [Names -> Slot]]]
  BY DEF TypeOK

LEMMA ResolvedType ==
  ASSUME NEW x \in Contexts, NEW c \in Contents
  PROVE  Resolved(x, c) \in SUBSET Names
  BY ContentFields DEF Resolved

LEMMA CollectTypes ==
  ASSUME TypeInv, NEW x \in Contexts, NEW n \in Names,
         CollectParse(x, n) \/ CollectHash(x, n)
  PROVE  TypeInv'
<1> USE DEF TypeInv, Loaded, shared, Early, Labels, Statuses, Reasons
<1> DEFINE w == walk[x]
           c == Read(File(x, n))
<1>1. w \in [todo : SUBSET Names, open : SUBSET Names, got : [Names -> Slot]]
  BY DEF TypeOK
<1>2. CASE CollectParse(x, n)
  <2> DEFINE found == IF disk[File(x, n)] = Absent THEN {}
                      ELSE {m \in Resolved(x, c) : w.got[m] = Absent}
  <2>1. w.todo \cup found \in SUBSET Names
    BY <1>1, FileTypes, ReadPresent, ResolvedType
  <2>2. walk' = [walk EXCEPT ![x] = [todo |-> w.todo \cup found,
                                     open |-> w.open \ {n}, got |-> w.got]]
    BY <1>2 DEF CollectParse
  <2>3. walk' \in [Contexts -> [todo : SUBSET Names, open : SUBSET Names,
                                got : [Names -> Slot]]]
    BY <1>1, <2>1, <2>2, WalkType
  <2> QED
    BY <1>2, <2>3 DEF CollectParse, TypeOK
<1>3. CASE CollectHash(x, n)
  <2>1. CASE c = Absent
    BY <1>3, <2>1, ReturnType DEF CollectHash, TypeOK
  <2>2. CASE c # Absent
    <3> DEFINE O == w.open \cup IF n = lock[x].tool THEN {} ELSE {n}
    <3>1. c \in Slot
      BY FileTypes, ReadType
    <3>2. [w.got EXCEPT ![n] = c] \in [Names -> Slot]
      BY <1>1, <3>1
    <3>3. walk' = [walk EXCEPT ![x] = [todo |-> w.todo \ {n}, open |-> O,
                                       got |-> [w.got EXCEPT ![n] = c]]]
      BY <1>3, <2>2 DEF CollectHash
    <3>4. walk' \in [Contexts -> [todo : SUBSET Names, open : SUBSET Names,
                                  got : [Names -> Slot]]]
      BY <1>1, <3>2, <3>3, WalkType
    <3> QED
      BY <1>3, <2>2, <3>4 DEF CollectHash, TypeOK
  <2> QED
    BY <2>1, <2>2
<1> QED
  BY <1>2, <1>3

LEMMA BindTypes ==
  ASSUME TypeInv, NEW x \in Contexts, BindBody(x)
  PROVE  TypeInv'
<1> USE DEF TypeInv, Loaded, shared, Early, Labels, Statuses, Reasons
<1>1. CASE /\ Return(x, "FAIL", "interface") \/ Return(x, "FAIL", "module_hash")
              \/ Return(x, "SKIPPED", "module_hash")
           /\ UNCHANGED walk
  BY <1>1, ReturnType DEF BindBody, TypeOK
<1>2. CASE /\ Goto(x, "collect")
           /\ UNCHANGED verdict
           /\ walk' = [walk EXCEPT ![x] =
                [todo |-> {}, open |-> {lock[x].tool}, got |-> Unsealed]]
  <2>1. lock[x].tool \in Names
    BY LockFields DEF TypeOK
  <2>2. Unsealed \in [Names -> Slot]
    BY DEF Unsealed, Slot
  <2>3. walk' \in [Contexts -> [todo : SUBSET Names, open : SUBSET Names,
                                got : [Names -> Slot]]]
    BY <1>2, <2>1, <2>2, WalkType
  <2> QED
    BY <1>2, <2>3, GotoType DEF BindBody, TypeOK
<1> QED
  BY <1>1, <1>2 DEF BindBody

LEMMA SealTypes ==
  ASSUME TypeInv, NEW x \in Contexts,
         SealOrigin(x) \/ SealVerify(x) \/ ExecSealed(x)
  PROVE  TypeInv'
<1> USE DEF TypeInv, Loaded, shared, Early, Labels, Statuses, Reasons
<1>1. CASE SealOrigin(x)
  <2>1. CASE disk[Tool(x)] = Absent
    <3>1. /\ outer' = [outer EXCEPT ![x] = sealed[x]]
          /\ need' = [need EXCEPT ![x] = LazyImports(x)]
          /\ Goto(x, "body") /\ UNCHANGED walk
      BY <1>1, <2>1 DEF SealOrigin
    <3>2. LazyImports(x) \in SUBSET Names
      BY <1>1, LazyType DEF SealOrigin
    <3> QED
      BY <1>1, <3>1, <3>2, GotoType DEF SealOrigin, TypeOK
  <2>2. CASE disk[Tool(x)] # Absent
    <3>1. /\ walk' = [walk EXCEPT ![x] =
                [todo |-> {lock[x].tool}, open |-> {}, got |-> Unsealed]]
          /\ Goto(x, "discover") /\ UNCHANGED <<outer, need>>
      BY <1>1, <2>2 DEF SealOrigin
    <3>2. lock[x].tool \in Names /\ Unsealed \in [Names -> Slot]
      BY LockFields DEF TypeOK, Unsealed, Slot
    <3>3. walk' \in [Contexts -> [todo : SUBSET Names, open : SUBSET Names,
                                  got : [Names -> Slot]]]
      BY <3>1, <3>2, WalkType
    <3> QED
      BY <1>1, <3>1, <3>3, GotoType DEF SealOrigin, TypeOK
  <2> QED
    BY <2>1, <2>2
<1>2. CASE SealVerify(x)
  <2> DEFINE deps == [walk[x].got EXCEPT ![lock[x].tool] = Absent]
  <2>1. deps \in [Names -> Slot]
    BY DEF TypeOK, Slot
  <2>2. CASE deps = lock[x].deps
    <3>1. /\ outer' = [outer EXCEPT ![x] = sealed[x]]
          /\ sealed' = [sealed EXCEPT ![x] = deps]
          /\ Goto(x, "exec") /\ UNCHANGED verdict
      BY <1>2, <2>2 DEF SealVerify
    <3> QED
      BY <1>2, <2>1, <3>1, GotoType DEF SealVerify, TypeOK
  <2>3. CASE deps # lock[x].deps
    BY <1>2, <2>3, ReturnType DEF SealVerify, TypeOK
  <2> QED
    BY <2>2, <2>3
<1>3. CASE ExecSealed(x)
  <2>1. CASE /\ need' = [need EXCEPT ![x] = LazyImports(x)]
             /\ Goto(x, "body") /\ UNCHANGED <<sealed, verdict>>
    <3>1. LazyImports(x) \in SUBSET Names
      BY <1>3, LazyType DEF ExecSealed
    <3> QED
      BY <1>3, <2>1, <3>1, GotoType DEF ExecSealed, TypeOK
  <2>2. CASE /\ sealed' = [sealed EXCEPT ![x] = outer[x]] \/ UNCHANGED sealed
             /\ Return(x, "raised", "helper") /\ UNCHANGED need
    <3>1. sealed' \in [Contexts -> [Names -> Slot]]
      BY <2>2 DEF TypeOK
    <3> QED
      BY <1>3, <2>2, <3>1, ReturnType DEF ExecSealed, TypeOK
  <2> QED
    BY <1>3, <2>1, <2>2 DEF ExecSealed
<1> QED
  BY <1>1, <1>2, <1>3

LEMMA DiscoverTypes ==
  ASSUME TypeInv, NEW x \in Contexts, NEW n \in Names, Discover(x, n)
  PROVE  TypeInv'
<1> USE DEF TypeInv, Loaded, shared
<1> DEFINE w == walk[x]
           c == Read(File(x, n))
           found == {m \in Resolved(x, c) : w.got[m] = Absent}
<1>1. w \in [todo : SUBSET Names, open : SUBSET Names, got : [Names -> Slot]]
  BY DEF TypeOK
<1>2. walk' \in [Contexts -> [todo : SUBSET Names, open : SUBSET Names,
                              got : [Names -> Slot]]]
  <2>1. CASE disk[File(x, n)] = Absent
    <3>1. walk' = [walk EXCEPT ![x] = [todo |-> w.todo \ {n}, open |-> {},
                                       got |-> w.got]]
      BY <2>1 DEF Discover
    <3> QED
      BY <1>1, <3>1, WalkType
  <2>2. CASE disk[File(x, n)] # Absent
    <3>1. walk' = [walk EXCEPT ![x] =
                     [todo |-> (w.todo \cup found) \ {n}, open |-> {},
                      got |-> [w.got EXCEPT ![n] = c]]]
      BY <2>2 DEF Discover
    <3>2. c \in Contents
      BY <2>2, FileTypes, ReadPresent
    <3>3. (w.todo \cup found) \ {n} \in SUBSET Names
      BY <1>1, <3>2, ResolvedType
    <3>4. [w.got EXCEPT ![n] = c] \in [Names -> Slot]
      BY <1>1, <3>2 DEF Slot
    <3> QED
      BY <3>1, <3>3, <3>4, WalkType
  <2> QED
    BY <2>1, <2>2
<1> QED
  BY <1>2 DEF Discover, TypeOK

LEMMA ImportTypes ==
  ASSUME TypeInv, NEW x \in Contexts, NEW n \in Names,
         \/ ImportModule(x, n) \/ ImportFails(x, n) \/ ReloadModule(x, n)
  PROVE  TypeInv'
<1> USE DEF TypeInv, Loaded, shared, Early, Labels, Statuses, Reasons
<1> HIDE DEF Early, Labels
<1>1. ASSUME NEW c \in Contents, NEW more \in SUBSET Names,
             ran' = [ran EXCEPT ![x] = @ \cup {<<n, c>>}],
             need' = [need EXCEPT ![x] = more],
             modules' = modules \/ modules' = [modules EXCEPT ![n] = c],
             UNCHANGED <<disk, contour, pinned, edits, pc, entry, lock, src,
                         code, walk, sealed, outer, verdict, runs>>
      PROVE  TypeInv'
  <2>1. ran' \in [Contexts -> SUBSET (Names \X Contents)]
    BY <1>1 DEF TypeOK
  <2>2. need' \in [Contexts -> SUBSET Names] /\ modules' \in [Names -> Slot]
    BY <1>1 DEF TypeOK, Slot
  <2> QED
    BY <1>1, <2>1, <2>2 DEF TypeOK
<1>2. CASE ImportModule(x, n)
  <2> DEFINE c == Import(x, n)
             next == IF <<n, c>> \in ran[x] THEN {}
                     ELSE IF pc[x] = "loading" THEN c.eager ELSE c.imports
  <2>1. c \in Contents
    BY <1>2, ImportType DEF ImportModule, Slot
  <2>2. (need[x] \ {n}) \cup next \in SUBSET Names
    BY <2>1, ContentFields DEF TypeOK
  <2> HIDE DEF next
  <2>3. need' = [need EXCEPT ![x] = (need[x] \ {n}) \cup next]
    BY <1>2 DEF ImportModule, next
  <2> QED
    BY <1>1, <1>2, <2>1, <2>2, <2>3 DEF ImportModule
<1>3. CASE ReloadModule(x, n)
  <2> DEFINE c == IF sealed[x][n] # Absent THEN sealed[x][n] ELSE OnSysPath(n)
             next == IF <<n, c>> \in ran[x] THEN {} ELSE c.imports
  <2>1. c \in Contents
    BY <1>3, ImportType DEF ReloadModule, Slot, TypeOK
  <2>2. need[x] \cup next \in SUBSET Names
    BY <2>1, ContentFields DEF TypeOK
  <2> HIDE DEF next
  <2>3. need' = [need EXCEPT ![x] = need[x] \cup next]
    BY <1>3 DEF ReloadModule, next
  <2> QED
    BY <1>1, <1>3, <2>1, <2>2, <2>3 DEF ReloadModule
<1>4. CASE ImportFails(x, n)
  <2>1. CASE need' = [need EXCEPT ![x] = @ \ {n}] /\ UNCHANGED <<pc, verdict, sealed>>
    BY <1>4, <2>1 DEF ImportFails, TypeOK
  <2>2. CASE /\ \/ Return(x, "raised", "load") \/ Return(x, "raised", "helper")
                \/ Return(x, "FAIL", "conformance")
             /\ sealed' = [sealed EXCEPT ![x] = outer[x]] \/ UNCHANGED sealed
             /\ UNCHANGED need
    <3>1. sealed' \in [Contexts -> [Names -> Slot]]
      BY <2>2 DEF TypeOK
    <3> QED
      BY <1>4, <2>2, <3>1, ReturnType DEF ImportFails, TypeOK, Early
  <2> QED
    BY <1>4, <2>1, <2>2 DEF ImportFails
<1> QED
  BY <1>2, <1>3, <1>4

LEMMA EnvironmentTypes ==
  ASSUME TypeInv, Environment
  PROVE  TypeInv'
<1> USE DEF TypeInv, Loaded, locals
<1>1. ASSUME NEW f \in Files, Unlink(f)
      PROVE  TypeInv'
  BY <1>1 DEF Unlink, TypeOK, Slot
<1>2. ASSUME NEW f \in Files, NEW c \in Contents, Save(f, c)
      PROVE  TypeInv'
  BY <1>2 DEF Save, TypeOK, Slot
<1>3. ASSUME NEW v \in Runtimes, Upgrade(v)
      PROVE  TypeInv'
  BY <1>3 DEF Upgrade, TypeOK
<1> QED
  BY <1>1, <1>2, <1>3 DEF Environment

LEMMA TypeStep == TypeInv /\ [Next]_vars => TypeInv'
<1> SUFFICES ASSUME TypeInv, [Next]_vars
             PROVE  TypeInv'
  OBVIOUS
<1>1. ASSUME NEW x \in Contexts, NEW l \in Locks,
             Admit(x, l) \/ ImportByHost(x, l)
      PROVE  TypeInv'
  BY <1>1, BeginTypes
<1>2. ASSUME NEW x \in Contexts, Continue(x)
      PROVE  TypeInv'
  BY <1>2, GateTypes, CheckTypes, LoadTypes, CollectTypes, BindTypes,
     SealTypes, DiscoverTypes, ImportTypes DEF Continue
<1>3. ASSUME NEW x \in Contexts, NEW n \in Names, ReloadModule(x, n)
      PROVE  TypeInv'
  BY <1>3, ImportTypes
<1>4. CASE Environment
  BY <1>4, EnvironmentTypes
<1>5. CASE UNCHANGED vars
  BY <1>5 DEF vars, TypeInv, TypeOK, Loaded
<1> QED
  BY <1>1, <1>2, <1>3, <1>4, <1>5 DEF Next, Step

(* Type correctness: every variable keeps its type in every behaviour, and *)
(* a judgement past its load has the bytes its tool was executed from.     *)
THEOREM TypeCorrect == Spec => []TypeInv
<1>1. Init => TypeInv
  <2> SUFFICES ASSUME Init PROVE TypeInv
    OBVIOUS
  <2>1. (CHOOSE l \in Locks : TRUE) \in Locks
    BY LocksAssumption
  <2> QED
    BY <2>1 DEF Init, TypeInv, TypeOK, Loaded, Early, Labels, Unsealed, Slot,
                NoWalk, Verdict, Statuses, Reasons
<1> QED
  BY <1>1, TypeStep, PTL DEF Spec

(* The type invariant the runs check.                                      *)
THEOREM TypeTheorem == Spec => []TypeOK
<1>1. TypeInv => TypeOK
  BY DEF TypeInv
<1> QED
  BY <1>1, TypeCorrect, PTL

-----------------------------------------------------------------------------
(* Frames *)

(* A step of one context leaves the locals of the others alone. *)
LEMMA OthersUnchanged ==
  ASSUME TypeOK, NEW x \in Contexts, NEW y \in Contexts \ {x}, Step(x)
  PROVE  /\ pc'[y] = pc[y] /\ entry'[y] = entry[y] /\ lock'[y] = lock[y]
         /\ src'[y] = src[y] /\ code'[y] = code[y] /\ walk'[y] = walk[y]
         /\ sealed'[y] = sealed[y] /\ outer'[y] = outer[y]
         /\ ran'[y] = ran[y] /\ need'[y] = need[y]
         /\ verdict'[y] = verdict[y]
<1> USE DEF TypeOK, shared, Goto, Return
<1>1. ASSUME NEW l \in Locks, Admit(x, l) \/ ImportByHost(x, l)
      PROVE  /\ pc'[y] = pc[y] /\ entry'[y] = entry[y] /\ lock'[y] = lock[y]
             /\ src'[y] = src[y] /\ code'[y] = code[y] /\ walk'[y] = walk[y]
             /\ sealed'[y] = sealed[y] /\ outer'[y] = outer[y]
             /\ ran'[y] = ran[y] /\ need'[y] = need[y]
             /\ verdict'[y] = verdict[y]
  BY <1>1 DEF Admit, ImportByHost, Begin
<1>2. CASE \/ GateCheck(x) \/ GateRead(x) \/ GatePin(x) \/ GateCompare(x)
           \/ GateRepin(x) \/ LoadScript(x) \/ LoadDone(x)
           \/ VerifyRuntimePin(x) \/ SkipIncomplete(x)
  BY <1>2 DEF GateCheck, GateRead, GatePin, GateCompare, GateRepin, LoadScript,
              LoadDone, VerifyRuntimePin, SkipIncomplete
<1>3. CASE \/ BindBody(x) \/ BindDeps(x) \/ DynamicImportLeak(x)
           \/ SealOrigin(x) \/ SealVerify(x) \/ ExecSealed(x)
           \/ CheckConformance(x)
  BY <1>3 DEF BindBody, BindDeps, DynamicImportLeak, SealOrigin, SealVerify,
              ExecSealed, CheckConformance
<1>4. ASSUME NEW n \in Names,
             \/ CollectParse(x, n) \/ CollectHash(x, n) \/ Discover(x, n)
             \/ ImportModule(x, n) \/ ImportFails(x, n) \/ ReloadModule(x, n)
      PROVE  /\ pc'[y] = pc[y] /\ entry'[y] = entry[y] /\ lock'[y] = lock[y]
             /\ src'[y] = src[y] /\ code'[y] = code[y] /\ walk'[y] = walk[y]
             /\ sealed'[y] = sealed[y] /\ outer'[y] = outer[y]
             /\ ran'[y] = ran[y] /\ need'[y] = need[y]
             /\ verdict'[y] = verdict[y]
  BY <1>4 DEF CollectParse, CollectHash, Discover, ImportModule, ImportFails,
              ReloadModule
<1> QED
  BY <1>1, <1>2, <1>3, <1>4 DEF Step, Continue

(* Other programs leave the locals of every context alone. *)
LEMMA EnvironmentLocals ==
  ASSUME Environment
  PROVE  UNCHANGED <<locals, pinned, modules>>
  BY DEF Environment, Save, Unlink, Upgrade

-----------------------------------------------------------------------------
(* The seal *)

SealedAt(x) ==
  /\ pc[x] = "exec" => sealed[x] = lock[x].deps
  /\ pc[x] = "body" => sealed[x] \in {lock[x].deps, outer[x]}

LEMMA SealedStep ==
  ASSUME TypeInv, NEW x \in Contexts, SealedAt(x), Step(x)
  PROVE  SealedAt(x)'
<1> USE DEF SealedAt, TypeInv
<1>1. CASE SealOrigin(x)
  BY <1>1 DEF SealOrigin, TypeOK, Goto
<1>2. CASE SealVerify(x)
  BY <1>2 DEF SealVerify, TypeOK, Goto, Return
<1>3. CASE ExecSealed(x)
  BY <1>3 DEF ExecSealed, TypeOK, Goto, Return
<1>4. ASSUME NEW n \in Names,
             \/ CollectParse(x, n) \/ CollectHash(x, n) \/ Discover(x, n)
             \/ ImportModule(x, n) \/ ImportFails(x, n) \/ ReloadModule(x, n)
      PROVE  SealedAt(x)'
  BY <1>4 DEF CollectParse, CollectHash, Discover, ImportModule, ImportFails,
              ReloadModule, Return, Goto, TypeOK
<1>5. CASE \/ \E l \in Locks : Admit(x, l) \/ ImportByHost(x, l)
           \/ GateCheck(x) \/ GateRead(x) \/ GatePin(x) \/ GateCompare(x)
           \/ GateRepin(x) \/ LoadScript(x) \/ LoadDone(x)
  BY <1>5 DEF Admit, ImportByHost, Begin, GateCheck, GateRead, GatePin,
              GateCompare, GateRepin, LoadScript, LoadDone, Goto, Return,
              TypeOK
<1>6. CASE \/ VerifyRuntimePin(x) \/ SkipIncomplete(x)
           \/ BindBody(x) \/ BindDeps(x) \/ DynamicImportLeak(x)
           \/ CheckConformance(x)
  BY <1>6 DEF VerifyRuntimePin, SkipIncomplete, BindBody, BindDeps,
              DynamicImportLeak, CheckConformance, Goto, Return, TypeOK
<1> QED
  BY <1>1, <1>2, <1>3, <1>4, <1>5, <1>6 DEF Step, Continue

(* The seal theorem: whatever other programs save, unlink or create between *)
(* the binding and the run, and whatever other contexts do, the helpers    *)
(* are executed from a seal that maps exactly the locked names to exactly  *)
(* the locked bytes (_seal_enter compares the bytes it will execute).      *)
THEOREM SealTheorem == Spec => []SealedIsLocked
<1> DEFINE I == \A x \in Contexts : SealedAt(x)
<1>1. Init => I
  BY DEF Init, SealedAt
<1>2. TypeInv /\ I /\ [Next]_vars => I'
  <2> SUFFICES ASSUME TypeInv, I, [Next]_vars, NEW y \in Contexts
               PROVE  SealedAt(y)'
    OBVIOUS
  <2>1. ASSUME NEW x \in Contexts, Step(x)
        PROVE  SealedAt(y)'
    <3>1. CASE x = y
      BY <2>1, <3>1, SealedStep
    <3>2. CASE x # y
      BY <2>1, <3>2, OthersUnchanged DEF SealedAt, TypeInv
    <3> QED
      BY <3>1, <3>2
  <2>2. CASE Environment
    BY <2>2, EnvironmentLocals DEF SealedAt, locals
  <2>3. CASE UNCHANGED vars
    BY <2>3 DEF vars, SealedAt
  <2> QED
    BY <2>1, <2>2, <2>3 DEF Next
<1>3. I => SealedIsLocked
  BY DEF SealedAt, SealedIsLocked
<1> QED
  BY <1>1, <1>2, <1>3, TypeCorrect, PTL DEF Spec

-----------------------------------------------------------------------------
(* The gate *)

(* No two contexts are handed locks of the same file.  The in-tree callers *)
(* of admit_judge (CLI, action_driver) have a single context.              *)
Distinct ==
  \A x, y \in Contexts : x # y =>
    \A l \in May[x], m \in May[y] : <<l.dir, l.tool>> # <<m.dir, m.tool>>

Matched == {"idle", "check", "read", "pin", "readback"}

GateAt(x) ==
  /\ pc[x] # "idle" => lock[x] \in May[x]
  /\ entry[x] = "admit" =>
       /\ pc[x] # "idle" => lock[x].source # Absent
       /\ pc[x] = "repin" => src[x] = lock[x].source
       /\ pc[x] \notin Matched => pinned[Tool(x)] = lock[x].source
       /\ pc[x] \notin Early => code[x] = lock[x].source
       /\ verdict[x].status = "PASS" => code[x] = lock[x].source

LEMMA GateBegin ==
  ASSUME TypeInv, NEW x \in Contexts, NEW l \in Locks,
         Admit(x, l) \/ ImportByHost(x, l)
  PROVE  GateAt(x)'
<1>1. CASE Admit(x, l)
  BY <1>1 DEF Admit, Begin, GateAt, TypeInv, TypeOK, Goto, Return, Matched,
              Early
<1>2. CASE ImportByHost(x, l)
  BY <1>2 DEF ImportByHost, Begin, GateAt, TypeInv, TypeOK, Goto
<1> QED
  BY <1>1, <1>2

LEMMA GateStep ==
  ASSUME TypeInv, NEW x \in Contexts, GateAt(x), Step(x)
  PROVE  GateAt(x)'
<1> USE DEF GateAt, TypeInv, Matched, Early, shared
<1>1. ASSUME NEW l \in Locks, Admit(x, l) \/ ImportByHost(x, l)
      PROVE  GateAt(x)'
  BY <1>1, GateBegin
<1>2. CASE GateCheck(x) \/ GateRead(x)
  BY <1>2 DEF GateCheck, GateRead, TypeOK, Goto, Return, Tool, File
<1>3. CASE GatePin(x)
  BY <1>3 DEF GatePin, TypeOK, Goto, Tool, File
<1>4. CASE GateCompare(x)
  BY <1>4 DEF GateCompare, TypeOK, Goto, Return, Tool, File
<1>5. CASE GateRepin(x)
  <2>1. entry[x] = "admit" => pinned' = pinned
    BY <1>5, FileTypes DEF GateRepin, TypeOK
  <2> QED
    BY <1>5, <2>1 DEF GateRepin, TypeOK, Goto, Tool, File
<1>6. CASE LoadScript(x)
  <2>1. entry[x] = "admit" => Read(Tool(x)) = lock[x].source
    BY <1>6 DEF LoadScript, Read
  <2> QED
    BY <1>6, <2>1 DEF LoadScript, TypeOK, Goto, Return, Tool, File
<1>7. CASE \/ LoadDone(x) \/ VerifyRuntimePin(x) \/ SkipIncomplete(x)
           \/ BindBody(x) \/ BindDeps(x) \/ DynamicImportLeak(x)
  BY <1>7 DEF LoadDone, VerifyRuntimePin, SkipIncomplete, BindBody, BindDeps,
              DynamicImportLeak, TypeOK, Goto, Return, Tool, File
<1>8. CASE \/ SealOrigin(x) \/ SealVerify(x) \/ ExecSealed(x)
           \/ CheckConformance(x)
  BY <1>8 DEF SealOrigin, SealVerify, ExecSealed, CheckConformance, TypeOK,
              Goto, Return, Tool, File
<1>9. ASSUME NEW n \in Names,
             \/ CollectParse(x, n) \/ CollectHash(x, n) \/ Discover(x, n)
             \/ ImportModule(x, n) \/ ImportFails(x, n) \/ ReloadModule(x, n)
      PROVE  GateAt(x)'
  BY <1>9 DEF CollectParse, CollectHash, Discover, ImportModule, ImportFails,
              ReloadModule, TypeOK, Goto, Return, Tool, File
<1> QED
  BY <1>1, <1>2, <1>3, <1>4, <1>5, <1>6, <1>7, <1>8, <1>9 DEF Step, Continue

(* Only the gate pins. *)
LEMMA GateOnlyPins ==
  ASSUME TypeOK, NEW x \in Contexts, Step(x),
         NEW f \in Files, pinned'[f] # pinned[f]
  PROVE  GatePin(x) \/ GateRepin(x)
<1>1. ASSUME NEW l \in Locks, Admit(x, l) \/ ImportByHost(x, l)
      PROVE  FALSE
  BY <1>1 DEF Admit, ImportByHost, shared
<1>2. CASE \/ GateCheck(x) \/ GateRead(x) \/ GateCompare(x) \/ LoadScript(x)
           \/ LoadDone(x) \/ VerifyRuntimePin(x) \/ SkipIncomplete(x)
           \/ BindBody(x) \/ BindDeps(x) \/ DynamicImportLeak(x)
           \/ SealOrigin(x) \/ SealVerify(x) \/ ExecSealed(x)
           \/ CheckConformance(x)
  BY <1>2 DEF GateCheck, GateRead, GateCompare, LoadScript, LoadDone,
              VerifyRuntimePin, SkipIncomplete, BindBody, BindDeps,
              DynamicImportLeak, SealOrigin, SealVerify, ExecSealed,
              CheckConformance, shared
<1>3. ASSUME NEW n \in Names,
             \/ CollectParse(x, n) \/ CollectHash(x, n) \/ Discover(x, n)
             \/ ImportModule(x, n) \/ ImportFails(x, n) \/ ReloadModule(x, n)
      PROVE  FALSE
  BY <1>3 DEF CollectParse, CollectHash, Discover, ImportModule, ImportFails,
              ReloadModule, shared
<1> QED
  BY <1>1, <1>2, <1>3 DEF Step, Continue

(* It pins the tool it is judging. *)
LEMMA PinnedByGate ==
  ASSUME TypeOK, NEW x \in Contexts, Step(x),
         NEW f \in Files, pinned'[f] # pinned[f]
  PROVE  pc[x] # "idle" /\ f = Tool(x)
  BY GateOnlyPins, FileTypes DEF GatePin, GateRepin, TypeOK

GateInv == \A x \in Contexts : GateAt(x)

LEMMA PinnedElsewhere ==
  ASSUME Distinct, TypeInv, GateInv, NEW x \in Contexts, Step(x),
         NEW y \in Contexts \ {x}, pc[y] # "idle"
  PROVE  pinned'[Tool(y)] = pinned[Tool(y)]
<1> SUFFICES ASSUME pinned'[Tool(y)] # pinned[Tool(y)] PROVE FALSE
  OBVIOUS
<1>1. pc[x] # "idle" /\ Tool(y) = Tool(x)
  BY PinnedByGate, FileTypes DEF TypeInv
<1>2. lock[x] \in May[x] /\ lock[y] \in May[y]
  BY <1>1 DEF GateInv, GateAt
<1> QED
  BY <1>1, <1>2 DEF Distinct, Tool, File

LEMMA GateInduction ==
  ASSUME Distinct, TypeInv, GateInv, [Next]_vars
  PROVE  GateInv'
<1> SUFFICES ASSUME NEW y \in Contexts PROVE GateAt(y)'
  BY DEF GateInv
<1>1. ASSUME NEW x \in Contexts, Step(x)
      PROVE  GateAt(y)'
  <2>1. CASE x = y
    BY <1>1, <2>1, GateStep DEF GateInv
  <2>2. CASE x # y
    <3>1. /\ pc'[y] = pc[y] /\ entry'[y] = entry[y] /\ lock'[y] = lock[y]
          /\ src'[y] = src[y] /\ code'[y] = code[y]
          /\ verdict'[y] = verdict[y]
      BY <1>1, <2>2, OthersUnchanged DEF TypeInv
    <3>2. pc[y] # "idle" => pinned'[Tool(y)] = pinned[Tool(y)]
      BY <1>1, <2>2, PinnedElsewhere
    <3> QED
      BY <3>1, <3>2 DEF GateInv, GateAt, Matched, Tool, File
  <2> QED
    BY <2>1, <2>2
<1>2. CASE Environment
  BY <1>2, EnvironmentLocals DEF GateInv, GateAt, locals, Tool, File
<1>3. CASE UNCHANGED vars
  BY <1>3 DEF vars, GateInv, GateAt, Tool, File
<1> QED
  BY <1>1, <1>2, <1>3 DEF Next

(* The gate theorem: when no two contexts judge the same file, whatever is *)
(* saved after the hash was compared, the bytes the CLI executes and the   *)
(* bytes a PASS is about are those whose hash the lock holds.              *)
THEOREM GateTheorem ==
  ASSUME Distinct
  PROVE  Spec => []ToolBytesApproved
<1>1. Init => GateInv
  BY DEF Init, GateInv, GateAt, Matched, Early
<1>2. TypeInv /\ GateInv /\ [Next]_vars => GateInv'
  BY GateInduction
<1>3. GateInv => ToolBytesApproved
  BY DEF GateInv, GateAt, ToolBytesApproved, Running, Early
<1> QED
  BY <1>1, <1>2, <1>3, TypeCorrect, PTL DEF Spec

(* Between the look-up and the pin nothing is pinned for the file; before  *)
(* the second pin, what is pinned is what was compared.                    *)
PinAt(x) ==
  /\ pc[x] \in {"read", "pin"} => pinned[Tool(x)] = Absent
  /\ pc[x] = "repin" => src[x] = pinned[Tool(x)]

LEMMA PinStep ==
  ASSUME TypeInv, NEW x \in Contexts, PinAt(x), Step(x)
  PROVE  PinAt(x)'
<1> USE DEF PinAt, TypeInv, shared
<1>1. ASSUME NEW l \in Locks, Admit(x, l) \/ ImportByHost(x, l)
      PROVE  PinAt(x)'
  BY <1>1 DEF Admit, ImportByHost, TypeOK, Goto, Return
<1>2. CASE \/ GateCheck(x) \/ GateRead(x) \/ GatePin(x) \/ GateCompare(x)
           \/ GateRepin(x)
  BY <1>2 DEF GateCheck, GateRead, GatePin, GateCompare, GateRepin, TypeOK,
              Goto, Return, Tool, File
<1>3. CASE \/ LoadScript(x) \/ LoadDone(x) \/ VerifyRuntimePin(x)
           \/ SkipIncomplete(x) \/ BindBody(x) \/ BindDeps(x)
           \/ DynamicImportLeak(x)
  BY <1>3 DEF LoadScript, LoadDone, VerifyRuntimePin, SkipIncomplete, BindBody,
              BindDeps, DynamicImportLeak, TypeOK, Goto, Return, Tool, File
<1>4. CASE \/ SealOrigin(x) \/ SealVerify(x) \/ ExecSealed(x)
           \/ CheckConformance(x)
  BY <1>4 DEF SealOrigin, SealVerify, ExecSealed, CheckConformance, TypeOK,
              Goto, Return, Tool, File
<1>5. ASSUME NEW n \in Names,
             \/ CollectParse(x, n) \/ CollectHash(x, n) \/ Discover(x, n)
             \/ ImportModule(x, n) \/ ImportFails(x, n) \/ ReloadModule(x, n)
      PROVE  PinAt(x)'
  BY <1>5 DEF CollectParse, CollectHash, Discover, ImportModule, ImportFails,
              ReloadModule, TypeOK, Goto, Return, Tool, File
<1> QED
  BY <1>1, <1>2, <1>3, <1>4, <1>5 DEF Step, Continue

PinInv == \A x \in Contexts : PinAt(x)

LEMMA PinInduction ==
  ASSUME Distinct, TypeInv, GateInv, PinInv, [Next]_vars
  PROVE  PinInv'
<1> SUFFICES ASSUME NEW y \in Contexts PROVE PinAt(y)'
  BY DEF PinInv
<1>1. ASSUME NEW x \in Contexts, Step(x)
      PROVE  PinAt(y)'
  <2>1. CASE x = y
    BY <1>1, <2>1, PinStep DEF PinInv
  <2>2. CASE x # y
    <3>1. pc'[y] = pc[y] /\ lock'[y] = lock[y] /\ src'[y] = src[y]
      BY <1>1, <2>2, OthersUnchanged DEF TypeInv
    <3>2. pc[y] # "idle" => pinned'[Tool(y)] = pinned[Tool(y)]
      BY <1>1, <2>2, PinnedElsewhere
    <3> QED
      BY <3>1, <3>2 DEF PinInv, PinAt, Tool, File
  <2> QED
    BY <2>1, <2>2
<1>2. CASE Environment
  BY <1>2, EnvironmentLocals DEF PinInv, PinAt, locals, Tool, File
<1>3. CASE UNCHANGED vars
  BY <1>3 DEF vars, PinInv, PinAt, Tool, File
<1> QED
  BY <1>1, <1>2, <1>3 DEF Next

LEMMA PinKept ==
  ASSUME TypeInv, PinInv, [Next]_vars, NEW f \in Files, pinned[f] # Absent
  PROVE  pinned'[f] = pinned[f]
<1>1. ASSUME NEW x \in Contexts, Step(x), pinned'[f] # pinned[f]
      PROVE  FALSE
  <2>1. GatePin(x) \/ GateRepin(x)
    BY <1>1, GateOnlyPins DEF TypeInv
  <2>2. pinned' = [pinned EXCEPT ![Tool(x)] = src[x]] /\ f = Tool(x)
    BY <1>1, <2>1 DEF GatePin, GateRepin, TypeInv, TypeOK
  <2> QED
    BY <1>1, <2>1, <2>2 DEF GatePin, GateRepin, PinInv, PinAt, TypeInv, TypeOK
<1>2. CASE Environment
  BY <1>2, EnvironmentLocals
<1>3. CASE UNCHANGED vars
  BY <1>3 DEF vars
<1> QED
  BY <1>1, <1>2, <1>3 DEF Next

(* The pin theorem: when no two contexts judge the same file, bytes once   *)
(* pinned for a path stay, so every read of the tool that follows in the   *)
(* process is of the bytes that were compared.  Two contexts on one file   *)
(* can replace them: look-up, read and pin are three steps.                *)
THEOREM PinTheorem ==
  ASSUME Distinct
  PROVE  Spec => PinStable
<1>1. Init => GateInv /\ PinInv
  BY DEF Init, GateInv, GateAt, Matched, Early, PinInv, PinAt
<1>2. TypeInv /\ GateInv /\ [Next]_vars => GateInv'
  BY GateInduction
<1>3. TypeInv /\ GateInv /\ PinInv /\ [Next]_vars => PinInv'
  BY PinInduction
<1>4. TypeInv /\ PinInv /\ [Next]_vars =>
        [\A f \in Files : pinned[f] # Absent => pinned'[f] = pinned[f]]_vars
  BY PinKept
<1> QED
  BY <1>1, <1>2, <1>3, <1>4, TypeCorrect, PTL DEF Spec, PinStable

-----------------------------------------------------------------------------
(* The helpers *)

(* The conditions under which helpers run from their locked bytes: files   *)
(* are saved but neither unlinked nor created, tools and helpers import    *)
(* local files inside functions only, the judge is entered by the CLI, no  *)
(* file imports a tool, and a name the tool's directory lacks is not found *)
(* on sys.path among the directories either.                               *)
Steady ==
  /\ ~Relocates
  /\ \A c \in Contents : c.eager = {}
  /\ Entries = {"admit"}
  /\ \A l \in Locks, c \in Contents : l.tool \notin c.imports
  /\ SysPath \in Dirs =>
       \A d \in Dirs, n \in Names :
         Saves[<<d, n>>] = {} => Saves[<<SysPath, n>>] = {}

Local(x, n) == Saves[File(x, n)] # {}

(* A file exists iff it has versions; a module was read from sys.path. *)
FilesAt ==
  /\ \A f \in Files : disk[f] = Absent <=> Saves[f] = {}
  /\ \A n \in Names : modules[n] # Absent =>
       SysPath \in Dirs /\ Saves[<<SysPath, n>>] # {}

(* The walk holds the tool, and what it found or has yet to visit is       *)
(* closed under local imports.                                             *)
WalkAt(x) ==
  LET w == walk[x]
      t == lock[x].tool IN
  /\ w.got[t] \in {Absent, lock[x].source}
  /\ w.got[t] = Absent => t \in w.todo
  /\ \A n \in Names : w.got[n] # Absent =>
       \A m \in w.got[n].imports :
         Local(x, m) => w.got[m] # Absent \/ m \in w.todo

(* Everything local that the tool or a sealed helper imports is sealed. *)
Covered(x, c) == \A m \in c.imports : Local(x, m) => sealed[x][m] # Absent

ClosedAt(x) ==
  /\ sealed[x] = lock[x].deps
  /\ Covered(x, lock[x].source)
  /\ \A n \in Names : sealed[x][n] # Absent => Covered(x, sealed[x][n])

HelperAt(x) ==
  /\ entry[x] = "admit"
  /\ pc[x] \notin Early => disk[Tool(x)] # Absent
  /\ pc[x] \notin {"idle", "body"} => ran[x] = {}
  /\ pc[x] = "loading" => need[x] = {}
  /\ pc[x] = "discover" => WalkAt(x)
  /\ pc[x] \in {"exec", "body"} => ClosedAt(x)
  /\ pc[x] = "body" =>
       /\ \A n \in need[x] : Local(x, n) => sealed[x][n] # Absent
       /\ \A p \in ran[x] : sealed[x][p[1]] = p[2]
  /\ verdict[x].status = "PASS" =>
       \A p \in ran[x] : lock[x].deps[p[1]] = p[2]

(* Steps that move control only, before the walk of the seal. *)
LEMMA HelperControl ==
  ASSUME Steady, TypeInv, NEW x \in Contexts, HelperAt(x),
         \/ GateCheck(x) \/ GateRead(x) \/ GatePin(x) \/ GateCompare(x)
         \/ GateRepin(x) \/ LoadDone(x) \/ VerifyRuntimePin(x)
         \/ SkipIncomplete(x) \/ BindBody(x) \/ BindDeps(x)
         \/ DynamicImportLeak(x)
  PROVE  HelperAt(x)'
<1> USE DEF TypeInv, HelperAt, Early, shared, Tool, File
<1>1. CASE GateCheck(x) \/ GateRead(x) \/ GatePin(x) \/ GateCompare(x)
           \/ GateRepin(x)
  BY <1>1 DEF GateCheck, GateRead, GatePin, GateCompare, GateRepin, TypeOK,
              Goto, Return
<1>2. CASE LoadDone(x) \/ VerifyRuntimePin(x) \/ SkipIncomplete(x)
  BY <1>2 DEF LoadDone, VerifyRuntimePin, SkipIncomplete, TypeOK, Goto, Return
<1>3. CASE BindBody(x) \/ BindDeps(x) \/ DynamicImportLeak(x)
  BY <1>3 DEF BindBody, BindDeps, DynamicImportLeak, TypeOK, Goto, Return
<1> QED
  BY <1>1, <1>2, <1>3

LEMMA HelperBegin ==
  ASSUME Steady, TypeInv, NEW x \in Contexts, NEW l \in Locks,
         Admit(x, l) \/ ImportByHost(x, l)
  PROVE  HelperAt(x)'
<1>1. Admit(x, l)
  BY DEF ImportByHost, Begin, Steady
<1> QED
  BY <1>1 DEF Admit, Begin, HelperAt, TypeInv, TypeOK, Goto, Return, Early

LEMMA HelperLoad ==
  ASSUME Steady, TypeInv, NEW x \in Contexts, HelperAt(x), LoadScript(x)
  PROVE  HelperAt(x)'
<1> USE DEF TypeInv, HelperAt, Early, shared, Tool, File
<1>1. CASE disk[Tool(x)] = Absent
  BY <1>1 DEF LoadScript, TypeOK, Return, Goto
<1>2. CASE disk[Tool(x)] # Absent
  <2>1. Read(Tool(x)) \in Contents
    BY <1>2, FileTypes, ReadPresent
  <2>2. Read(Tool(x)).eager = {}
    BY <2>1 DEF Steady
  <2> QED
    BY <1>2, <2>2 DEF LoadScript, TypeOK, Return, Goto
<1> QED
  BY <1>1, <1>2

LEMMA HelperCollect ==
  ASSUME Steady, TypeInv, NEW x \in Contexts, HelperAt(x), NEW n \in Names,
         CollectParse(x, n) \/ CollectHash(x, n)
  PROVE  HelperAt(x)'
  BY DEF HelperAt, CollectParse, CollectHash, TypeInv, TypeOK, Return, Goto,
         Early, shared, Tool, File

LEMMA HelperDiscover ==
  ASSUME Steady, TypeInv, FilesAt, NEW x \in Contexts, HelperAt(x),
         GateAt(x), NEW n \in Names, Discover(x, n)
  PROVE  HelperAt(x)'
<1> DEFINE w == walk[x]
           c == Read(File(x, n))
           t == lock[x].tool
           found == {m \in Resolved(x, c) : w.got[m] = Absent}
<1>1. pc[x] = "discover" /\ n \in w.todo /\ WalkAt(x)
  BY DEF Discover, HelperAt
<1>2. pc' = pc /\ lock' = lock
  BY DEF Discover
<1>3. t \in Names /\ w.got \in [Names -> Slot] /\ File(x, n) \in Files
  BY LockFields, FileTypes DEF TypeInv, TypeOK
<1>4. WalkAt(x)'
  <2>1. CASE disk[File(x, n)] = Absent
    <3>1. walk'[x] = [todo |-> w.todo \ {n}, open |-> {}, got |-> w.got]
      BY <2>1 DEF Discover, TypeInv, TypeOK
    <3>2. ~Local(x, n)
      BY <1>3, <2>1 DEF FilesAt, Local
    <3>3. n # t
      BY <1>1, <2>1 DEF HelperAt, Tool, File, Early
    <3> QED
      BY <1>1, <1>2, <3>1, <3>2, <3>3 DEF WalkAt, Local, File
  <2>2. CASE disk[File(x, n)] # Absent
    <3>1. walk'[x] = [todo |-> (w.todo \cup found) \ {n}, open |-> {},
                      got |-> [w.got EXCEPT ![n] = c]]
      BY <2>2 DEF Discover, TypeInv, TypeOK
    <3>2. c \in Contents /\ c # Absent /\ c.imports \in SUBSET Names
      BY <1>3, <2>2, ReadPresent, ContentFields DEF TypeInv
    <3>3. n = t => c = lock[x].source
      BY <1>1 DEF GateAt, HelperAt, Matched, Read, Tool, File
    <3>4. \A m \in c.imports : Local(x, m) =>
             w.got[m] # Absent \/ m \in found
      <4> TAKE m \in c.imports
      <4>1. File(x, m) \in Files
        BY <3>2, FileTypes DEF TypeInv
      <4> QED
        BY <4>1 DEF FilesAt, Local, Resolved
    <3> DEFINE g == [w.got EXCEPT ![n] = c]
               T == (w.todo \cup found) \ {n}
    <3>5. /\ g[t] \in {Absent, lock[x].source}
          /\ g[t] = Absent => t \in T
      BY <1>1, <1>3, <3>2, <3>3 DEF WalkAt
    <3>6. ASSUME NEW k \in Names, g[k] # Absent, NEW m \in g[k].imports,
                 Local(x, m)
          PROVE  g[m] # Absent \/ m \in T
      <4>1. m \in Names
        BY <1>3, <3>2, <3>6, ContentFields DEF Slot
      <4>2. CASE k = n
        BY <1>3, <3>2, <3>4, <3>6, <4>1, <4>2
      <4>3. CASE k # n
        BY <1>1, <1>3, <3>2, <3>6, <4>1, <4>3 DEF WalkAt
      <4> QED
        BY <4>2, <4>3
    <3>7. walk'[x].got = g /\ walk'[x].todo = T
      BY <3>1
    <3>8. \A m : Local(x, m)' <=> Local(x, m)
      BY <1>2 DEF Local, File
    <3> HIDE DEF g, T
    <3> QED
      BY <1>2, <3>5, <3>6, <3>7, <3>8 DEF WalkAt
  <2> QED
    BY <2>1, <2>2
<1> QED
  BY <1>1, <1>2, <1>4 DEF HelperAt, Discover, Early, shared, Tool, File

LEMMA HelperSeal ==
  ASSUME Steady, TypeInv, NEW x \in Contexts, HelperAt(x), GateAt(x),
         SealOrigin(x) \/ SealVerify(x) \/ ExecSealed(x)
  PROVE  HelperAt(x)'
<1> DEFINE t == lock[x].tool
           w == walk[x]
<1>1. t \in Names /\ w.got \in [Names -> Slot] /\ lock[x] \in Locks
  BY LockFields DEF TypeInv, TypeOK
<1>2. CASE SealOrigin(x)
  <2>1. /\ walk'[x] = [todo |-> {t}, open |-> {}, got |-> Unsealed]
        /\ pc'[x] = "discover" /\ pc[x] = "origin"
        /\ UNCHANGED <<shared, entry, lock, sealed, ran, verdict>>
    BY <1>2 DEF SealOrigin, HelperAt, Early, TypeInv, TypeOK, Goto
  <2>2. WalkAt(x)'
    BY <1>1, <2>1 DEF WalkAt, Unsealed
  <2> QED
    BY <2>1, <2>2 DEF HelperAt, Early, shared, Tool, File
<1>3. CASE SealVerify(x)
  <2> DEFINE deps == [w.got EXCEPT ![t] = Absent]
  <2>1. CASE deps # lock[x].deps
    BY <1>3, <2>1 DEF SealVerify, HelperAt, Early, TypeInv, TypeOK, Return,
                      Goto, shared, Tool, File
  <2>2. CASE deps = lock[x].deps
    <3>1. /\ sealed'[x] = deps /\ pc'[x] = "exec" /\ pc[x] = "discover"
          /\ UNCHANGED <<shared, entry, lock, ran, verdict>>
          /\ w.todo = {}
      BY <1>3, <2>2 DEF SealVerify, TypeInv, TypeOK, Goto
    <3>2. WalkAt(x) /\ w.got[t] = lock[x].source /\ lock[x].source # Absent
      BY <3>1 DEF HelperAt, WalkAt, GateAt
    <3>3. ASSUME NEW n \in Names, w.got[n] # Absent, NEW m \in w.got[n].imports,
                 Local(x, m)
          PROVE  m \in Names /\ deps[m] # Absent
      <4>1. w.got[n] \in Contents
        BY <1>1, <3>3 DEF Slot
      <4>2. m # t /\ m \in Names
        BY <1>1, <3>3, <4>1, ContentFields DEF Steady
      <4> QED
        BY <1>1, <3>1, <3>2, <3>3, <4>2 DEF WalkAt
    <3>4. \A m : Local(x, m)' <=> Local(x, m)
      BY <3>1 DEF Local, File
    <3>5. ClosedAt(x)'
      <4>1. Covered(x, lock[x].source)'
        BY <1>1, <3>1, <3>2, <3>3, <3>4 DEF Covered
      <4>2. ASSUME NEW n \in Names, deps[n] # Absent
            PROVE  deps[n] = w.got[n]
        BY <1>1, <4>2
      <4>3. ASSUME NEW n \in Names, sealed'[x][n] # Absent
            PROVE  Covered(x, sealed[x][n])'
        BY <3>1, <3>3, <3>4, <4>2, <4>3 DEF Covered
      <4> QED
        BY <2>2, <3>1, <4>1, <4>3 DEF ClosedAt
    <3> QED
      BY <3>1, <3>5 DEF HelperAt, Early, shared, Tool, File
  <2> QED
    BY <2>1, <2>2
<1>4. CASE ExecSealed(x)
  <2>1. CASE Return(x, "raised", "helper")
    BY <1>4, <2>1 DEF ExecSealed, HelperAt, Early, TypeInv, TypeOK, Return,
                      Goto, shared, Tool, File
  <2>2. CASE /\ need' = [need EXCEPT ![x] = LazyImports(x)]
             /\ Goto(x, "body")
             /\ UNCHANGED <<sealed, verdict>>
    <3>1. ran[x] = {} /\ code[x] = lock[x].source /\ ClosedAt(x)
      BY <1>4 DEF ExecSealed, HelperAt, GateAt, Early
    <3>2. LazyImports(x) \subseteq lock[x].source.imports
      BY <3>1 DEF LazyImports
    <3>3. need'[x] \subseteq lock[x].source.imports
      BY <2>2, <3>2 DEF TypeInv, TypeOK
    <3>4. pc'[x] = "body" /\ UNCHANGED <<shared, entry, lock, sealed, ran, verdict>>
      BY <1>4, <2>2 DEF ExecSealed, Goto, TypeInv, TypeOK
    <3>5. ClosedAt(x)'
      BY <3>1, <3>4 DEF ClosedAt, Covered, Local, File
    <3>6. \A n \in need'[x] : Local(x, n) => sealed[x][n] # Absent
      BY <3>1, <3>3 DEF ClosedAt, Covered
    <3> QED
      BY <1>4, <3>1, <3>4, <3>5, <3>6
         DEF ExecSealed, HelperAt, Early, shared, Tool, File, Local
  <2> QED
    BY <1>4, <2>1, <2>2 DEF ExecSealed
<1> QED
  BY <1>2, <1>3, <1>4

(* An import statement of the body that succeeds finds a sealed module. *)
LEMMA SealedImport ==
  ASSUME Steady, TypeInv, FilesAt, NEW x \in Contexts, NEW n \in Names,
         Local(x, n) => sealed[x][n] # Absent, Import(x, n) # Absent
  PROVE  sealed[x][n] # Absent
<1> SUFFICES ASSUME sealed[x][n] = Absent PROVE FALSE
  OBVIOUS
<1>1. Saves[<<lock[x].dir, n>>] = {} /\ lock[x].dir \in Dirs
  BY LockFields DEF Local, File, TypeInv, TypeOK
<1>2. SysPath \in Dirs => Saves[<<SysPath, n>>] = {}
  BY <1>1 DEF Steady
<1>3. modules[n] = Absent
  BY <1>2 DEF FilesAt
<1>4. OnSysPath(n) = Absent
  BY <1>2 DEF FilesAt, OnSysPath, Files
<1> QED
  BY <1>3, <1>4 DEF Import

LEMMA HelperImport ==
  ASSUME Steady, TypeInv, FilesAt, NEW x \in Contexts, HelperAt(x),
         NEW n \in Names,
         ImportModule(x, n) \/ ReloadModule(x, n) \/ ImportFails(x, n)
  PROVE  HelperAt(x)'
<1>1. ASSUME pc[x] = "body", NEW c, c = sealed[x][n], c # Absent,
             ran' = [ran EXCEPT ![x] = @ \cup {<<n, c>>}],
             need'[x] \subseteq need[x] \cup c.imports,
             UNCHANGED <<disk, pc, entry, lock, sealed, verdict>>
      PROVE  HelperAt(x)'
  <2>1. ClosedAt(x) /\ Covered(x, c)
    BY <1>1 DEF HelperAt, ClosedAt
  <2>2. ClosedAt(x)'
    BY <1>1, <2>1 DEF ClosedAt, Covered, Local, File
  <2>3. ran'[x] = ran[x] \cup {<<n, c>>}
    BY <1>1 DEF TypeInv, TypeOK
  <2>4. \A m \in need'[x] : Local(x, m) => sealed[x][m] # Absent
    BY <1>1, <2>1 DEF HelperAt, Covered
  <2>5. \A p \in ran'[x] : sealed[x][p[1]] = p[2]
    BY <1>1, <2>3 DEF HelperAt
  <2>6. \A p \in ran'[x] : lock[x].deps[p[1]] = p[2]
    BY <2>1, <2>5 DEF ClosedAt
  <2> QED
    BY <1>1, <2>2, <2>4, <2>5, <2>6 DEF HelperAt, Early, Tool, File, Local
<1>2. CASE ImportModule(x, n)
  <2> DEFINE c == Import(x, n)
  <2>1. pc[x] = "body" /\ n \in need[x] /\ c # Absent
    BY <1>2 DEF ImportModule, HelperAt
  <2>2. sealed[x][n] # Absent
    BY <2>1, SealedImport DEF HelperAt
  <2>3. c = sealed[x][n]
    BY <2>2 DEF Import
  <2>4. need'[x] \subseteq need[x] \cup c.imports
    BY <1>2, <2>1 DEF ImportModule, TypeInv, TypeOK
  <2> QED
    BY <1>1, <1>2, <2>1, <2>3, <2>4 DEF ImportModule
<1>3. CASE ReloadModule(x, n)
  <2> DEFINE c == IF sealed[x][n] # Absent THEN sealed[x][n] ELSE OnSysPath(n)
  <2>1. PICK p \in ran[x] : p[1] = n /\ pc[x] = "body"
    BY <1>3 DEF ReloadModule
  <2>2. sealed[x][n] # Absent
    BY <2>1, ContentsAssumption DEF HelperAt, TypeInv, TypeOK
  <2>3. c = sealed[x][n]
    BY <2>2
  <2>4. need'[x] \subseteq need[x] \cup c.imports
    BY <1>3, <2>1 DEF ReloadModule, TypeInv, TypeOK
  <2> QED
    BY <1>1, <1>3, <2>1, <2>2, <2>3, <2>4 DEF ReloadModule
<1>4. CASE ImportFails(x, n)
  <2>1. pc[x] = "body"
    BY <1>4 DEF ImportFails, HelperAt
  <2> QED
    BY <1>4, <2>1 DEF ImportFails, HelperAt, ClosedAt, Covered, Local, TypeInv,
         TypeOK, Return, Goto, Early, shared, Tool, File
<1> QED
  BY <1>2, <1>3, <1>4

LEMMA HelperVerdict ==
  ASSUME TypeInv, NEW x \in Contexts, HelperAt(x), CheckConformance(x)
  PROVE  HelperAt(x)'
<1>1. \A p \in ran[x] : lock[x].deps[p[1]] = p[2]
  BY DEF CheckConformance, HelperAt, ClosedAt
<1>2. pc'[x] = "idle"
  BY DEF CheckConformance, Return, Goto, TypeInv, TypeOK
<1> QED
  BY <1>1, <1>2 DEF HelperAt, CheckConformance, Early

(* Contexts never write files. *)
LEMMA StepKeepsDisk ==
  ASSUME NEW x \in Contexts, Step(x)
  PROVE  UNCHANGED <<disk, contour, edits>>
<1> USE DEF shared
<1>1. ASSUME NEW l \in Locks, Admit(x, l) \/ ImportByHost(x, l)
      PROVE  UNCHANGED <<disk, contour, edits>>
  BY <1>1 DEF Admit, ImportByHost
<1>2. CASE \/ GateCheck(x) \/ GateRead(x) \/ GatePin(x) \/ GateCompare(x)
           \/ GateRepin(x) \/ LoadScript(x) \/ LoadDone(x)
           \/ VerifyRuntimePin(x) \/ SkipIncomplete(x)
  BY <1>2 DEF GateCheck, GateRead, GatePin, GateCompare, GateRepin, LoadScript,
              LoadDone, VerifyRuntimePin, SkipIncomplete
<1>3. CASE \/ BindBody(x) \/ BindDeps(x) \/ DynamicImportLeak(x)
           \/ SealOrigin(x) \/ SealVerify(x) \/ ExecSealed(x)
           \/ CheckConformance(x)
  BY <1>3 DEF BindBody, BindDeps, DynamicImportLeak, SealOrigin, SealVerify,
              ExecSealed, CheckConformance
<1>4. ASSUME NEW n \in Names,
             \/ CollectParse(x, n) \/ CollectHash(x, n) \/ Discover(x, n)
             \/ ImportModule(x, n) \/ ImportFails(x, n) \/ ReloadModule(x, n)
      PROVE  UNCHANGED <<disk, contour, edits>>
  BY <1>4 DEF CollectParse, CollectHash, Discover, ImportModule, ImportFails,
              ReloadModule
<1> QED
  BY <1>1, <1>2, <1>3, <1>4 DEF Step, Continue

(* What a context puts under a bare name it read from sys.path, or it was  *)
(* there already.                                                          *)
LEMMA StepModules ==
  ASSUME TypeOK, NEW x \in Contexts, Step(x), NEW n \in Names,
         modules'[n] # Absent, modules[n] = Absent
  PROVE  OnSysPath(n) # Absent
<1> USE DEF shared, TypeOK
<1>1. ASSUME NEW l \in Locks, Admit(x, l) \/ ImportByHost(x, l)
      PROVE  FALSE
  BY <1>1 DEF Admit, ImportByHost
<1>2. CASE \/ GateCheck(x) \/ GateRead(x) \/ GatePin(x) \/ GateCompare(x)
           \/ GateRepin(x) \/ LoadScript(x) \/ LoadDone(x)
           \/ VerifyRuntimePin(x) \/ SkipIncomplete(x)
  BY <1>2 DEF GateCheck, GateRead, GatePin, GateCompare, GateRepin, LoadScript,
              LoadDone, VerifyRuntimePin, SkipIncomplete
<1>3. CASE \/ BindBody(x) \/ BindDeps(x) \/ DynamicImportLeak(x)
           \/ SealOrigin(x) \/ SealVerify(x) \/ ExecSealed(x)
           \/ CheckConformance(x)
  BY <1>3 DEF BindBody, BindDeps, DynamicImportLeak, SealOrigin, SealVerify,
              ExecSealed, CheckConformance
<1>4. ASSUME NEW k \in Names,
             \/ CollectParse(x, k) \/ CollectHash(x, k) \/ Discover(x, k)
             \/ ImportFails(x, k)
      PROVE  FALSE
  BY <1>4 DEF CollectParse, CollectHash, Discover, ImportFails
<1>5. ASSUME NEW k \in Names, ImportModule(x, k)
      PROVE  OnSysPath(n) # Absent
  BY <1>5 DEF ImportModule, Import
<1>6. ASSUME NEW k \in Names, ReloadModule(x, k)
      PROVE  OnSysPath(n) # Absent
  BY <1>6 DEF ReloadModule
<1> QED
  BY <1>1, <1>2, <1>3, <1>4, <1>5, <1>6 DEF Step, Continue

LEMMA FilesStep ==
  ASSUME Steady, TypeInv, FilesAt, [Next]_vars
  PROVE  FilesAt'
<1>1. ASSUME NEW x \in Contexts, Step(x)
      PROVE  FilesAt'
  <2>1. disk' = disk
    BY <1>1, StepKeepsDisk
  <2>2. ASSUME NEW n \in Names, modules'[n] # Absent
        PROVE  SysPath \in Dirs /\ Saves[<<SysPath, n>>] # {}
    <3>1. CASE modules[n] # Absent
      BY <3>1 DEF FilesAt
    <3>2. CASE modules[n] = Absent
      <4>1. OnSysPath(n) # Absent
        BY <1>1, <2>2, <3>2, StepModules DEF TypeInv
      <4> QED
        BY <4>1 DEF OnSysPath, FilesAt, Files
    <3> QED
      BY <3>1, <3>2
  <2> QED
    BY <2>1, <2>2 DEF FilesAt
<1>2. ASSUME NEW f \in Files, NEW c \in Contents, Save(f, c)
      PROVE  FilesAt'
  <2>1. c # Absent /\ Saves[f] # {}
    BY <1>2, ContentFields DEF Save
  <2> QED
    BY <1>2, <2>1 DEF Save, FilesAt, TypeInv, TypeOK
<1>3. ASSUME NEW f \in Files, Unlink(f)
      PROVE  FilesAt'
  BY <1>3 DEF Unlink, Steady
<1>4. ASSUME NEW v \in Runtimes, Upgrade(v)
      PROVE  FilesAt'
  BY <1>4 DEF Upgrade, FilesAt
<1>5. CASE UNCHANGED vars
  BY <1>5 DEF vars, FilesAt
<1> QED
  BY <1>1, <1>2, <1>3, <1>4, <1>5 DEF Next, Environment

LEMMA HelperStep ==
  ASSUME Steady, TypeInv, FilesAt, NEW x \in Contexts, HelperAt(x),
         GateAt(x), Step(x)
  PROVE  HelperAt(x)'
<1>1. ASSUME NEW l \in Locks, Admit(x, l) \/ ImportByHost(x, l)
      PROVE  HelperAt(x)'
  BY <1>1, HelperBegin
<1>2. CASE \/ GateCheck(x) \/ GateRead(x) \/ GatePin(x) \/ GateCompare(x)
           \/ GateRepin(x) \/ LoadDone(x) \/ VerifyRuntimePin(x)
           \/ SkipIncomplete(x) \/ BindBody(x) \/ BindDeps(x)
           \/ DynamicImportLeak(x)
  BY <1>2, HelperControl
<1>3. CASE \/ LoadScript(x) \/ SealOrigin(x) \/ SealVerify(x)
           \/ ExecSealed(x) \/ CheckConformance(x)
  BY <1>3, HelperLoad, HelperSeal, HelperVerdict
<1>4. ASSUME NEW n \in Names,
             \/ CollectParse(x, n) \/ CollectHash(x, n) \/ Discover(x, n)
             \/ ImportModule(x, n) \/ ImportFails(x, n) \/ ReloadModule(x, n)
      PROVE  HelperAt(x)'
  BY <1>4, HelperCollect, HelperDiscover, HelperImport
<1> QED
  BY <1>1, <1>2, <1>3, <1>4 DEF Step, Continue

(* HelperAt depends on the locals of its context and on the presence of    *)
(* files only.                                                             *)
LEMMA HelperFrame ==
  ASSUME TypeInv, FilesAt, FilesAt', NEW y \in Contexts, HelperAt(y),
         pc'[y] = pc[y], entry'[y] = entry[y], lock'[y] = lock[y],
         walk'[y] = walk[y], sealed'[y] = sealed[y], ran'[y] = ran[y],
         need'[y] = need[y], verdict'[y] = verdict[y]
  PROVE  HelperAt(y)'
<1>1. Tool(y)' = Tool(y) /\ \A n : Local(y, n)' <=> Local(y, n)
  BY DEF Tool, File, Local
<1>2. disk[Tool(y)] # Absent => disk'[Tool(y)] # Absent
  BY FileTypes DEF FilesAt, TypeInv
<1>3. pc[y] = "discover" => WalkAt(y)'
  BY <1>1 DEF HelperAt, WalkAt
<1>4. pc[y] \in {"exec", "body"} => ClosedAt(y)'
  BY <1>1 DEF HelperAt, ClosedAt, Covered
<1> QED
  BY <1>1, <1>2, <1>3, <1>4 DEF HelperAt, Early

HelperInv == FilesAt /\ \A x \in Contexts : HelperAt(x)

LEMMA HelperInit ==
  ASSUME Init, TypeInv
  PROVE  HelperInv
<1>1. ASSUME NEW f \in Files PROVE disk[f] = Absent <=> Saves[f] = {}
  BY ContentsAssumption, EnvironmentAssumption DEF Init
<1>2. FilesAt
  BY <1>1 DEF Init, FilesAt, Unsealed
<1> QED
  BY <1>2 DEF Init, HelperInv, HelperAt, Early

LEMMA HelperInduction ==
  ASSUME Steady, TypeInv, GateInv, HelperInv, [Next]_vars
  PROVE  HelperInv'
<1>1. FilesAt /\ FilesAt'
  BY FilesStep DEF HelperInv
<1> SUFFICES ASSUME NEW y \in Contexts PROVE HelperAt(y)'
  BY <1>1 DEF HelperInv
<1>2. ASSUME NEW x \in Contexts, Step(x)
      PROVE  HelperAt(y)'
  <2>1. CASE x = y
    BY <1>1, <1>2, <2>1, HelperStep DEF HelperInv, GateInv
  <2>2. CASE x # y
    <3>1. /\ pc'[y] = pc[y] /\ entry'[y] = entry[y] /\ lock'[y] = lock[y]
          /\ walk'[y] = walk[y] /\ sealed'[y] = sealed[y]
          /\ ran'[y] = ran[y] /\ need'[y] = need[y]
          /\ verdict'[y] = verdict[y]
      BY <1>2, <2>2, OthersUnchanged DEF TypeInv
    <3> QED
      BY <1>1, <3>1, HelperFrame DEF HelperInv
  <2> QED
    BY <2>1, <2>2
<1>3. CASE Environment \/ UNCHANGED vars
  <2>1. UNCHANGED locals
    BY <1>3, EnvironmentLocals DEF vars, locals
  <2> QED
    BY <1>1, <2>1, HelperFrame DEF HelperInv, locals
<1> QED
  BY <1>2, <1>3 DEF Next

(* Both invariants together, for what is built on them. *)
LEMMA HelperInvariant ==
  ASSUME Distinct, Steady
  PROVE  Spec => [](TypeInv /\ GateInv /\ HelperInv)
<1>1. Init => GateInv
  BY DEF Init, GateInv, GateAt, Matched, Early
<1>2. TypeInv /\ GateInv /\ [Next]_vars => GateInv'
  BY GateInduction
<1>3. Init /\ TypeInv => HelperInv
  BY HelperInit
<1>4. TypeInv /\ GateInv /\ HelperInv /\ [Next]_vars => HelperInv'
  BY HelperInduction
<1> QED
  BY <1>1, <1>2, <1>3, <1>4, TypeCorrect, PTL DEF Spec

(* The helper theorem: in a directory whose files are saved over but not   *)
(* moved, with local imports inside functions, and no two contexts on one  *)
(* file, every helper the body holds is the locked version of its name, at *)
(* any depth of imports and through any reload.  Without Steady it is      *)
(* false: SharedName is a counterexample, and so is a tool that vanishes   *)
(* between binding and seal.                                               *)
THEOREM HelperTheorem ==
  ASSUME Distinct, Steady
  PROVE  Spec => []HelperBytesApproved
<1>1. TypeInv /\ HelperInv => HelperBytesApproved
  <2> SUFFICES ASSUME TypeInv, HelperInv, NEW x \in Contexts, Running(x),
                      NEW p \in ran[x]
               PROVE  p[2] = lock[x].deps[p[1]]
    BY DEF HelperBytesApproved
  <2>1. CASE pc[x] = "body"
    BY <2>1 DEF HelperInv, HelperAt, ClosedAt
  <2>2. CASE verdict[x].status = "PASS"
    BY <2>2 DEF HelperInv, HelperAt
  <2> QED
    BY <2>1, <2>2 DEF Running
<1> QED
  BY <1>1, HelperInvariant, PTL
-----------------------------------------------------------------------------
(* A walk over files that stand still *)

(* What DumpLock says, with names for its parts: the files there are, the  *)
(* ones among them that n imports, the sets that no import leaves, and the *)
(* least of them.                                                          *)
There(dk, d) == {n \in Names : dk[<<d, n>>] # Absent}
Imports(dk, d, n) == dk[<<d, n>>].imports \cap There(dk, d)
NoWayOut(dk, d, t, S) == /\ Imports(dk, d, t) \subseteq S
                         /\ \A n \in S : Imports(dk, d, n) \subseteq S
Reach(dk, d, t) == {n \in There(dk, d) :
                      \A S \in SUBSET There(dk, d) :
                        NoWayOut(dk, d, t, S) => n \in S}
LiveDeps(dk, d, t) == [n \in Names |-> IF n \in Reach(dk, d, t)
                                         THEN dk[<<d, n>>] ELSE Absent]

Had(w) == {n \in Names : w.got[n] # Absent}

(* collect_local_dep_hashes: what it has hashed or has yet to hash is      *)
(* reached, and what is neither open nor hashed is imported by nothing it  *)
(* has parsed.                                                             *)
CollectOf(dk, d, t, w) ==
  /\ \A n \in Had(w) : w.got[n] = dk[<<d, n>>]
  /\ w.todo \cup Had(w) \subseteq Reach(dk, d, t)
  /\ w.open \subseteq {t} \cup Had(w)
  /\ \A n \in {t} \cup Had(w) :
       n \in w.open \/ Imports(dk, d, n) \subseteq w.todo \cup Had(w)

(* _discover, which begins with the tool itself. *)
DiscoverOf(dk, d, t, w) ==
  /\ \A n \in Had(w) : w.got[n] = dk[<<d, n>>]
  /\ t \in w.todo \cup Had(w)
  /\ w.todo \cup Had(w) \subseteq {t} \cup Reach(dk, d, t)
  /\ \A n \in Had(w) : Imports(dk, d, n) \subseteq w.todo \cup Had(w)

LEMMA DumpIs ==
  ASSUME NEW dk, NEW d, NEW t, NEW ct
  PROVE  DumpLock(d, t, dk, ct) =
           [dir |-> d, tool |-> t, source |-> dk[<<d, t>>],
            body |-> <<dk[<<d, t>>].canon, dk[<<d, t>>].contract>>,
            deps |-> LiveDeps(dk, d, t), contour |-> ct, complete |-> TRUE,
            iface |-> TRUE, dynamic |-> FALSE]
  BY DEF DumpLock, LiveDeps, Reach, NoWayOut, Imports, There

(* Reach is what the definition of a least set says. *)
LEMMA ReachIs ==
  ASSUME NEW dk, NEW d, NEW t
  PROVE  /\ Reach(dk, d, t) \subseteq There(dk, d)
         /\ \A n \in {t} \cup Reach(dk, d, t) :
              Imports(dk, d, n) \subseteq Reach(dk, d, t)
         /\ \A S \in SUBSET There(dk, d) :
              NoWayOut(dk, d, t, S) => Reach(dk, d, t) \subseteq S
<1>1. ASSUME NEW n \in {t} \cup Reach(dk, d, t), NEW m \in Imports(dk, d, n),
             NEW S \in SUBSET There(dk, d), NoWayOut(dk, d, t, S)
      PROVE  m \in S
  BY <1>1 DEF Reach, NoWayOut
<1>2. \A n : Imports(dk, d, n) \subseteq There(dk, d)
  BY DEF Imports
<1> QED
  BY <1>1, <1>2 DEF Reach

(* A file is parsed: what it imports and is not hashed is to be. *)
LEMMA CollectParsed ==
  ASSUME NEW dk, NEW d, NEW t \in Names, NEW w, CollectOf(dk, d, t, w),
         NEW n \in w.open, NEW v, v.got = w.got, v.open = w.open \ {n},
         v.todo = w.todo \cup {m \in Imports(dk, d, n) : w.got[m] = Absent}
  PROVE  CollectOf(dk, d, t, v)
<1>1. Had(v) = Had(w)
  BY DEF Had
<1>2. n \in {t} \cup Reach(dk, d, t)
  BY DEF CollectOf
<1>3. Imports(dk, d, n) \subseteq Reach(dk, d, t) /\ Imports(dk, d, n) \subseteq Names
  BY <1>2, ReachIs DEF Imports, There
<1>4. Imports(dk, d, n) \subseteq v.todo \cup Had(v)
  BY <1>1, <1>3 DEF Had
<1> QED
  BY <1>1, <1>3, <1>4 DEF CollectOf

(* A file is hashed, and opened but for the tool. *)
LEMMA CollectHashed ==
  ASSUME NEW dk, NEW d, NEW t \in Names, NEW w, CollectOf(dk, d, t, w),
         w.got \in [Names -> Slot],
         NEW n \in w.todo, NEW v, v.got = [w.got EXCEPT ![n] = dk[<<d, n>>]],
         v.todo = w.todo \ {n},
         v.open = w.open \cup IF n = t THEN {} ELSE {n}
  PROVE  CollectOf(dk, d, t, v)
<1>1. n \in Reach(dk, d, t) /\ n \in Names /\ dk[<<d, n>>] # Absent
  BY ReachIs DEF CollectOf, There
<1>2. /\ v.got[n] = dk[<<d, n>>]
      /\ \A m \in Names \ {n} : v.got[m] = w.got[m]
  BY <1>1
<1>3. Had(v) = Had(w) \cup {n}
  BY <1>1, <1>2 DEF Had
<1>4. v.todo \cup Had(v) = w.todo \cup Had(w)
  BY <1>3
<1>5. \A m \in Had(v) : v.got[m] = dk[<<d, m>>]
  BY <1>2, <1>3 DEF CollectOf, Had
<1>6. v.open \subseteq {t} \cup Had(v)
  BY <1>3 DEF CollectOf
<1>7. ASSUME NEW m \in {t} \cup Had(v)
      PROVE  m \in v.open \/ Imports(dk, d, m) \subseteq v.todo \cup Had(v)
  BY <1>3, <1>4 DEF CollectOf
<1> QED
  BY <1>4, <1>5, <1>6, <1>7 DEF CollectOf

(* A walk that is over has hashed what is reached. *)
LEMMA CollectOver ==
  ASSUME NEW dk, NEW d, NEW t \in Names, NEW w, CollectOf(dk, d, t, w),
         w.got \in [Names -> Slot], w.todo = {}, w.open = {}
  PROVE  w.got = LiveDeps(dk, d, t)
<1>1. Had(w) \subseteq Reach(dk, d, t) /\ Had(w) \subseteq There(dk, d)
  BY ReachIs DEF CollectOf
<1>2. NoWayOut(dk, d, t, Had(w))
  BY DEF CollectOf, NoWayOut
<1>3. Had(w) = Reach(dk, d, t)
  BY <1>1, <1>2, ReachIs
<1>4. \A n \in Names : w.got[n] = IF n \in Reach(dk, d, t)
                                    THEN dk[<<d, n>>] ELSE Absent
  BY <1>3 DEF CollectOf, Had
<1> QED
  BY <1>4 DEF LiveDeps

LEMMA CollectStarts ==
  ASSUME NEW dk, NEW d, NEW t \in Names, NEW w, w.got = Unsealed,
         w.todo = {}, w.open = {t}
  PROVE  CollectOf(dk, d, t, w)
<1>1. Had(w) = {}
  BY DEF Had, Unsealed
<1> QED
  BY <1>1 DEF CollectOf

(* A file is discovered: read once, for its bytes and its imports. *)
LEMMA DiscoverRead ==
  ASSUME NEW dk, NEW d, NEW t \in Names, NEW w, DiscoverOf(dk, d, t, w),
         w.got \in [Names -> Slot], dk[<<d, t>>] # Absent,
         NEW n \in w.todo, NEW v, v.got = [w.got EXCEPT ![n] = dk[<<d, n>>]],
         v.todo = (w.todo \cup {m \in Imports(dk, d, n) : w.got[m] = Absent})
                    \ {n}
  PROVE  DiscoverOf(dk, d, t, v)
<1>1. n \in {t} \cup Reach(dk, d, t) /\ n \in Names /\ dk[<<d, n>>] # Absent
  BY ReachIs DEF DiscoverOf, There
<1>2. /\ v.got[n] = dk[<<d, n>>]
      /\ \A m \in Names \ {n} : v.got[m] = w.got[m]
  BY <1>1
<1>3. Had(v) = Had(w) \cup {n}
  BY <1>1, <1>2 DEF Had
<1>4. Imports(dk, d, n) \subseteq Reach(dk, d, t) /\ Imports(dk, d, n) \subseteq Names
  BY <1>1, ReachIs DEF Imports, There
<1>5. Imports(dk, d, n) \subseteq v.todo \cup Had(v)
  BY <1>3, <1>4 DEF Had
<1>6. /\ w.todo \cup Had(w) \subseteq v.todo \cup Had(v)
      /\ v.todo \cup Had(v) \subseteq w.todo \cup Had(w) \cup Imports(dk, d, n)
  BY <1>3
<1>7. \A m \in Had(v) : v.got[m] = dk[<<d, m>>]
  BY <1>2, <1>3 DEF DiscoverOf, Had
<1>8. \A m \in Had(v) : Imports(dk, d, m) \subseteq v.todo \cup Had(v)
  BY <1>3, <1>5, <1>6 DEF DiscoverOf
<1> QED
  BY <1>4, <1>6, <1>7, <1>8 DEF DiscoverOf

LEMMA DiscoverStarts ==
  ASSUME NEW dk, NEW d, NEW t \in Names, NEW w, w.got = Unsealed, w.todo = {t}
  PROVE  DiscoverOf(dk, d, t, w)
<1>1. Had(w) = {}
  BY DEF Had, Unsealed
<1> QED
  BY <1>1 DEF DiscoverOf

(* Where no import leads back to the tool the seal has what is reached. *)
LEMMA DiscoverOver ==
  ASSUME NEW dk, NEW d, NEW t \in Names, NEW w, DiscoverOf(dk, d, t, w),
         w.got \in [Names -> Slot], w.todo = {},
         LiveDeps(dk, d, t)[t] = Absent
  PROVE  [w.got EXCEPT ![t] = Absent] = LiveDeps(dk, d, t)
<1>1. t \in Had(w) /\ Had(w) \subseteq {t} \cup Reach(dk, d, t)
  BY DEF DiscoverOf
<1>2. dk[<<d, t>>] # Absent
  BY <1>1 DEF DiscoverOf, Had
<1>3. t \notin Reach(dk, d, t)
  BY <1>2 DEF LiveDeps
<1>4. Had(w) \in SUBSET There(dk, d) /\ NoWayOut(dk, d, t, Had(w))
  <2>1. Had(w) \subseteq There(dk, d)
    BY <1>1, <1>2, ReachIs DEF There
  <2>2. NoWayOut(dk, d, t, Had(w))
    BY <1>1 DEF DiscoverOf, NoWayOut
  <2> QED
    BY <2>1, <2>2
<1>5. Reach(dk, d, t) \subseteq Had(w)
  BY <1>4, ReachIs
<1>6. \A n \in Names : (IF n = t THEN Absent ELSE w.got[n]) =
        IF n \in Reach(dk, d, t) THEN dk[<<d, n>>] ELSE Absent
  BY <1>1, <1>3, <1>5 DEF DiscoverOf, Had
<1> QED
  BY <1>6 DEF LiveDeps

(* The lock is the tree's, and the refusal is a hash check's. *)
Current(x) ==
  lock[x] = [DumpLock(lock[x].dir, lock[x].tool, disk, Engine)
               EXCEPT !.dynamic = lock[x].dynamic]
Refused(x) ==
  /\ verdict[x].status = "FAIL"
  /\ verdict[x].why \notin {"none", "conformance", "dynamic_import",
                            "interface"}

UntouchedAt(x) ==
  /\ pc[x] \in Early \ {"idle"} => lock[x].source # Absent
  /\ pc[x] \in {"pin", "repin"} => /\ src[x] = disk[Tool(x)]
                                   /\ src[x] # Absent
  /\ pc[x] = "readback" => pinned[Tool(x)] # Absent
  /\ pc[x] \notin Early => code[x] = disk[Tool(x)]
  /\ pc[x] = "collect" =>
       CollectOf(disk, lock[x].dir, lock[x].tool, walk[x])
  /\ pc[x] = "discover" =>
       DiscoverOf(disk, lock[x].dir, lock[x].tool, walk[x])
  /\ Refused(x) => ~Current(x)

UntouchedInv ==
  edits = 0 => /\ \A f \in Files : pinned[f] \in {Absent, disk[f]}
               /\ \A x \in Contexts : UntouchedAt(x)

(* What a lock of the tree as it is says. *)
LEMMA CurrentSays ==
  ASSUME NEW x \in Contexts, Current(x)
  PROVE  /\ lock[x].source = disk[Tool(x)]
         /\ lock[x].body = <<disk[Tool(x)].canon, disk[Tool(x)].contract>>
         /\ lock[x].deps = LiveDeps(disk, lock[x].dir, lock[x].tool)
         /\ lock[x].contour = Engine
<1> DEFINE l == lock[x]
           dump == [dir |-> l.dir, tool |-> l.tool, source |-> disk[Tool(x)],
                    body |-> <<disk[Tool(x)].canon, disk[Tool(x)].contract>>,
                    deps |-> LiveDeps(disk, l.dir, l.tool), contour |-> Engine,
                    complete |-> TRUE, iface |-> TRUE, dynamic |-> FALSE]
<1>1. l = [dump EXCEPT !.dynamic = l.dynamic]
  BY DumpIs DEF Current, Tool, File
<1>2. /\ l.source = dump.source /\ l.body = dump.body
      /\ l.deps = dump.deps /\ l.contour = dump.contour
  <2> HIDE DEF l
  <2> QED
    BY <1>1
<1> QED
  BY <1>2

LEMMA CurrentFrame ==
  ASSUME NEW x \in Contexts, UNCHANGED <<disk, contour>>, lock'[x] = lock[x]
  PROVE  Current(x)' <=> Current(x)
  BY DEF Current, Engine

(* While nothing is written, reading is reading the disk. *)
LEMMA UntouchedRead ==
  ASSUME TypeInv, UntouchedInv, edits = 0, NEW f \in Files
  PROVE  Read(f) = disk[f]
  BY DEF UntouchedInv, Read

LEMMA UntouchedPins ==
  ASSUME TypeInv, UntouchedInv, edits = 0, NEW x \in Contexts, Step(x),
         NEW f \in Files
  PROVE  /\ pinned'[f] \in {Absent, disk[f]}
         /\ pinned[f] # Absent => pinned'[f] # Absent
<1>1. CASE pinned'[f] = pinned[f]
  BY <1>1 DEF UntouchedInv
<1>2. CASE pinned'[f] # pinned[f]
  <2>1. GatePin(x) \/ GateRepin(x)
    BY <1>2, GateOnlyPins DEF TypeInv
  <2>2. pinned'[f] = src[x] /\ f = Tool(x)
    BY <1>2, <2>1 DEF GatePin, GateRepin, TypeInv, TypeOK
  <2> QED
    BY <2>1, <2>2 DEF GatePin, GateRepin, UntouchedInv, UntouchedAt
<1> QED
  BY <1>1, <1>2

(* The steps up to the loaded tool. *)
LEMMA UntouchedGate ==
  ASSUME TypeInv, UntouchedInv, edits = 0, NEW x \in Contexts,
         \/ GateCheck(x) \/ GateRead(x) \/ GatePin(x) \/ GateCompare(x)
         \/ GateRepin(x) \/ LoadScript(x)
         \/ \E l \in Locks : Admit(x, l) \/ ImportByHost(x, l)
  PROVE  UntouchedAt(x)'
<1> USE DEF TypeInv, TypeOK, Goto, Return, Early, shared, Tool, File
<1>1. Tool(x) \in Files /\ Read(Tool(x)) = disk[Tool(x)]
  BY FileTypes, UntouchedRead
<1>2. UntouchedAt(x) /\ \A f \in Files : pinned[f] \in {Absent, disk[f]}
  BY DEF UntouchedInv
<1>3. ASSUME NEW l \in Locks, Admit(x, l) \/ ImportByHost(x, l)
      PROVE  UntouchedAt(x)'
  <2>1. CASE Admit(x, l)
    <3>1. /\ pc'[x] \in {"idle", "check"} /\ lock'[x] = l
          /\ pc'[x] = "check" => l.source # Absent
          /\ verdict'[x].status # "FAIL"
      BY <2>1 DEF Admit, Begin
    <3> QED
      BY <3>1 DEF UntouchedAt, Refused
  <2>2. CASE ImportByHost(x, l)
    <3>1. /\ pc'[x] = "loading" /\ verdict'[x].status # "FAIL"
          /\ code'[x] = disk[<<l.dir, l.tool>>] /\ lock'[x] = l
          /\ disk' = disk
      BY <2>2 DEF ImportByHost, Begin
    <3> QED
      BY <3>1 DEF UntouchedAt, Refused
  <2> QED
    BY <1>3, <2>1, <2>2
<1>4. CASE GateCheck(x)
  <2>1. UNCHANGED <<disk, contour>> /\ lock'[x] = lock[x]
    BY <1>4 DEF GateCheck
  <2> QED
    BY <1>2, <1>4, <2>1, CurrentFrame DEF GateCheck, UntouchedAt, Refused
<1>5. CASE GateRead(x)
  <2>1. UNCHANGED <<disk, contour>> /\ lock'[x] = lock[x]
    BY <1>5 DEF GateRead
  <2>2. disk[Tool(x)] = Absent => ~Current(x)
    BY <1>2, <1>5, CurrentSays DEF GateRead, UntouchedAt
  <2> QED
    BY <1>2, <1>5, <2>1, <2>2, CurrentFrame DEF GateRead, UntouchedAt, Refused
<1>6. CASE GatePin(x)
  <2>1. UNCHANGED <<disk, contour>> /\ lock'[x] = lock[x]
    BY <1>6 DEF GatePin
  <2>2. pinned'[Tool(x)] = src[x] /\ src[x] # Absent
    BY <1>1, <1>2, <1>6 DEF GatePin, UntouchedAt
  <2> QED
    BY <1>2, <1>6, <2>1, <2>2, CurrentFrame DEF GatePin, UntouchedAt, Refused
<1>7. CASE GateCompare(x)
  <2>1. UNCHANGED <<disk, contour>> /\ lock'[x] = lock[x]
    BY <1>7 DEF GateCompare
  <2>2. pinned[Tool(x)] = disk[Tool(x)] /\ pinned[Tool(x)] # Absent
    BY <1>1, <1>2, <1>7 DEF GateCompare, UntouchedAt
  <2>3. pinned[Tool(x)] # lock[x].source => ~Current(x)
    BY <2>2, CurrentSays
  <2> QED
    BY <1>2, <1>7, <2>1, <2>2, <2>3, CurrentFrame
       DEF GateCompare, UntouchedAt, Refused
<1>8. CASE GateRepin(x)
  <2>1. UNCHANGED <<disk, contour>> /\ lock'[x] = lock[x]
    BY <1>8 DEF GateRepin
  <2> QED
    BY <1>2, <1>8, <2>1, CurrentFrame DEF GateRepin, UntouchedAt, Refused
<1>9. CASE LoadScript(x)
  <2>1. UNCHANGED <<disk, contour>> /\ lock'[x] = lock[x]
    BY <1>9 DEF LoadScript
  <2> QED
    BY <1>1, <1>2, <1>9, <2>1, CurrentFrame DEF LoadScript, UntouchedAt, Refused
<1> QED
  BY <1>3, <1>4, <1>5, <1>6, <1>7, <1>8, <1>9

(* The checks of the loaded tool: its body, the judge's own files, dynamic *)
(* imports; and what follows the seal.                                     *)
LEMMA UntouchedCheck ==
  ASSUME TypeInv, UntouchedInv, edits = 0, NEW x \in Contexts,
         \/ LoadDone(x) \/ VerifyRuntimePin(x) \/ SkipIncomplete(x)
         \/ BindBody(x) \/ DynamicImportLeak(x) \/ SealOrigin(x)
         \/ ExecSealed(x) \/ CheckConformance(x)
  PROVE  UntouchedAt(x)'
<1> USE DEF TypeInv, TypeOK, Goto, Return, Early, shared, Tool, File, Loaded
<1>1. UntouchedAt(x)
  BY DEF UntouchedInv
<1>2. UNCHANGED <<disk, contour>> /\ lock'[x] = lock[x] /\ code'[x] = code[x]
  BY DEF LoadDone, VerifyRuntimePin, SkipIncomplete, BindBody, BindDeps,
         DynamicImportLeak, SealOrigin, ExecSealed, CheckConformance
<1>3. code[x] = disk[Tool(x)] /\ disk[Tool(x)] # Absent
  BY <1>1 DEF LoadDone, VerifyRuntimePin, SkipIncomplete, BindBody,
              DynamicImportLeak, SealOrigin, ExecSealed, CheckConformance,
              UntouchedAt
<1>4. CASE \/ LoadDone(x) \/ SkipIncomplete(x) \/ DynamicImportLeak(x)
           \/ ExecSealed(x) \/ CheckConformance(x)
  BY <1>1, <1>2, <1>3, <1>4, CurrentFrame
     DEF LoadDone, SkipIncomplete, DynamicImportLeak, ExecSealed,
         CheckConformance, UntouchedAt, Refused
<1>5. CASE VerifyRuntimePin(x)
  <2>1. ~RuntimeOk(x) => ~Current(x)
    <3>1. Engine # Absent /\ Engine.files = contour /\ Engine.python = Python
      BY ContentsAssumption DEF Engine, Contours
    <3>2. Python - Python \in -1..1
      BY ContentsAssumption
    <3> QED
      BY <1>3, <3>1, <3>2, CurrentSays DEF RuntimeOk
  <2> QED
    BY <1>1, <1>2, <1>3, <1>5, <2>1, CurrentFrame
       DEF VerifyRuntimePin, UntouchedAt, Refused
<1>6. CASE BindBody(x)
  <2>1. ContentHash(x) # lock[x].body => ~Current(x)
    BY <1>3, CurrentSays DEF ContentHash
  <2>2. CASE pc'[x] = "collect"
    <3>1. /\ walk'[x].todo = {} /\ walk'[x].open = {lock[x].tool}
          /\ walk'[x].got = Unsealed /\ UNCHANGED verdict
      BY <1>6, <2>2 DEF BindBody
    <3>2. CollectOf(disk', lock'[x].dir, lock'[x].tool, walk'[x])
      BY <1>2, <3>1, CollectStarts, LockFields
    <3> QED
      BY <1>1, <1>2, <1>3, <2>2, <3>1, <3>2, CurrentFrame
         DEF UntouchedAt, Refused
  <2>3. CASE pc'[x] # "collect"
    <3>1. pc'[x] = "idle"
      BY <1>6, <2>3 DEF BindBody
    <3>2. Refused(x)' => ~Current(x)
      BY <1>3, <1>6, <2>1, <2>3 DEF BindBody, Refused
    <3> QED
      BY <1>2, <3>1, <3>2, CurrentFrame DEF UntouchedAt
  <2> QED
    BY <2>2, <2>3
<1>7. CASE SealOrigin(x)
  <2>1. /\ walk'[x].todo = {lock[x].tool} /\ walk'[x].got = Unsealed
        /\ pc'[x] = "discover" /\ UNCHANGED verdict
    BY <1>3, <1>7 DEF SealOrigin
  <2>2. DiscoverOf(disk', lock'[x].dir, lock'[x].tool, walk'[x])
    BY <1>2, <2>1, DiscoverStarts, LockFields
  <2> QED
    BY <1>1, <1>2, <1>3, <2>1, <2>2, CurrentFrame DEF UntouchedAt, Refused
<1> QED
  BY <1>4, <1>5, <1>6, <1>7

(* The walk of the binding. *)
LEMMA UntouchedCollect ==
  ASSUME TypeInv, UntouchedInv, edits = 0, NEW x \in Contexts, NEW n \in Names,
         CollectParse(x, n) \/ CollectHash(x, n)
  PROVE  UntouchedAt(x)'
<1> USE DEF TypeInv, TypeOK, Goto, Return, Early, shared, Loaded
<1> DEFINE d == lock[x].dir
           t == lock[x].tool
           w == walk[x]
           c == Read(File(x, n))
<1>1. /\ UntouchedAt(x) /\ pc[x] = "collect" /\ CollectOf(disk, d, t, w)
      /\ w.got \in [Names -> Slot] /\ t \in Names
      /\ Tool(x) = <<d, t>> /\ File(x, n) = <<d, n>>
  BY LockFields DEF UntouchedInv, UntouchedAt, CollectParse, CollectHash,
                    Tool, File
<1>2. /\ UNCHANGED <<disk, contour>> /\ lock'[x] = lock[x]
      /\ code'[x] = code[x]
  BY DEF CollectParse, CollectHash
<1>3. /\ code[x] = disk[Tool(x)] /\ disk[Tool(x)] # Absent
  BY <1>1 DEF UntouchedAt
<1>4. c = disk[<<d, n>>]
  BY <1>1, UntouchedRead, FileTypes
<1>5. \A m \in {t} \cup Reach(disk, d, t) : disk[<<d, m>>] # Absent
  <2>1. Reach(disk, d, t) \subseteq There(disk, d)
    BY ReachIs
  <2> QED
    BY <1>1, <1>3, <2>1 DEF There
<1>6. /\ pc'[x] = "collect" /\ UNCHANGED verdict
      /\ CollectOf(disk, d, t, walk'[x])
  <2>1. CASE CollectParse(x, n)
    <3>1. n \in w.open /\ n \in {t} \cup Reach(disk, d, t)
      BY <1>1, <2>1 DEF CollectParse, CollectOf
    <3>2. {m \in Resolved(x, c) : w.got[m] = Absent} =
            {m \in Imports(disk, d, n) : w.got[m] = Absent}
      <4>1. c \in Contents
        <5>1. disk[<<d, n>>] \in Slot
          BY <1>1, FileTypes
        <5> QED
          BY <1>4, <1>5, <3>1, <5>1 DEF Slot
      <4>2. Resolved(x, c) = Imports(disk, d, n)
        BY <1>4, <4>1, ContentFields DEF Resolved, Imports, There, File
      <4> QED
        BY <4>2
    <3>3. /\ walk'[x].todo = w.todo \cup {m \in Imports(disk, d, n) :
                                            w.got[m] = Absent}
          /\ walk'[x].open = w.open \ {n} /\ walk'[x].got = w.got
          /\ pc' = pc /\ verdict' = verdict
      <4>1. disk[File(x, n)] # Absent
        BY <1>1, <1>5, <3>1
      <4> QED
        BY <2>1, <3>2, <4>1 DEF CollectParse
    <3> HIDE DEF w, d, t
    <3> QED
      BY <1>1, <3>1, <3>3, CollectParsed
  <2>2. CASE CollectHash(x, n)
    <3>1. n \in w.todo /\ c # Absent
      BY <1>1, <1>4, <1>5, <2>2 DEF CollectHash, CollectOf
    <3>2. /\ walk'[x].todo = w.todo \ {n}
          /\ walk'[x].open = w.open \cup IF n = t THEN {} ELSE {n}
          /\ walk'[x].got = [w.got EXCEPT ![n] = disk[<<d, n>>]]
          /\ pc' = pc /\ verdict' = verdict
      BY <1>4, <2>2, <3>1 DEF CollectHash
    <3> HIDE DEF w, d, t
    <3> QED
      BY <1>1, <3>1, <3>2, CollectHashed
  <2> QED
    BY <2>1, <2>2
<1>7. Tool(x)' = Tool(x) /\ (Current(x)' <=> Current(x))
  BY <1>2, CurrentFrame DEF Tool, File
<1> QED
  BY <1>1, <1>2, <1>3, <1>6, <1>7 DEF UntouchedAt, Refused

LEMMA UntouchedBind ==
  ASSUME TypeInv, UntouchedInv, edits = 0, NEW x \in Contexts, BindDeps(x)
  PROVE  UntouchedAt(x)'
<1> USE DEF TypeInv, TypeOK, Goto, Return, Early, shared
<1>1. UntouchedAt(x) /\ pc[x] = "collect"
  BY DEF UntouchedInv, BindDeps
<1>2. /\ UNCHANGED <<disk, contour>> /\ lock'[x] = lock[x]
      /\ code'[x] = code[x]
  BY DEF BindDeps
<1>3. walk[x].got = LiveDeps(disk, lock[x].dir, lock[x].tool)
  <2> DEFINE d == lock[x].dir
             t == lock[x].tool
             w == walk[x]
  <2>1. /\ CollectOf(disk, d, t, w) /\ w.got \in [Names -> Slot]
        /\ t \in Names /\ w.todo = {} /\ w.open = {}
    BY <1>1, LockFields DEF UntouchedAt, BindDeps
  <2> HIDE DEF d, t, w
  <2>2. w.got = LiveDeps(disk, d, t)
    BY <2>1, CollectOver
  <2> QED
    BY <2>2 DEF d, t, w
<1>4. walk[x].got # lock[x].deps => ~Current(x)
  BY <1>3, CurrentSays
<1>5. Tool(x)' = Tool(x) /\ (Current(x)' <=> Current(x))
  BY <1>2, CurrentFrame DEF Tool, File
<1> QED
  BY <1>1, <1>2, <1>4, <1>5 DEF BindDeps, UntouchedAt, Refused

(* The walk of the seal. *)
LEMMA UntouchedDiscover ==
  ASSUME TypeInv, UntouchedInv, edits = 0, NEW x \in Contexts, NEW n \in Names,
         Discover(x, n)
  PROVE  UntouchedAt(x)'
<1> USE DEF TypeInv, TypeOK, Early, shared
<1> DEFINE d == lock[x].dir
           t == lock[x].tool
           w == walk[x]
           c == Read(File(x, n))
<1>1. /\ UntouchedAt(x) /\ pc[x] = "discover" /\ DiscoverOf(disk, d, t, w)
      /\ w.got \in [Names -> Slot] /\ t \in Names /\ n \in w.todo
      /\ Tool(x) = <<d, t>> /\ File(x, n) = <<d, n>>
  BY LockFields DEF UntouchedInv, UntouchedAt, Discover, Tool, File
<1>2. /\ UNCHANGED <<disk, contour, pc, verdict>> /\ lock'[x] = lock[x]
      /\ code'[x] = code[x]
  BY DEF Discover
<1>3. code[x] = disk[Tool(x)] /\ disk[Tool(x)] # Absent
  BY <1>1 DEF UntouchedAt, Loaded
<1>4. c = disk[<<d, n>>]
  BY <1>1, UntouchedRead, FileTypes
<1>5. disk[<<d, n>>] # Absent
  <2>1. Reach(disk, d, t) \subseteq There(disk, d)
    BY ReachIs
  <2>2. n \in {t} \cup Reach(disk, d, t)
    BY <1>1 DEF DiscoverOf
  <2> QED
    BY <1>1, <1>3, <2>1, <2>2 DEF There
<1>6. Resolved(x, c) = Imports(disk, d, n)
  <2>1. c \in Contents
    <3>1. disk[<<d, n>>] \in Slot
      BY <1>1, FileTypes
    <3> QED
      BY <1>4, <1>5, <3>1 DEF Slot
  <2> QED
    BY <1>4, <2>1, ContentFields DEF Resolved, Imports, There, File
<1>7. /\ walk'[x].todo = (w.todo \cup {m \in Imports(disk, d, n) :
                                         w.got[m] = Absent}) \ {n}
      /\ walk'[x].got = [w.got EXCEPT ![n] = disk[<<d, n>>]]
  BY <1>1, <1>4, <1>5, <1>6 DEF Discover
<1>8. DiscoverOf(disk, d, t, walk'[x])
  <2> HIDE DEF w, d, t
  <2> QED
    BY <1>1, <1>3, <1>7, DiscoverRead
<1>9. Tool(x)' = Tool(x) /\ (Current(x)' <=> Current(x))
  BY <1>2, CurrentFrame DEF Tool, File
<1> QED
  BY <1>1, <1>2, <1>3, <1>8, <1>9 DEF UntouchedAt, Refused

(* No import leads from a tool back to it, so the lock leaves it out. *)
Forward == \A l \in Locks : l.deps[l.tool] = Absent

LEMMA UntouchedSeal ==
  ASSUME Forward, TypeInv, UntouchedInv, edits = 0, NEW x \in Contexts,
         SealVerify(x)
  PROVE  UntouchedAt(x)'
<1> USE DEF TypeInv, TypeOK, Goto, Return, Early, shared
<1> DEFINE d == lock[x].dir  t == lock[x].tool  w == walk[x]
<1>1. UntouchedAt(x) /\ pc[x] = "discover"
  BY DEF UntouchedInv, SealVerify
<1>2. /\ UNCHANGED <<disk, contour>> /\ lock'[x] = lock[x]
      /\ code'[x] = code[x]
  BY DEF SealVerify
<1>3. LiveDeps(disk, d, t)[t] = Absent
        => [w.got EXCEPT ![t] = Absent] = LiveDeps(disk, d, t)
  <2>1. /\ DiscoverOf(disk, d, t, w)
        /\ w.got \in [Names -> Slot] /\ t \in Names /\ w.todo = {}
    BY <1>1, LockFields DEF UntouchedAt, SealVerify
  <2> HIDE DEF d, t, w
  <2> QED
    BY <2>1, DiscoverOver, Zenon
<1>4. [walk[x].got EXCEPT ![lock[x].tool] = Absent] # lock[x].deps
        => ~Current(x)
  BY <1>3, CurrentSays DEF Forward
<1>5. Tool(x)' = Tool(x) /\ (Current(x)' <=> Current(x))
  BY <1>2, CurrentFrame DEF Tool, File
<1> QED
  BY <1>1, <1>2, <1>4, <1>5 DEF SealVerify, UntouchedAt, Refused

LEMMA UntouchedImports ==
  ASSUME TypeInv, UntouchedInv, edits = 0, NEW x \in Contexts, NEW n \in Names,
         ImportModule(x, n) \/ ImportFails(x, n) \/ ReloadModule(x, n)
  PROVE  UntouchedAt(x)'
<1> USE DEF TypeInv, TypeOK, Goto, Return, Early, shared
<1>1. UntouchedAt(x) /\ pc[x] \in {"loading", "body"}
  BY DEF UntouchedInv, ImportModule, ImportFails, ReloadModule
<1>2. /\ UNCHANGED <<disk, contour>> /\ lock'[x] = lock[x]
      /\ code'[x] = code[x] /\ pc'[x] \in {pc[x], "idle"}
      /\ Refused(x)' => Refused(x)
  BY DEF ImportModule, ImportFails, ReloadModule, Refused
<1>3. Tool(x)' = Tool(x) /\ (Current(x)' <=> Current(x))
  BY <1>2, CurrentFrame DEF Tool, File
<1> QED
  BY <1>1, <1>2, <1>3 DEF UntouchedAt

LEMMA UntouchedStep ==
  ASSUME Forward, TypeInv, UntouchedInv, edits = 0, NEW x \in Contexts, Step(x)
  PROVE  UntouchedAt(x)'
  BY UntouchedGate, UntouchedCheck, UntouchedCollect, UntouchedBind,
     UntouchedDiscover, UntouchedSeal, UntouchedImports DEF Step, Continue

LEMMA UntouchedInduction ==
  ASSUME Forward, TypeInv, UntouchedInv, [Next]_vars
  PROVE  UntouchedInv'
<1> SUFFICES ASSUME edits' = 0 PROVE UntouchedInv'
  BY DEF UntouchedInv
<1>1. ASSUME NEW x \in Contexts, Step(x)
      PROVE  UntouchedInv'
  <2>1. UNCHANGED <<disk, contour>> /\ edits = 0
    BY <1>1, StepKeepsDisk
  <2>2. \A f \in Files : /\ pinned'[f] \in {Absent, disk'[f]}
                         /\ pinned[f] # Absent => pinned'[f] # Absent
    BY <1>1, <2>1, UntouchedPins
  <2>3. ASSUME NEW y \in Contexts
        PROVE  UntouchedAt(y)'
    <3>1. CASE x = y
      BY <1>1, <2>1, <3>1, UntouchedStep
    <3>2. CASE x # y
      <4>1. /\ pc'[y] = pc[y] /\ lock'[y] = lock[y] /\ src'[y] = src[y]
            /\ code'[y] = code[y] /\ walk'[y] = walk[y]
            /\ verdict'[y] = verdict[y]
        BY <1>1, <3>2, OthersUnchanged DEF TypeInv
      <4>2. /\ Tool(y)' = Tool(y) /\ Tool(y) \in Files
            /\ (Current(y)' <=> Current(y)) /\ (Refused(y)' <=> Refused(y))
        BY <2>1, <4>1, CurrentFrame, FileTypes DEF Tool, File, Refused, TypeInv
      <4> QED
        BY <2>1, <2>2, <4>1, <4>2 DEF UntouchedInv, UntouchedAt
    <3> QED
      BY <3>1, <3>2
  <2> QED
    BY <2>2, <2>3 DEF UntouchedInv
<1>2. CASE Environment
  <2>1. edits \in Nat /\ edits' = edits + 1
    BY <1>2 DEF Environment, Save, Unlink, Upgrade, TypeInv, TypeOK
  <2> QED
    BY <2>1
<1>3. CASE UNCHANGED vars
  <2>1. \A y \in Contexts : UntouchedAt(y) => UntouchedAt(y)'
    <3> TAKE y \in Contexts
    <3>1. (Current(y)' <=> Current(y)) /\ Tool(y)' = Tool(y)
      BY <1>3, CurrentFrame DEF vars, Tool, File
    <3> QED
      BY <1>3, <3>1 DEF vars, UntouchedAt, Refused
  <2> QED
    BY <1>3, <2>1 DEF vars, UntouchedInv
<1> QED
  BY <1>1, <1>2, <1>3 DEF Next

LEMMA UntouchedInvariant ==
  ASSUME Forward
  PROVE  Spec => [](TypeInv /\ UntouchedInv)
<1>1. Init => UntouchedInv
  BY DEF Init, UntouchedInv, UntouchedAt, Refused, Early
<1>2. TypeInv /\ UntouchedInv /\ [Next]_vars => UntouchedInv'
  BY UntouchedInduction
<1> QED
  BY <1>1, <1>2, TypeCorrect, PTL DEF Spec

(* The refusal theorem: as long as nothing is written, no hash check       *)
(* refuses a tool judged against the lock of its files, in any number of   *)
(* contexts and however they interleave: the four traversals agree.  Where *)
(* a helper imports the tool back they do not, as the lock then has the    *)
(* tool among its own dependencies.                                        *)
THEOREM RefusalTheorem ==
  ASSUME Forward
  PROVE  Spec => []NoFalseRefusal
<1>1. TypeInv /\ UntouchedInv => NoFalseRefusal
  BY DEF UntouchedInv, UntouchedAt, Refused, Current, NoFalseRefusal
<1> QED
  BY <1>1, UntouchedInvariant, PTL
=============================================================================
