--------------------------- MODULE PromiseProofs ----------------------------
(***************************************************************************)
(* Judge keeps the promise of Approval, for every choice of files, locks   *)
(* and contexts that Distinct and Steady allow; and what a PASS and the    *)
(* end of a judgement mean besides.  Then Freeze: between two commands it  *)
(* is Judge, so Judge's theorems hold of the locks that were written       *)
(* there; and a lock that passes is the lock of one tree.                  *)
(***************************************************************************)
EXTENDS Freeze, JudgeProofs

(* What ran for the last request was approved by it. *)
ApprovedAt(x) ==
  /\ entry[x] = "admit"
  /\ code[x] \in {Absent, lock[x].source}
  /\ \A p \in ran[x] : lock[x].deps[p[1]] = p[2]

ApprovedInv == \A x \in Contexts : ApprovedAt(x)

(* Every step but the first leaves the request alone. *)
Begins(x) == \E l \in Locks : Admit(x, l) \/ ImportByHost(x, l)

LEMMA StepKeepsRequest ==
  ASSUME TypeInv, NEW x \in Contexts, Step(x), ~Begins(x)
  PROVE  /\ pc[x] # "idle"
         /\ entry'[x] = entry[x] /\ lock'[x] = lock[x]
<1> USE DEF shared
<1>1. CASE \/ GateCheck(x) \/ GateRead(x) \/ GatePin(x) \/ GateCompare(x)
           \/ GateRepin(x) \/ LoadScript(x) \/ LoadDone(x)
           \/ VerifyRuntimePin(x) \/ SkipIncomplete(x)
  BY <1>1 DEF GateCheck, GateRead, GatePin, GateCompare, GateRepin, LoadScript,
              LoadDone, VerifyRuntimePin, SkipIncomplete
<1>2. CASE \/ BindBody(x) \/ BindDeps(x) \/ DynamicImportLeak(x)
           \/ SealOrigin(x) \/ SealVerify(x) \/ ExecSealed(x)
           \/ CheckConformance(x)
  BY <1>2 DEF BindBody, BindDeps, DynamicImportLeak, SealOrigin, SealVerify,
              ExecSealed, CheckConformance
<1>3. ASSUME NEW n \in Names,
             \/ CollectParse(x, n) \/ CollectHash(x, n) \/ Discover(x, n)
             \/ ImportModule(x, n) \/ ImportFails(x, n) \/ ReloadModule(x, n)
      PROVE  /\ pc[x] # "idle"
             /\ entry'[x] = entry[x] /\ lock'[x] = lock[x]
  BY <1>3 DEF CollectParse, CollectHash, Discover, ImportModule, ImportFails,
              ReloadModule
<1> QED
  BY <1>1, <1>2, <1>3 DEF Step, Continue, Begins

(* Every step but a load leaves the code alone, and every step but an      *)
(* import leaves alone what the tool holds.                                *)
LEMMA StepRuns ==
  ASSUME TypeInv, NEW x \in Contexts, Step(x), ~Begins(x)
  PROVE  /\ \/ code'[x] = code[x]
            \/ LoadScript(x) /\ disk[Tool(x)] # Absent
                 /\ code'[x] = Read(Tool(x))
         /\ ran[x] \subseteq ran'[x]
         /\ \/ ran'[x] = ran[x]
            \/ \E n \in Names : ImportModule(x, n) \/ ReloadModule(x, n)
<1> USE DEF shared
<1>1. CASE LoadScript(x)
  BY <1>1 DEF LoadScript, TypeInv, TypeOK
<1>2. CASE \/ GateCheck(x) \/ GateRead(x) \/ GatePin(x) \/ GateCompare(x)
           \/ GateRepin(x) \/ LoadDone(x) \/ VerifyRuntimePin(x)
           \/ SkipIncomplete(x)
  BY <1>2 DEF GateCheck, GateRead, GatePin, GateCompare, GateRepin,
              LoadDone, VerifyRuntimePin, SkipIncomplete
<1>3. CASE \/ BindBody(x) \/ BindDeps(x) \/ DynamicImportLeak(x)
           \/ SealOrigin(x) \/ SealVerify(x) \/ ExecSealed(x)
           \/ CheckConformance(x)
  BY <1>3 DEF BindBody, BindDeps, DynamicImportLeak, SealOrigin, SealVerify,
              ExecSealed, CheckConformance
<1>4. ASSUME NEW n \in Names,
             CollectParse(x, n) \/ CollectHash(x, n) \/ Discover(x, n)
               \/ ImportFails(x, n)
      PROVE  code'[x] = code[x] /\ ran'[x] = ran[x]
  BY <1>4 DEF CollectParse, CollectHash, Discover, ImportFails
<1>5. ASSUME NEW n \in Names, ImportModule(x, n) \/ ReloadModule(x, n)
      PROVE  code'[x] = code[x] /\ ran[x] \subseteq ran'[x]
  BY <1>5 DEF ImportModule, ReloadModule, TypeInv, TypeOK
<1> QED
  BY <1>1, <1>2, <1>3, <1>4, <1>5 DEF Step, Continue, Begins

LEMMA ApprovedStep ==
  ASSUME Steady, TypeInv, NEW x \in Contexts, GateAt(x), HelperAt(x),
         HelperAt(x)', ApprovedAt(x), Step(x)
  PROVE  ApprovedAt(x)'
<1>1. CASE Begins(x)
  <2>1. PICK l \in Locks : Admit(x, l)
    BY <1>1 DEF Begins, ImportByHost, Begin, Steady
  <2> QED
    BY <2>1 DEF Admit, Begin, ApprovedAt, TypeInv, TypeOK
<1>2. CASE ~Begins(x)
  <2>1. entry'[x] = "admit" /\ lock'[x] = lock[x] /\ pc[x] # "idle"
    BY <1>2, StepKeepsRequest DEF ApprovedAt
  <2>2. code'[x] \in {Absent, lock[x].source}
    <3>1. LoadScript(x) => pinned[Tool(x)] = lock[x].source
                           /\ lock[x].source # Absent
      BY DEF LoadScript, GateAt, HelperAt, Matched
    <3> QED
      BY <1>2, <3>1, StepRuns DEF ApprovedAt, Read
  <2>3. ASSUME NEW n \in Names, ImportModule(x, n) \/ ReloadModule(x, n)
        PROVE  \A p \in ran'[x] : lock'[x].deps[p[1]] = p[2]
    <3>1. pc[x] = "body" /\ pc'[x] = "body"
      BY <2>3 DEF ImportModule, ReloadModule, HelperAt
    <3> QED
      BY <3>1 DEF HelperAt, ClosedAt
  <2>4. \A p \in ran'[x] : lock'[x].deps[p[1]] = p[2]
    BY <1>2, <2>1, <2>3, StepRuns DEF ApprovedAt
  <2> QED
    BY <2>1, <2>2, <2>4 DEF ApprovedAt
<1> QED
  BY <1>1, <1>2

LEMMA ApprovedInduction ==
  ASSUME Steady, TypeInv, GateInv, HelperInv, HelperInv', ApprovedInv,
         [Next]_vars
  PROVE  ApprovedInv'
<1> SUFFICES ASSUME NEW y \in Contexts PROVE ApprovedAt(y)'
  BY DEF ApprovedInv
<1>1. ASSUME NEW x \in Contexts, Step(x)
      PROVE  ApprovedAt(y)'
  <2>1. CASE x = y
    BY <1>1, <2>1, ApprovedStep DEF ApprovedInv, GateInv, HelperInv
  <2>2. CASE x # y
    BY <1>1, <2>2, OthersUnchanged DEF ApprovedInv, ApprovedAt, TypeInv
  <2> QED
    BY <2>1, <2>2
<1>2. CASE Environment \/ UNCHANGED vars
  <2>1. UNCHANGED locals
    BY <1>2, EnvironmentLocals DEF vars, locals
  <2> QED
    BY <2>1 DEF ApprovedInv, ApprovedAt, locals
<1> QED
  BY <1>1, <1>2 DEF Next

-----------------------------------------------------------------------------
(* The refinement *)

(* A request is one; stated of the state a step leads to. *)
LEMMA AskedType ==
  ASSUME TypeOK', NEW x \in Contexts
  PROVE  Asked(x)' \in [Names \cup {Entry} -> SUBSET Contents]
<1>1. lock'[x].source \in Slot /\ \A n \in Names : lock'[x].deps[n] \in Slot
  BY LockFields DEF TypeOK
<1> QED
  BY <1>1 DEF Asked, Slot

(* What ran is approved by the request. *)
LEMMA RanIsApproved ==
  ASSUME TypeOK', NEW x \in Contexts, ApprovedAt(x)'
  PROVE  Promise!RanApproved(x)
<1> SUFFICES ASSUME NEW p \in RanHere(x)' PROVE p[2] \in Asked(x)'[p[1]]
  BY DEF Promise!RanApproved
<1>1. CASE p \in ran'[x]
  <2>1. p[1] \in Names /\ p[2] \in Contents /\ p[2] # Absent
    BY <1>1, ContentFields DEF TypeOK
  <2> QED
    BY <1>1, <2>1, ContentsAssumption DEF ApprovedAt, Asked
<1>2. CASE p = <<Entry, code'[x]>> /\ code'[x] # Absent
  BY <1>2 DEF ApprovedAt, Asked
<1> QED
  BY <1>1, <1>2 DEF RanHere

(* Contexts other than the one that steps wait. *)
LEMMA OthersPromise ==
  ASSUME TypeInv, TypeInv', NEW x \in Contexts, Step(x)
  PROVE  Promise!OthersWait(x)
<1>1. \A y \in Contexts : Asked(y)' \in [Names \cup {Entry} -> SUBSET Contents]
  BY AskedType DEF TypeInv
<1>2. ASSUME NEW y \in Contexts \ {x}
      PROVE  /\ Asked(y)' = Asked(y) /\ RanHere(y)' = RanHere(y)
             /\ pc'[y] = pc[y] /\ verdict'[y] = verdict[y]
  BY <1>2, OthersUnchanged DEF TypeInv, Asked, RanHere, File
<1> QED
  BY <1>1, <1>2 DEF Promise!OthersWait, Promise!Request

LEMMA BeginIsAsk ==
  ASSUME Steady, TypeInv, TypeInv', NEW x \in Contexts, Begins(x), Step(x),
         ApprovedAt(x)'
  PROVE  Promise!Ask(x)
<1>1. PICK l \in Locks : Admit(x, l)
  BY DEF Begins, ImportByHost, Begin, Steady
<1>2. pc[x] = "idle" /\ (pc'[x] = "idle" => verdict'[x].status = "SKIPPED")
      /\ (pc'[x] # "idle" => verdict'[x].status = "none")
  BY <1>1 DEF Admit, Begin, Return, Goto, TypeInv, TypeOK
<1>3. Promise!RanApproved(x)
  BY RanIsApproved DEF TypeInv
<1> QED
  BY <1>2, <1>3, OthersPromise DEF Promise!Ask, Promise!Answers

(* Only CheckConformance says PASS, and it answers. *)
LEMMA StepAnswers ==
  ASSUME TypeInv, NEW x \in Contexts, Step(x), ~Begins(x)
  PROVE  \/ pc'[x] # "idle" /\ verdict'[x] = verdict[x]
         \/ /\ pc'[x] = "idle"
            /\ verdict'[x].status \in Statuses \ {"none"}
            /\ verdict'[x].status = "PASS" => CheckConformance(x)
<1> USE DEF shared, TypeInv, TypeOK, Goto, Return, Statuses, Labels
<1>1. CASE \/ GateCheck(x) \/ GateRead(x) \/ GatePin(x) \/ GateCompare(x)
           \/ GateRepin(x)
  BY <1>1 DEF GateCheck, GateRead, GatePin, GateCompare, GateRepin
<1>2. CASE \/ LoadScript(x) \/ LoadDone(x) \/ VerifyRuntimePin(x)
           \/ SkipIncomplete(x)
  BY <1>2 DEF LoadScript, LoadDone, VerifyRuntimePin, SkipIncomplete
<1>3. CASE \/ BindBody(x) \/ BindDeps(x) \/ DynamicImportLeak(x)
           \/ SealOrigin(x) \/ SealVerify(x) \/ ExecSealed(x)
  BY <1>3 DEF BindBody, BindDeps, DynamicImportLeak, SealOrigin, SealVerify,
              ExecSealed
<1>4. ASSUME CheckConformance(x)
      PROVE  pc'[x] = "idle" /\ verdict'[x].status \in Statuses \ {"none"}
  BY <1>4 DEF CheckConformance
<1>5. ASSUME NEW n \in Names,
             \/ CollectParse(x, n) \/ CollectHash(x, n) \/ Discover(x, n)
             \/ ImportModule(x, n) \/ ImportFails(x, n) \/ ReloadModule(x, n)
      PROVE  \/ pc'[x] # "idle" /\ verdict'[x] = verdict[x]
             \/ /\ pc'[x] = "idle"
                /\ verdict'[x].status \in Statuses \ {"none", "PASS"}
  BY <1>5 DEF CollectParse, CollectHash, Discover, ImportModule, ImportFails,
              ReloadModule
<1> QED
  BY <1>1, <1>2, <1>3, <1>4, <1>5 DEF Step, Continue, Begins

(* The entry has been loaded once it is judged, and stays what ran. *)
LEMMA RanGrows ==
  ASSUME Steady, TypeInv, NEW x \in Contexts, ApprovedAt(x), Step(x),
         ~Begins(x), GateAt(x), HelperAt(x)
  PROVE  /\ RanHere(x) \subseteq RanHere(x)'
         /\ CheckConformance(x) => \E p \in RanHere(x)' : p[1] = Entry
<1>1. code[x] # Absent => code'[x] = code[x]
  <2>1. LoadScript(x) /\ code[x] # Absent => Read(Tool(x)) = code[x]
    BY DEF LoadScript, GateAt, HelperAt, Matched, Read, ApprovedAt
  <2> QED
    BY <2>1, StepRuns
<1>2. RanHere(x) \subseteq RanHere(x)'
  BY <1>1, StepRuns DEF RanHere
<1>3. ASSUME CheckConformance(x)
      PROVE  \E p \in RanHere(x)' : p[1] = Entry
  <2>1. code'[x] = code[x] /\ code[x] # Absent
    BY <1>3 DEF CheckConformance, TypeInv, Loaded, Early
  <2>2. <<Entry, code'[x]>> \in RanHere(x)'
    BY <2>1 DEF RanHere
  <2> QED
    BY <2>2
<1> QED
  BY <1>2, <1>3

LEMMA StepIsRun ==
  ASSUME Steady, TypeInv, TypeInv', NEW x \in Contexts, Step(x), ~Begins(x),
         GateAt(x), HelperAt(x), ApprovedAt(x), ApprovedAt(x)'
  PROVE  Promise!Run(x)
<1>1. pc[x] # "idle" /\ Asked(x)' = Asked(x)
  BY StepKeepsRequest DEF Asked, File
<1>2. Promise!OthersWait(x)
  BY OthersPromise
<1>3. Promise!RanApproved(x)
  BY RanIsApproved DEF TypeInv
<1>4. RanHere(x) \subseteq RanHere(x)'
  BY RanGrows
<1>5. \/ pc'[x] # "idle" /\ verdict'[x].status = verdict[x].status
      \/ /\ pc'[x] = "idle"
         /\ verdict'[x].status \in Promise!Answers \ {"none"}
         /\ verdict'[x].status = "PASS" => \E p \in RanHere(x)' : p[1] = Entry
  BY StepAnswers, RanGrows DEF Promise!Answers, Statuses
<1> QED
  BY <1>1, <1>2, <1>3, <1>4, <1>5 DEF Promise!Run

(* The promise theorem: whatever is saved meanwhile and however often each *)
(* context judges, its judgement looks from outside like one request that  *)
(* approves the bytes of a lock and is answered once those, and nothing    *)
(* else, have run.                                                         *)
THEOREM PromiseTheorem ==
  ASSUME Distinct, Steady
  PROVE  Spec => IsApproval
<1> DEFINE Inv == TypeInv /\ GateInv /\ HelperInv
<1>1. Init => ApprovedInv
  BY DEF Init, ApprovedInv, ApprovedAt
<1>2. Inv /\ HelperInv' /\ ApprovedInv /\ [Next]_vars => ApprovedInv'
  BY ApprovedInduction
<1>3. Init /\ TypeInv => Promise!ApprovalInit
  <2> SUFFICES ASSUME Init, TypeInv PROVE Promise!ApprovalInit
    OBVIOUS
  <2>1. \A x \in Contexts : Asked(x) \in Promise!Request
    <3>1. \A x \in Contexts : /\ lock[x].source \in Slot
                             /\ \A n \in Names : lock[x].deps[n] \in Slot
      BY LockFields DEF TypeInv, TypeOK
    <3> QED
      BY <3>1 DEF Asked, Slot, Promise!Request
  <2> QED
    BY <2>1 DEF Init, Promise!ApprovalInit, RanHere
<1>4. Inv /\ Inv' /\ ApprovedInv /\ ApprovedInv' /\ [Next]_vars
        => [Promise!ApprovalNext]_(Promise!promise)
  <2> SUFFICES ASSUME Inv, Inv', ApprovedInv, ApprovedInv', [Next]_vars
               PROVE  [Promise!ApprovalNext]_(Promise!promise)
    OBVIOUS
  <2>1. ASSUME NEW x \in Contexts, Step(x)
        PROVE  Promise!ApprovalNext
    <3>1. CASE Begins(x)
      BY <2>1, <3>1, BeginIsAsk DEF ApprovedInv, Promise!ApprovalNext
    <3>2. CASE ~Begins(x)
      BY <2>1, <3>2, StepIsRun
         DEF ApprovedInv, GateInv, HelperInv, Promise!ApprovalNext
    <3> QED
      BY <3>1, <3>2
  <2>2. CASE Environment \/ UNCHANGED vars
    <3>1. UNCHANGED locals
      BY <2>2, EnvironmentLocals DEF vars, locals
    <3> QED
      BY <3>1 DEF locals, Promise!promise, Asked, RanHere, File
  <2> QED
    BY <2>1, <2>2 DEF Next
<1> QED
  BY <1>1, <1>2, <1>3, <1>4, HelperInvariant, PTL
     DEF Spec, IsApproval, Promise!ApprovalSpec

-----------------------------------------------------------------------------
(* The facts behind a PASS *)

Bound == {"collect", "dynamic", "origin", "discover", "exec", "body"}

(* Each stage leaves behind the fact it asked for. *)
FactsAt(x) ==
  /\ pc[x] # "idle" => verdict[x].status # "PASS"
  /\ pc[x] \in Bound \cup {"planPin", "bind"} =>
       lock[x].complete /\ lock[x].contour # Absent
  /\ pc[x] \in Bound => lock[x].iface /\ lock[x].body # Absent
  /\ pc[x] \in Bound \ {"collect", "dynamic"} =>
       (code[x].dynamic => lock[x].dynamic)
  /\ verdict[x].status = "PASS" =>
       /\ lock[x].body # Absent /\ lock[x].complete /\ lock[x].iface
       /\ lock[x].contour # Absent
       /\ lock[x].source # Absent /\ (code[x].dynamic => lock[x].dynamic)

LEMMA FactsBegin ==
  ASSUME TypeInv, NEW x \in Contexts, Begins(x)
  PROVE  FactsAt(x)'
<1> USE DEF FactsAt, TypeInv, TypeOK, Goto, Return, Begin, Bound
<1> QED
  BY DEF Begins, Admit, ImportByHost

LEMMA FactsStep ==
  ASSUME TypeInv, NEW x \in Contexts, GateAt(x), HelperAt(x), FactsAt(x),
         Step(x), ~Begins(x)
  PROVE  FactsAt(x)'
<1> USE DEF FactsAt, TypeInv, TypeOK, Goto, Return, Bound, shared
<1>1. CASE \/ GateCheck(x) \/ GateRead(x) \/ GatePin(x) \/ GateCompare(x)
           \/ GateRepin(x)
  BY <1>1 DEF GateCheck, GateRead, GatePin, GateCompare, GateRepin
<1>2. CASE LoadScript(x) \/ LoadDone(x) \/ SkipIncomplete(x)
  BY <1>2 DEF LoadScript, LoadDone, SkipIncomplete, HelperAt
<1>3. CASE VerifyRuntimePin(x)
  BY <1>3 DEF VerifyRuntimePin, RuntimeOk
<1>4. CASE BindBody(x) \/ BindDeps(x)
  BY <1>4 DEF BindBody, BindDeps
<1>5. CASE DynamicImportLeak(x)
  <2>1. disk[Tool(x)] # Absent
    BY <1>5 DEF DynamicImportLeak, HelperAt, Early
  <2>2. Read(Tool(x)) = code[x]
    BY <1>5 DEF DynamicImportLeak, HelperAt, GateAt, Matched, Early, Read
  <2> QED
    BY <1>5, <2>1, <2>2 DEF DynamicImportLeak
<1>6. CASE SealOrigin(x) \/ SealVerify(x) \/ ExecSealed(x)
  BY <1>6 DEF SealOrigin, SealVerify, ExecSealed
<1>7. CASE CheckConformance(x)
  BY <1>7 DEF CheckConformance, GateAt, HelperAt
<1>8. ASSUME NEW n \in Names,
             \/ CollectParse(x, n) \/ CollectHash(x, n) \/ Discover(x, n)
             \/ ImportModule(x, n) \/ ImportFails(x, n) \/ ReloadModule(x, n)
      PROVE  FactsAt(x)'
  BY <1>8 DEF CollectParse, CollectHash, Discover, ImportModule, ImportFails,
              ReloadModule
<1> QED
  BY <1>1, <1>2, <1>3, <1>4, <1>5, <1>6, <1>7, <1>8 DEF Step, Continue, Begins

(* The facts theorem: in a directory whose files do not come and go, a     *)
(* PASS rests on every fact the lock can hold, however often the tool and  *)
(* the judge's own files are saved between the checks.                     *)
THEOREM FactsTheorem ==
  ASSUME Distinct, Steady
  PROVE  Spec => []PassHasFacts
<1> DEFINE I == \A x \in Contexts : FactsAt(x)
<1> DEFINE Inv == TypeInv /\ GateInv /\ HelperInv
<1>1. Init => I
  BY DEF Init, FactsAt, Bound
<1>2. Inv /\ I /\ [Next]_vars => I'
  <2> SUFFICES ASSUME Inv, I, [Next]_vars, NEW y \in Contexts
               PROVE  FactsAt(y)'
    OBVIOUS
  <2>1. ASSUME NEW x \in Contexts, Step(x)
        PROVE  FactsAt(y)'
    <3>1. CASE x = y
      BY <2>1, <3>1, FactsBegin, FactsStep DEF GateInv, HelperInv
    <3>2. CASE x # y
      BY <2>1, <3>2, OthersUnchanged DEF FactsAt, TypeInv
    <3> QED
      BY <3>1, <3>2
  <2>2. CASE Environment \/ UNCHANGED vars
    <3>1. UNCHANGED locals
      BY <2>2, EnvironmentLocals DEF vars, locals
    <3> QED
      BY <3>1 DEF locals, FactsAt
  <2> QED
    BY <2>1, <2>2 DEF Next
<1>3. I => PassHasFacts
  BY DEF FactsAt, PassHasFacts
<1> QED
  BY <1>1, <1>2, <1>3, HelperInvariant, PTL DEF Spec

-----------------------------------------------------------------------------
(* The end of a judgement *)

(* A seal is in force from the moment it is compared until the verdict,    *)
(* and the one to restore is none, or one that a helper left by exiting.   *)
Left(s) == s = Unsealed \/ \E n \in Names : s[n] # Absent /\ s[n].exec = "exit"

ScopeAt(x) ==
  /\ pc[x] \notin {"exec", "body"} => Left(sealed[x])
  /\ pc[x] \in {"exec", "body"} => Left(outer[x])

LEMMA ScopeStep ==
  ASSUME TypeInv, NEW x \in Contexts, ScopeAt(x), Step(x)
  PROVE  ScopeAt(x)'
<1> USE DEF ScopeAt, TypeInv, TypeOK, Goto, Return, shared
<1>1. CASE \/ Begins(x)
           \/ GateCheck(x) \/ GateRead(x) \/ GatePin(x) \/ GateCompare(x)
           \/ GateRepin(x)
  BY <1>1 DEF Begins, Admit, ImportByHost, Begin, GateCheck, GateRead, GatePin,
              GateCompare, GateRepin
<1>2. CASE \/ LoadScript(x) \/ LoadDone(x) \/ VerifyRuntimePin(x)
           \/ SkipIncomplete(x)
  BY <1>2 DEF LoadScript, LoadDone, VerifyRuntimePin, SkipIncomplete
<1>3. CASE BindBody(x) \/ BindDeps(x) \/ DynamicImportLeak(x)
  BY <1>3 DEF BindBody, BindDeps, DynamicImportLeak
<1>4. CASE SealOrigin(x) \/ SealVerify(x) \/ CheckConformance(x)
  BY <1>4 DEF SealOrigin, SealVerify, CheckConformance
<1>5. CASE ExecSealed(x)
  <2>1. ExecEnds(x, "exit") => Left(sealed[x])
    BY DEF ExecEnds, Left
  <2> QED
    BY <1>5, <2>1 DEF ExecSealed
<1>6. ASSUME NEW n \in Names,
             \/ CollectParse(x, n) \/ CollectHash(x, n) \/ Discover(x, n)
             \/ ImportModule(x, n) \/ ImportFails(x, n) \/ ReloadModule(x, n)
      PROVE  ScopeAt(x)'
  BY <1>6 DEF CollectParse, CollectHash, Discover, ImportModule, ImportFails,
              ReloadModule
<1> QED
  BY <1>1, <1>2, <1>3, <1>4, <1>5, <1>6 DEF Step, Continue, Begins

(* The scope theorem: whether a judgement passed, was refused or raised,   *)
(* and whatever else runs in the process, it leaves a seal behind in one   *)
(* case only: a helper of that very seal exits when it is executed.        *)
THEOREM ScopeTheorem == Spec => []SealScoped
<1> DEFINE I == \A x \in Contexts : ScopeAt(x)
<1>1. Init => I
  BY DEF Init, ScopeAt, Left
<1>2. TypeInv /\ I /\ [Next]_vars => I'
  <2> SUFFICES ASSUME TypeInv, I, [Next]_vars, NEW y \in Contexts
               PROVE  ScopeAt(y)'
    OBVIOUS
  <2>1. ASSUME NEW x \in Contexts, Step(x)
        PROVE  ScopeAt(y)'
    <3>1. CASE x = y
      BY <2>1, <3>1, ScopeStep
    <3>2. CASE x # y
      BY <2>1, <3>2, OthersUnchanged DEF ScopeAt, TypeInv
    <3> QED
      BY <3>1, <3>2
  <2>2. CASE Environment \/ UNCHANGED vars
    <3>1. UNCHANGED locals
      BY <2>2, EnvironmentLocals DEF vars, locals
    <3> QED
      BY <3>1 DEF locals, ScopeAt
  <2> QED
    BY <2>1, <2>2 DEF Next
<1>3. I => SealScoped
  BY DEF ScopeAt, SealScoped, Left, ExecEnds
<1> QED
  BY <1>1, <1>2, <1>3, TypeCorrect, PTL DEF Spec
-----------------------------------------------------------------------------
(* The composition theorem: whatever commands write the locks, the judge   *)
(* sees files that others save and locks it is handed, so every behaviour  *)
(* of Freeze is one of Judge and all that is proved of Judge holds here.   *)
THEOREM FreezeJudges == FreezeSpec => Spec
<1>1. FreezeInit => Init
  BY DEF FreezeInit
<1>2. [FreezeNext]_allVars => [Next]_vars
  <2> SUFFICES ASSUME [FreezeNext]_allVars PROVE [Next]_vars
    OBVIOUS
  <2>1. CASE Command
    BY <2>1 DEF Command, LockBegin, DiffBegin, Start, CmdParse, CmdHash,
                LockBody, LockContour, LockWrite, DiffContour, DiffBody,
                DiffDeps, Unfinished
  <2>2. CASE Judging
    <3>1. ASSUME NEW x \in Contexts, NEW l \in written,
                 Admit(x, l) \/ ImportByHost(x, l)
          PROVE  Step(x)
      <4>1. l \in Locks
        BY <3>1, LocksAssumption DEF Admit, ImportByHost, Begin
      <4> QED
        BY <3>1, <4>1 DEF Step
    <3> QED
      BY <2>2, <3>1 DEF Judging, JudgeBegins, JudgeGoesOn, Step, Next
  <2>3. CASE Saving
    BY <2>3 DEF Saving, Next
  <2>4. CASE UNCHANGED allVars
    BY <2>4 DEF allVars
  <2> QED
    BY <2>1, <2>2, <2>3, <2>4 DEF FreezeNext
<1> QED
  BY <1>1, <1>2, PTL DEF FreezeSpec, Spec

-----------------------------------------------------------------------------
(* A lock that passes is the lock of one tree *)

(* The locked helpers are the least set of local names that holds what the *)
(* tool imports and what each of its members imports.                      *)
Holds(l, S, c) == \A m \in c.imports : Saves[<<l.dir, m>>] # {} => m \in S

OneTree(l) ==
  /\ l.deps[l.tool] = Absent
  /\ \A n \in Names : l.deps[n] # Absent => Saves[<<l.dir, n>>] # {}
  /\ LET D == {n \in Names : l.deps[n] # Absent} IN
       /\ Holds(l, D, l.source)
       /\ \A n \in D : Holds(l, D, l.deps[n])
  /\ \A S \in SUBSET Names :
       /\ Holds(l, S, l.source)
       /\ \A k \in S : l.deps[k] # Absent => Holds(l, S, l.deps[k])
       => \A n \in Names : l.deps[n] # Absent => n \in S

LEMMA TreeIsWhole ==
  ASSUME Steady, NEW l \in Locks, NEW c, OneTree(l), l.source # Absent
  PROVE  DumpLock(l.dir, l.tool, TreeOf(l), c).deps = l.deps
<1> DEFINE T == TreeOf(l)
           d == l.dir
           t == l.tool
           present == {n \in Names : T[<<d, n>>] # Absent}
           next(n) == T[<<d, n>>].imports \cap present
           closed(S) == next(t) \subseteq S /\ \A n \in S : next(n) \subseteq S
           reached == {n \in present :
                         \A S \in SUBSET present : closed(S) => n \in S}
           D == {n \in Names : l.deps[n] # Absent}
<1>1. /\ d \in Dirs /\ t \in Names /\ l.source \in Contents
      /\ l.deps \in [Names -> Slot]
  BY LockFields DEF Slot
<1>2. \A n \in Names : <<d, n>> \in Files /\ <<d, n>>[1] = d /\ <<d, n>>[2] = n
  BY <1>1 DEF Files
<1>3. \A n \in Names :
        T[<<d, n>>] = IF n = t THEN l.source
                      ELSE IF l.deps[n] # Absent THEN l.deps[n]
                      ELSE IF Saves[<<d, n>>] = {} THEN Absent
                      ELSE CHOOSE e \in Saves[<<d, n>>] : TRUE
  BY <1>1, <1>2 DEF TreeOf
<1>4. \A n \in Names : Saves[<<d, n>>] # {} =>
        (CHOOSE e \in Saves[<<d, n>>] : TRUE) \in Contents
  BY <1>2, EnvironmentAssumption
<1>5. \A n \in Names : n # t => (n \in present <=> Saves[<<d, n>>] # {})
  BY <1>3, <1>4, ContentFields DEF OneTree
<1>6. \A e \in Contents : t \notin e.imports /\ e.imports \subseteq Names
  BY ContentFields DEF Steady
<1>7. t \in present /\ T[<<d, t>>] = l.source
  BY <1>1, <1>3
<1>8. \A n \in D : /\ T[<<d, n>>] = l.deps[n] /\ n \in present
                   /\ l.deps[n] \in Contents /\ n # t
  BY <1>1, <1>3 DEF OneTree, Slot
<1>9. next(t) = {m \in l.source.imports : Saves[<<d, m>>] # {}}
  BY <1>1, <1>5, <1>6, <1>7
<1>10. \A n \in D : next(n) = {m \in l.deps[n].imports : Saves[<<d, m>>] # {}}
  <2> SUFFICES ASSUME NEW n \in D
               PROVE  next(n) = {m \in l.deps[n].imports : Saves[<<d, m>>] # {}}
    OBVIOUS
  <2>1. T[<<d, n>>] = l.deps[n] /\ l.deps[n] \in Contents
    BY <1>8
  <2> QED
    BY <2>1, <1>5, <1>6
<1> HIDE DEF T, present, next
<1>11. D \subseteq present /\ closed(D)
  <2>1. next(t) \subseteq D
    BY <1>9 DEF OneTree, Holds
  <2>2. \A n \in D : next(n) \subseteq D
    BY <1>10 DEF OneTree, Holds
  <2> QED
    BY <2>1, <2>2, <1>8
<1>12. D \subseteq reached
  <2> SUFFICES ASSUME NEW n \in D, NEW S \in SUBSET present, closed(S)
               PROVE  n \in S
    BY <1>8
  <2>1. present \subseteq Names
    BY DEF present
  <2>2. Holds(l, S, l.source)
    BY <1>9 DEF Holds
  <2>3. \A k \in S : l.deps[k] # Absent => Holds(l, S, l.deps[k])
    BY <1>10, <2>1 DEF Holds
  <2> QED
    BY <2>1, <2>2, <2>3 DEF OneTree
<1>13. reached = D
  BY <1>11, <1>12
<1>14. DumpLock(d, t, T, c).deps =
         [n \in Names |-> IF n \in reached THEN T[<<d, n>>] ELSE Absent]
  BY DEF DumpLock, present, next
<1>15. \A n \in Names : (IF n \in reached THEN T[<<d, n>>] ELSE Absent) = l.deps[n]
  BY <1>8, <1>13
<1> QED
  BY <1>1, <1>14, <1>15 DEF T

(* While _discover walks: what it has found is the tool, or is forced by   *)
(* the imports of what it has read.                                        *)
ReachOf(l, w) ==
  /\ \A m \in w.todo : w.got[m] = Absent
  /\ \A m \in Names : w.got[m] # Absent => Saves[<<l.dir, m>>] # {}
  /\ \A S \in SUBSET Names :
       /\ Holds(l, S, l.source)
       /\ \A k \in S : w.got[k] # Absent => Holds(l, S, w.got[k])
       => \A m \in Names : w.got[m] # Absent \/ m \in w.todo
                             => m = l.tool \/ m \in S

Walks == [todo : SUBSET Names, open : SUBSET Names, got : [Names -> Slot]]

(* One file read keeps it so. *)
LEMMA ReachGrows ==
  ASSUME NEW l \in Locks, NEW w \in Walks, ReachOf(l, w),
         NEW n \in w.todo, NEW c \in Contents, NEW F \in SUBSET Names,
         \A m \in F : /\ m \in c.imports /\ Saves[<<l.dir, m>>] # {}
                      /\ w.got[m] = Absent,
         n = l.tool => c = l.source,
         Saves[<<l.dir, n>>] # {}
  PROVE  ReachOf(l, [todo |-> (w.todo \cup F) \ {n}, open |-> {},
                     got |-> [w.got EXCEPT ![n] = c]])
<1> DEFINE g == [w.got EXCEPT ![n] = c]
           T == (w.todo \cup F) \ {n}
<1>1. /\ n \in Names /\ c # Absent /\ w.got[n] = Absent
      /\ g[n] = c /\ \A m \in Names \ {n} : g[m] = w.got[m]
  BY ContentFields DEF Walks, ReachOf
<1>2. \A m \in T : g[m] = Absent
  BY <1>1 DEF ReachOf, Walks
<1>3. \A m \in Names : g[m] # Absent => Saves[<<l.dir, m>>] # {}
  BY <1>1 DEF ReachOf
<1>4. ASSUME NEW S \in SUBSET Names, Holds(l, S, l.source),
             \A k \in S : g[k] # Absent => Holds(l, S, g[k]),
             NEW m \in Names, g[m] # Absent \/ m \in T
      PROVE  m = l.tool \/ m \in S
  <2>1. \A k \in S : w.got[k] # Absent => Holds(l, S, w.got[k])
    BY <1>1, <1>4
  <2>2. \A k \in Names : w.got[k] # Absent \/ k \in w.todo
                           => k = l.tool \/ k \in S
    BY <1>4, <2>1 DEF ReachOf
  <2>3. Holds(l, S, c)
    BY <1>1, <1>4, <2>2
  <2>4. CASE m \in F
    BY <2>3, <2>4 DEF Holds
  <2>5. CASE m \notin F
    BY <1>1, <1>4, <2>2, <2>5
  <2> QED
    BY <2>4, <2>5
<1> HIDE DEF g, T
<1>5. ASSUME NEW r, r.todo = T, r.got = g
      PROVE  ReachOf(l, r)
  BY <1>2, <1>3, <1>4, <1>5 DEF ReachOf
<1> QED
  BY <1>5 DEF g, T

(* A walk that is over, found what is locked and left nothing out.         *)
LEMMA ReachEnds ==
  ASSUME Steady, NEW l \in Locks, NEW w \in Walks, ReachOf(l, w),
         l.source \in Contents,
         w.got[l.tool] = l.source,
         \A n \in Names : w.got[n] # Absent =>
           \A m \in w.got[n].imports :
             Saves[<<l.dir, m>>] # {} => w.got[m] # Absent,
         w.todo = {},
         [w.got EXCEPT ![l.tool] = Absent] = l.deps
  PROVE  OneTree(l)
<1> DEFINE t == l.tool
           D == {n \in Names : l.deps[n] # Absent}
<1>1. /\ t \in Names /\ l.deps[t] = Absent
      /\ \A n \in Names \ {t} : l.deps[n] = w.got[n]
  BY LockFields DEF Walks
<1>2. \A e \in Contents : t \notin e.imports /\ e.imports \subseteq Names
  BY ContentFields DEF Steady
<1>3. D = {n \in Names : w.got[n] # Absent} \ {t}
  BY <1>1
<1>4. \A n \in D : l.deps[n] = w.got[n] /\ l.deps[n] \in Contents
  BY <1>1 DEF Walks, Slot
<1>5. Holds(l, D, l.source)
  BY <1>1, <1>2, <1>3, ContentFields DEF Holds
<1>6. \A n \in D : Holds(l, D, l.deps[n])
  BY <1>2, <1>3, <1>4 DEF Holds
<1>7. \A n \in Names : l.deps[n] # Absent => Saves[<<l.dir, n>>] # {}
  BY <1>1 DEF ReachOf
<1>8. ASSUME NEW S \in SUBSET Names, Holds(l, S, l.source),
             \A k \in S : l.deps[k] # Absent => Holds(l, S, l.deps[k]),
             NEW n \in D
      PROVE  n \in S
  <2>1. \A k \in S : w.got[k] # Absent => Holds(l, S, w.got[k])
    BY <1>1, <1>8
  <2> QED
    BY <1>3, <1>8, <2>1 DEF ReachOf
<1> QED
  BY <1>1, <1>5, <1>6, <1>7, <1>8 DEF OneTree

(* From binding on the body hash names the approved declaration; from the  *)
(* seal on the lock is known to be of one tree.                            *)
TreeAt(x) ==
  /\ pc[x] \in Bound => lock[x].body[2] = lock[x].source.contract
  /\ pc[x] = "discover" => ReachOf(lock[x], walk[x])
  /\ pc[x] \in {"exec", "body"} => OneTree(lock[x])
  /\ pc[x] # "idle" => verdict[x].status # "PASS"
  /\ verdict[x].status = "PASS" =>
       /\ lock[x].body[2] = lock[x].source.contract
       /\ OneTree(lock[x])
       /\ lock[x].source # Absent

LEMMA TreeDiscover ==
  ASSUME TypeInv, FilesAt, NEW x \in Contexts, GateAt(x), HelperAt(x),
         TreeAt(x), NEW n \in Names, Discover(x, n)
  PROVE  TreeAt(x)'
<1> DEFINE l == lock[x]
           w == walk[x]
           c == Read(File(x, n))
           F == {m \in Resolved(x, c) : w.got[m] = Absent}
<1>1. /\ pc[x] = "discover" /\ n \in w.todo /\ ReachOf(l, w)
      /\ UNCHANGED <<pc, lock, verdict>>
  BY DEF Discover, TreeAt
<1>2. l \in Locks /\ w \in Walks /\ File(x, n) \in Files
  BY FileTypes DEF TypeInv, TypeOK, Walks
<1>3. ReachOf(l, walk'[x])
  <2>1. CASE disk[File(x, n)] = Absent
    <3>1. walk'[x] = [todo |-> w.todo \ {n}, open |-> {}, got |-> w.got]
      BY <2>1 DEF Discover, TypeInv, TypeOK
    <3> QED
      BY <1>1, <3>1 DEF ReachOf
  <2>2. CASE disk[File(x, n)] # Absent
    <3>1. walk'[x] = [todo |-> (w.todo \cup F) \ {n}, open |-> {},
                      got |-> [w.got EXCEPT ![n] = c]]
      BY <2>2 DEF Discover, TypeInv, TypeOK
    <3>2. c \in Contents
      BY <1>2, <2>2, ReadPresent DEF TypeInv
    <3>3. n = l.tool => c = l.source
      BY <1>1 DEF GateAt, HelperAt, Matched, Read, Tool, File
    <3>4. F \in SUBSET Names
      BY <3>2, ResolvedType
    <3>5. \A m \in F : /\ m \in c.imports /\ Saves[<<l.dir, m>>] # {}
                       /\ w.got[m] = Absent
      <4> TAKE m \in F
      <4>1. m \in c.imports /\ disk[File(x, m)] # Absent /\ w.got[m] = Absent
        BY DEF Resolved
      <4>2. File(x, m) \in Files
        BY <3>4, FileTypes DEF TypeInv
      <4> QED
        BY <4>1, <4>2 DEF FilesAt, File
    <3>6. Saves[<<l.dir, n>>] # {}
      BY <1>2, <2>2 DEF FilesAt, File
    <3> HIDE DEF F, c, w, l
    <3>7. ReachOf(l, [todo |-> (w.todo \cup F) \ {n}, open |-> {},
                      got |-> [w.got EXCEPT ![n] = c]])
      BY <1>1, <1>2, <3>2, <3>3, <3>4, <3>5, <3>6, ReachGrows
    <3> QED
      BY <3>1, <3>7
  <2> QED
    BY <2>1, <2>2
<1> QED
  BY <1>1, <1>3 DEF TreeAt, Bound

LEMMA TreeSeal ==
  ASSUME Steady, TypeInv, NEW x \in Contexts, GateAt(x), HelperAt(x),
         TreeAt(x), SealVerify(x)
  PROVE  TreeAt(x)'
<1> USE DEF TypeInv, TypeOK
<1>1. CASE Return(x, "FAIL", "drift")
  BY <1>1 DEF SealVerify, Return, Goto, TreeAt, Bound
<1>2. CASE [walk[x].got EXCEPT ![lock[x].tool] = Absent] = lock[x].deps
  <2> DEFINE l == lock[x]
             w == walk[x]
  <2>1. /\ l \in Locks /\ w \in Walks /\ ReachOf(l, w) /\ WalkAt(x)
        /\ w.todo = {}
    BY DEF SealVerify, TreeAt, HelperAt, Walks
  <2>2. l.source # Absent /\ l.source \in Slot
    BY LockFields DEF SealVerify, GateAt, HelperAt
  <2>3. w.got[l.tool] = l.source
    BY <2>1 DEF WalkAt
  <2>4. \A n \in Names : w.got[n] # Absent =>
          \A m \in w.got[n].imports :
            Saves[<<l.dir, m>>] # {} => w.got[m] # Absent
    BY <2>1 DEF WalkAt, Local, File
  <2>5. OneTree(l)
    BY <1>2, <2>1, <2>2, <2>3, <2>4, ReachEnds DEF Slot
  <2>6. lock' = lock /\ pc[x] = "discover" /\ pc'[x] = "exec" /\ verdict' = verdict
    BY <1>2 DEF SealVerify, Goto
  <2> QED
    BY <2>5, <2>6 DEF TreeAt, Bound
<1> QED
  BY <1>1, <1>2 DEF SealVerify

LEMMA TreeOrigin ==
  ASSUME TypeInv, NEW x \in Contexts, HelperAt(x), TreeAt(x), SealOrigin(x)
  PROVE  TreeAt(x)'
<1> USE DEF TypeInv, TypeOK
<1>1. disk[Tool(x)] # Absent
  BY DEF SealOrigin, HelperAt, Early
<1>2. /\ walk'[x] = [todo |-> {lock[x].tool}, open |-> {}, got |-> Unsealed]
      /\ pc[x] = "origin" /\ pc'[x] = "discover" /\ UNCHANGED <<lock, verdict>>
  BY <1>1 DEF SealOrigin, Goto
<1>3. ReachOf(lock[x], walk'[x])
  BY <1>2, LockFields DEF ReachOf, Unsealed
<1> QED
  BY <1>2, <1>3 DEF TreeAt, Bound

LEMMA TreeStep ==
  ASSUME Steady, TypeInv, FilesAt, NEW x \in Contexts, GateAt(x), HelperAt(x),
         TreeAt(x), Step(x)
  PROVE  TreeAt(x)'
<1> USE DEF TypeInv, TypeOK, Goto, Return, Bound, shared
<1>1. CASE \/ GateCheck(x) \/ GateRead(x) \/ GatePin(x) \/ GateCompare(x)
           \/ GateRepin(x)
  BY <1>1 DEF GateCheck, GateRead, GatePin, GateCompare, GateRepin, TreeAt
<1>8. ASSUME NEW l \in Locks, Admit(x, l) \/ ImportByHost(x, l)
      PROVE  TreeAt(x)'
  BY <1>8 DEF Admit, ImportByHost, Begin, TreeAt
<1>2. CASE \/ LoadScript(x) \/ LoadDone(x) \/ VerifyRuntimePin(x)
           \/ SkipIncomplete(x)
  BY <1>2 DEF LoadScript, LoadDone, VerifyRuntimePin, SkipIncomplete, TreeAt
<1>3. CASE BindBody(x)
  <2>1. code[x] = lock[x].source
    BY <1>3 DEF BindBody, GateAt, HelperAt, Early
  <2>2. ContentHash(x)[2] = code[x].contract
    BY DEF ContentHash
  <2> QED
    BY <1>3, <2>1, <2>2 DEF BindBody, TreeAt
<1>4. CASE BindDeps(x) \/ DynamicImportLeak(x)
  BY <1>4 DEF BindDeps, DynamicImportLeak, TreeAt
<1>5. CASE ExecSealed(x)
  BY <1>5 DEF ExecSealed, TreeAt
<1>6. CASE CheckConformance(x)
  BY <1>6 DEF CheckConformance, TreeAt, GateAt, HelperAt
<1>7. ASSUME NEW n \in Names,
             \/ CollectParse(x, n) \/ CollectHash(x, n)
             \/ ImportModule(x, n) \/ ImportFails(x, n) \/ ReloadModule(x, n)
      PROVE  TreeAt(x)'
  BY <1>7 DEF CollectParse, CollectHash, ImportModule, ImportFails,
              ReloadModule, TreeAt
<1> QED
  BY <1>1, <1>2, <1>3, <1>4, <1>5, <1>6, <1>7, <1>8, TreeOrigin, TreeSeal,
     TreeDiscover DEF Step, Continue

(* The one-tree theorem: where files are saved over but not moved, a lock  *)
(* that was put together while its tree was being saved, by whatever       *)
(* interleaving of readings and saves, either describes one tree or does   *)
(* not pass.                                                               *)
THEOREM OneTreeTheorem ==
  ASSUME Distinct, Steady
  PROVE  FreezeSpec => []PassIsOfOneTree
<1> DEFINE I == \A x \in Contexts : TreeAt(x)
           Inv == TypeInv /\ GateInv /\ HelperInv
<1>1. Init => I
  BY DEF Init, TreeAt, Bound
<1>2. Inv /\ I /\ [Next]_vars => I'
  <2> SUFFICES ASSUME Inv, I, [Next]_vars, NEW y \in Contexts
               PROVE  TreeAt(y)'
    OBVIOUS
  <2>1. ASSUME NEW x \in Contexts, Step(x)
        PROVE  TreeAt(y)'
    <3>1. CASE x = y
      BY <2>1, <3>1, TreeStep DEF GateInv, HelperInv
    <3>2. CASE x # y
      BY <2>1, <3>2, OthersUnchanged DEF TreeAt, TypeInv
    <3> QED
      BY <3>1, <3>2
  <2>2. CASE Environment \/ UNCHANGED vars
    <3>1. UNCHANGED locals
      BY <2>2, EnvironmentLocals DEF vars, locals
    <3> QED
      BY <3>1 DEF locals, TreeAt
  <2> QED
    BY <2>1, <2>2 DEF Next
<1>3. Inv /\ I => PassIsOfOneTree
  <2> SUFFICES ASSUME Inv, I, NEW x \in Contexts, verdict[x].status = "PASS"
               PROVE  LET l == lock[x]
                          whole == DumpLock(l.dir, l.tool, TreeOf(l), l.contour)
                      IN  l.body[2] = whole.body[2] /\ l.deps = whole.deps
    BY DEF PassIsOfOneTree
  <2> DEFINE l == lock[x]
             whole == DumpLock(l.dir, l.tool, TreeOf(l), l.contour)
  <2>1. l \in Locks /\ OneTree(l) /\ l.source # Absent
        /\ l.body[2] = l.source.contract
    BY DEF TreeAt, TypeInv, TypeOK
  <2>2. whole.deps = l.deps
    BY <2>1, TreeIsWhole
  <2>3. <<l.dir, l.tool>> \in Files
    BY <2>1, LockFields DEF Files
  <2>4. TreeOf(l)[<<l.dir, l.tool>>] = l.source
    BY <2>3 DEF TreeOf
  <2>5. whole.body[2] = l.source.contract
    BY <2>4 DEF DumpLock
  <2> QED
    BY <2>1, <2>2, <2>5
<1> QED
  BY <1>1, <1>2, <1>3, HelperInvariant, FreezeJudges, PTL DEF Spec

-----------------------------------------------------------------------------
(* A quiet tree *)

CmdRecord ==
  [is : {"none", "lock", "diff"},
   at : {"idle", "walk", "contour", "source", "body"}, file : Files,
   lock : Locks, code : Slot, walk : Walks,
   body : (Canons \X Contracts) \cup {Absent},
   contour : Contours \cup {Absent}, match : BOOLEAN]

(* A command has loaded the tool, and lock and diff share the walk only. *)
CmdInv ==
  /\ cmd \in CmdRecord
  /\ cmd.is = "none" <=> cmd.at = "idle"
  /\ cmd.at = "source" => cmd.is = "lock"
  /\ cmd.at = "body" => cmd.is = "diff"
  /\ cmd.is = "diff" /\ cmd.at \in {"contour", "body"} => cmd.walk = NoWalk
  /\ cmd.is # "none" => cmd.code # Absent

(* While nothing is saved a command has, of the tree as it is, what the    *)
(* readings behind it were for.                                            *)
QuietInv ==
  quiet =>
    LET d == cmd.file[1]
        t == cmd.file[2]
        body == <<disk[cmd.file].canon, disk[cmd.file].contract>>
    IN
    /\ cmd.is # "none" => cmd.code = disk[cmd.file]
    /\ cmd.at = "walk" => CollectOf(disk, d, t, cmd.walk)
    /\ cmd.is = "lock" /\ cmd.at \in {"contour", "source"} =>
         cmd.body = body /\ cmd.walk.got = LiveDeps(disk, d, t)
    /\ cmd.at = "source" => cmd.contour # Absent /\ cmd.contour.files = contour
    /\ cmd.is = "diff" =>
         /\ cmd.file = <<cmd.lock.dir, cmd.lock.tool>>
         /\ cmd.lock.source = disk[cmd.file]
         /\ cmd.at = "body" => (cmd.match <=> SameFiles(cmd.lock))
         /\ cmd.at = "walk" =>
              (cmd.match <=> /\ SameFiles(cmd.lock)
                             /\ cmd.lock.body = body
                             /\ disk[cmd.file].contract \notin Nameless)
    /\ QuietIsExact

LEMMA NoCommandType ==
  /\ NoCommand \in CmdRecord /\ NoCommand.walk = NoWalk
  /\ NoCommand.is = "none" /\ NoCommand.at = "idle"
  /\ NoWalk \in Walks /\ NoWalk.todo = {} /\ NoWalk.open = {}
  /\ NoWalk.got = Unsealed
<1>1. PICK l \in Locks : TRUE
  BY LocksAssumption
<1>2. <<l.dir, l.tool>> \in Files
  BY LockFields DEF Files
<1>3. (CHOOSE f \in Files : TRUE) \in Files /\ (CHOOSE k \in Locks : TRUE) \in Locks
  BY <1>1, <1>2
<1>4. NoWalk \in Walks
  BY DEF NoWalk, Walks, Unsealed, Slot
<1> QED
  BY <1>3, <1>4 DEF NoCommand, CmdRecord, Slot, NoWalk

LEMMA CmdReadType ==
  ASSUME TypeOK, CmdInv, NEW n \in Names
  PROVE  CmdRead(n) \in Slot /\ CmdFile(n) \in Files
<1>1. CmdFile(n) \in Files
  BY DEF CmdInv, CmdRecord, Files, CmdFile
<1> QED
  BY <1>1 DEF CmdRead, TypeOK, CmdInv, CmdRecord

LEMMA CmdBodyType ==
  ASSUME TypeOK, CmdInv, cmd.is # "none"
  PROVE  /\ CmdBody \in (Canons \X Contracts) \cup {Absent}
         /\ disk[cmd.file] # Absent => CmdBody # Absent
<1>1. \A c \in Slot : c # Absent => c.canon \in Canons /\ c.contract \in Contracts
  BY ContentsAssumption DEF Slot, Content
<1> QED
  BY <1>1, ContentsAssumption DEF CmdBody, TypeOK, CmdInv, CmdRecord

(* The tree under the command, while it is quiet. *)
LEMMA CmdQuiet ==
  ASSUME TypeOK, CmdInv, QuietInv, quiet, cmd.is # "none"
  PROVE  /\ cmd.file[1] \in Dirs /\ cmd.file[2] \in Names
         /\ cmd.file = <<cmd.file[1], cmd.file[2]>>
         /\ cmd.code = disk[cmd.file] /\ disk[cmd.file] # Absent
         /\ \A n \in Names : CmdRead(n) = disk[<<cmd.file[1], n>>]
         /\ CmdBody = <<disk[cmd.file].canon, disk[cmd.file].contract>>
         /\ cmd.walk.got \in [Names -> Slot]
<1>1. /\ cmd.file \in Files /\ cmd.code = disk[cmd.file] /\ cmd.code # Absent
      /\ cmd.walk \in Walks
  BY DEF CmdInv, CmdRecord, QuietInv
<1>2. cmd.file = <<cmd.file[1], cmd.file[2]>>
  BY <1>1 DEF Files
<1> QED
  BY <1>1, <1>2 DEF CmdRead, CmdFile, CmdBody, Files, Walks

(* A command begins with nothing written behind it. *)
LEMMA StartInv ==
  ASSUME TypeOK, CmdInv, QuietInv, NEW is \in {"lock", "diff"},
         NEW f \in Files, NEW l \in Locks, Start(is, f, l),
         is = "diff" => f = <<l.dir, l.tool>>
  PROVE  CmdInv' /\ QuietInv'
<1>1. disk' = disk /\ contour' = contour /\ last'.is = "none"
  BY DEF Start, vars, Nothing
<1>2. CASE cmd' = NoCommand
  BY <1>1, <1>2, NoCommandType DEF CmdInv, QuietInv, QuietIsExact
<1>3. CASE cmd' # NoCommand
  <2> DEFINE at == IF is = "lock" THEN "walk" ELSE "contour"
             open == IF is = "lock" THEN {f[2]} ELSE {}
  <2>0. disk[f] # Absent /\ (is = "diff" => l.source = disk[f])
    BY <1>3 DEF Start
  <2>1. cmd' = [NoCommand EXCEPT !.is = is, !.file = f, !.lock = l,
                  !.code = disk[f], !.at = at, !.walk.open = open]
    BY <1>3 DEF Start
  <2>2. f[2] \in Names /\ disk[f] \in Slot
    BY DEF Files, TypeOK
  <2>3. /\ at \in {"walk", "contour"} /\ open \in SUBSET Names
        /\ is = "diff" => at = "contour" /\ open = {}
        /\ is = "lock" => at = "walk" /\ open = {f[2]}
    BY <2>2
  <2> HIDE DEF at, open
  <2>4. /\ cmd' \in CmdRecord /\ cmd'.is = is /\ cmd'.at = at
        /\ cmd'.file = f /\ cmd'.lock = l /\ cmd'.code = disk[f]
        /\ cmd'.walk.todo = {} /\ cmd'.walk.got = Unsealed
        /\ cmd'.walk.open = open
    BY <2>1, <2>2, <2>3, NoCommandType DEF CmdRecord, Walks
  <2>5. is = "diff" => cmd'.walk = NoWalk
    BY <2>3, <2>4 DEF CmdRecord, Walks, NoWalk
  <2>6. CmdInv'
    <3>1. cmd'.at \in {"walk", "contour"} /\ cmd'.is \in {"lock", "diff"}
      BY <2>3, <2>4
    <3>2. cmd'.code # Absent
      BY <2>0, <2>4
    <3> QED
      BY <2>4, <2>5, <3>1, <3>2 DEF CmdInv
  <2>7. is = "lock" => CollectOf(disk, f[1], f[2], cmd'.walk)
    BY <2>2, <2>3, <2>4, CollectStarts
  <2>8. QuietInv'
    <3>1. cmd'.at = "walk" => is = "lock"
      BY <2>3, <2>4
    <3>2. cmd'.at \in {"walk", "contour"}
      BY <2>3, <2>4
    <3>3. cmd'.at = "contour" => is = "diff"
      BY <2>3, <2>4
    <3> QED
      BY <1>1, <2>0, <2>4, <2>7, <3>1, <3>2, <3>3 DEF QuietInv, QuietIsExact
  <2> QED
    BY <2>6, <2>8
<1> QED
  BY <1>2, <1>3

(* One file of its walk. *)
LEMMA CmdParseInv ==
  ASSUME TypeOK, CmdInv, QuietInv, NEW n \in Names, CmdParse(n)
  PROVE  CmdInv' /\ QuietInv'
<1> DEFINE w == cmd.walk
           c == CmdRead(n)
           found == IF disk[CmdFile(n)] = Absent THEN {}
                    ELSE {m \in c.imports : /\ disk[CmdFile(m)] # Absent
                                            /\ w.got[m] = Absent}
<1>1. /\ cmd.at = "walk" /\ n \in w.open /\ cmd \in CmdRecord /\ w \in Walks
      /\ cmd.is # "none" /\ cmd.code # Absent
  BY DEF CmdParse, CmdInv, CmdRecord
<1>2. UNCHANGED <<disk, contour, last, quiet>>
  BY DEF CmdParse, Unfinished, vars
<1>3. found \in SUBSET Names
  <2>1. CASE disk[CmdFile(n)] # Absent
    <3>1. c \in Contents
      BY <1>1, <2>1, CmdReadType DEF CmdRead, Slot
    <3> QED
      BY <3>1, ContentFields
  <2>2. CASE disk[CmdFile(n)] = Absent
    BY <2>2
  <2> QED
    BY <2>1, <2>2
<1>4. cmd' = [cmd EXCEPT !.walk.todo = @ \cup found, !.walk.open = @ \ {n}]
  BY DEF CmdParse
<1>5. /\ cmd' \in CmdRecord /\ cmd'.is = cmd.is /\ cmd'.at = "walk"
      /\ cmd'.file = cmd.file /\ cmd'.lock = cmd.lock /\ cmd'.code = cmd.code
      /\ cmd'.match = cmd.match /\ cmd'.walk.todo = w.todo \cup found
      /\ cmd'.walk.open = w.open \ {n} /\ cmd'.walk.got = w.got
  <2> HIDE DEF found
  <2> QED
    BY <1>1, <1>3, <1>4 DEF CmdRecord, Walks
<1>6. CmdInv'
  BY <1>1, <1>5 DEF CmdInv
<1>7. ASSUME quiet
      PROVE  CollectOf(disk, cmd.file[1], cmd.file[2], cmd'.walk)
  <2> DEFINE d == cmd.file[1]
             t == cmd.file[2]
  <2>1. CollectOf(disk, d, t, w) /\ t \in Names
    BY <1>1, <1>7, CmdQuiet DEF QuietInv
  <2>2. disk[<<d, n>>] # Absent
    <3>1. Reach(disk, d, t) \subseteq There(disk, d)
      BY ReachIs
    <3>2. n \in {t} \cup Reach(disk, d, t)
      BY <1>1, <2>1 DEF CollectOf
    <3>3. disk[<<d, t>>] # Absent
      BY <1>1, <1>7, CmdQuiet
    <3> QED
      BY <3>1, <3>2, <3>3 DEF There
  <2>3. c = disk[<<d, n>>] /\ c \in Contents
    <3>1. CmdRead(n) = disk[<<d, n>>]
      BY <1>1, <1>7, CmdQuiet
    <3>2. CmdRead(n) \in Slot
      BY CmdReadType
    <3> QED
      BY <2>2, <3>1, <3>2 DEF Slot
  <2>4. found = {m \in Imports(disk, d, n) : w.got[m] = Absent}
    <3>1. \A m : CmdFile(m) = <<d, m>>
      BY DEF CmdFile
    <3>2. c.imports \subseteq Names
      BY <2>3, ContentFields
    <3>3. Imports(disk, d, n) = {m \in c.imports : disk[<<d, m>>] # Absent}
      BY <2>3, <3>2 DEF Imports, There
    <3> HIDE DEF c, d, w
    <3> QED
      BY <2>2, <3>1, <3>3
  <2> HIDE DEF d, t, w, found
  <2>5. CollectOf(disk, d, t, cmd'.walk)
    BY <1>1, <1>5, <2>1, <2>4, CollectParsed
  <2> QED
    BY <2>5 DEF d, t
<1> QED
  BY <1>1, <1>2, <1>5, <1>6, <1>7 DEF QuietInv, QuietIsExact, SameFiles

LEMMA CmdHashInv ==
  ASSUME TypeOK, CmdInv, QuietInv, NEW n \in Names, CmdHash(n)
  PROVE  CmdInv' /\ QuietInv'
<1> DEFINE w == cmd.walk
           c == CmdRead(n)
           opened == IF n = cmd.file[2] THEN {} ELSE {n}
<1>1. /\ cmd.at = "walk" /\ n \in w.todo /\ cmd \in CmdRecord /\ w \in Walks
      /\ cmd.is # "none" /\ cmd.code # Absent
  BY DEF CmdHash, CmdInv, CmdRecord
<1>2. UNCHANGED <<disk, contour, quiet>>
  BY DEF CmdHash, Unfinished, vars
<1>3. CASE c = Absent
  <2>1. cmd' = NoCommand /\ last'.is = "none"
    BY <1>3 DEF CmdHash, Exit, Nothing
  <2> QED
    BY <2>1, NoCommandType DEF CmdInv, QuietInv, QuietIsExact
<1>4. CASE c # Absent
  <2>1. /\ cmd' = [cmd EXCEPT !.walk.todo = @ \ {n}, !.walk.got[n] = c,
                     !.walk.open = @ \cup opened]
        /\ last' = last
    BY <1>4 DEF CmdHash, Unfinished
  <2>2. c \in Slot /\ opened \in SUBSET Names
    BY CmdReadType
  <2>3. /\ cmd' \in CmdRecord /\ cmd'.is = cmd.is /\ cmd'.at = "walk"
        /\ cmd'.file = cmd.file /\ cmd'.lock = cmd.lock
        /\ cmd'.code = cmd.code /\ cmd'.match = cmd.match
        /\ cmd'.walk.todo = w.todo \ {n}
        /\ cmd'.walk.open = w.open \cup opened
        /\ cmd'.walk.got = [w.got EXCEPT ![n] = c]
    <3> HIDE DEF opened, c
    <3> QED
      BY <1>1, <2>1, <2>2 DEF CmdRecord, Walks
  <2>4. CmdInv'
    BY <1>1, <2>3 DEF CmdInv
  <2>5. ASSUME quiet
        PROVE  CollectOf(disk, cmd.file[1], cmd.file[2], cmd'.walk)
    <3> DEFINE d == cmd.file[1]
               t == cmd.file[2]
    <3>1. /\ CollectOf(disk, d, t, w) /\ t \in Names /\ c = disk[<<d, n>>]
          /\ w.got \in [Names -> Slot]
      BY <1>1, <2>5, CmdQuiet DEF QuietInv
    <3>2. /\ cmd'.walk.todo = w.todo \ {n}
          /\ cmd'.walk.open = w.open \cup IF n = t THEN {} ELSE {n}
          /\ cmd'.walk.got = [w.got EXCEPT ![n] = disk[<<d, n>>]]
      BY <2>3, <3>1
    <3> HIDE DEF d, t, w
    <3>3. CollectOf(disk, d, t, cmd'.walk)
      BY <1>1, <3>1, <3>2, CollectHashed
    <3> QED
      BY <3>3 DEF d, t
  <2> QED
    BY <1>1, <1>2, <2>1, <2>3, <2>4, <2>5 DEF QuietInv, QuietIsExact, SameFiles
<1> QED
  BY <1>3, <1>4

(* The walk is over: it has what DumpLock says. *)
LEMMA CmdWalked ==
  ASSUME TypeOK, CmdInv, QuietInv, quiet, Walked
  PROVE  cmd.walk.got = LiveDeps(disk, cmd.file[1], cmd.file[2])
<1> DEFINE d == cmd.file[1]
           t == cmd.file[2]
           w == cmd.walk
<1>1. cmd.is # "none"
  BY DEF Walked, CmdInv
<1>2. /\ CollectOf(disk, d, t, w) /\ w.got \in [Names -> Slot] /\ t \in Names
      /\ w.todo = {} /\ w.open = {}
  BY <1>1, CmdQuiet DEF Walked, QuietInv
<1> HIDE DEF d, t, w
<1>3. w.got = LiveDeps(disk, d, t)
  BY <1>2, CollectOver
<1> QED
  BY <1>3 DEF d, t, w

(* The other readings of lock. *)
LEMMA LockReadsInv ==
  ASSUME TypeOK, CmdInv, QuietInv, LockBody \/ LockContour
  PROVE  CmdInv' /\ QuietInv'
<1>1. UNCHANGED <<disk, contour, last, quiet>>
  BY DEF LockBody, LockContour, Unfinished, vars
<1>2. cmd \in CmdRecord /\ cmd.is = "lock" /\ cmd.code # Absent
  BY DEF LockBody, LockContour, CmdInv
<1>3. CASE LockBody
  <2>1. cmd' = [cmd EXCEPT !.at = "contour", !.body = CmdBody]
    BY <1>3 DEF LockBody
  <2>2. /\ cmd' \in CmdRecord /\ cmd'.is = "lock" /\ cmd'.at = "contour"
        /\ cmd'.file = cmd.file /\ cmd'.code = cmd.code
        /\ cmd'.walk = cmd.walk /\ cmd'.body = CmdBody
    BY <1>2, <2>1, CmdBodyType DEF CmdRecord
  <2>3. quiet => /\ cmd.walk.got = LiveDeps(disk, cmd.file[1], cmd.file[2])
                 /\ cmd.code = disk[cmd.file]
                 /\ CmdBody = <<disk[cmd.file].canon, disk[cmd.file].contract>>
    BY <1>2, <1>3, CmdWalked, CmdQuiet DEF LockBody
  <2> QED
    BY <1>1, <1>2, <2>2, <2>3 DEF CmdInv, QuietInv, QuietIsExact, SameFiles
<1>4. CASE LockContour
  <2> DEFINE pin(p) == [files |-> contour, python |-> p]
  <2>1. PICK p \in Pythons :
          cmd' = [cmd EXCEPT !.at = "source", !.contour = pin(p)]
    BY <1>4 DEF LockContour
  <2>0. cmd.at = "contour"
    BY <1>4 DEF LockContour
  <2>3. /\ pin(p) \in Contours /\ pin(p) # Absent
        /\ pin(p).files = contour
    BY ContentsAssumption DEF Contours, TypeOK
  <2> HIDE DEF pin
  <2>2. /\ cmd' \in CmdRecord /\ cmd'.is = "lock" /\ cmd'.at = "source"
        /\ cmd'.file = cmd.file /\ cmd'.code = cmd.code
        /\ cmd'.walk = cmd.walk /\ cmd'.body = cmd.body
        /\ cmd'.contour = pin(p)
    BY <1>2, <2>1, <2>3 DEF CmdRecord
  <2> QED
    BY <1>1, <1>2, <2>0, <2>2, <2>3 DEF CmdInv, QuietInv, QuietIsExact, SameFiles
<1> QED
  BY <1>3, <1>4

LEMMA LockWriteInv ==
  ASSUME TypeOK, CmdInv, QuietInv, LockWrite
  PROVE  CmdInv' /\ QuietInv'
<1>1. /\ UNCHANGED <<disk, contour, quiet>> /\ cmd' = NoCommand
      /\ last'.is = "lock" /\ last'.lock = Dumped
  BY DEF LockWrite, Exit, vars
<1>2. CmdInv'
  BY <1>1, NoCommandType DEF CmdInv
<1>3. ASSUME quiet
      PROVE  /\ Dumped = DumpLock(Dumped.dir, Dumped.tool, disk, Dumped.contour)
             /\ SameFiles(Dumped)
  <2> DEFINE d == cmd.file[1]
             t == cmd.file[2]
             body == <<disk[<<d, t>>].canon, disk[<<d, t>>].contract>>
  <2>1. cmd.is = "lock" /\ cmd.at = "source"
    BY DEF LockWrite, CmdInv
  <2>2. cmd.file = <<d, t>>
    BY <1>3, <2>1, CmdQuiet
  <2>3. /\ cmd.body = body /\ cmd.walk.got = LiveDeps(disk, d, t)
        /\ cmd.contour # Absent /\ cmd.contour.files = contour
    BY <1>3, <2>1, <2>2 DEF QuietInv
  <2>4. Dumped =
          [dir |-> d, tool |-> t, source |-> disk[<<d, t>>], body |-> body,
           deps |-> LiveDeps(disk, d, t), contour |-> cmd.contour,
           complete |-> TRUE, iface |-> TRUE, dynamic |-> FALSE]
    BY <2>2, <2>3 DEF Dumped
  <2>5. /\ Dumped.dir = d /\ Dumped.tool = t
        /\ Dumped.contour = cmd.contour
    BY DEF Dumped
  <2>6. SameFiles(Dumped)
    BY <2>3, <2>5 DEF SameFiles
  <2> HIDE DEF d, t
  <2> QED
    BY <2>4, <2>5, <2>6, DumpIs
<1> QED
  BY <1>1, <1>2, <1>3, NoCommandType DEF QuietInv, QuietIsExact, SameFiles

(* The rows of diff. *)
LEMMA DiffRowsInv ==
  ASSUME TypeOK, CmdInv, QuietInv, DiffContour \/ DiffBody
  PROVE  CmdInv' /\ QuietInv'
<1>1. UNCHANGED <<disk, contour, last, quiet>>
  BY DEF DiffContour, DiffBody, Unfinished, vars
<1>2. /\ cmd \in CmdRecord /\ cmd.is = "diff" /\ cmd.code # Absent
      /\ cmd.walk = NoWalk /\ cmd.file[2] \in Names
  BY DEF DiffContour, DiffBody, CmdInv, CmdRecord, Files
<1>3. CASE DiffContour
  <2> DEFINE same == SameFiles(cmd.lock) /\ disk[cmd.file] # Absent
  <2>1. cmd' = [cmd EXCEPT !.at = "body", !.match = same]
    BY <1>3 DEF DiffContour
  <2>2. same \in BOOLEAN
    BY DEF SameFiles
  <2>3. quiet => (same <=> SameFiles(cmd.lock))
    BY <1>2, CmdQuiet
  <2> HIDE DEF same
  <2>4. /\ cmd' \in CmdRecord /\ cmd'.is = "diff" /\ cmd'.at = "body"
        /\ cmd'.file = cmd.file /\ cmd'.code = cmd.code
        /\ cmd'.lock = cmd.lock /\ cmd'.walk = NoWalk /\ cmd'.match = same
    BY <1>2, <2>1, <2>2 DEF CmdRecord
  <2> QED
    BY <1>1, <1>2, <2>3, <2>4 DEF CmdInv, QuietInv, QuietIsExact, SameFiles
<1>4. CASE DiffBody
  <2> DEFINE same == /\ cmd.match
                     /\ cmd.code.contract \notin Nameless
                     /\ CmdBody # Absent /\ CmdBody = cmd.lock.body
             t == cmd.file[2]
  <2>1. /\ cmd.at = "body"
        /\ cmd' = [cmd EXCEPT !.at = "walk", !.walk.open = {t}, !.match = same]
    BY <1>4 DEF DiffBody
  <2>2. same \in BOOLEAN
    BY <1>2 DEF CmdRecord
  <2>3. quiet => (same <=> /\ SameFiles(cmd.lock)
                           /\ cmd.lock.body = <<disk[cmd.file].canon,
                                                disk[cmd.file].contract>>
                           /\ disk[cmd.file].contract \notin Nameless)
    <3>1. quiet => (cmd.match <=> SameFiles(cmd.lock))
      BY <1>2, <2>1 DEF QuietInv
    <3> QED
      BY <1>2, <3>1, CmdQuiet, CmdBodyType
  <2> HIDE DEF same, t
  <2>4. t \in Names
    BY <1>2 DEF t
  <2>5. /\ cmd' \in CmdRecord /\ cmd'.is = "diff" /\ cmd'.at = "walk"
        /\ cmd'.file = cmd.file /\ cmd'.code = cmd.code
        /\ cmd'.lock = cmd.lock /\ cmd'.match = same
        /\ cmd'.walk.todo = {} /\ cmd'.walk.open = {t}
        /\ cmd'.walk.got = Unsealed
    BY <1>2, <2>1, <2>2, <2>4, NoCommandType DEF CmdRecord, Walks
  <2>6. CollectOf(disk, cmd.file[1], t, cmd'.walk)
    BY <2>4, <2>5, CollectStarts
  <2> QED
    BY <1>1, <1>2, <2>3, <2>5, <2>6
       DEF CmdInv, QuietInv, QuietIsExact, SameFiles, t
<1> QED
  BY <1>3, <1>4

LEMMA DiffDepsInv ==
  ASSUME TypeOK, CmdInv, QuietInv, DiffDeps
  PROVE  CmdInv' /\ QuietInv'
<1> DEFINE l == cmd.lock
           same == cmd.match /\ cmd.walk.got = l.deps
           live == DumpLock(l.dir, l.tool, disk, l.contour)
<1>1. /\ UNCHANGED <<disk, contour, quiet>> /\ cmd' = NoCommand
      /\ last'.is = "diff" /\ last'.lock = l /\ last'.match = same
  BY DEF DiffDeps, Exit, vars
<1>2. CmdInv'
  BY <1>1, NoCommandType DEF CmdInv
<1>3. ASSUME quiet
      PROVE  same <=> /\ l.source = live.source /\ l.body = live.body
                      /\ l.deps = live.deps /\ SameFiles(l)
                      /\ disk[<<l.dir, l.tool>>].contract \notin Nameless
  <2>1. cmd.is = "diff" /\ cmd.at = "walk" /\ Walked
    BY DEF DiffDeps, Walked
  <2>2. cmd.walk.got = LiveDeps(disk, cmd.file[1], cmd.file[2])
    BY <1>3, <2>1, CmdWalked
  <2>3. /\ cmd.file = <<l.dir, l.tool>> /\ l.source = disk[cmd.file]
        /\ cmd.match <=> /\ SameFiles(l)
                         /\ l.body = <<disk[cmd.file].canon,
                                       disk[cmd.file].contract>>
                         /\ disk[cmd.file].contract \notin Nameless
    BY <1>3, <2>1 DEF QuietInv
  <2>4. /\ live.source = disk[<<l.dir, l.tool>>]
        /\ live.body = <<disk[<<l.dir, l.tool>>].canon,
                         disk[<<l.dir, l.tool>>].contract>>
        /\ live.deps = LiveDeps(disk, l.dir, l.tool)
    BY DumpIs
  <2> HIDE DEF live, l
  <2> QED
    BY <2>2, <2>3, <2>4
<1> QED
  BY <1>1, <1>2, <1>3, NoCommandType DEF QuietInv, QuietIsExact, SameFiles

LEMMA CommandInv ==
  ASSUME TypeOK, CmdInv, QuietInv, Command
  PROVE  CmdInv' /\ QuietInv'
<1>1. ASSUME NEW l \in Locks,
             LockBegin(<<l.dir, l.tool>>) \/ DiffBegin(l)
      PROVE  CmdInv' /\ QuietInv'
  <2>1. <<l.dir, l.tool>> \in Files /\ NoCommand.lock \in Locks
    BY LockFields, NoCommandType DEF Files, CmdRecord
  <2>2. CASE LockBegin(<<l.dir, l.tool>>)
    BY <2>1, <2>2, StartInv DEF LockBegin
  <2>3. CASE DiffBegin(l)
    BY <2>1, <2>3, StartInv DEF DiffBegin
  <2> QED
    BY <1>1, <2>2, <2>3
<1> QED
  BY <1>1, CmdParseInv, CmdHashInv, LockReadsInv, LockWriteInv, DiffRowsInv,
     DiffDepsInv DEF Command

(* Judging writes no file and prints over the last result; saving is the   *)
(* end of the quiet.                                                       *)
LEMMA JudgingQuiet ==
  ASSUME CmdInv, QuietInv, Judging
  PROVE  CmdInv' /\ QuietInv'
<1>1. cmd.is = "none" /\ cmd' = cmd /\ quiet' = quiet /\ last'.is = "none"
  BY DEF Judging, Nothing
<1> QED
  BY <1>1 DEF CmdInv, QuietInv, QuietIsExact

LEMMA QuietInduction ==
  ASSUME TypeOK, CmdInv, QuietInv, [FreezeNext]_allVars
  PROVE  CmdInv' /\ QuietInv'
<1>1. CASE Saving
  BY <1>1 DEF Saving, CmdInv, QuietInv
<1>2. CASE UNCHANGED allVars
  <2>1. UNCHANGED <<disk, contour, cmd, quiet, last>>
    BY <1>2 DEF allVars, vars, freezeVars
  <2>2. QuietIsExact => QuietIsExact'
    BY <2>1 DEF QuietIsExact, SameFiles
  <2> QED
    BY <2>1, <2>2 DEF CmdInv, QuietInv, SameFiles
<1> QED
  BY <1>1, <1>2, CommandInv, JudgingQuiet DEF FreezeNext

(* The exactness theorem: whatever was saved and judged before, a lock     *)
(* that is taken while nothing is saved is the lock of the tree, with      *)
(* exactly the files that imports reach, and diff says MATCH of such a     *)
(* tree for exactly the locks with its hashes and engine files, provided   *)
(* the tool's script has a name.                                           *)
THEOREM ExactTheorem == FreezeSpec => []QuietIsExact
<1>1. FreezeInit => CmdInv /\ QuietInv
  BY NoCommandType DEF FreezeInit, CmdInv, QuietInv
<1>2. TypeOK /\ CmdInv /\ QuietInv /\ [FreezeNext]_allVars => CmdInv' /\ QuietInv'
  BY QuietInduction
<1>3. FreezeSpec => []TypeOK
  BY FreezeJudges, TypeTheorem, PTL
<1>4. QuietInv => QuietIsExact
  BY DEF QuietInv, QuietIsExact
<1> QED
  BY <1>1, <1>2, <1>3, <1>4, PTL DEF FreezeSpec
=============================================================================
