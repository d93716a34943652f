----------------------------- MODULE BlankProofs -----------------------------
(***************************************************************************)
(* Blanks and artifacts, for every set of files, blanks, locks and hosts   *)
(* and however many saves and judgements: types, the bytes the CLI         *)
(* executes, and what an artifact claims.                                  *)
(***************************************************************************)
EXTENDS Blank, TLAPS

JobRecord ==
  [at : Stages, entry : {"none", "admit", "library"}, lock : Locks,
   ref : Claims, code : Slot,
   made : [body : LiveCanons \cup {Absent}, source : Slot],
   status : {"none", "PASS", "FAIL", "SKIPPED"}, why : Reasons,
   edits : 0..MaxEdits, runs : 0..MaxRuns]

(* TypeOK, with the judgement as one record. *)
Typed ==
  /\ blank \in Blanks
  /\ disk \in [Files -> Slot]
  /\ pinned \in [Files -> Slot]
  /\ pinJson \in Blanks \cup {Absent}
  /\ job \in JobRecord

(* What the gate has pinned is what the loader reads. *)
GateInv ==
  job.entry = "admit" =>
    /\ job.at = "target" => pinJson # Absent
    /\ job.at \in {"compare", "load"} =>
         /\ pinJson # Absent /\ pinJson.file = job.ref.file
         /\ pinned[job.ref.file] # Absent
    /\ job.at \in {"load", "match", "exec", "canon", "bind"} =>
         pinned[job.ref.file] = job.lock.source
    /\ job.at # "idle" => job.lock.source # Absent
    /\ job.code \in {Absent, job.lock.source}

(* The stages of a host are those of the loader. *)
StageInv ==
  /\ job.at \in {"gate", "target", "compare", "load"} =>
       job.entry = "admit" /\ job.code = Absent
  /\ job.at \in {"gate", "target", "compare", "load", "match", "exec",
                 "canon", "bind"} => job.status = "none"
  /\ job.at \in {"match", "exec"} => job.code = Absent

(* Each step of the loader leaves behind what it has compared. *)
ClaimInv ==
  /\ job.at \in {"exec", "canon", "bind"} =>
       /\ pinned[job.ref.file] # Absent
       /\ job.ref.body \in {Absent, Preview(pinned[job.ref.file])}
  /\ job.at \in {"canon", "bind"} =>
       job.code = pinned[job.ref.file] /\ job.code.made # Absent
  /\ ClaimsHold

BlankInv == Typed /\ GateInv /\ StageInv /\ ClaimInv

LEMMA ReadType ==
  ASSUME Typed, NEW f \in Files
  PROVE  /\ Read(f) \in Slot
         /\ pinned[f] # Absent => Read(f) = pinned[f]
  BY DEF Typed, Read, Slot

(* The canons of a function that was made of bytes there are. *)
LEMMA LiveType ==
  ASSUME Typed, NEW f \in Files, job.code # Absent, job.code.made # Absent
  PROVE  \A live \in LiveCanon(f) :
           live \in LiveCanons /\ live.binds = job.code.made.binds
<1>1. job.code \in Contents
  BY DEF Typed, JobRecord, Slot
<1>2. job.code.made \in Canons
  BY <1>1, BlankAssumption
<1>3. /\ job.code.made.text \in Texts /\ job.code.made.binds \in Bindings
  BY <1>2 DEF Canons
<1>4. Found(f) \subseteq Texts \cup {Bytecode}
  BY <1>3 DEF Found
<1> QED
  BY <1>3, <1>4 DEF LiveCanon, LiveCanons

(* What is made of the file as it was executed is what it is called for. *)
LEMMA LiveOfSame ==
  ASSUME Typed, NEW f \in Files, job.code # Absent, job.code.made # Absent,
         disk[f] = job.code
  PROVE  LiveCanon(f) = {job.code.made}
<1>1. job.code \in Contents
  BY DEF Typed, JobRecord, Slot
<1>2. job.code.made \in Canons
  BY <1>1, BlankAssumption
<1>3. job.code.made = [text |-> job.code.made.text, binds |-> job.code.made.binds]
  BY <1>2 DEF Canons
<1>4. Found(f) = {job.code.made.text}
  BY DEF Found
<1> QED
  BY <1>3, <1>4 DEF LiveCanon

LEMMA BlankType ==
  ASSUME Typed
  PROVE  /\ ReadBlank \in Blanks /\ ReadBlank \in Claims
         /\ pinJson # Absent => ReadBlank = pinJson
         /\ \A a \in Artifacts : a \in Claims
  BY BlankAssumption DEF Typed, ReadBlank

LEMMA InitInv == Init => BlankInv
<1> SUFFICES ASSUME Init PROVE BlankInv
  OBVIOUS
<1>1. NoRef \in Claims
  BY BlankAssumption DEF NoRef, Claims, Slot
<1>2. NoArtifact \in [body : LiveCanons \cup {Absent}, source : Slot]
  BY DEF NoArtifact, Slot
<1>3. PICK l \in Locks :
        job = [at |-> "idle", entry |-> "none", lock |-> l, ref |-> NoRef,
               code |-> Absent, made |-> NoArtifact, status |-> "none",
               why |-> "none", edits |-> 0, runs |-> 0]
  BY DEF Init
<1>4. job \in JobRecord
  BY <1>1, <1>2, <1>3, BlankAssumption DEF JobRecord, Stages, Reasons, Slot
<1>5. job.at = "idle" /\ job.entry = "none" /\ job.status = "none"
  BY <1>3
<1>6. Typed
  BY <1>4 DEF Init, Typed, Slot
<1> QED
  BY <1>5, <1>6 DEF BlankInv, GateInv, StageInv, ClaimInv, ClaimsHold

(* A pin is the bytes read, and a file that has one keeps it. *)
LEMMA PinStays ==
  ASSUME Typed, NEW f \in Files, Read(f) # Absent, Pin(f, Read(f))
  PROVE  /\ pinned' \in [Files -> Slot]
         /\ pinned'[f] = Read(f)
         /\ \A g \in Files : pinned[g] # Absent => pinned'[g] = pinned[g]
  BY ReadType DEF Typed, Pin, Read

(* A judgement that ends with something else than a PASS. *)
LEMMA ReturnInv ==
  ASSUME BlankInv, NEW status \in {"none", "FAIL", "SKIPPED"},
         NEW why \in Reasons, Return(status, why),
         job.at # "idle",
         UNCHANGED blank, disk' \in [Files -> Slot],
         pinned' \in [Files -> Slot], pinJson' \in Blanks \cup {Absent}
  PROVE  BlankInv'
<1>1. /\ job' \in JobRecord /\ job'.at = "idle" /\ job'.status = status
      /\ job'.entry = job.entry /\ job'.lock = job.lock /\ job'.code = job.code
  BY DEF Return, BlankInv, Typed, JobRecord, Stages
<1> QED
  BY <1>1 DEF BlankInv, Typed, GateInv, StageInv, ClaimInv, ClaimsHold

LEMMA FreshParts ==
  ASSUME Typed, job.runs < MaxRuns
  PROVE  /\ NoArtifact \in [body : LiveCanons \cup {Absent}, source : Slot]
         /\ job.runs + 1 \in 0..MaxRuns
         /\ Absent \in Slot /\ job.ref \in Claims
  BY BlankAssumption DEF NoArtifact, Slot, Typed, JobRecord

LEMMA BeginInv ==
  ASSUME BlankInv,
         \/ \E l \in Locks : Admit(l) \/ \E a \in Artifacts : JudgeArtifact(l, a)
  PROVE  BlankInv'
<1>2. ASSUME NEW l \in Locks, Admit(l)
      PROVE  BlankInv'
  <2>1. /\ job' \in JobRecord
        /\ job'.at \in {"idle", "gate"} /\ job'.entry = "admit"
        /\ job'.code = Absent /\ job'.status \in {"none", "SKIPPED"}
        /\ job'.at = "gate" => job'.status = "none"
        /\ job'.at = "gate" => job'.lock.source # Absent
    <3> DEFINE none == l.source = Absent
               at == IF none THEN "idle" ELSE "gate"
               status == IF none THEN "SKIPPED" ELSE "none"
               why == IF none THEN "source_not_pinned" ELSE "none"
    <3>1. job' = [job EXCEPT !.at = at, !.entry = "admit", !.lock = l,
                             !.ref = job.ref, !.code = Absent,
                             !.made = NoArtifact, !.runs = @ + 1,
                             !.status = status, !.why = why]
      BY <1>2 DEF Admit, BlankInv, Typed, JobRecord
    <3>2. /\ at \in {"idle", "gate"} /\ status \in {"none", "SKIPPED"}
          /\ why \in Reasons
          /\ at = "gate" => status = "none" /\ l.source # Absent
      BY DEF Reasons
    <3>3. job.ref \in Claims /\ job.runs < MaxRuns /\ at \in Stages
      BY <1>2 DEF Admit, BlankInv, Typed, JobRecord, Stages
    <3> HIDE DEF at, status, why
    <3> QED
      BY <3>1, <3>2, <3>3, FreshParts DEF BlankInv, Typed, JobRecord
  <2> QED
    BY <1>2, <2>1
       DEF Admit, BlankInv, Typed, GateInv, StageInv, ClaimInv, ClaimsHold
<1>3. ASSUME NEW l \in Locks, NEW a \in Artifacts, JudgeArtifact(l, a)
      PROVE  BlankInv'
  <2>1. /\ job' \in JobRecord
        /\ job'.at = "match" /\ job'.entry = "library"
        /\ job'.code = Absent /\ job'.status = "none"
    <3>1. a \in Claims /\ "match" \in Stages /\ "none" \in Reasons
      BY BlankType DEF BlankInv, Stages, Reasons
    <3>2. job.runs < MaxRuns
      BY <1>3 DEF JudgeArtifact
    <3> QED
      BY <1>3, <3>1, <3>2, FreshParts
         DEF JudgeArtifact, BlankInv, Typed, JobRecord
  <2> QED
    BY <1>3, <2>1
       DEF JudgeArtifact, BlankInv, Typed, GateInv, StageInv, ClaimInv,
           ClaimsHold
<1> QED
  BY <1>2, <1>3

LEMMA GateSteps ==
  ASSUME BlankInv, GateBlank \/ GateTarget \/ GateCompare
  PROVE  BlankInv'
<1> USE DEF BlankInv
<1>1. CASE GateBlank
  <2>1. /\ job' \in JobRecord
        /\ job.at = "gate" /\ job'.at = "target" /\ job'.code = job.code
        /\ job'.entry = job.entry /\ job'.status = job.status
        /\ job'.lock = job.lock
    BY <1>1 DEF GateBlank, Go, Typed, JobRecord, Stages
  <2>2. pinJson' \in Blanks /\ pinJson' # Absent
    BY <1>1, BlankType, BlankAssumption DEF GateBlank
  <2> QED
    BY <1>1, <2>1, <2>2
       DEF GateBlank, Typed, GateInv, StageInv, ClaimInv, ClaimsHold
<1>2. CASE GateTarget
  <2> DEFINE f == ReadBlank.file
  <2>1. f \in Files /\ job.at = "target"
    BY <1>2, BlankType DEF GateTarget, Claims
  <2>2. CASE disk[f] = Absent
    BY <1>2, <2>1, <2>2, ReturnInv DEF GateTarget, Typed, Reasons
  <2>3. CASE disk[f] # Absent
    <3>1. Read(f) # Absent
      BY <2>1, <2>3 DEF Read
    <3>2. Pin(f, Read(f))
      BY <1>2, <2>3 DEF GateTarget
    <3>3. /\ pinned' \in [Files -> Slot] /\ pinned'[f] = Read(f)
      BY <2>1, <3>1, <3>2, PinStays
    <3>4. job' = [job EXCEPT !.at = "compare", !.ref.file = f]
      BY <1>2, <2>3 DEF GateTarget, Go
    <3> HIDE DEF f
    <3>5. /\ job' \in JobRecord
          /\ job'.at = "compare" /\ job'.code = job.code
          /\ job'.entry = job.entry /\ job'.status = job.status
          /\ job'.ref.file = f /\ job'.lock = job.lock
      BY <2>1, <3>4 DEF Typed, JobRecord, Stages, Claims
    <3>6. job.entry = "admit" => pinJson # Absent /\ pinJson.file = f
      BY <2>1, BlankType DEF GateInv, f
    <3> QED
      BY <1>2, <2>1, <3>1, <3>3, <3>5, <3>6
         DEF GateTarget, Typed, GateInv, StageInv, ClaimInv, ClaimsHold
  <2> QED
    BY <2>2, <2>3
<1>3. CASE GateCompare
  <2>1. CASE Read(job.ref.file) # job.lock.source
    BY <1>3, <2>1, ReturnInv DEF GateCompare, Typed, Reasons
  <2>2. CASE Read(job.ref.file) = job.lock.source
    <3>1. /\ job' \in JobRecord
          /\ job.at = "compare" /\ job'.at = "load" /\ job'.code = job.code
          /\ job'.entry = job.entry /\ job'.status = job.status
          /\ job'.ref = job.ref /\ job'.lock = job.lock
      BY <1>3, <2>2 DEF GateCompare, Go, Typed, JobRecord, Stages
    <3>2. job.entry = "admit" => pinned[job.ref.file] = job.lock.source
      BY <2>2, <3>1 DEF GateInv, Read
    <3> QED
      BY <1>3, <3>1, <3>2
         DEF GateCompare, Typed, GateInv, StageInv, ClaimInv, ClaimsHold
  <2> QED
    BY <2>1, <2>2
<1> QED
  BY <1>1, <1>2, <1>3

LEMMA LoadSteps ==
  ASSUME BlankInv, LoadBlank \/ Unresolved
  PROVE  BlankInv'
<1> USE DEF BlankInv
<1>1. CASE Unresolved
  BY <1>1, ReturnInv DEF Unresolved, Typed, Reasons
<1>2. CASE LoadBlank
  <2> DEFINE b == ReadBlank
             src == Read(b.file)
             ref == [file |-> b.file, body |-> b.body,
                     source |-> IF b.source = Absent THEN src ELSE b.source]
  <2>1. b \in Claims /\ b.file \in Files /\ job.at = "load"
    BY <1>2, BlankType DEF LoadBlank, Claims
  <2>2. CASE disk[b.file] = Absent \/ b.source \notin {Absent, src}
    BY <1>2, <2>1, <2>2, ReturnInv DEF LoadBlank, Raise, Typed, Reasons
  <2>3. CASE ~(disk[b.file] = Absent \/ b.source \notin {Absent, src})
    <3>1. src # Absent /\ src \in Slot
      BY <2>1, <2>3, ReadType DEF Read
    <3>2. Pin(b.file, Read(b.file))
      BY <1>2, <2>3 DEF LoadBlank
    <3>3. /\ pinned' \in [Files -> Slot] /\ pinned'[b.file] = src
      BY <2>1, <3>1, <3>2, PinStays
    <3>4. job' = [job EXCEPT !.at = "match", !.ref = ref]
      BY <1>2, <2>3 DEF LoadBlank, Go
    <3>5. ref \in Claims /\ ref.file = b.file
      BY <2>1, <3>1 DEF Claims
    <3>6. job.entry = "admit" => src = job.lock.source
      BY <2>1, <3>1, BlankType DEF GateInv, Read
    <3> HIDE DEF ref, src, b
    <3>7. /\ job' \in JobRecord
          /\ job'.at = "match" /\ job'.code = job.code
          /\ job'.entry = job.entry /\ job'.status = job.status
          /\ job'.ref = ref /\ job'.lock = job.lock
      BY <3>4, <3>5 DEF Typed, JobRecord, Stages
    <3> QED
      BY <1>2, <2>1, <3>3, <3>5, <3>6, <3>7
         DEF LoadBlank, Typed, GateInv, StageInv, ClaimInv, ClaimsHold
  <2> QED
    BY <2>2, <2>3
<1> QED
  BY <1>1, <1>2

(* The failed steps of the loader. *)
LEMMA RefuseInv ==
  ASSUME BlankInv, NEW why \in Reasons, Refuse(why), job.at # "idle",
         UNCHANGED <<blank, disk, pinned, pinJson>>
  PROVE  BlankInv'
<1>1. Typed
  BY DEF BlankInv
<1> QED
  BY <1>1, ReturnInv DEF Refuse, Raise, Typed, Reasons

LEMMA MatchStep ==
  ASSUME BlankInv, LoadMatch
  PROVE  BlankInv'
<1> USE DEF BlankInv
<1> DEFINE f == job.ref.file
           src == Read(f)
<1>1. f \in Files /\ job.at = "match" /\ src # Absent
  BY DEF LoadMatch, Typed, JobRecord, Claims
<1>2. CASE ~BytesMatch(src)
  BY <1>1, <1>2, RefuseInv DEF LoadMatch, Reasons
<1>3. CASE BytesMatch(src)
  <2>1. Pin(f, Read(f))
    BY <1>3 DEF LoadMatch
  <2>2. /\ pinned' \in [Files -> Slot] /\ pinned'[f] = src
        /\ pinned[f] # Absent => src = pinned[f]
    BY <1>1, <2>1, PinStays, ReadType
  <2>3. /\ job' \in JobRecord
        /\ job'.at = "exec" /\ job'.code = job.code
        /\ job'.entry = job.entry /\ job'.status = job.status
        /\ job'.ref = job.ref /\ job'.lock = job.lock
    BY <1>3 DEF LoadMatch, Go, Typed, JobRecord, Stages
  <2>4. job.entry = "admit" => src = job.lock.source
    <3>1. job.entry = "admit" => pinned[f] = job.lock.source
      BY <1>1 DEF GateInv
    <3>2. job.entry = "admit" => job.lock.source # Absent
      BY <1>1 DEF GateInv
    <3> QED
      BY <2>2, <3>1, <3>2
  <2>5. job.ref.body \in {Absent, Preview(src)}
    BY <1>3 DEF BytesMatch
  <2> QED
    BY <1>1, <2>2, <2>3, <2>4, <2>5
       DEF LoadMatch, Typed, GateInv, StageInv, ClaimInv, ClaimsHold
<1> QED
  BY <1>2, <1>3

LEMMA ExecSteps ==
  ASSUME BlankInv, LoadExec \/ LoadCanon
  PROVE  BlankInv'
<1> USE DEF BlankInv
<1> DEFINE f == job.ref.file
<1>1. f \in Files
  BY DEF Typed, JobRecord, Claims
<1>2. CASE LoadExec
  <2> DEFINE src == Read(f)
  <2>1. job.at = "exec" /\ src = pinned[f] /\ src \in Slot /\ src # Absent
    BY <1>1, <1>2, ReadType DEF LoadExec, ClaimInv
  <2>2. CASE src.made = Absent
    BY <1>2, <2>1, <2>2, RefuseInv DEF LoadExec, Reasons
  <2>3. CASE src.made # Absent
    <3>1. job' = [job EXCEPT !.at = "canon", !.code = src]
      BY <1>2, <2>3 DEF LoadExec, Go
    <3> HIDE DEF src
    <3>2. /\ job' \in JobRecord
          /\ job'.at = "canon" /\ job'.code = src
          /\ job'.entry = job.entry /\ job'.status = job.status
          /\ job'.ref = job.ref /\ job'.lock = job.lock
      BY <2>1, <3>1 DEF Typed, JobRecord, Stages
    <3> QED
      BY <1>2, <2>1, <2>3, <3>2
         DEF LoadExec, Typed, GateInv, StageInv, ClaimInv, ClaimsHold
  <2> QED
    BY <2>2, <2>3
<1>3. CASE LoadCanon
  <2>1. /\ job.at = "canon" /\ job.code = pinned[f] /\ job.code.made # Absent
        /\ pinned[f] # Absent /\ Read(f) = job.code
        /\ job.ref.body \in {Absent, Preview(job.code)}
    BY <1>1, <1>3, ReadType DEF LoadCanon, ClaimInv
  <2>2. PICK live \in LiveCanon(f) :
          IF job.ref.body \notin {Absent, live}
            THEN Refuse("artifact_body")
            ELSE Go([job EXCEPT !.at = "bind",
                       !.made = [body |-> live, source |-> Read(f)]])
    BY <1>3 DEF LoadCanon
  <2>3. CASE job.ref.body \notin {Absent, live}
    BY <1>3, <2>1, <2>2, <2>3, RefuseInv DEF LoadCanon, Reasons
  <2>4. CASE job.ref.body \in {Absent, live}
    <3> DEFINE made == [body |-> live, source |-> Read(f)]
    <3>1. job' = [job EXCEPT !.at = "bind", !.made = made]
      BY <2>2, <2>4 DEF Go
    <3>2. live \in LiveCanons /\ live.binds = job.code.made.binds
      BY <1>1, <2>1, LiveType
    <3>3. /\ made \in [body : LiveCanons \cup {Absent}, source : Slot]
          /\ made.source = job.code
      BY <1>1, <2>1, <3>2, ReadType
    <3> HIDE DEF made
    <3>4. /\ job' \in JobRecord
          /\ job'.at = "bind" /\ job'.code = job.code /\ job'.made = made
          /\ job'.entry = job.entry /\ job'.status = job.status
          /\ job'.ref = job.ref /\ job'.lock = job.lock
      BY <3>1, <3>3 DEF Typed, JobRecord, Stages
    <3>5. job.ref.body # Absent => /\ Preview(job.code) = job.ref.body
                                  /\ job.code.made.binds = job.ref.body.binds
      BY <2>1, <2>4, <3>2
    <3> QED
      BY <1>3, <2>1, <3>3, <3>4, <3>5
         DEF LoadCanon, Typed, GateInv, StageInv, ClaimInv, ClaimsHold
  <2> QED
    BY <2>3, <2>4
<1> QED
  BY <1>2, <1>3

LEMMA BindStep ==
  ASSUME BlankInv, Bind
  PROVE  BlankInv'
<1> USE DEF BlankInv
<1>1. CASE \E status \in {"none", "FAIL"} :
             \E why \in Reasons : Return(status, why)
  BY <1>1, ReturnInv DEF Bind, Typed
<1>2. CASE Return("PASS", "conformance")
  <2>1. /\ job' \in JobRecord /\ job.at = "bind" /\ job'.at = "idle"
        /\ job'.code = job.code /\ job'.made = job.made
        /\ job'.entry = job.entry /\ job'.ref = job.ref
        /\ job'.lock = job.lock
    BY <1>2 DEF Bind, Return, Typed, JobRecord, Stages, Reasons
  <2> QED
    BY <2>1 DEF Bind, Typed, GateInv, StageInv, ClaimInv, ClaimsHold
<1> QED
  BY <1>1, <1>2 DEF Bind, Reasons

(* A save has no part in the judgement but for its count. *)
LEMMA SaveStep ==
  ASSUME BlankInv, Environment
  PROVE  BlankInv'
<1>1. Edited /\ UNCHANGED <<pinned, pinJson>>
  BY DEF Environment, Save, SaveBlank
<1>2. /\ job' \in JobRecord
      /\ job'.at = job.at /\ job'.code = job.code /\ job'.made = job.made
      /\ job'.entry = job.entry /\ job'.ref = job.ref
      /\ job'.lock = job.lock /\ job'.status = job.status
  <2>1. job.edits + 1 \in 0..MaxEdits
    BY <1>1, BlankAssumption DEF Edited, BlankInv, Typed, JobRecord
  <2> QED
    BY <1>1, <2>1 DEF Edited, BlankInv, Typed, JobRecord
<1>3. blank' \in Blanks /\ disk' \in [Files -> Slot]
  BY DEF Environment, Save, SaveBlank, BlankInv, Typed
<1> QED
  BY <1>1, <1>2, <1>3
     DEF BlankInv, Typed, GateInv, StageInv, ClaimInv, ClaimsHold

LEMMA BlankStep == BlankInv /\ [Next]_vars => BlankInv'
<1>1. BlankInv /\ UNCHANGED vars => BlankInv'
  BY DEF vars, BlankInv, Typed, GateInv, StageInv, ClaimInv, ClaimsHold
<1>2. BlankInv /\ Judge => BlankInv'
  BY BeginInv, GateSteps, LoadSteps, MatchStep, ExecSteps, BindStep DEF Judge
<1> QED
  BY <1>1, <1>2, SaveStep DEF Next

LEMMA BlankInvariant == Spec => []BlankInv
  BY InitInv, BlankStep, PTL DEF Spec

(* The type theorem for blanks and artifacts. *)
THEOREM BlankTypeTheorem == Spec => []TypeOK
<1>1. BlankInv => TypeOK
  BY DEF BlankInv, Typed, TypeOK, JobRecord
<1> QED
  BY <1>1, BlankInvariant, PTL

(* The blank theorem: whatever is saved between the gate's reads and the   *)
(* loader's, in the JSON file or in any file it may name, the CLI executes *)
(* the locked bytes.                                                       *)
THEOREM BlankTheorem == Spec => []BlankBytesApproved
<1>1. BlankInv => BlankBytesApproved
  BY DEF BlankInv, GateInv, BlankBytesApproved
<1> QED
  BY <1>1, BlankInvariant, PTL

(* The claims theorem: the source hash claimed is that of the bytes        *)
(* executed, and a claimed body hash has their first definition's text and *)
(* the defaults and closure of the function called, for blanks and for     *)
(* artifacts, whatever is saved meanwhile.                                 *)
THEOREM ClaimsTheorem == Spec => []ClaimsHold
<1>1. BlankInv => ClaimsHold
  BY DEF BlankInv, ClaimInv
<1> QED
  BY <1>1, BlankInvariant, PTL

-----------------------------------------------------------------------------
(* Nothing saved, nothing refused. *)

Named == IF job.entry = "admit" THEN blank ELSE job.ref

(* Lock, claims and file agree. *)
Whole ==
  LET c == disk[Named.file]
  IN  /\ job.entry # "none"
      /\ c.made # Absent /\ job.lock = [source |-> c, body |-> c.made]
      /\ Named.body \in {Absent, c.made}
      /\ Named.source \in {c} \cup IF job.entry = "admit" THEN {Absent} ELSE {}

(* And the body hash, if one is claimed, can be read from the text. *)
Readable == Named.body \in {Absent, Preview(disk[Named.file])}

(* While nothing is saved every pin is what it pins, and each stage has    *)
(* before it the file, the claims and the lock of the beginning.           *)
QuietInv ==
  job.edits = 0 =>
    /\ disk \in [Files -> Contents]
    /\ \A f \in Files : pinned[f] \in {Absent, disk[f]}
    /\ pinJson \in {Absent, blank}
    /\ Whole =>
         /\ job.at = "idle" => (job.why = "conformance" <=> Readable)
         /\ job.at \in {"compare", "load", "match", "exec", "canon", "bind"} =>
              job.ref.file = Named.file
         /\ job.at \in {"match", "exec", "canon", "bind"} =>
              /\ job.ref.body = Named.body
              /\ job.ref.source = disk[Named.file]
         /\ job.at \in {"exec", "canon", "bind"} => Readable

LEMMA QuietInit == Init => QuietInv
  BY DEF Init, QuietInv, Whole

(* While nothing is saved a read is of the file, whoever pinned it. *)
LEMMA QuietReads ==
  ASSUME BlankInv, QuietInv, job.edits = 0
  PROVE  /\ ReadBlank = blank /\ blank \in Claims
         /\ Named \in Claims
         /\ \A f \in Files : /\ Read(f) = disk[f] /\ disk[f] \in Contents
                             /\ disk[f] # Absent
<1>1. blank \in Blanks /\ blank \in Claims /\ job.ref \in Claims
  BY BlankAssumption DEF BlankInv, Typed, JobRecord
<1>2. \A f \in Files : disk[f] \in Contents /\ disk[f] # Absent
  BY BlankAssumption DEF QuietInv
<1> QED
  BY <1>1, <1>2 DEF QuietInv, ReadBlank, Named, Read

(* Judging saves nothing. *)
LEMMA JudgeSavesNothing ==
  ASSUME BlankInv, Judge
  PROVE  UNCHANGED <<blank, disk>> /\ job'.edits = job.edits
<1> USE DEF BlankInv, Typed, JobRecord
<1>1. ASSUME NEW l \in Locks,
             Admit(l) \/ \E a \in Artifacts : JudgeArtifact(l, a)
      PROVE  UNCHANGED <<blank, disk>> /\ job'.edits = job.edits
  BY <1>1 DEF Admit, JudgeArtifact
<1>2. CASE GateBlank \/ GateTarget \/ GateCompare \/ LoadBlank
  BY <1>2 DEF GateBlank, GateTarget, GateCompare, LoadBlank, Go, Return, Raise
<1>3. CASE Unresolved \/ LoadMatch \/ LoadExec \/ LoadCanon \/ Bind
  BY <1>3 DEF Unresolved, LoadMatch, LoadExec, LoadCanon, Bind, Go, Return,
              Refuse, Raise
<1> QED
  BY <1>1, <1>2, <1>3 DEF Judge

(* ... and pins what it has read. *)
LEMMA QuietPins ==
  ASSUME BlankInv, QuietInv, job.edits = 0, Judge
  PROVE  /\ \A f \in Files : pinned'[f] \in {Absent, disk[f]}
         /\ pinJson' \in {Absent, blank}
<1>1. ASSUME NEW f \in Files, Pin(f, Read(f))
      PROVE  \A g \in Files : pinned'[g] \in {Absent, disk[g]}
  BY <1>1, QuietReads DEF Pin, QuietInv, BlankInv, Typed
<1>2. CASE GateTarget
  BY <1>1, <1>2, QuietReads DEF GateTarget, QuietInv, Claims
<1>3. CASE LoadBlank
  BY <1>1, <1>3, QuietReads DEF LoadBlank, QuietInv, Claims
<1>4. CASE LoadMatch
  BY <1>1, <1>4 DEF LoadMatch, QuietInv, BlankInv, Typed, JobRecord, Claims
<1>5. CASE GateBlank
  BY <1>5, QuietReads DEF GateBlank, QuietInv
<1>6. CASE UNCHANGED <<pinned, pinJson>>
  BY <1>6 DEF QuietInv
<1> QED
  BY <1>2, <1>3, <1>4, <1>5, <1>6
     DEF Judge, Admit, JudgeArtifact, GateCompare, Unresolved, LoadExec,
         LoadCanon, Bind

(* What QuietInv says of the judgement under way. *)
InOrder ==
  Whole =>
    /\ job.at = "idle" => (job.why = "conformance" <=> Readable)
    /\ job.at \in {"compare", "load", "match", "exec", "canon", "bind"} =>
         job.ref.file = Named.file
    /\ job.at \in {"match", "exec", "canon", "bind"} =>
         /\ job.ref.body = Named.body
         /\ job.ref.source = disk[Named.file]
    /\ job.at \in {"exec", "canon", "bind"} => Readable

(* Each step of a judgement with nothing to refuse goes on to the next. *)
LEMMA QuietOrder ==
  ASSUME BlankInv, QuietInv, job.edits = 0, Judge, Whole'
  PROVE  InOrder'
<1> USE DEF BlankInv, Typed, JobRecord, InOrder
<1>0. UNCHANGED <<blank, disk>>
  BY JudgeSavesNothing
<1>1. ASSUME NEW l \in Locks, Admit(l)
      PROVE  InOrder'
  <2>1. job'.entry = "admit" /\ job'.lock = l
    BY <1>1 DEF Admit
  <2>2. l.source = disk[blank.file]
    BY <1>0, <2>1 DEF Whole, Named
  <2>3. l.source # Absent
    BY <2>2, QuietReads DEF Claims
  <2>4. job'.at = "gate"
    BY <1>1, <2>3 DEF Admit
  <2> QED
    BY <2>4
<1>2. ASSUME NEW l \in Locks, NEW a \in Artifacts, JudgeArtifact(l, a)
      PROVE  InOrder'
  <2>1. job'.at = "match" /\ job'.entry = "library" /\ job'.ref = a
    BY <1>2 DEF JudgeArtifact
  <2>2. Named' = a
    BY <2>1 DEF Named
  <2> QED
    BY <2>1, <2>2 DEF Whole
<1>3. CASE GateBlank
  BY <1>3 DEF GateBlank, Go
<1> DEFINE c == disk[Named.file]
<1>4. ASSUME job'.entry = job.entry, job'.lock = job.lock,
             job.entry = "admit" \/ job'.ref = job.ref
      PROVE  /\ Named' = Named /\ Whole /\ Named.file \in Files
             /\ c \in Contents /\ c # Absent /\ c.made # Absent
             /\ job.lock.source = c /\ job.lock.body = c.made
             /\ Named.body \in {Absent, c.made}
             /\ Readable' = Readable
             /\ Named.source \in {c, Absent}
             /\ job.entry = "library" => job.ref.source = c
  <2>1. Named' = Named
    BY <1>0, <1>4 DEF Named
  <2>2. Whole
    BY <1>0, <1>4, <2>1 DEF Whole
  <2>3. Named.file \in Files
    BY QuietReads DEF Claims
  <2>4. Readable' = Readable
    BY <1>0, <2>1 DEF Readable, Preview
  <2> QED
    BY <2>1, <2>2, <2>3, <2>4, QuietReads DEF Whole, Named
<1>5. CASE GateTarget
  <2>1. /\ job.at = "target" /\ job.entry = "admit" /\ ReadBlank = blank
        /\ blank.file \in Files /\ disk[blank.file] # Absent
    BY <1>5, QuietReads DEF GateTarget, StageInv, Claims
  <2>2. job' = [job EXCEPT !.at = "compare", !.ref.file = blank.file]
    BY <1>5, <2>1 DEF GateTarget, Go
  <2>3. /\ job'.at = "compare" /\ job'.ref.file = blank.file
        /\ job'.entry = "admit"
    BY <2>1, <2>2 DEF Claims
  <2> QED
    BY <1>0, <2>3 DEF Named
<1>6. CASE GateCompare
  <2>1. job'.entry = job.entry /\ job'.lock = job.lock /\ job'.ref = job.ref
    BY <1>6 DEF GateCompare, Go, Return
  <2>2. job.ref.file = Named.file
    BY <1>4, <1>6, <2>1 DEF GateCompare, QuietInv
  <2>3. job'.at = "load"
    BY <1>4, <1>6, <2>1, <2>2, QuietReads DEF GateCompare, Go
  <2> QED
    BY <1>4, <2>1, <2>2, <2>3
<1>7. CASE LoadBlank
  <2>1. job.at = "load" /\ job.entry = "admit" /\ ReadBlank = blank
    BY <1>7, QuietReads DEF LoadBlank, StageInv
  <2>2. job'.entry = job.entry /\ job'.lock = job.lock
    BY <1>7 DEF LoadBlank, Go, Return, Raise
  <2>3. Named = blank /\ Read(blank.file) = c
    BY <1>4, <2>1, <2>2, QuietReads DEF Named
  <2>4. job' = [job EXCEPT !.at = "match",
                  !.ref = [file |-> blank.file, body |-> blank.body,
                           source |-> IF blank.source = Absent THEN c
                                      ELSE blank.source]]
    BY <1>4, <1>7, <2>1, <2>2, <2>3 DEF LoadBlank, Go
  <2>5. /\ job'.at = "match" /\ job'.ref.file = blank.file
        /\ job'.ref.body = blank.body /\ job'.ref.source = c
    BY <1>4, <2>1, <2>2, <2>3, <2>4
  <2> QED
    BY <1>0, <1>4, <2>1, <2>2, <2>3, <2>5
<1>8. ASSUME Unresolved \/ LoadMatch \/ LoadExec \/ LoadCanon \/ Bind
      PROVE  /\ job'.entry = job.entry /\ job'.lock = job.lock
             /\ job'.ref = job.ref
             /\ job.ref.file = Named.file /\ job.ref.body = Named.body
             /\ job.ref.source = c
             /\ Read(job.ref.file) = c
             /\ job.at \in {"canon", "bind"} => LiveCanon(job.ref.file) = {c.made}
  <2>1. job'.entry = job.entry /\ job'.lock = job.lock /\ job'.ref = job.ref
    BY <1>8 DEF Unresolved, LoadMatch, LoadExec, LoadCanon, Bind, Go, Return,
                Refuse, Raise
  <2>2. job.at \in {"match", "exec", "canon", "bind"}
    BY <1>8 DEF Unresolved, LoadMatch, LoadExec, LoadCanon, Bind
  <2>3. /\ job.ref.file = Named.file /\ job.ref.body = Named.body
        /\ job.ref.source = c
    BY <1>4, <2>1, <2>2 DEF QuietInv
  <2>4. job.at \in {"canon", "bind"} => LiveCanon(job.ref.file) = {c.made}
    <3> SUFFICES ASSUME job.at \in {"canon", "bind"}
                 PROVE  LiveCanon(job.ref.file) = {c.made}
      OBVIOUS
    <3>1. job.code = pinned[job.ref.file] /\ pinned[job.ref.file] # Absent
      BY DEF ClaimInv
    <3>2. job.code = c
      BY <1>4, <2>1, <2>3, <3>1 DEF QuietInv
    <3> QED
      BY <1>4, <2>1, <2>3, <3>2, LiveOfSame
  <2> QED
    BY <1>4, <2>1, <2>3, <2>4, QuietReads
<1>9. CASE Unresolved
  BY <1>4, <1>8, <1>9 DEF Unresolved
<1>10. CASE LoadMatch
  <2>1. BytesMatch(c) <=> Readable
    BY <1>4, <1>8, <1>10 DEF BytesMatch, Readable
  <2>2. CASE Readable
    <3>1. job'.at = "exec"
      BY <1>8, <1>10, <2>1, <2>2 DEF LoadMatch, Go
    <3> QED
      BY <1>0, <1>4, <1>8, <1>10, <2>2, <3>1
  <2>3. CASE ~Readable
    <3>1. job'.at = "idle" /\ job'.why # "conformance"
      BY <1>4, <1>8, <1>10, <2>1, <2>3 DEF LoadMatch, Refuse, Raise, Return
    <3> QED
      BY <1>4, <1>8, <1>10, <2>3, <3>1
  <2> QED
    BY <2>2, <2>3
<1>11. CASE LoadExec
  <2>1. job'.at = "canon" /\ Readable
    BY <1>4, <1>8, <1>11 DEF LoadExec, Go, QuietInv
  <2> QED
    BY <1>0, <1>4, <1>8, <1>11, <2>1
<1>12. CASE LoadCanon
  <2>1. LiveCanon(job.ref.file) = {c.made}
    BY <1>8, <1>12 DEF LoadCanon
  <2>2. job'.at = "bind" /\ Readable
    BY <1>4, <1>8, <1>12, <2>1 DEF LoadCanon, Go, QuietInv
  <2> QED
    BY <1>0, <1>4, <1>8, <1>12, <2>2
<1>13. CASE Bind
  <2>1. LiveCanon(job.ref.file) = {c.made} /\ Readable
    BY <1>4, <1>8, <1>13 DEF Bind, QuietInv
  <2>2. job'.at = "idle" /\ job'.why = "conformance"
    BY <1>4, <1>8, <1>13, <2>1 DEF Bind, Return
  <2> QED
    BY <1>4, <1>8, <1>13, <2>1, <2>2
<1> QED
  BY <1>1, <1>2, <1>3, <1>5, <1>6, <1>7, <1>9, <1>10, <1>11, <1>12, <1>13
     DEF Judge

LEMMA QuietStep == BlankInv /\ QuietInv /\ [Next]_vars => QuietInv'
<1> SUFFICES ASSUME BlankInv, QuietInv, [Next]_vars, job'.edits = 0
             PROVE  QuietInv'
  BY DEF QuietInv
<1>1. CASE Judge
  <2>1. job.edits = 0 /\ UNCHANGED <<blank, disk>>
    BY <1>1, JudgeSavesNothing
  <2>2. InOrder'
    BY <1>1, <2>1, QuietOrder DEF InOrder
  <2> QED
    BY <1>1, <2>1, <2>2, QuietPins DEF QuietInv, InOrder
<1>2. CASE Environment
  <2>1. job.edits \in Nat /\ job'.edits = job.edits + 1
    BY <1>2 DEF Environment, Save, SaveBlank, Edited, BlankInv, Typed, JobRecord
  <2> QED
    BY <2>1
<1>3. CASE UNCHANGED vars
  BY <1>3 DEF vars, QuietInv, Whole, Named, Readable
<1> QED
  BY <1>1, <1>2, <1>3 DEF Next

(* The quiet theorem: while nothing is saved, a blank or an artifact that  *)
(* is what its claims and its lock say is judged by its output, however    *)
(* many judgements have left their pins behind, unless it claims a body    *)
(* hash that the text of the file does not show.                           *)
THEOREM QuietTheorem == Spec => []NoFalseRefusal
<1>1. QuietInv => NoFalseRefusal
  BY DEF QuietInv, Whole, Named, Readable, NoFalseRefusal
<1>2. Spec => []QuietInv
  BY QuietInit, QuietStep, BlankInvariant, PTL DEF Spec
<1> QED
  BY <1>1, <1>2, PTL
=============================================================================
