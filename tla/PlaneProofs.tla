---------------------------- MODULE PlaneProofs -----------------------------
(***************************************************************************)
(* Proofs about FilePlane and Effects: the plane on files implements the   *)
(* plane in memory, and runs with their collectors leave it that way.      *)
(***************************************************************************)
EXTENDS Effects, SequenceTheorems, TLAPS

(* The three writes of store leave the two indexes apart between the       *)
(* second and the third only, and the blob has the value from the first on.*)
PlaneInv ==
  /\ PlaneTypeOK
  /\ op # Idle => open
  /\ op.at \in {"index", "save"} => blob[op.key] = op.value
  /\ sound => IF op.at = "save" THEN index = file.keys \cup {op.key}
              ELSE index = file.keys

LEMMA PlaneInvInit == ASSUME PlaneInit PROVE PlaneInv
  BY DEF PlaneInit, PlaneInv, PlaneTypeOK, Idle, File, NoFile, TornFile

(* The parts of the type that every case below needs. *)
LEMMA FileKeys == ASSUME PlaneTypeOK PROVE file.keys \in SUBSET Keys
  BY DEF PlaneTypeOK, File, NoFile, TornFile

LEMMA PlaneInvNext ==
  ASSUME PlaneInv, [PlaneNext]_planeVars
  PROVE  PlaneInv'
<1> USE DEF PlaneInv
<1>f. file.keys \in SUBSET Keys
  BY FileKeys
<1>1. CASE UNCHANGED planeVars
  BY <1>1 DEF planeVars, PlaneTypeOK, Idle, File, NoFile, TornFile
<1>2. CASE Open
  BY <1>2, <1>f DEF Open, PlaneTypeOK, Idle, File, NoFile, TornFile
<1>3. CASE Close
  BY <1>3 DEF Close, PlaneTypeOK, Idle
<1>4. CASE IndexKey
  <2>1. PlaneTypeOK'
    BY <1>4 DEF IndexKey, PlaneTypeOK, Idle
  <2>2. op'.at = "save" /\ op'.key = op.key /\ op'.value = op.value
    BY <1>4 DEF IndexKey, PlaneTypeOK, Idle
  <2>3. QED
    BY <1>4, <2>1, <2>2 DEF IndexKey, Idle
<1>5. CASE SaveIndex
  <2>1. File(index) \in {File(S) : S \in SUBSET Keys} /\ File(index).keys = index
    BY DEF PlaneTypeOK, File
  <2>2. op'.at = "record" /\ op' \in [at : {"index", "save", "record"},
                                      key : Keys, value : Values]
    BY <1>5 DEF SaveIndex, PlaneTypeOK, Idle
  <2>3. PlaneTypeOK'
    BY <1>5, <2>1, <2>2 DEF SaveIndex, PlaneTypeOK
  <2>4. QED
    BY <1>5, <2>1, <2>2, <2>3 DEF SaveIndex, Idle
<1>6. CASE Recorded
  BY <1>6 DEF Recorded, PlaneTypeOK, Idle
<1>7. CASE WriteFails
  <2>1. blob' \in [Keys -> Values \cup {Absent, Torn}]
    BY <1>7 DEF WriteFails, PlaneTypeOK
  <2>2. file' \in {NoFile, TornFile} \cup {File(S) : S \in SUBSET Keys}
    BY <1>7 DEF WriteFails, PlaneTypeOK
  <2>3. QED
    BY <1>7, <2>1, <2>2 DEF WriteFails, PlaneTypeOK, Idle
<1>8. CASE Dies
  <2>1. file' \in {NoFile, TornFile} \cup {File(S) : S \in SUBSET Keys}
    BY <1>8 DEF Dies, PlaneTypeOK
  <2>2. QED
    BY <1>8, <2>1 DEF Dies, PlaneTypeOK, Idle
<1>9. ASSUME NEW k \in Keys, Load(k)
      PROVE  PlaneInv'
  <2>1. answer' \in Keys \X (Values \cup {Absent, Torn})
    BY <1>9 DEF Load, PlaneTypeOK
  <2>2. QED
    BY <1>9, <2>1 DEF Load, PlaneTypeOK, Idle
<1>10. ASSUME NEW k \in Keys, NEW v \in Values, WriteBlob(k, v)
       PROVE  PlaneInv'
  <2>1. blob' \in [Keys -> Values \cup {Absent, Torn}] /\ blob'[k] = v
    BY <1>10 DEF WriteBlob, PlaneTypeOK
  <2>2. op' \in [at : {"index", "save", "record"}, key : Keys, value : Values]
        /\ op'.at = "index" /\ op'.key = k /\ op'.value = v
    BY <1>10 DEF WriteBlob
  <2>3. PlaneTypeOK'
    BY <1>10, <2>1, <2>2 DEF WriteBlob, PlaneTypeOK
  <2>4. sound => index = file.keys
    BY <1>10 DEF WriteBlob, Idle
  <2>5. QED
    BY <1>10, <2>1, <2>2, <2>3, <2>4 DEF WriteBlob
<1>11. QED
  BY <1>1, <1>2, <1>3, <1>4, <1>5, <1>6, <1>7, <1>8, <1>9, <1>10 DEF PlaneNext

(* The contents as load sees them are a function of the right type. *)
LEMMA ContentType ==
  ASSUME PlaneInit
  PROVE  Content \in [Keys -> Values \cup {Absent}]
  BY DEF PlaneInit, Content

LEMMA StepIsPromised ==
  ASSUME PlaneInv, [PlaneNext]_planeVars
  PROVE  [Promise!Next]_(Promise!vars)
<1> USE DEF PlaneInv, Promise!vars
<1>0. CASE ~sound'
  BY <1>0 DEF Promise!Next
<1>1. CASE UNCHANGED planeVars
  BY <1>1 DEF planeVars, Content, Known
<1> SUFFICES ASSUME PlaneNext, sound'
             PROVE  [Promise!Next]_(Promise!vars)
  BY <1>0, <1>1
<1>s. sound
  BY DEF PlaneNext, Open, Close, IndexKey, SaveIndex, Recorded, WriteFails,
         Dies, Load, WriteBlob
<1>2. CASE Open
  <2>1. Known' = Known
    BY <1>2 DEF Open, Known
  <2>2. QED
    BY <1>2, <2>1 DEF Open, Content
<1>3. CASE Close
  <2>1. Known' = Known
    BY <1>3, <1>s DEF Close, Known, Idle
  <2>2. QED
    BY <1>3, <2>1 DEF Close, Content
<1>4. CASE IndexKey
  <2>1. open /\ op.key \in Keys /\ op.value \in Values
    BY <1>4 DEF IndexKey, PlaneTypeOK, Idle
  <2>2. Content' = [Content EXCEPT ![op.key] = op.value]
    BY <1>4, <2>1 DEF IndexKey, Content, Known
  <2>3. QED
    BY <1>4, <1>s, <2>1, <2>2 DEF IndexKey, Promise!Next, Promise!Store
<1>5. CASE SaveIndex
  <2>1. open
    BY <1>5 DEF SaveIndex, Idle
  <2>2. QED
    BY <1>5, <2>1 DEF SaveIndex, Content, Known
<1>6. CASE Recorded
  BY <1>6 DEF Recorded, Content, Known
<1>7. CASE WriteFails
  BY <1>7 DEF WriteFails
<1>8. CASE Dies
  BY <1>8 DEF Dies
<1>9. ASSUME NEW k \in Keys, Load(k)
      PROVE  [Promise!Next]_(Promise!vars)
  <2>1. answer' = <<k, Content[k]>> /\ Content' = Content
    BY <1>9 DEF Load, Content, Known
  <2>2. QED
    BY <1>s, <2>1 DEF Promise!Next, Promise!Load
<1>10. ASSUME NEW k \in Keys, NEW v \in Values, WriteBlob(k, v)
       PROVE  [Promise!Next]_(Promise!vars)
  <2>1. CASE k \in index
    <3>1. Content' = [Content EXCEPT ![k] = v]
      BY <1>10, <2>1 DEF WriteBlob, Content, Known, PlaneTypeOK
    <3>2. QED
      BY <1>10, <1>s, <3>1 DEF WriteBlob, Promise!Next, Promise!Store
  <2>2. CASE k \notin index
    <3>1. Content' = Content
      BY <1>10, <2>2 DEF WriteBlob, Content, Known, PlaneTypeOK
    <3>2. QED
      BY <1>10, <3>1 DEF WriteBlob
  <2>3. QED
    BY <2>1, <2>2
<1>11. QED
  BY <1>2, <1>3, <1>4, <1>5, <1>6, <1>7, <1>8, <1>9, <1>10 DEF PlaneNext

LEMMA InitIsPromised == ASSUME PlaneInit PROVE Promise!Init
  BY ContentType DEF PlaneInit, Promise!Init

(* The plane on files implements the plane in memory: for every set of     *)
(* keys and values, each store takes effect at once, load answers the last *)
(* bytes stored and reopening the directory loses nothing, until a write   *)
(* is cut short (FileSystemDataPlane).                                     *)
THEOREM FilePlaneTheorem == PlaneSpec => IsDataPlane
<1>1. PlaneInit => PlaneInv
  BY PlaneInvInit
<1>2. PlaneInv /\ [PlaneNext]_planeVars => PlaneInv'
  BY PlaneInvNext
<1>3. PlaneInit => Promise!Init
  BY InitIsPromised
<1>4. PlaneInv /\ [PlaneNext]_planeVars => [Promise!Next]_(Promise!vars)
  BY StepIsPromised
<1>5. QED
  BY <1>1, <1>2, <1>3, <1>4, PTL DEF PlaneSpec, IsDataPlane, Promise!Spec

LEMMA PlaneSteps == [Next]_vars => [PlaneNext]_planeVars
<1>1. ASSUME Next PROVE [PlaneNext]_planeVars
  BY <1>1 DEF Next, BeginRun, StartTask, StoreBegins, StoreGoesOn,
    RecordEffect, StoreFails, LoadKey, BodyReturns, BodyRaises, EndRun, Kill,
    Restart, PlaneNext
<1>2. ASSUME UNCHANGED vars PROVE UNCHANGED planeVars
  BY <1>2 DEF vars
<1> QED
  BY <1>1, <1>2

(* Runs that begin, end and start tasks, and stores of any task between    *)
(* them, take no step on the plane that it does not take by itself: what   *)
(* the bodies see is a data plane (run_script, record_effect and           *)
(* FileSystemDataPlane together).                                          *)
THEOREM EffectsTheorem == Spec => IsDataPlane
<1>1. Init => PlaneInit
  BY DEF Init
<1>3. Spec => PlaneSpec
  BY <1>1, PlaneSteps, PTL DEF Spec, PlaneSpec
<1>4. QED
  BY <1>3, FilePlaneTheorem
-----------------------------------------------------------------------------
(* The collectors *)

RunTypes ==
  /\ runs \in Seq(Run) /\ Len(runs) <= MaxRuns
  /\ current \in [Tasks -> 0..Len(runs)]
  /\ stack \in [Tasks -> Seq(1..Len(runs))]
  /\ started \subseteq Tasks
  /\ who \in Tasks

(* The context variable of a task names the innermost run it is inside of, *)
(* and the token of each run the one around it, in every copy.             *)
ContextInv ==
  \A t \in Tasks :
    /\ current[t] = Inner(t)
    /\ \A j \in 1..Len(stack[t]) :
         runs[stack[t][j]].token = IF j = 1 THEN 0 ELSE stack[t][j - 1]

OwnInv == \A c \in 1..Len(runs) : runs[c].effects = runs[c].stored

RunInv == RunTypes /\ ContextInv /\ OwnInv

LEMMA FreshRuns == ASSUME Fresh PROVE RunInv
<1>1. runs = <<>> /\ Len(runs) = 0 /\ runs \in Seq(Run)
  BY DEF Fresh
<1>2. <<>> \in Seq(1..Len(runs)) /\ MaxRuns \in Nat /\ Main \in Tasks
  BY EffectsAssumption
<1>3. \A t \in Tasks : stack[t] = <<>> /\ current[t] = 0
  BY DEF Fresh
<1>4. RunTypes
  BY <1>1, <1>2 DEF Fresh, RunTypes
<1>5. ContextInv /\ OwnInv
  BY <1>1, <1>3 DEF ContextInv, OwnInv, Inner
<1> QED
  BY <1>4, <1>5 DEF RunInv

LEMMA StackFacts ==
  ASSUME RunTypes, NEW t \in Tasks
  PROVE  /\ Len(stack[t]) \in Nat /\ stack[t] \in Seq(1..Len(runs))
         /\ Len(runs) \in Nat
         /\ \A j \in 1..Len(stack[t]) : stack[t][j] \in 1..Len(runs)
         /\ \A c \in 1..Len(runs) : runs[c] \in Run
         /\ Inner(t) \in 0..Len(runs)
         /\ Inner(t) # 0 => /\ Len(stack[t]) >= 1
                            /\ Inner(t) = stack[t][Len(stack[t])]
<1>1. /\ stack[t] \in Seq(1..Len(runs)) /\ runs \in Seq(Run)
  BY DEF RunTypes
<1>2. Len(stack[t]) \in Nat /\ Len(runs) \in Nat
  BY <1>1
<1>3. \A j \in 1..Len(stack[t]) : stack[t][j] \in 1..Len(runs)
  BY <1>1, ElementOfSeq
<1>4. \A c \in 1..Len(runs) : runs[c] \in Run
  BY <1>1, ElementOfSeq
<1>5. stack[t] # <<>> => Len(stack[t]) >= 1
  BY <1>1, EmptySeq
<1> QED
  BY <1>1, <1>2, <1>3, <1>4, <1>5 DEF Inner

LEMMA Empty ==
  ASSUME NEW S, NEW s \in Seq(S)
  PROVE  s = <<>> <=> Len(s) = 0
  BY EmptySeq

LEMMA BeginInv ==
  ASSUME RunInv, NEW t \in Tasks, NEW kind \in Kinds, BeginRun(t, kind)
  PROVE  RunInv'
<1> DEFINE c == Len(runs) + 1
           run == [kind |-> kind, task |-> t, token |-> current[t],
                   effects |-> {}, stored |-> {}, status |-> "running"]
<1>1. /\ runs \in Seq(Run) /\ Len(runs) \in Nat /\ RunTypes /\ MaxRuns \in Nat
      /\ c <= MaxRuns /\ current[t] \in 0..MaxRuns
  BY EffectsAssumption DEF RunInv, RunTypes, BeginRun
<1>2. run \in Run
  BY <1>1 DEF Run, Statuses
<1>3. /\ runs' = Append(runs, run) /\ runs' \in Seq(Run) /\ Len(runs') = c
      /\ \A d \in 1..Len(runs) : runs'[d] = runs[d]
      /\ runs'[c] = run
  BY <1>1, <1>2, AppendProperties DEF BeginRun
<1>4. /\ current' = [current EXCEPT ![t] = c]
      /\ stack' = [stack EXCEPT ![t] = Append(@, c)]
      /\ UNCHANGED <<started, who>>
  BY DEF BeginRun, EnterCollector
<1>5. \A u \in Tasks : stack[u] \in Seq(1..c)
  <2> TAKE u \in Tasks
  <2>1. stack[u] \in Seq(1..Len(runs)) /\ 1..Len(runs) \subseteq 1..c
    BY <1>1 DEF RunTypes
  <2> QED
    BY <2>1, SeqMonotonic
<1>6. /\ Append(stack[t], c) \in Seq(1..c) /\ Append(stack[t], c) # <<>>
      /\ Len(Append(stack[t], c)) = Len(stack[t]) + 1
      /\ \A j \in 1..Len(stack[t]) : Append(stack[t], c)[j] = stack[t][j]
      /\ Append(stack[t], c)[Len(stack[t]) + 1] = c
  BY <1>1, <1>5, AppendProperties
<1>7. stack'[t] = Append(stack[t], c) /\ current'[t] = c
  BY <1>1, <1>4 DEF RunTypes
<1>8. \A u \in Tasks : u # t => stack'[u] = stack[u] /\ current'[u] = current[u]
  BY <1>1, <1>4 DEF RunTypes
<1>9. RunTypes'
  <2>1. stack' \in [Tasks -> Seq(1..c)]
    BY <1>1, <1>4, <1>5, <1>6 DEF RunTypes
  <2>2. current' \in [Tasks -> 0..c]
    BY <1>1, <1>4 DEF RunTypes
  <2> QED
    BY <1>1, <1>3, <1>4, <2>1, <2>2 DEF RunTypes
<1>10. ASSUME NEW u \in Tasks
       PROVE  /\ current'[u] = Inner(u)'
              /\ \A j \in 1..Len(stack'[u]) :
                   runs'[stack'[u][j]].token =
                     IF j = 1 THEN 0 ELSE stack'[u][j - 1]
  <2>1. /\ Len(stack[u]) \in Nat
        /\ \A j \in 1..Len(stack[u]) : stack[u][j] \in 1..Len(runs)
    BY <1>1, StackFacts
  <2>2. /\ current[u] = Inner(u)
        /\ \A j \in 1..Len(stack[u]) :
             runs[stack[u][j]].token = IF j = 1 THEN 0 ELSE stack[u][j - 1]
    BY DEF RunInv, ContextInv
  <2>3. CASE u # t
    BY <1>3, <1>8, <2>1, <2>2, <2>3 DEF Inner
  <2>4. CASE u = t
    <3>1. Inner(u)' = c
      <4>1. stack'[t] # <<>> /\ stack'[t][Len(stack'[t])] = c
        BY <1>6, <1>7
      <4> QED
        BY <2>4, <4>1 DEF Inner
    <3>2. ASSUME NEW j \in 1..Len(stack[t])
          PROVE  runs'[stack'[t][j]].token =
                   IF j = 1 THEN 0 ELSE stack'[t][j - 1]
      <4>1. /\ j \in Nat /\ j # 1 => j - 1 \in 1..Len(stack[t])
        BY <2>1, <2>4, <3>2
      <4> QED
        BY <1>3, <1>6, <1>7, <2>1, <2>2, <2>4, <3>2, <4>1
    <3>3. current[t] = IF Len(stack[t]) = 0 THEN 0 ELSE stack[t][Len(stack[t])]
      BY <1>1, <2>2, <2>4, StackFacts, EmptySeq DEF Inner
    <3>4. runs'[stack'[t][Len(stack[t]) + 1]].token =
            IF Len(stack[t]) + 1 = 1 THEN 0
            ELSE stack'[t][Len(stack[t]) + 1 - 1]
      <4>1. stack'[t][Len(stack[t]) + 1] = c /\ runs'[c].token = current[t]
        BY <1>3, <1>6, <1>7
      <4>2. Len(stack[t]) # 0 =>
              stack'[t][Len(stack[t]) + 1 - 1] = stack[t][Len(stack[t])]
        BY <1>6, <1>7, <2>1, <2>4
      <4> QED
        BY <2>1, <2>4, <3>3, <4>1, <4>2
    <3>5. ASSUME NEW j \in 1..Len(stack'[t])
          PROVE  j \in 1..Len(stack[t]) \/ j = Len(stack[t]) + 1
      BY <1>6, <1>7, <2>1, <2>4, <3>5
    <3>6. \A j \in 1..Len(stack'[t]) :
            runs'[stack'[t][j]].token = IF j = 1 THEN 0 ELSE stack'[t][j - 1]
      <4> SUFFICES ASSUME NEW j \in 1..Len(stack'[t])
                   PROVE  runs'[stack'[t][j]].token =
                            IF j = 1 THEN 0 ELSE stack'[t][j - 1]
        OBVIOUS
      <4>1. CASE j \in 1..Len(stack[t])
        BY <3>2, <4>1
      <4>2. CASE j = Len(stack[t]) + 1
        BY <3>4, <4>2
      <4> QED
        BY <3>5, <4>1, <4>2
    <3> QED
      BY <1>7, <2>4, <3>1, <3>6
  <2> QED
    BY <2>3, <2>4
<1>11. OwnInv'
  <2> SUFFICES ASSUME NEW d \in 1..c PROVE runs'[d].effects = runs'[d].stored
    BY <1>3 DEF OwnInv
  <2>1. d \in 1..Len(runs) \/ d = c
    BY <1>1
  <2> QED
    BY <1>3, <2>1 DEF RunInv, OwnInv
<1> QED
  BY <1>9, <1>10, <1>11 DEF RunInv, ContextInv

LEMMA StartTaskInv ==
  ASSUME RunInv, NEW t \in Tasks, NEW u \in Tasks, StartTask(t, u)
  PROVE  RunInv'
<1>1. /\ current' = [current EXCEPT ![u] = current[t]]
      /\ stack' = [stack EXCEPT ![u] = stack[t]]
      /\ started' = started \cup {u} /\ UNCHANGED <<runs, who>> /\ RunTypes
  BY DEF StartTask, RunInv
<1>2. RunTypes'
  BY <1>1 DEF RunTypes
<1>3. \A w \in Tasks : \E v \in Tasks :
        stack'[w] = stack[v] /\ current'[w] = current[v]
  BY <1>1 DEF RunTypes
<1>4. ContextInv'
  BY <1>1, <1>3 DEF RunInv, ContextInv, Inner
<1>5. OwnInv'
  BY <1>1 DEF RunInv, OwnInv
<1> QED
  BY <1>2, <1>4, <1>5 DEF RunInv

(* One key for the collector and for the innermost run: they are one.      *)
LEMMA RecordInv ==
  ASSUME RunInv, PlaneTypeOK, RecordEffect
  PROVE  RunInv'
<1> DEFINE after(c) ==
      [runs[c] EXCEPT
         !.effects = IF c = current[who] THEN @ \cup {op.key} ELSE @,
         !.stored = IF c = Inner(who) THEN @ \cup {op.key} ELSE @]
<1>1. /\ RunTypes /\ ContextInv /\ who \in Tasks /\ op.key \in Keys
      /\ runs' = [c \in 1..Len(runs) |-> after(c)]
      /\ UNCHANGED <<current, stack, started, who>>
      /\ Len(runs) \in Nat
  <2>1. op.key \in Keys
    <3>1. op # Idle
      <4>1. op.at = "record"
        BY DEF RecordEffect, Recorded
      <4> QED
        BY <4>1 DEF Idle
    <3>2. op \in [at : {"index", "save", "record"}, key : Keys, value : Values]
      BY <3>1 DEF PlaneTypeOK
    <3> QED
      BY <3>2
  <2>2. RunTypes /\ ContextInv /\ who \in Tasks /\ Len(runs) \in Nat
    BY DEF RunInv, RunTypes
  <2>3. /\ runs' = [c \in 1..Len(runs) |-> after(c)]
        /\ UNCHANGED <<current, stack, started, who>>
    BY DEF RecordEffect
  <2> QED
    BY <2>1, <2>2, <2>3
<1>2. \A c \in 1..Len(runs) : runs[c] \in Run
  BY <1>1, StackFacts
<1>3. current[who] = Inner(who)
  BY <1>1 DEF ContextInv
<1>4. ASSUME NEW c \in 1..Len(runs)
      PROVE  /\ after(c) \in Run /\ after(c).token = runs[c].token
             /\ runs[c].effects = runs[c].stored =>
                  after(c).effects = after(c).stored
  BY <1>1, <1>2, <1>3 DEF Run
<1> HIDE DEF after
<1>5. runs' \in [1..Len(runs) -> Run]
  BY <1>1, <1>4
<1>6. runs' \in Seq(Run) /\ Len(runs') = Len(runs)
  BY <1>1, <1>5, SeqDef, LenProperties
<1>7. RunTypes'
  BY <1>1, <1>6 DEF RunTypes
<1>8. ContextInv'
  <2> SUFFICES ASSUME NEW t \in Tasks
               PROVE  /\ current[t] = Inner(t)
                      /\ \A j \in 1..Len(stack[t]) :
                           runs'[stack[t][j]].token =
                             IF j = 1 THEN 0 ELSE stack[t][j - 1]
    BY <1>1 DEF ContextInv, Inner
  <2>1. \A j \in 1..Len(stack[t]) : stack[t][j] \in 1..Len(runs)
    BY <1>1, StackFacts
  <2> QED
    BY <1>1, <1>4, <2>1 DEF ContextInv
<1>9. OwnInv'
  BY <1>1, <1>4, <1>6 DEF RunInv, OwnInv
<1> QED
  BY <1>7, <1>8, <1>9 DEF RunInv

LEMMA EndInv ==
  ASSUME RunInv, NEW t \in Tasks, NEW status \in Statuses, EndRun(t, status)
  PROVE  RunInv'
<1> DEFINE c == Inner(t)
           n == Len(stack[t])
           rest == SubSeq(stack[t], 1, n - 1)
<1>1. /\ RunTypes /\ ContextInv /\ Len(runs) \in Nat /\ n \in Nat /\ n >= 1
      /\ c \in 1..Len(runs) /\ c = stack[t][n]
      /\ stack[t] \in Seq(1..Len(runs)) /\ runs \in Seq(Run)
      /\ \A j \in 1..n : stack[t][j] \in 1..Len(runs)
      /\ \A d \in 1..Len(runs) : runs[d] \in Run
  BY StackFacts DEF EndRun, RunInv, RunTypes
<1>n. n # 1 => n - 1 \in 1..(n - 1) /\ n - 1 \in 1..n
  <2>1. \A m \in Nat : m >= 1 /\ m # 1 => m - 1 \in 1..(m - 1) /\ m - 1 \in 1..m
    OBVIOUS
  <2> QED
    BY <1>1, <2>1
<1>2. /\ runs' = [runs EXCEPT ![c].status = status]
      /\ current' = [current EXCEPT ![t] = runs[c].token]
      /\ stack' = [stack EXCEPT ![t] = rest]
      /\ UNCHANGED <<started, who>>
  BY <1>1 DEF EndRun, ExitCollector
<1>3. [runs[c] EXCEPT !.status = status] \in Run
  BY <1>1 DEF Run
<1>4. /\ runs' \in Seq(Run) /\ Len(runs') = Len(runs)
      /\ \A d \in 1..Len(runs) :
           /\ runs'[d].token = runs[d].token
           /\ runs'[d].effects = runs[d].effects
           /\ runs'[d].stored = runs[d].stored
  <2>1. runs' = [runs EXCEPT ![c] = [runs[c] EXCEPT !.status = status]]
    BY <1>1, <1>2
  <2>2. /\ runs' \in Seq(Run) /\ Len(runs') = Len(runs)
        /\ \A d \in 1..Len(runs) :
             runs'[d] = IF d = c THEN [runs[c] EXCEPT !.status = status]
                        ELSE runs[d]
    BY <1>1, <1>3, <2>1, ExceptSeq
  <2> QED
    BY <1>1, <2>2 DEF Run
<1>5. /\ rest \in Seq(1..Len(runs)) /\ Len(rest) = n - 1
      /\ \A j \in 1..(n - 1) : rest[j] = stack[t][j]
  <2>1. \A j \in 1..(n - 1) : stack[t][j] \in 1..Len(runs)
    BY <1>1
  <2>2. /\ rest \in Seq(1..Len(runs))
        /\ Len(rest) = IF 1 <= n - 1 THEN (n - 1) - 1 + 1 ELSE 0
        /\ \A j \in 1..((n - 1) - 1 + 1) : rest[j] = stack[t][1 + j - 1]
    BY <1>1, <2>1, SubSeqProperties
  <2> QED
    BY <1>1, <2>2
<1>6. \A u \in Tasks : u # t => stack'[u] = stack[u] /\ current'[u] = current[u]
  BY <1>1, <1>2 DEF RunTypes
<1>7. stack'[t] = rest /\ current'[t] = runs[c].token
  BY <1>1, <1>2 DEF RunTypes
<1>8. runs[c].token = IF n = 1 THEN 0 ELSE stack[t][n - 1]
  <2>1. n \in 1..Len(stack[t])
    BY <1>1
  <2>2. runs[stack[t][n]].token = IF n = 1 THEN 0 ELSE stack[t][n - 1]
    BY <1>1, <2>1 DEF ContextInv
  <2> QED
    BY <1>1, <2>2
<1>9. RunTypes'
  <2>1. runs[c].token \in 0..Len(runs)
    <3>1. n # 1 => stack[t][n - 1] \in 1..Len(runs)
      BY <1>1, <1>n
    <3> QED
      BY <1>1, <1>8, <3>1
  <2>2. current' \in [Tasks -> 0..Len(runs)]
    BY <1>1, <1>2, <2>1 DEF RunTypes
  <2>3. stack' \in [Tasks -> Seq(1..Len(runs))]
    BY <1>1, <1>2, <1>5 DEF RunTypes
  <2> QED
    BY <1>1, <1>2, <1>4, <2>2, <2>3 DEF RunTypes
<1>10. Inner(t)' = IF n = 1 THEN 0 ELSE stack[t][n - 1]
  <2>1. rest = <<>> <=> Len(rest) = 0
    BY <1>5, Empty
  <2>3. Inner(t)' = IF rest = <<>> THEN 0 ELSE rest[Len(rest)]
    BY <1>7 DEF Inner
  <2> QED
    BY <1>1, <1>n, <1>5, <2>1, <2>3
<1> HIDE DEF c, n, rest
<1>11. ASSUME NEW u \in Tasks
       PROVE  /\ current'[u] = Inner(u)'
              /\ \A j \in 1..Len(stack'[u]) :
                   runs'[stack'[u][j]].token =
                     IF j = 1 THEN 0 ELSE stack'[u][j - 1]
  <2>1. /\ \A j \in 1..Len(stack[u]) : stack[u][j] \in 1..Len(runs)
        /\ Len(stack[u]) \in Nat
    BY <1>1, StackFacts
  <2>2. /\ current[u] = Inner(u)
        /\ \A j \in 1..Len(stack[u]) :
             runs[stack[u][j]].token = IF j = 1 THEN 0 ELSE stack[u][j - 1]
    BY <1>1 DEF ContextInv
  <2>3. CASE u # t
    BY <1>4, <1>6, <2>1, <2>2, <2>3 DEF Inner
  <2>4. CASE u = t
    <3>1. current'[t] = Inner(t)'
      BY <1>7, <1>8, <1>10
    <3>2. ASSUME NEW j \in 1..Len(rest)
          PROVE  runs'[rest[j]].token = IF j = 1 THEN 0 ELSE rest[j - 1]
      <4>1. /\ j \in 1..(n - 1) /\ j \in 1..n
            /\ j # 1 => j - 1 \in 1..(n - 1)
        BY <1>1, <1>5
      <4>2. rest[j] = stack[t][j] /\ (j # 1 => rest[j - 1] = stack[t][j - 1])
        BY <1>5, <4>1
      <4>3. stack[t][j] \in 1..Len(runs)
        BY <1>1, <4>1
      <4>4. runs[stack[t][j]].token = IF j = 1 THEN 0 ELSE stack[t][j - 1]
        BY <2>2, <2>4, <4>1 DEF n
      <4> QED
        BY <1>4, <4>2, <4>3, <4>4
    <3> QED
      BY <1>7, <2>4, <3>1, <3>2
  <2> QED
    BY <2>3, <2>4
<1>12. OwnInv'
  BY <1>4 DEF RunInv, OwnInv
<1> QED
  BY <1>9, <1>11, <1>12 DEF RunInv, ContextInv

LEMMA RunStep ==
  ASSUME RunInv, PlaneTypeOK, [Next]_vars
  PROVE  RunInv'
<1>1. ASSUME NEW t \in Tasks, NEW kind \in Kinds, BeginRun(t, kind)
      PROVE  RunInv'
  BY <1>1, BeginInv
<1>2. ASSUME NEW t \in Tasks, NEW u \in Tasks, StartTask(t, u)
      PROVE  RunInv'
  BY <1>2, StartTaskInv
<1>3. ASSUME NEW t \in Tasks, NEW k \in Keys, NEW v \in Values,
             StoreBegins(t, k, v)
      PROVE  RunInv'
  BY <1>3 DEF StoreBegins, RunInv, RunTypes, ContextInv, OwnInv, Inner
<1>4. ASSUME NEW t \in Tasks, BodyReturns(t) \/ BodyRaises(t)
      PROVE  RunInv'
  BY <1>4, EndInv DEF BodyReturns, BodyRaises, Statuses
<1>5. CASE RecordEffect
  BY <1>5, RecordInv
<1>6. CASE Kill
  <2>1. /\ runs' = <<>> /\ started' = {Main} /\ who' = Main
        /\ \A t \in Tasks : stack'[t] = <<>> /\ current'[t] = 0
        /\ current' \in [Tasks -> {0}] /\ stack' \in [Tasks -> {<<>>}]
    BY <1>6 DEF Kill
  <2>2. /\ Len(runs') = 0 /\ <<>> \in Seq(1..0) /\ MaxRuns \in Nat
        /\ Main \in Tasks /\ runs' \in Seq(Run)
    BY <2>1, EffectsAssumption
  <2>3. RunTypes'
    <3>1. /\ current' \in [Tasks -> 0..Len(runs')]
          /\ stack' \in [Tasks -> Seq(1..Len(runs'))]
      <4>1. 0 \in 0..Len(runs')
        BY <2>2
      <4>2. <<>> \in Seq(1..Len(runs'))
        BY EmptySeq
      <4> QED
        BY <2>1, <4>1, <4>2
    <3>2. Len(runs') <= MaxRuns
      BY <2>2
    <3> QED
      BY <2>1, <2>2, <3>1, <3>2 DEF RunTypes
  <2>4. ContextInv' /\ OwnInv'
    BY <2>1, <2>2 DEF ContextInv, OwnInv, Inner
  <2> QED
    BY <2>3, <2>4 DEF RunInv
<1>7. CASE UNCHANGED runVars
  BY <1>7 DEF runVars, RunInv, RunTypes, ContextInv, OwnInv, Inner
<1>8. ASSUME NEW k \in Keys, LoadKey(k)
      PROVE  UNCHANGED runVars
  BY <1>8 DEF LoadKey
<1>9. CASE StoreGoesOn \/ StoreFails \/ Restart
  BY <1>7, <1>9 DEF StoreGoesOn, StoreFails, Restart
<1>10. UNCHANGED vars => UNCHANGED runVars
  BY DEF vars
<1> QED
  BY <1>1, <1>2, <1>3, <1>4, <1>5, <1>6, <1>7, <1>8, <1>9, <1>10 DEF Next

LEMMA RunsInvariant == Spec => [](RunInv /\ PlaneTypeOK)
<1>1. Init => RunInv /\ PlaneInv
  BY FreshRuns, PlaneInvInit DEF Init
<1>2. RunInv /\ PlaneInv /\ [Next]_vars => (RunInv /\ PlaneInv)'
  <2> SUFFICES ASSUME RunInv, PlaneInv, [Next]_vars
               PROVE  RunInv' /\ PlaneInv'
    OBVIOUS
  <2>1. RunInv'
    BY RunStep DEF PlaneInv
  <2>2. PlaneInv'
    BY PlaneSteps, PlaneInvNext
  <2> QED
    BY <2>1, <2>2
<1>3. PlaneInv => PlaneTypeOK
  BY DEF PlaneInv
<1> QED
  BY <1>1, <1>2, <1>3, PTL DEF Spec

(* The collector theorem: whatever tasks a body starts, in whatever order  *)
(* they run, nest and store, each collector has what was stored inside its *)
(* run and nothing of another's (EffectCollector, record_effect).          *)
THEOREM CollectorTheorem == Spec => []EffectsAreOwn
<1>1. RunInv => EffectsAreOwn
  BY DEF RunInv, OwnInv, EffectsAreOwn
<1> QED
  BY <1>1, RunsInvariant, PTL

PassStoresNothing ==
  \A c \in 1..Len(runs) :
    /\ runs[c].status = "running"
    /\ Len(runs') >= c /\ runs'[c].status = "PASS"
    /\ runs[c].kind.pure /\ ~runs[c].kind.light
    => runs[c].stored = {}

LEMMA EndIsPure ==
  ASSUME RunInv, NEW t \in Tasks, BodyReturns(t) \/ BodyRaises(t)
  PROVE  PassStoresNothing
<1>1. PICK status \in Statuses :
        /\ EndRun(t, status)
        /\ status = "PASS" => ~(runs[Inner(t)].kind.pure /\ Observed(Inner(t)) # {})
  BY DEF BodyReturns, BodyRaises, Statuses
<1>2. /\ Inner(t) \in 1..Len(runs) /\ runs \in Seq(Run)
      /\ \A d \in 1..Len(runs) : runs[d] \in Run
      /\ runs' = [runs EXCEPT ![Inner(t)].status = status]
  BY <1>1, StackFacts DEF EndRun, RunInv, RunTypes
<1> SUFFICES ASSUME NEW c \in 1..Len(runs), runs[c].status = "running",
                    runs'[c].status = "PASS", runs[c].kind.pure,
                    ~runs[c].kind.light
             PROVE  runs[c].stored = {}
  BY DEF PassStoresNothing
<1>3. c = Inner(t)
  BY <1>2
<1>4. status = "PASS"
  BY <1>2, <1>3 DEF Run
<1>5. runs[c].effects = {}
  BY <1>1, <1>3, <1>4 DEF Observed
<1> QED
  BY <1>5 DEF RunInv, OwnInv

LEMMA PureStep ==
  ASSUME RunInv, [Next]_vars
  PROVE  [PassStoresNothing]_vars
<1>1. ASSUME NEW t \in Tasks, NEW kind \in Kinds, BeginRun(t, kind)
      PROVE  PassStoresNothing
  BY <1>1 DEF BeginRun, PassStoresNothing, RunInv, RunTypes
<1>2. ASSUME NEW t \in Tasks, BodyReturns(t) \/ BodyRaises(t)
      PROVE  PassStoresNothing
  BY <1>2, EndIsPure
<1>3. CASE RecordEffect
  <2>1. \A c \in 1..Len(runs) : runs[c] \in Run
    BY ElementOfSeq DEF RunInv, RunTypes
  <2>2. \A c \in 1..Len(runs) : runs'[c].status = runs[c].status
    BY <1>3, <2>1 DEF RecordEffect, Run
  <2> QED
    BY <2>2 DEF PassStoresNothing
<1>4. CASE Kill
  BY <1>4 DEF Kill, PassStoresNothing
<1>5. CASE UNCHANGED runs
  BY <1>5 DEF PassStoresNothing
<1>6. ASSUME Next, ~UNCHANGED runs
      PROVE  \/ \E t \in Tasks : \/ \E kind \in Kinds : BeginRun(t, kind)
                                \/ BodyReturns(t) \/ BodyRaises(t)
             \/ RecordEffect \/ Kill
  BY <1>6 DEF Next, StartTask, StoreBegins, StoreGoesOn, StoreFails, LoadKey,
              Restart, runVars
<1> QED
  BY <1>1, <1>2, <1>3, <1>4, <1>5, <1>6 DEF vars

(* The purity theorem: a run in normal mode that ends as a PASS under a    *)
(* pure policy has stored nothing, in its own task or in one it started    *)
(* (run_script, check_conformance).                                        *)
THEOREM PurityTheorem == Spec => PurePassStoredNothing
<1>1. RunInv /\ [Next]_vars => [PassStoresNothing]_vars
  BY PureStep
<1>2. Spec => [][PassStoresNothing]_vars
  BY <1>1, RunsInvariant, PTL DEF Spec
<1> QED
  BY <1>2, PTL DEF PurePassStoredNothing, PassStoresNothing
=============================================================================
