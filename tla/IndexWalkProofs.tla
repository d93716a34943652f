--------------------------- MODULE IndexWalkProofs ---------------------------
(***************************************************************************)
(* The walks over locks/index.json and the hook, for every index, walker   *)
(* and event: what exit code 0 and an allowance say.                       *)
(***************************************************************************)
EXTENDS IndexWalk, TLAPS

Last == Len(index.entries)

(* An entry of the walk is done: how, and with which receipt.              *)
Decided(k) == verdicts[k] = IF walker = "bind" THEN "BOUND" ELSE "PASS"

Evidence(k) ==
  LET e == index.entries[k]
      r == receipts[FileOf[walker][e.id]]
  IN  r # Absent /\ r.status = "PASS" /\ r.walk = walks /\ r.script = e.script

Walking == pc \in {"entry", "judge", "receipt"} /\ walker # "hook"

PlaceInv ==
  /\ failed < i
  /\ pc = "head" => i = 1 /\ failed = 0
  /\ pc \in {"judge", "receipt"} =>
       /\ walker \notin {"bind", "hook"}
       /\ i <= Last /\ entry.script \in Scripts
  /\ pc = "receipt" => verdicts[i] \in {"PASS", "FAIL", "SKIPPED"}
  /\ pc # "idle" => exit = Running

(* As long as nothing failed, all behind the walk is well.                 *)
BehindInv ==
  Walking /\ failed = 0 =>
    \A k \in 1..(i - 1) :
      /\ Decided(k)
      /\ walker # "bind" /\ OwnFiles => Evidence(k)

(* The hook is at an entry the event names, and has decided nothing.       *)
HookInv ==
  walker = "hook" =>
    /\ pc = "entry" => /\ i <= Last
                       /\ event.file \in {Absent, entry.script}
    /\ pc \in {"head", "entry"} =>
         \A k \in DOMAIN verdicts : verdicts[k] # "BOUND"

WalkInv == TypeOK /\ PlaceInv /\ BehindInv /\ HookInv

Goals == ZeroMeansAllPass /\ GreenHasReceipts /\ AllowIsForNamed

LEMMA IndexFacts ==
  ASSUME TypeOK
  PROVE  /\ Last \in Nat /\ DOMAIN index.entries = 1..Last
         /\ DOMAIN verdicts = 1..Last
         /\ \A k \in 1..Last :
              /\ index.entries[k] \in Entry /\ index.entries[k].id \in Ids
              /\ FileOf[walker][index.entries[k].id] \in Receipts
<1>1. index.entries \in Seq(Entry)
  BY WalkAssumption DEF TypeOK
<1>2. /\ Last \in Nat /\ DOMAIN index.entries = 1..Last
      /\ \A k \in 1..Last : index.entries[k] \in Entry
  BY <1>1 DEF Last
<1>3. \A k \in 1..Last : index.entries[k].id \in Ids
  BY <1>2 DEF Entry
<1>4. \A k \in 1..Last : FileOf[walker][index.entries[k].id] \in Receipts
  BY <1>3, WalkAssumption DEF TypeOK
<1> QED
  BY <1>2, <1>3, <1>4 DEF TypeOK

LEMMA WalkInit == Init => WalkInv /\ Goals
<1> SUFFICES ASSUME Init PROVE WalkInv /\ Goals
  OBVIOUS
<1>1. index.entries \in Seq(Entry)
  BY WalkAssumption DEF Init
<1>2. Last \in Nat /\ Last = Len(index.entries)
  BY <1>1 DEF Last
<1>3. event \in Events
  BY WalkAssumption DEF Init
<1>4. TypeOK
  BY <1>2, <1>3, WalkAssumption DEF Init, TypeOK, NoVerdicts, Running
<1>5. PlaceInv /\ BehindInv /\ HookInv
  BY <1>4 DEF Init, PlaceInv, BehindInv, HookInv, Walking
<1>6. Goals
  BY DEF Init, NoVerdicts, Running, Goals, ZeroMeansAllPass, GreenHasReceipts,
         AllowIsForNamed
<1> QED
  BY <1>4, <1>5, <1>6 DEF WalkInv

(* A walk that ends, with anything but 0. *)
LEMMA ExitInv ==
  ASSUME WalkInv, Goals, pc # "idle", NEW code \in {1, 2}, Exit(code),
         UNCHANGED <<state, receipts, i, failed>>,
         DOMAIN verdicts' = DOMAIN verdicts,
         \A k \in DOMAIN verdicts :
           \/ verdicts'[k] = verdicts[k]
           \/ verdicts'[k] \in {"PASS", "FAIL", "SKIPPED"}
  PROVE  WalkInv' /\ Goals'
<1>1. TypeOK'
  BY DEF WalkInv, TypeOK, Exit, state
<1>2. PlaceInv' /\ BehindInv' /\ HookInv'
  BY DEF WalkInv, PlaceInv, BehindInv, HookInv, Exit, state, Walking, Last
<1>3. ZeroMeansAllPass' /\ GreenHasReceipts'
  BY DEF Exit, ZeroMeansAllPass, GreenHasReceipts
<1>4. AllowIsForNamed'
  BY DEF Goals, AllowIsForNamed, state
<1> QED
  BY <1>1, <1>2, <1>3, <1>4 DEF WalkInv, Goals

LEMMA StartInv ==
  ASSUME WalkInv, NEW w \in Walkers, NEW ix \in Indexes, Start(w, ix)
  PROVE  WalkInv' /\ Goals'
<1>1. ix.entries \in Seq(Entry)
  BY WalkAssumption
<1>2. Len(ix.entries) \in Nat
  BY <1>1
<1>3. TypeOK'
  BY <1>2, WalkAssumption DEF Start, WalkInv, TypeOK, NoVerdicts, Running
<1>4. PlaceInv' /\ BehindInv' /\ HookInv'
  BY DEF Start, NoVerdicts, PlaceInv, BehindInv, HookInv, Walking
<1>5. Goals'
  BY DEF Start, NoVerdicts, Running, Goals, ZeroMeansAllPass, GreenHasReceipts,
         AllowIsForNamed
<1> QED
  BY <1>3, <1>4, <1>5 DEF WalkInv

LEMMA OpenInv ==
  ASSUME WalkInv, Goals, OpenIndex
  PROVE  WalkInv' /\ Goals'
<1>1. CASE Exit(1)
  BY <1>1, ExitInv DEF OpenIndex, state
<1>2. CASE pc' = "entry" /\ UNCHANGED exit
  <2>1. TypeOK'
    BY <1>2 DEF OpenIndex, WalkInv, TypeOK, state
  <2>2. PlaceInv' /\ BehindInv' /\ HookInv'
    BY <1>2 DEF OpenIndex, WalkInv, PlaceInv, BehindInv, HookInv, state
  <2>3. Goals'
    BY <1>2 DEF OpenIndex, WalkInv, PlaceInv, Running, Goals, state,
                ZeroMeansAllPass, GreenHasReceipts, AllowIsForNamed
  <2> QED
    BY <2>1, <2>2, <2>3 DEF WalkInv
<1> QED
  BY <1>1, <1>2 DEF OpenIndex

(* A walk under way has no exit code, and nothing that is judged or only   *)
(* bound is about the hook.                                                *)
LEMMA OnTheWay ==
  ASSUME WalkInv', pc' # "idle", walker' # "hook"
  PROVE  Goals'
  BY DEF WalkInv, PlaceInv, Running, Goals, ZeroMeansAllPass, GreenHasReceipts,
         AllowIsForNamed

(* An entry that failed is counted, whoever walks.                         *)
LEMMA SkipInv ==
  ASSUME WalkInv, Goals, NEW status \in {"PASS", "FAIL", "SKIPPED"},
         Skip(status), Walking, i <= Last,
         UNCHANGED state, receipts' \in [Receipts -> Receipt \cup {Absent}]
  PROVE  WalkInv' /\ Goals'
<1>1. /\ DOMAIN verdicts = 1..Last /\ Last \in Nat /\ i \in 1..Last
      /\ failed \in Nat /\ failed < i
  BY IndexFacts DEF WalkInv, TypeOK, PlaceInv, Last
<1>2. /\ verdicts' = [verdicts EXCEPT ![i] = status]
      /\ DOMAIN verdicts' = DOMAIN verdicts
      /\ \A k \in DOMAIN verdicts : verdicts'[k] \in {verdicts[k], status}
  BY DEF Skip
<1>3. walker' = walker /\ index' = index /\ Last' = Last
  BY DEF state, Last
<1>4. \A k \in DOMAIN verdicts' :
        verdicts'[k] \in {"none", "BOUND", "PASS", "FAIL", "SKIPPED"}
  BY <1>2 DEF WalkInv, TypeOK
<1>5. \/ Exit(1) /\ UNCHANGED <<i, failed>>
      \/ i' = i + 1 /\ failed' = failed + 1 /\ pc' = "entry" /\ exit' = exit
  BY DEF Skip
<1>6. TypeOK'
  BY <1>1, <1>2, <1>3, <1>4, <1>5 DEF WalkInv, TypeOK, Exit, state, Last
<1>7. PlaceInv' /\ BehindInv' /\ HookInv'
  BY <1>1, <1>3, <1>5
     DEF WalkInv, PlaceInv, BehindInv, HookInv, Exit, Walking
<1>8. CASE pc' = "entry"
  <2>1. WalkInv'
    BY <1>6, <1>7 DEF WalkInv
  <2>2. pc' # "idle" /\ walker' # "hook"
    BY <1>3, <1>8 DEF Walking
  <2> QED
    BY <2>1, <2>2, OnTheWay
<1>9. ASSUME Exit(1)
      PROVE  Goals'
  BY <1>3, <1>9 DEF Exit, Goals, ZeroMeansAllPass, GreenHasReceipts,
                    AllowIsForNamed, Walking
<1> QED
  BY <1>5, <1>6, <1>7, <1>8, <1>9 DEF WalkInv

(* An entry that went well is behind the walk.                             *)
LEMMA PassedInv ==
  ASSUME WalkInv, Goals, Walking, i <= Last, UNCHANGED <<state, failed, exit>>,
         i' = i + 1, pc' = "entry",
         DOMAIN verdicts' = DOMAIN verdicts,
         \A k \in DOMAIN verdicts : k # i => verdicts'[k] = verdicts[k],
         verdicts'[i] = IF walker = "bind" THEN "BOUND" ELSE "PASS",
         receipts' \in [Receipts -> Receipt \cup {Absent}],
         walker # "bind" /\ OwnFiles =>
           \A k \in 1..i : (k = i \/ Evidence(k)) => Evidence(k)'
  PROVE  WalkInv' /\ Goals'
<1>1. /\ DOMAIN verdicts = 1..Last /\ Last \in Nat /\ i \in 1..Last
      /\ failed \in Nat /\ failed < i
  BY IndexFacts DEF WalkInv, TypeOK, PlaceInv, Last
<1>2. walker' = walker /\ index' = index /\ Last' = Last /\ OwnFiles' = OwnFiles
  BY DEF state, Last, OwnFiles
<1>3. \A k \in DOMAIN verdicts' :
        verdicts'[k] \in {"none", "BOUND", "PASS", "FAIL", "SKIPPED"}
  BY DEF WalkInv, TypeOK
<1>4. TypeOK'
  BY <1>1, <1>2, <1>3 DEF WalkInv, TypeOK, state, Last
<1>5. PlaceInv' /\ HookInv'
  BY <1>1, <1>2 DEF WalkInv, PlaceInv, HookInv, Walking
<1>6. ASSUME failed' = 0, NEW k \in 1..(i' - 1)
      PROVE  /\ Decided(k)'
             /\ (walker # "bind" /\ OwnFiles)' => Evidence(k)'
  <2>1. k \in 1..i /\ k \in DOMAIN verdicts
    BY <1>1
  <2>2. CASE k = i
    BY <1>2, <2>1, <2>2 DEF Decided
  <2>3. CASE k # i
    <3>1. k \in 1..(i - 1)
      BY <1>1, <2>1, <2>3
    <3>2. Decided(k) /\ (walker # "bind" /\ OwnFiles => Evidence(k))
      BY <1>6, <3>1 DEF WalkInv, BehindInv
    <3> QED
      BY <1>2, <2>1, <2>3, <3>2 DEF Decided
  <2> QED
    BY <2>2, <2>3
<1>7. BehindInv'
  BY <1>6 DEF BehindInv
<1>8. WalkInv'
  BY <1>4, <1>5, <1>7 DEF WalkInv
<1>9. pc' # "idle" /\ walker' # "hook"
  BY <1>2 DEF Walking
<1> QED
  BY <1>8, <1>9, OnTheWay

(* The walk goes on to be judged: nothing behind it changes.               *)
LEMMA GoesOnInv ==
  ASSUME WalkInv, Goals, Walking, i <= Last, walker # "bind",
         entry.script \in Scripts,
         UNCHANGED <<state, receipts, i, failed, exit>>,
         pc' \in {"judge", "receipt"},
         DOMAIN verdicts' = DOMAIN verdicts,
         \A k \in DOMAIN verdicts : k # i => verdicts'[k] = verdicts[k],
         verdicts'[i] \in {verdicts[i], "PASS", "FAIL", "SKIPPED"},
         pc' = "receipt" => verdicts'[i] \in {"PASS", "FAIL", "SKIPPED"}
  PROVE  WalkInv' /\ Goals'
<1>1. /\ DOMAIN verdicts = 1..Last /\ Last \in Nat /\ i \in 1..Last
      /\ failed \in Nat /\ failed < i
  BY IndexFacts DEF WalkInv, TypeOK, PlaceInv, Last
<1>2. /\ walker' = walker /\ index' = index /\ Last' = Last
      /\ OwnFiles' = OwnFiles /\ entry' = entry
  BY DEF state, Last, OwnFiles, entry
<1>3. \A k \in DOMAIN verdicts' :
        verdicts'[k] \in {"none", "BOUND", "PASS", "FAIL", "SKIPPED"}
  BY <1>1 DEF WalkInv, TypeOK
<1>4. TypeOK'
  BY <1>1, <1>2, <1>3 DEF WalkInv, TypeOK, state, Last
<1>5. PlaceInv' /\ HookInv'
  BY <1>1, <1>2 DEF WalkInv, PlaceInv, HookInv, Walking
<1>6. ASSUME failed' = 0, NEW k \in 1..(i' - 1)
      PROVE  /\ Decided(k)'
             /\ (walker # "bind" /\ OwnFiles)' => Evidence(k)'
  <2>1. k \in 1..(i - 1) /\ k \in DOMAIN verdicts /\ k # i
    BY <1>1
  <2>2. Decided(k) /\ (walker # "bind" /\ OwnFiles => Evidence(k))
    BY <1>6, <2>1 DEF WalkInv, BehindInv
  <2> QED
    BY <1>2, <2>1, <2>2 DEF Decided, Evidence, state
<1>7. BehindInv'
  BY <1>6 DEF BehindInv
<1>8. WalkInv'
  BY <1>4, <1>5, <1>7 DEF WalkInv
<1>9. pc' # "idle" /\ walker' # "hook"
  BY <1>2 DEF Walking
<1> QED
  BY <1>8, <1>9, OnTheWay

LEMMA CheckInv ==
  ASSUME WalkInv, Goals, CheckEntry
  PROVE  WalkInv' /\ Goals'
<1>1. /\ Walking /\ i <= Last /\ pc # "idle" /\ walker # "hook"
      /\ UNCHANGED state /\ UNCHANGED receipts
      /\ receipts' \in [Receipts -> Receipt \cup {Absent}]
  BY DEF CheckEntry, Walking, Last, WalkInv, TypeOK
<1>2. DOMAIN verdicts = 1..Last /\ i \in 1..Last /\ entry \in Entry
  BY <1>1, IndexFacts DEF WalkInv, TypeOK, Last, entry
<1>3. ASSUME NEW code \in {1, 2}, Exit(code), UNCHANGED <<i, failed, verdicts>>
      PROVE  WalkInv' /\ Goals'
  BY <1>1, <1>3, ExitInv
<1>4. ASSUME NEW status \in {"PASS", "FAIL", "SKIPPED"}, Skip(status)
      PROVE  WalkInv' /\ Goals'
  BY <1>1, <1>4, SkipInv
<1>5. ASSUME entry.script # Absent, walker # "bind", pc' = "judge",
             UNCHANGED <<i, failed, verdicts, exit>>
      PROVE  WalkInv' /\ Goals'
  <2>1. entry.script \in Scripts
    BY <1>2, <1>5 DEF Entry
  <2> QED
    BY <1>1, <1>5, <2>1, GoesOnInv
<1>6. ASSUME walker = "bind", pc' = pc,
             verdicts' = [verdicts EXCEPT ![i] = "BOUND"], i' = i + 1,
             UNCHANGED <<failed, exit>>
      PROVE  WalkInv' /\ Goals'
  <2>1. pc' = "entry"
    BY <1>6 DEF CheckEntry
  <2>2. /\ DOMAIN verdicts' = DOMAIN verdicts /\ verdicts'[i] = "BOUND"
        /\ \A k \in DOMAIN verdicts : k # i => verdicts'[k] = verdicts[k]
    BY <1>2, <1>6
  <2> QED
    BY <1>1, <1>6, <2>1, <2>2, PassedInv
<1>7. \/ \E code \in {1, 2} : Exit(code) /\ UNCHANGED <<i, failed, verdicts>>
      \/ \E status \in {"PASS", "FAIL", "SKIPPED"} : Skip(status)
      \/ /\ entry.script # Absent /\ walker # "bind" /\ pc' = "judge"
         /\ UNCHANGED <<i, failed, verdicts, exit>>
      \/ /\ walker = "bind" /\ pc' = pc
         /\ verdicts' = [verdicts EXCEPT ![i] = "BOUND"] /\ i' = i + 1
         /\ UNCHANGED <<failed, exit>>
  <2>1. CASE ~entry.object
    BY <2>1 DEF CheckEntry
  <2>2. CASE entry.object /\ (entry.plan # "ok" \/ entry.script = Absent)
    BY <2>2 DEF CheckEntry
  <2>3. CASE /\ entry.object /\ entry.plan = "ok" /\ entry.script # Absent
             /\ walker # "driver" /\ disk[entry.script] = Absent
    BY <2>3 DEF CheckEntry
  <2>4. CASE /\ entry.object /\ entry.plan = "ok" /\ entry.script # Absent
             /\ ~(walker # "driver" /\ disk[entry.script] = Absent)
    <3>1. CASE walker \in {"bind", "locks"}
      <4>1. BindEntry
        BY <2>4, <3>1 DEF CheckEntry
      <4> QED
        BY <2>4, <4>1 DEF BindEntry
    <3>2. CASE walker \notin {"bind", "locks"}
      BY <2>4, <3>2 DEF CheckEntry
    <3> QED
      BY <3>1, <3>2
  <2> QED
    BY <2>1, <2>2, <2>3, <2>4
<1> QED
  BY <1>3, <1>4, <1>5, <1>6, <1>7

LEMMA JudgeInv ==
  ASSUME WalkInv, Goals, JudgeEntry
  PROVE  WalkInv' /\ Goals'
<1>1. /\ Walking /\ i <= Last /\ pc # "idle" /\ walker \notin {"bind", "hook"}
      /\ entry.script \in Scripts
      /\ UNCHANGED state /\ UNCHANGED receipts
      /\ receipts' \in [Receipts -> Receipt \cup {Absent}]
  BY DEF JudgeEntry, Walking, WalkInv, PlaceInv, TypeOK
<1>2. DOMAIN verdicts = 1..Last /\ i \in 1..Last
  BY <1>1, IndexFacts DEF WalkInv, TypeOK, Last
<1>3. ASSUME NEW status \in {"PASS", "FAIL", "SKIPPED"},
             verdicts' = [verdicts EXCEPT ![i] = status], pc' = "receipt",
             UNCHANGED <<i, failed, exit>>
      PROVE  WalkInv' /\ Goals'
  <2>1. /\ DOMAIN verdicts' = DOMAIN verdicts /\ verdicts'[i] = status
        /\ \A k \in DOMAIN verdicts : k # i => verdicts'[k] = verdicts[k]
    BY <1>2, <1>3
  <2> QED
    BY <1>1, <1>3, <2>1, GoesOnInv
<1>4. ASSUME Exit(1), UNCHANGED <<i, failed, verdicts>>
      PROVE  WalkInv' /\ Goals'
  BY <1>1, <1>4, ExitInv
<1>5. ASSUME Skip("FAIL")
      PROVE  WalkInv' /\ Goals'
  BY <1>1, <1>5, SkipInv
<1> QED
  BY <1>3, <1>4, <1>5 DEF JudgeEntry

(* The receipt of the entry at hand: a file of its own, if every entry has *)
(* one, so that those of the entries behind stay as they are.              *)
LEMMA WriteInv ==
  ASSUME WalkInv, Goals, WriteReceipt
  PROVE  WalkInv' /\ Goals'
<1>1. /\ Walking /\ i <= Last /\ pc # "idle" /\ walker \notin {"bind", "hook"}
      /\ entry.script \in Scripts /\ pc = "receipt"
      /\ verdicts[i] \in {"PASS", "FAIL", "SKIPPED"}
      /\ UNCHANGED state
  BY DEF WriteReceipt, Walking, WalkInv, PlaceInv
<1>2. /\ DOMAIN verdicts = 1..Last /\ DOMAIN index.entries = 1..Last
      /\ Last \in Nat /\ i \in 1..Last /\ entry \in Entry
      /\ FileOf[walker][entry.id] \in Receipts
  BY <1>1, IndexFacts DEF WalkInv, TypeOK, Last, entry
<1>3. CASE Exit(1) /\ UNCHANGED <<receipts, i, failed, verdicts>>
  BY <1>1, <1>3, ExitInv
<1>4. CASE receipts' = [receipts EXCEPT ![FileOf[walker][entry.id]] = ReceiptNow]
  <2>1. /\ ReceiptNow.status = verdicts[i] /\ ReceiptNow.walk = walks
        /\ ReceiptNow.script = entry.script /\ ReceiptNow \in Receipt
    <3>1. disk[entry.script] \in Bodies \cup {Absent} /\ walks \in Nat
      BY <1>1, WalkAssumption DEF WalkInv, TypeOK
    <3> QED
      BY <1>1, <1>2, <3>1 DEF ReceiptNow, Receipt, Entry
  <2>2. ReceiptNow # Absent
    BY <2>1, WalkAssumption
  <2>3. receipts' \in [Receipts -> Receipt \cup {Absent}]
    BY <1>2, <1>4, <2>1 DEF WalkInv, TypeOK
  <2>4. CASE verdicts[i] # "PASS" /\ Skip(verdicts[i])
    BY <1>1, <2>3, <2>4, SkipInv
  <2>5. CASE /\ verdicts[i] = "PASS" /\ i' = i + 1 /\ pc' = "entry"
             /\ UNCHANGED <<failed, verdicts, exit>>
    <3>1. ASSUME OwnFiles, NEW k \in 1..i, k = i \/ Evidence(k)
          PROVE  Evidence(k)'
      <4>1. /\ FileOf' = FileOf /\ walker' = walker /\ index' = index
            /\ walks' = walks
        BY <1>1 DEF state
      <4>2. k \in 1..Last /\ FileOf[walker][index.entries[k].id] \in Receipts
        BY <1>2, IndexFacts DEF WalkInv
      <4>3. CASE k = i
        <5>1. receipts'[FileOf[walker][entry.id]] = ReceiptNow
          BY <1>2, <1>4 DEF WalkInv, TypeOK
        <5> QED
          BY <2>1, <2>2, <2>5, <4>1, <4>3, <5>1 DEF Evidence, entry
      <4>4. CASE k # i
        <5>1. FileOf[walker][index.entries[k].id] # FileOf[walker][entry.id]
          BY <1>2, <3>1, <4>2, <4>4 DEF OwnFiles, entry
        <5>2. receipts'[FileOf[walker][index.entries[k].id]]
                = receipts[FileOf[walker][index.entries[k].id]]
          BY <1>4, <4>2, <5>1 DEF WalkInv, TypeOK
        <5> QED
          BY <3>1, <4>1, <4>4, <5>2 DEF Evidence
      <4> QED
        BY <4>3, <4>4
    <3>2. \A k \in DOMAIN verdicts : k # i => verdicts'[k] = verdicts[k]
      BY <2>5
    <3>3. /\ DOMAIN verdicts' = DOMAIN verdicts
          /\ verdicts'[i] = IF walker = "bind" THEN "BOUND" ELSE "PASS"
      BY <1>1, <2>5
    <3>4. UNCHANGED <<state, failed, exit>>
      BY <1>1, <2>5
    <3> QED
      BY <1>1, <2>3, <2>5, <3>1, <3>2, <3>3, <3>4, PassedInv
  <2> QED
    BY <1>1, <1>3, <2>4, <2>5 DEF WriteReceipt
<1> QED
  BY <1>3, <1>4 DEF WriteReceipt

LEMMA SummaryInv ==
  ASSUME WalkInv, Goals, Summary
  PROVE  WalkInv' /\ Goals'
<1>1. /\ Walking /\ pc # "idle" /\ walker # "hook" /\ i > Last
      /\ UNCHANGED <<state, receipts, i, failed, verdicts>>
  BY DEF Summary, Walking, Last
<1>2. /\ DOMAIN index.entries = 1..Last /\ Last \in Nat /\ i \in Nat
      /\ failed \in Nat
  BY IndexFacts DEF WalkInv, TypeOK, Last
<1>3. CASE failed > 0
  <2>1. Exit(1)
    BY <1>3 DEF Summary
  <2> QED
    BY <1>1, <2>1, ExitInv
<1>4. CASE failed = 0
  <2>1. Exit(0)
    BY <1>4 DEF Summary
  <2>2. TypeOK' /\ PlaceInv' /\ BehindInv' /\ HookInv'
    BY <1>1, <2>1 DEF WalkInv, TypeOK, PlaceInv, BehindInv, HookInv, Exit,
                      state, Walking
  <2>3. \A k \in 1..Last :
          Decided(k) /\ (walker # "bind" /\ OwnFiles => Evidence(k))
    BY <1>1, <1>2, <1>4 DEF WalkInv, BehindInv
  <2>4. ZeroMeansAllPass'
    BY <1>1, <1>2, <2>3 DEF ZeroMeansAllPass, Decided, state
  <2>5. GreenHasReceipts'
    BY <1>1, <1>2, <2>3 DEF GreenHasReceipts, OwnFiles, Evidence, state
  <2>6. AllowIsForNamed'
    BY <1>1 DEF AllowIsForNamed, state
  <2> QED
    BY <2>2, <2>4, <2>5, <2>6 DEF WalkInv, Goals
<1> QED
  BY <1>2, <1>3, <1>4

LEMMA LookUpInv ==
  ASSUME WalkInv, Goals, LookUp
  PROVE  WalkInv' /\ Goals'
<1>1. /\ pc = "head" /\ walker = "hook"
      /\ UNCHANGED <<state, receipts, failed, verdicts>>
      /\ DOMAIN index.entries = 1..Last /\ Last \in Nat
      /\ DOMAIN verdicts = 1..Last
  BY IndexFacts DEF LookUp, WalkInv
<1>2. CASE Exit(1) /\ UNCHANGED i
  BY <1>1, <1>2, ExitInv
<1>3. CASE Exit(0) /\ UNCHANGED i
  <2>1. TypeOK' /\ PlaceInv' /\ BehindInv' /\ HookInv'
    BY <1>1, <1>3 DEF WalkInv, TypeOK, PlaceInv, BehindInv, HookInv, Exit,
                      state, Walking
  <2>2. Goals'
    BY <1>1, <1>3 DEF Goals, ZeroMeansAllPass, GreenHasReceipts,
                      AllowIsForNamed, state
  <2> QED
    BY <2>1, <2>2 DEF WalkInv
<1>4. ASSUME NEW k \in DOMAIN index.entries, Named(index.entries[k]),
             i' = k, pc' = "entry", exit' = exit
      PROVE  WalkInv' /\ Goals'
  <2>1. event.file \in {Absent, index.entries[k].script}
    BY <1>4 DEF Named
  <2>2. k \in 1..Last /\ k >= 1
    BY <1>1, <1>4
  <2>3. TypeOK'
    BY <1>1, <1>4, <2>2 DEF WalkInv, TypeOK, state, Last
  <2>4. PlaceInv'
    BY <1>1, <1>4, <2>2 DEF WalkInv, PlaceInv, state
  <2>5. BehindInv'
    BY <1>1 DEF BehindInv, Walking, state
  <2>6. HookInv'
    BY <1>1, <1>4, <2>1, <2>2 DEF WalkInv, HookInv, state, entry, Last
  <2>7. Goals'
    BY <1>1, <1>4 DEF Goals, ZeroMeansAllPass, GreenHasReceipts,
                      AllowIsForNamed, state
  <2> QED
    BY <2>3, <2>4, <2>5, <2>6, <2>7 DEF WalkInv
<1> QED
  BY <1>2, <1>3, <1>4 DEF LookUp

LEMMA AllowInv ==
  ASSUME WalkInv, Goals, AllowOrDeny
  PROVE  WalkInv' /\ Goals'
<1>1. /\ pc = "entry" /\ walker = "hook" /\ i <= Last
      /\ event.file \in {Absent, entry.script}
      /\ \A k \in DOMAIN verdicts : verdicts[k] # "BOUND"
      /\ UNCHANGED <<state, receipts, i, failed>>
      /\ DOMAIN verdicts = 1..Last /\ Last \in Nat /\ i \in 1..Last
  BY IndexFacts DEF AllowOrDeny, WalkInv, HookInv, TypeOK, Last
<1>2. CASE Exit(1) /\ UNCHANGED verdicts
  BY <1>1, <1>2, ExitInv
<1>3. ASSUME Exit(0), NEW decided \in {"FAIL", "BOUND"},
             verdicts' = [verdicts EXCEPT ![i] = decided],
             decided = "BOUND" => disk[entry.script] = entry.locked
      PROVE  WalkInv' /\ Goals'
  <2>1. /\ DOMAIN verdicts' = DOMAIN verdicts /\ verdicts'[i] = decided
        /\ \A k \in DOMAIN verdicts : k # i => verdicts'[k] = verdicts[k]
    BY <1>1, <1>3
  <2>2. TypeOK'
    BY <1>1, <1>3, <2>1 DEF WalkInv, TypeOK, Exit, state
  <2>3. PlaceInv' /\ BehindInv' /\ HookInv'
    BY <1>1, <1>3 DEF WalkInv, PlaceInv, BehindInv, HookInv, Exit, state,
                      Walking
  <2>4. ZeroMeansAllPass' /\ GreenHasReceipts'
    BY <1>1 DEF ZeroMeansAllPass, GreenHasReceipts, state
  <2>5. AllowIsForNamed'
    BY <1>1, <1>3, <2>1 DEF AllowIsForNamed, state, entry
  <2> QED
    BY <2>2, <2>3, <2>4, <2>5 DEF WalkInv, Goals
<1> QED
  BY <1>2, <1>3 DEF AllowOrDeny

LEMMA SaveInv ==
  ASSUME WalkInv, Goals, NEW s \in Scripts, NEW b \in Bodies \cup {Absent},
         Save(s, b)
  PROVE  WalkInv' /\ Goals'
<1>1. edits \in Nat /\ edits' = edits + 1 /\ edits < MaxEdits
  BY WalkAssumption DEF WalkInv, TypeOK, Save
<1>2. TypeOK'
  BY <1>1, WalkAssumption DEF WalkInv, TypeOK, Save
<1>3. PlaceInv' /\ HookInv'
  BY DEF WalkInv, PlaceInv, HookInv, Save, entry, Last
<1>4. BehindInv'
  BY DEF WalkInv, BehindInv, Save, Walking, Decided, Evidence, OwnFiles
<1>5. ZeroMeansAllPass' /\ GreenHasReceipts'
  BY DEF Goals, ZeroMeansAllPass, GreenHasReceipts, OwnFiles, Save
<1>6. AllowIsForNamed'
  BY <1>1 DEF Goals, AllowIsForNamed, Save
<1> QED
  BY <1>2, <1>3, <1>4, <1>5, <1>6 DEF WalkInv, Goals

(* What every walk keeps, one lemma per step.                              *)
LEMMA WalkInvariant == Spec => [](WalkInv /\ Goals)
<1>1. ASSUME WalkInv /\ Goals, [Next]_vars
      PROVE  (WalkInv /\ Goals)'
  <2>1. ASSUME NEW w \in Walkers, NEW ix \in Indexes, Start(w, ix)
        PROVE  WalkInv' /\ Goals'
    BY <1>1, <2>1, StartInv
  <2>2. CASE OpenIndex
    BY <1>1, <2>2, OpenInv
  <2>3. CASE CheckEntry
    BY <1>1, <2>3, CheckInv
  <2>4. CASE JudgeEntry
    BY <1>1, <2>4, JudgeInv
  <2>5. CASE WriteReceipt
    BY <1>1, <2>5, WriteInv
  <2>6. CASE Summary
    BY <1>1, <2>6, SummaryInv
  <2>7. CASE LookUp
    BY <1>1, <2>7, LookUpInv
  <2>8. CASE AllowOrDeny
    BY <1>1, <2>8, AllowInv
  <2>9. CASE Killed
    BY <1>1, <2>9, ExitInv DEF Killed, state
  <2>10. ASSUME NEW s \in Scripts, NEW b \in Bodies \cup {Absent}, Save(s, b)
         PROVE  WalkInv' /\ Goals'
    BY <1>1, <2>10, SaveInv
  <2>11. CASE UNCHANGED vars
    <3> USE <2>11 DEF vars
    <3>1. TypeOK' = TypeOK
      BY DEF TypeOK
    <3>2. PlaceInv' = PlaceInv
      BY DEF PlaceInv, Last, entry
    <3>3. BehindInv' = BehindInv
      BY DEF BehindInv, Walking, Decided, Evidence, OwnFiles
    <3>4. HookInv' = HookInv
      BY DEF HookInv, Last, entry
    <3>5. Goals' = Goals
      BY DEF Goals, ZeroMeansAllPass, GreenHasReceipts, AllowIsForNamed, OwnFiles
    <3> QED
      BY <1>1, <3>1, <3>2, <3>3, <3>4, <3>5 DEF WalkInv
  <2> QED
    BY <1>1, <2>1, <2>2, <2>3, <2>4, <2>5, <2>6, <2>7, <2>8, <2>9, <2>10,
       <2>11 DEF Next
<1> QED
  BY <1>1, WalkInit, PTL DEF Spec

(* Every variable has its type in every reachable state: the place in the  *)
(* index, the counter and the verdicts never outgrow the index (cli.py     *)
(* cmd_locks, action_driver.py main, ci_judge.py main).                    *)
THEOREM WalkTypeTheorem == Spec => []TypeOK
<1>1. WalkInv => TypeOK
  BY DEF WalkInv
<1> QED
  BY <1>1, WalkInvariant, PTL

(* Exit code 0 of a walk over any index, by any walker, means that this    *)
(* walk decided every entry PASS, or BOUND where nothing is executed,      *)
(* whatever was saved or killed meanwhile (the summaries of the loops).    *)
THEOREM ZeroTheorem == Spec => []ZeroMeansAllPass
<1>1. Goals => ZeroMeansAllPass
  BY DEF Goals
<1> QED
  BY <1>1, WalkInvariant, PTL

(* After a green walk the receipt file of every entry holds the PASS this  *)
(* walk wrote for that script, for every assignment of files to ids that   *)
(* gives each entry of the index its own (write_receipt).                  *)
THEOREM ReceiptTheorem == Spec => []GreenHasReceipts
<1>1. Goals => GreenHasReceipts
  BY DEF Goals
<1> QED
  BY <1>1, WalkInvariant, PTL

(* The hook allows on the lock of the very file an event names, for every  *)
(* event and index (lookup and bind_entry of pre_tool_use.py).             *)
THEOREM HookTheorem == Spec => []AllowIsForNamed
<1>1. Goals => AllowIsForNamed
  BY DEF Goals
<1> QED
  BY <1>1, WalkInvariant, PTL
=============================================================================
