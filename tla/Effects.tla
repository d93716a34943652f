------------------------------ MODULE Effects -------------------------------
(***************************************************************************)
(* Runs and the effects observed of them.  run_script and run_async_script *)
(* (level3/script/python_runtime.py, async_runtime.py) put an              *)
(* EffectCollector around the body (level1/effects.py): entering it sets   *)
(* the context variable _current and keeps a token, leaving it resets      *)
(* _current to the token.  A store of the data plane is recorded in the    *)
(* collector _current names, and check_conformance (level2/conformance.py) *)
(* fails a pure script of which effects were observed.                     *)
(*                                                                         *)
(* One event loop: a body may judge another script, await, and start tasks *)
(* with copies of its context, whose steps come in any order.  A store     *)
(* awaits nothing, so that one store is under way at a time.  stack and    *)
(* stored are not in the code: they say which bodies a task is really      *)
(* inside of, and what these stored.                                       *)
(***************************************************************************)
EXTENDS FilePlane, Naturals, Sequences

CONSTANTS
  Tasks,    \* tasks of the event loop
  Main,     \* the task the process starts with
  Kinds,    \* what is run: policy.pure, and ExecutionMode.LIGHT
  MaxRuns   \* bound: runs of one process

ASSUME EffectsAssumption ==
  /\ Main \in Tasks
  /\ Kinds \subseteq [pure : BOOLEAN, light : BOOLEAN]
  /\ MaxRuns \in Nat

VARIABLES
  runs,      \* the runs so far, each with its collector
  current,   \* _current of each task: an index of runs, 0 for None
  stack,     \* the runs each task is inside of, the innermost last
  started,   \* the tasks there are
  who        \* the task whose store is under way

runVars == <<runs, current, stack, started, who>>
vars == <<planeVars, runVars>>

Statuses == {"running", "PASS", "FAIL", "SKIPPED"}

Run == [kind : Kinds, task : Tasks, token : 0..MaxRuns, effects : SUBSET Keys,
        stored : SUBSET Keys, status : Statuses]

TypeOK ==
  /\ PlaneTypeOK
  /\ runs \in Seq(Run)
  /\ Len(runs) <= MaxRuns
  /\ current \in [Tasks -> 0..Len(runs)]
  /\ stack \in [Tasks -> Seq(1..Len(runs))]
  /\ started \subseteq Tasks
  /\ who \in Tasks
  /\ ~open => op = Idle /\ runs = <<>>

(* The runs of a process: none yet. *)
Fresh ==
  /\ runs = <<>>
  /\ current = [t \in Tasks |-> 0]
  /\ stack = [t \in Tasks |-> <<>>]
  /\ started = {Main}
  /\ who = Main

Init == PlaneInit /\ Fresh

(* A task has the loop: nobody is inside of store. *)
Turn(t) == open /\ op = Idle /\ t \in started

(* The innermost run a task is inside of, 0 for none. *)
Inner(t) == IF stack[t] = <<>> THEN 0 ELSE stack[t][Len(stack[t])]

(* Mutant of EnterCollector: _current is one variable of the module. *)
EnterCollectorShared(t, c) == current' = [u \in Tasks |-> c]

EnterCollector(t, c) == current' = [current EXCEPT ![t] = c]

(* run_script up to the call of the body, with a collector of its own. *)
BeginRun(t, kind) ==
  LET c == Len(runs) + 1 IN
  /\ Turn(t)
  /\ c <= MaxRuns
  /\ runs' = Append(runs, [kind |-> kind, task |-> t, token |-> current[t],
                           effects |-> {}, stored |-> {},
                           status |-> "running"])
  /\ EnterCollector(t, c)
  /\ stack' = [stack EXCEPT ![t] = Append(@, c)]
  /\ UNCHANGED <<planeVars, started, who>>

(* A body starts a task, which has a copy of its context. *)
StartTask(t, u) ==
  /\ Turn(t)
  /\ u \in Tasks \ started
  /\ started' = started \cup {u}
  /\ current' = [current EXCEPT ![u] = current[t]]
  /\ stack' = [stack EXCEPT ![u] = stack[t]]
  /\ UNCHANGED <<planeVars, runs, who>>

StoreBegins(t, k, v) ==
  /\ Turn(t)
  /\ WriteBlob(k, v)
  /\ who' = t
  /\ UNCHANGED <<runs, current, stack, started>>

StoreGoesOn ==
  /\ IndexKey \/ SaveIndex
  /\ UNCHANGED runVars

(* record_effect, in the collector of the task's context if there is one;  *)
(* store returns to the body.                                              *)
RecordEffect ==
  /\ Recorded
  /\ runs' = [c \in 1..Len(runs) |->
                [runs[c] EXCEPT
                   !.effects = IF c = current[who] THEN @ \cup {op.key} ELSE @,
                   !.stored = IF c = Inner(who) THEN @ \cup {op.key} ELSE @]]
  /\ UNCHANGED <<current, stack, started, who>>

(* store raises: the body handles it, or fails by BodyRaises. *)
StoreFails == WriteFails /\ UNCHANGED runVars

LoadKey(k) == Load(k) /\ UNCHANGED runVars

(* Mutant of ExitCollector: no collector is current after a run. *)
ExitCollectorToNone(t) == current' = [current EXCEPT ![t] = 0]

(* The token of the run is reset. *)
ExitCollector(t) ==
  current' = [current EXCEPT ![t] = runs[Inner(t)].token]

(* A body that runs in this task ends, and its run with it. *)
EndRun(t, status) ==
  /\ Turn(t)
  /\ Inner(t) # 0
  /\ runs[Inner(t)].task = t
  /\ runs[Inner(t)].status = "running"
  /\ ExitCollector(t)
  /\ runs' = [runs EXCEPT ![Inner(t)].status = status]
  /\ stack' = [stack EXCEPT ![t] = SubSeq(@, 1, Len(@) - 1)]
  /\ UNCHANGED <<planeVars, started, who>>

(* effects_observed of a run that ends. *)
Observed(c) == IF runs[c].kind.light THEN {} ELSE runs[c].effects

(* A completed observation: the type of its output, its schema and its     *)
(* semantics, then its effects, then its latency.                          *)
BodyReturns(t) ==
  \E status \in Statuses \ {"running"} :
    /\ EndRun(t, status)
    /\ status = "PASS" => ~(runs[Inner(t)].kind.pure /\ Observed(Inner(t)) # {})

(* A failed observation. *)
BodyRaises(t) == EndRun(t, "FAIL")

(* The process ends, and its runs with it. *)
Kill ==
  /\ Close \/ Dies
  /\ runs' = <<>>
  /\ current' = [t \in Tasks |-> 0]
  /\ stack' = [t \in Tasks |-> <<>>]
  /\ started' = {Main}
  /\ who' = Main

Restart == Open /\ UNCHANGED runVars

Next ==
  \/ \E t \in Tasks :
       \/ \E kind \in Kinds : BeginRun(t, kind)
       \/ \E u \in Tasks : StartTask(t, u)
       \/ \E k \in Keys, v \in Values : StoreBegins(t, k, v)
       \/ BodyReturns(t)
       \/ BodyRaises(t)
  \/ \E k \in Keys : LoadKey(k)
  \/ StoreGoesOn \/ RecordEffect \/ StoreFails \/ Kill \/ Restart

Spec == Init /\ [][Next]_vars
-----------------------------------------------------------------------------
(* Properties *)

(* Every run has its own effects: a collector has what the bodies inside   *)
(* of its run have stored, those of tasks they started among them, and     *)
(* nothing of another run, whatever order the tasks take their steps in    *)
(* and whatever runs begin and end meanwhile (_current and its token,      *)
(* record_effect).                                                         *)
EffectsAreOwn ==
  \A c \in 1..Len(runs) :
    runs[c].status = "running" => runs[c].effects = runs[c].stored

(* A pure PASS stored nothing: when a run ends as a PASS under a pure      *)
(* policy in normal mode, no store has returned to its body or to a task   *)
(* of it (run_script, check_conformance).                                  *)
PurePassStoredNothing ==
  [][\A c \in 1..Len(runs) :
       /\ runs[c].status = "running"
       /\ Len(runs') >= c /\ runs'[c].status = "PASS"
       /\ runs[c].kind.pure /\ ~runs[c].kind.light
       => runs[c].stored = {}]_vars
=============================================================================
