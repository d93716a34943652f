# Acid Judge in TLA+

Acid Judge decides whether the Python function that runs is the one that was
approved. A lock (`plan.lock`, JSON) holds hashes of a tool's file, of the
canon of its entry body, of every local import it reaches and of the judge's
own files; `judge` compares, runs the body and answers PASS, FAIL or SKIPPED.
Nearly everything that can go wrong is a matter of *when* something is read:
a file is hashed at one moment, imported at another and executed at a third,
while other programs save files and other judgements run in the same process.
These modules model that, TLC checks them on small instances, and TLAPS proves
most of what the runs check for all instances.

Paths below are relative to `src/`; `AE` stands for `acid_engine`.

## 1. The system

| Part | State it keeps | Operations | Talks to |
|---|---|---|---|
| Judge (`AE/cli_judge.py`, `AE/judge.py`, `AE/level3/script/runner.py`, `resolve.py`, `module.py`) | nothing of its own | gate, load, bind, seal, run, conformance | local dependencies, conformance |
| Local dependencies (`AE/level2/local_deps.py`) | `_PINNED_SOURCE` per process, `_SEALED` per context, the patched `__import__`, `sys.modules` | `snapshot_exec_target`, `pin_source_bytes`, `collect_local_dep_hashes`, `sealed_deps`, `_sealed_import` | the file system |
| Supervisor (`rust/acid-judge/src/lib.rs`) | the request, the worker's bytes, the engine's root | locate, pin, identify, bind, run, verdict | spawns two workers |
| Worker (`AE/worker.py`) | a fresh process | `handle`, `identify_script`, `run_body` | local dependencies |
| Verdict (`AE/level2/conformance.py`, `lib.rs`) | - | `check_conformance`, `verdict` | the observation of a run |
| Index walks (`AE/cli.py`, `AE/action_driver.py`, `locks/ci_judge.py`, `AE/receipt.py`) | counters, receipts on disk | bind, locks, driver, CI | judge or supervisor |
| Composite (`AE/level3/module/composite.py`, `AE/level3/graph`) | outputs per node, observations | `detect_cycle`, `compute_rank`, `execute` | judge's gate, per leaf |
| Effects (`AE/level1/effects.py`, `AE/level3/script/python_runtime.py`, `async_runtime.py`) | a `ContextVar` holding the current collector | enter, record, exit | data plane |
| Data plane (`AE/level1/data_plane.py`) | files and `index.json`, an index in memory | store, load, open | effects |
| Blanks (`AE/level2/blank.py`, `blank_loader.py`, `loader.py`, `implementation_canon.py`) | a JSON file naming a source file | gate, read, execute, compare claims | judge's gate |
| Locking and comparing (`AE/cli.py` `cmd_lock`, `cmd_diff`, `AE/lock_diff.py`, `runner.py`) | lock files | `dump_script_lock`, `diff_lock` | judge, local dependencies |
| Contracts (`AE/level2/resolver.py`, `strategies/`, `migration.py`, `compatibility.py`, `semantic.py`, `AE/level3/container/types.py`) | immutable values | `resolve_policy`, `plan_migration`, `RecordSchema.validate`, `json_schema` | the types of a verdict |
| Pre-tool hook (`examples/hooks/pre_tool_use.py`) | nothing | `lookup`, `bind_entry` | the index, judge's gate and binding |
| Hashes, signatures, evidence, containers, explanations, pipelines | immutable values | pure functions | - |

The hard behaviours are: a check and a use of the same file that are apart in
time (everywhere), state shared by judgements of one process (pins,
`sys.modules`, the context variable), one import hook in front of another,
helpers that raise while a seal is being taken, a lock put together by five
readings of a tree, a second process that reads everything again, a store of three writes that a crash may cut, and loops that
must not turn a skipped entry into exit code 0.

What makes each part correct:

* Judge: what is executed under a PASS is byte for byte what the lock says: the
  tool, its body and each helper; an untouched tree is not refused; nothing
  stays behind when a judgement ends.
* Supervisor: the same, although it hashes no tool file itself and asks two
  processes; every request is answered; the engine that is imported is the one that was
  hashed.
* Verdict: the two implementations say the same of the same run.
* Walks: exit code 0 means every entry passed in this walk, with its receipt;
  the pre-tool hook lets no namesake of a locked file pass.
* Composite: a graph that is accepted runs to its end, a PASS is the PASS of
  every leaf, and the observations list what ran.
* Effects and data plane: an effect reaches the run that caused it; the plane
  is a map, through crashes too.
* Blanks: the bytes the loader executes are the gated ones, and what a blank
  claims of them is so.
* Locking and comparing: the lock of a quiet tree is the tree's, `diff` says
  of it exactly what it compares (less than `judge` does, section 3), and a lock
  that mixes trees passes nothing.
* Contracts: a child never loosens what a parent declared, a migration that
  loses something says so, two validators of one record agree.

## 2. The modules

| Module | Models | Composes |
|---|---|---|
| `Judge` | one or more judgements in one process, step by step | `Approval` (refined) |
| `Approval` | what a judge promises, whoever it is: an abstract specification | |
| `Freeze` | `lock`, `diff` and judgements over one tree that is saved meanwhile | `Judge` |
| `Verdict` | conformance in Python and in Rust, as operators | |
| `Supervisor` | the binary and its two workers | `Verdict`, `Approval` (refined) |
| `IndexWalk` | the four loops over an index, and the hook | |
| `Composite` | cycle search, ranks, execution | |
| `CompositeReference` | what a graph of modules denotes, by recursive functions over it | `Composite` |
| `DataPlane` | what a plane promises: a map and a set of effects | |
| `FilePlane` | the plane on disk, with crashes and reopening | `DataPlane` (refined) |
| `Effects` | nested runs, tasks and their collectors over a plane | `FilePlane` |
| `Blank` | gate, reads and claims of JSON blanks and of artifacts of hosts | |
| `Contracts` | policies, interfaces and their migration, record schemas | `Verdict` |
| `JudgeProofs`, `PromiseProofs` | theorems about `Judge`; about it with `Approval`, and about `Freeze` | the second the first |
| `SupervisorProofs`, `PlaneProofs`, `IndexWalkProofs`, `BlankProofs`, `ContractsProofs`, `CompositeProofs` | theorems about the module named | `PlaneProofs`: `FilePlane`, `Effects` |
| `MC*` | instances for TLC | |

Operators keep the names of the functions they model where they model one
function; PROJECT.json gives the lines of each. Operators introduced as
"Mutant of ..." are plausible mistakes, one for each property; the runs refute
them and nothing else uses them.

### Judge

Each context `x` (a thread or a task) has the locals of its judgement: the
stage `pc[x]`, the lock, the bytes it gated (`src`) and loaded (`code`), the
work lists of its walks (`walk`), the seal in force and the one to restore
(`sealed`, `outer`), the imports still to be executed (`need`), what it holds
(`ran`) and the verdict. The process has `pinned` (`_PINNED_SOURCE`) and
`modules` (`sys.modules`), the world `disk` and `contour`.

| Action | Code |
|---|---|
| `Admit`, `ImportByHost` | `admit_judge` up to the gate; a host's import and `judge_script` |
| `GateCheck`, `GateRead`, `GatePin`, `GateCompare`, `GateRepin` | `source_hash_gate`: look the path up, read, pin, read the pin back and compare, pin again |
| `LoadScript`, `ImportModule`, `ImportFails`, `LoadDone` | `load_script_from_file`, the module-level code and its imports, before any seal |
| `VerifyRuntimePin`, `SkipIncomplete` | `verify_runtime_pin`, three times; `judge_script` without plan, interface or toolchain |
| `BindBody`, `CollectParse`, `CollectHash`, `BindDeps` | `bind_script_to_plan`: the canon, the walk over local imports, the comparison |
| `DynamicImportLeak` | the check for dynamic imports |
| `SealOrigin`, `Discover`, `SealVerify`, `ExecSealed` | `_seal_enter`: find, compare, set the seal, execute helpers |
| `ImportModule`, `ImportFails`, `ReloadModule` at `body` | lazy imports and reloads of the body under `_sealed_import` |
| `CheckConformance` | observation, verdict, the seal restored |
| `Save`, `Unlink`, `Upgrade` | other programs |

There are two entries: `admit` (CLI, through the file gate) and `library` (a
host hands over a callable it imported before). A content is a record with its
imports (local and eager ones), the canon of its body, whether it uses dynamic
imports and how its execution ends; a hash is the content it is a hash of, so
SHA-256 is taken to be injective. A module hash is a pair: the canon of the
body and what the loaded module declares; the first comes from disk or a pin,
the second from the bytes that were executed. What a lock pins of the engine is
a pair too (`Contours`): the files of `RUNTIME_PIN_PATHS`, which an upgrade may
replace, and the minor version of the Python that took the lock, which a process
keeps. `RuntimeOk` asks for the same files and a Python at most one minor away.

### Approval

Clients ask with a request that approves bytes for each part of a tool, and are
answered. `Ask` and `Run` say what may happen in between: approved bytes run, or
nothing does; nothing runs without a request; PASS says the entry ran. `Judge`
maps a context to a client, its lock to the request and what it executed to
what ran; `Supervisor` maps its caller to the only client and, since its second
process starts with nothing, lets `Run` begin again in a fresh process.

### Freeze

`Freeze` is `Judge` with commands between the judgements; a command is a
process of its own, with no pins but those its own gate makes.

| Action | Code |
|---|---|
| `LockBegin`, `DiffBegin` | `cmd_lock` and `cmd_diff` up to the loaded tool; `diff` goes through `source_hash_gate` |
| `CmdParse`, `CmdHash` | `collect_local_dep_hashes` |
| `LockBody`, `LockContour`, `LockWrite` | `lock_for_script`, `lock_toolchain`, `origin_source_hash`: each reads the tree, or the judge's own files, once more |
| `DiffContour`, `DiffBody`, `DiffDeps` | the rows of `diff_lock` |
| `Judging` | the steps of `Judge`, on any lock written so far |
| `Saving` | its `Save`, `Unlink`, `Upgrade` |

`diff_lock` has no row for the Python version, and looks the body up under the
name or the whole contract id of the script (`lock_diff.py:40`). `lock` writes
it under the name or the id's name (`runner.py:109`), and the binding tries all
three keys (`runner.py:33`). So of a script with no name, for which a module
hash is under the id's name only, `diff` never finds it: `Nameless` has the
contracts of such scripts, and `DiffBody` says DRIFT to each.

`dump_script_lock` walks the dependencies a second time for
`dependency_hashes`. Only the supervisor reads that field (`Supervisor` has both
fields, and requests in which they differ), so `Freeze` has one walk.

### Supervisor and Verdict

`pc` is the supervisor's place, `child` the process at work. The engine may be
installed in three places, `EngineRoots` says where one search may find it:
under `ACID_ENGINE_ROOT` if that is set, else as a package, else in the working
directory, and there too when the interpreter that looks for the package fails.
Every read, the pin of the contour and either process searches for itself. (In
`METHOD.md` the order is the code's; `README.md` names the working directory
first.) A request may pin any file of the engine (`Contour`) and must pin those
of `RUNTIME_PIN_PATHS` (`Pinned`); a path that leaves the engine (`Strays`) is a
FAIL. A hash tool may fail (`Digests`). The worker is
`handle` statement by statement: engine modules imported from disk, gate, load,
dynamic imports, collect, seal, body, answer. A content that `fails` raises or
exits when it is executed: as the tool, as a helper while the seal is taken, or
at an import, which may be handled. `WorkerDies` is possible at every
point and stands for an exception, an exit, a kill or an answer that is not one
JSON value. `Conclude` judges with `SupervisorVerdict` against what is
`Required`: the type `run` reported, purity and limit as `identify` reported
them, and for a tool without a limit the request's own. `CheckConformance` is
the Python function on the same observation. A value is a kind; the kinds are
those the two sides can tell apart, among them integers beyond 64 bits, tuples
and subclasses of dict.

### IndexWalk

One walk at a time: `OpenIndex`, then `CheckEntry`, `JudgeEntry` and
`WriteReceipt` per entry and `Summary`. A judgement is one step with any
verdict its entry allows (a PASS only of the locked body, or of bytes pinned
earlier in the same process). `Killed` and exceptions end a walk anywhere. The
hook of an agent (`examples/hooks/pre_tool_use.py`) is a walker that answers one
event: `LookUp` picks the first entry the event names, `AllowOrDeny` binds it.

A receipt records the number of the walk that wrote it, which the file itself
does not: it is how a stale receipt is told from a fresh one.

### Composite

`detect_cycle` is modelled as the search it is (`SearchEdge`, `SearchBack`),
since its colouring is what might be wrong, and compared with the definition of
a cycle. `execute` keeps a stack of frames, one per nested composite. A leaf may raise
out of it: while it is loaded or its helpers are executed (`LeafBreaks`, by
script in `Breaks`), or from its body (`BodyRaises`: what `run_script` does not
catch, an async leaf where a loop runs already). Where the ranks or the nested
frames need more of Python's stack than there is (`Overflows`, more than
`Shallow` deep), a `RecursionError` ends it. An edge is
its position in the list, since a list may have one twice. `Rank` is
`compute_rank`, defined on every node its recursion reaches, which may be nodes
an edge names and the graph does not have; among those `detect_cycle` sees no
cycle, and where they have one (`Endless`) the ranks end in a `RecursionError`.
A PASS is held against what the edges say (`PassIsWhole`): `CompositeReference`
has the places of all leaves and the values of a node, as functions that know no
frames and no order. They are sets of values, so that a node with two
predecessors denotes both of what they lead to, and a graph in which one was
ignored does not agree.

### DataPlane, FilePlane, Effects

`FilePlane` has an action for each step of `store` (`WriteBlob`, `IndexKey`,
`SaveIndex`, `Recorded`), `Load`, `Open` and `Close`; `WriteFails` leaves a
file torn or untouched, `Dies` ends the process between any two steps.
`DataPlane` is a map from keys to values and the last answer. `Effects` puts
nested runs and tasks over it: `current` is the context variable of each task,
copied when a task starts, set and reset by collectors.

### Blank

The gate reads the blank and hashes its target; the loader reads the blank
again, opens the target, executes it and compares claimed hashes, the body's
with a canon taken from disk afterwards. Saves may hit blank or source between
any two reads. An `ArtifactRef` of a host takes the loader's part of that
without the gate.

There are two canons. The one compared with a claim is read from the text of the
file (`Preview`, `canonical_implementation_from_source`): of the first
definition of the entry, with literal defaults, an empty closure, and none at all
(`Absent`, the claim is refused) where there is no `def` or a default is not a
literal. The other is of the function called (`LoadCanon`, `Bind`): its defaults and its
closure, and a text that `inspect` looks up on the disk, any definition of that
name if the bytes have several (`LiveCanon`).

### Contracts

A policy is a function from some fields to values, with `Absent` for `None`.
`Merge`, `DetectConflict` and `Meets` are the three methods of each strategy in
one operator each; `Begin` and `Inherit` resolve a chain from its root as
`resolve_policy` does, `Publish` makes an interface under the effective policy
and plans the migration from the one before, `Check` holds a record against both
validators. `CompareTypes` has the code's last clause, "the name of the one
occurs in that of the other", as a set of pairs.

## 3. What is checked

`tlc -config <run>.cfg <module>.tla` for each run.

| Run | Question | Instance |
|---|---|---|
| `JudgeEdits` (`MCFreeze`) | do gate, binding and seal together let locked bytes only run, whenever the lock was taken; does each fact a lock lacks prevent PASS; do `lock`, `diff` and `judge` agree on a quiet tree; is all of it `Approval`? | tool, helper, helper's helper; the tool in three versions, one of which declares something else, the helper in two, the judge's own files in two, locks of a Python two minors away, a version without a name; locks taken between saves, and given ones that lack a fact; 2 commands, 3 saves |
| `JudgeRelocation` | do judgements end, and is a seal exact, when files come and go, helpers import each other, raise or exit? | complete and incomplete locks, two versions of the judge's files, two Pythons, 2 writes |
| `SupervisorSwap` | is a supervised PASS locked, does the split into three programs check what one would, and does it implement `Approval`? | 2 writes of tool, helpers or engine; the engine in any place; requests whole, lacking, contradictory, with further files of the engine or a path outside it |
| `SupervisorEnds` | is every request answered, and with Python's verdict? | every kind of value, every declared type, tools and requests with and without a limit; a helper that fails; 2 writes, installs or removals |
| `IndexWalks` | does exit code 0 mean that all entries passed with receipts, and does the hook allow the file it is asked about only? | two walks, five walkers, eight indexes, five events, 1 save |
| `Composites` | cycle search, order, completeness and end of executions; what makes one raise | all graphs on three nodes, nested composites; a script that exits as it is loaded, a helper that raises, a body that exits; calls without a canonical plan, or within a running loop |
| `EffectsObserved` | do effects reach their run, and is the plane a map? | two runs, two tasks, two values, crashes |
| `Blanks` | are executed bytes of a blank the gated ones, and are its claims so? | two judgements, blank and source saved between reads; sources with a computed default, two definitions of one name, a closure, no `def` |
| `Contracts` | does a chain keep every policy in it and invent none; does a plan of migration tell; do validators agree? | two policies below a root, four policies, three interfaces, nested schemas |

Three runs end in a counterexample to something the repository says:

* `SharedName`: `CHANGELOG.md` says that two tools with a `helper.py` each
  cannot PASS each other's body. Under the seal that is so, and proved
  (`HelperTheorem`, for any number of contexts at once). An import at module
  level of the tool is executed before the seal and takes `helper` from
  `sys.modules`; the second of two tools binds the first one's.
* `HelperImportsTool`: a helper that imports the tool back puts the tool's file
  into the lock's dependencies; the seal leaves the tool's own file out and
  reports a drift that did not happen.
* `ReceiptRace`: a receipt's `body_hash` is computed after the run; a save in
  between makes a PASS receipt name a body that did not run.

### Conditions that TLC shows to be needed

`HelperBytesApproved`, `PassHasFacts` and `IsApproval` are checked for tools
without imports at module level, on trees where files are replaced but do not
vanish, and proved under the assumption `Steady` that says so. Without either
condition they do not hold: a tool that imports while it loads is `SharedName`; a
tool that vanishes between binding and seal is sealed as a tool without
dependencies (`local_deps.py:457`) and its helpers come from disk.
`ToolBytesApproved` needs that no two threads gate one file at once, since
"is it pinned, read, compare, pin" is not atomic. `SealScoped` is checked where helpers
raise and exit (`JudgeRelocation`); its one exception is a helper that exits (`SystemExit` is no
`Exception`, and leaves the context's seal set).

`QuietIsExact` says what `diff` compares: source, body, dependencies and engine
files. Two ways in which that is not the judge's comparison are in its statement
and reached by the run: a lock of a Python two minors away is MATCH to `diff` and refused
by `judge`, and the fresh lock of a script without a name is DRIFT to `diff`
and judged.

`PassIsOfOneTree` leaves out the canon of the body. `inspect` takes it from disk,
when a lock is made and when the binding checks it: `lock` loads one version of
a tool, the tool is saved over while `content_hash` is read and saved back
before `source_hash` is. The lock then has the first version's source with the
second one's canon, and a judgement with the same two saves between load and
binding passes it. Nothing but locked bytes runs in it, yet the hash of the body
is not that of the function that was called, which `runner.py:46` says it is.

The contour is hashed and imported later; `TRUST.md` names whoever can write it
as trusted. A store that fails half-way has happened without its effect being
recorded, which the docstring of `data_plane.py` accepts; `IsDataPlane` is a
promise for as long as no write is cut short.

`PinnedIsImported` is stated for an engine that is to be found in one way: where
a package and a working directory both hold one, a search that fails once and
then succeeds hashes the one and imports the other.

`VerdictIsConformance` is stated with one more answer: a request may carry a
limit of its own, which counts for a tool without one (`lib.rs:186`), so the
supervisor may FAIL on `max_latency_ms` what `check_conformance`, which knows
of no request, passes. It is stated but for three kinds of values. A tuple and an
instance of a subclass of dict fail the type check in Python and pass it in the
supervisor, because JSON makes a list and an object of them. An integer beyond
64 bits passes in Python and fails in the supervisor.

`SoundNeverRaises` leaves two ways to raise on a sound graph, one per
cause: a graph too deep for the stack (`Deep`), and the leaf at hand
(`AtLeaf`), by its load, its helpers, a body that exits or a loop within a loop.

`NoFalseRefusal` of a blank has an exception the code has: a true hash of the body is
refused on an untouched file if the text does not show it
(`implementation_canon.py:83-97`), that is where a default is computed, the
function has a closure, the name is defined twice, or is no `def`. The property
says that these are the only ones: of a blank whose claims and lock are those of the
file, a refusal is for the body hash if and only if the preview is not the canon.

Of the contracts, the exemptions the properties name are the code's ways:

* `allowed_domains`: `merge` narrows the set, `compare_provided_required` asks
  the provider for all of it; and from a parent without the field the result is
  always the empty list, as `None` counts as one.
* A string without a rank is declared like any other and silently dropped.
* Defaults fill what is `None` after the merge, so they never count for a
  boolean or a set, and once filled in they bind the children as if declared.
* `list` to `list[int]` counts as compatible because the one name occurs in the
  other, while a judgement SKIPs on `list[int]`; `NoSilentBreak` asks of new
  types that the judge knows them. A step of the constraints is always
  reversible.
* In `json_schema` a `bool` is an `int`, and tags it does not know pass;
  `RecordSchema` fills in defaults unchecked and drops those of a record inside.

### Bounds

* Edits (`MaxEdits`): a violation needs a save between two reads of one file;
  the code reads a file at most four times in a judgement (gate, load, walk of
  the binding, walk of the seal) and the last comparison is against the lock,
  so three saves cover every choice of reads that differ.
* Two judgements of a process (`MaxRuns`): pins are written once and never
  change, so a third judgement meets what the second did. Two commands or
  judgements (`MaxCommands`): a lock and what is done with it; commands share
  the files and the locks only.
* Two policies below a root (`MaxChain`): a merge reads the effective policy and
  the next one, and the second sees what the first made of the defaults.
  Schemas nest once, as deep as `ValidateFlat` unfolds them.
* Names: tool, helper and helper's helper are the shortest chain in which the
  walk has to go beyond what the tool itself imports, and the shortest in which
  a helper can be in a cycle that leaves the tool out.
* `EffectsObserved` has one key: entries of other keys are untouched by every
  action, and the theorem covers any set of keys. Deaths and reopening are not
  bounded, the number of runs is.
* `Composites` has every set of edges on three nodes (fan-out, fan-in, chains,
  loops on a node, cycles of two and three) and a list of graphs by hand: nested
  ones (too deep for `Shallow` = 4 among them), doubled and dangling edges, missing modules and outputs, cycles inside,
  cycles among nodes that are not in the graph.
* `IndexWalks` has two entries: what matters of a loop is an entry and another.

Deadlock is not checked: programs end. An index file that is torn by a crash
makes the plane unopenable for good, as in the code.

### Fairness

Only the program's own steps are fair: the judge's (`JudgementEnds`), the
supervisor's and its workers' (`Answered`), the composite's (`ExecuteEnds`).
Bodies and helpers are taken to end, since nothing in the code stops one that
does not: the supervisor's `wait_with_output` has no timeout. Writes of other
programs, crashes and deaths are never fair; the liveness properties hold
because walks only ever add files they have not seen, not because edits cease.

## 4. What is proved

With TLAPS, for every value of the constants that satisfies the modules'
assumptions (`LocksAssumption`, `SupervisorAssumption`, ... : types, and that
the values standing for "nothing" are no others).

| Module | Theorem | Says | Assuming |
|---|---|---|---|
| `JudgeProofs` | `TypeTheorem` | `TypeOK`; `TypeCorrect` adds that a context past the load has bytes | - |
| | `SealTheorem` | `SealedIsLocked`: helpers are executed from a seal that is exactly the lock's dependencies | - |
| | `GateTheorem`, `PinTheorem` | `ToolBytesApproved`, `PinStable` | `Distinct` |
| | `HelperTheorem` | `HelperBytesApproved` | `Distinct`, `Steady` |
| | `RefusalTheorem` | `NoFalseRefusal`: an untouched tree that agrees with its lock is not refused | `Forward` |
| `PromiseProofs` | `PromiseTheorem` | `IsApproval`: `Judge` implements `Approval` | `Distinct`, `Steady` |
| | `FactsTheorem` | `PassHasFacts` | `Distinct`, `Steady` |
| | `ScopeTheorem` | `SealScoped`: no seal outlives its judgement, unless a helper exits | - |
| | `FreezeJudges` | `FreezeSpec => Spec`: all of the above holds while locks are taken and compared | - |
| | `OneTreeTheorem` | `PassIsOfOneTree` | `Distinct`, `Steady` |
| | `ExactTheorem` | `QuietIsExact`: on a quiet tree `lock` writes what one instant would, and `diff` matches what agrees in the four things it compares, if the script has a name | - |
| `SupervisorProofs` | `SupervisorTypeTheorem`, `BindTheorem` | `TypeOK`; `BodyAfterBind`: the body runs after `identify` answered the locked hash only, as locked bytes under a locked seal | - |
| | `ConformanceTheorem` | `VerdictIsConformance`: the two verdicts agree but for what section 3 names, the request's limit included | - (its own premises) |
| | `ImportTheorem`, `TreeTheorem` | `PinnedIsImported`, `StillTreeAgrees` | - (their own premises) |
| | `LockTheorem`, `SupervisorPromise` | `PassIsLocked`; `IsApproval` | the module's own `Steady` |
| | `FreshTheorem` | `NoFalseRefusal`: on a still tree a request it agrees with is not refused by a hash | `Outward` |
| `IndexWalkProofs` | `WalkTypeTheorem`, `ZeroTheorem`, `ReceiptTheorem`, `HookTheorem` | `TypeOK`, `ZeroMeansAllPass`, `GreenHasReceipts`, `AllowIsForNamed` | - |
| `BlankProofs` | `BlankTypeTheorem`, `BlankTheorem`, `ClaimsTheorem` | `TypeOK`, `BlankBytesApproved`, `ClaimsHold` | - |
| | `QuietTheorem` | `NoFalseRefusal`: of untouched files that agree with claims and lock, exactly for a body hash their text does not show | - |
| `CompositeProofs` | `CompositeTypeTheorem`, `BodiesBoundTheorem`, `ObservationsTheorem` | `TypeOK`, `BodiesBound`, `ObservationsTellAll`, for nesting of any depth | - |
| | `CycleTheorem`, `SoundTheorem` | `CycleIsExact`, for graphs of any size; `SoundNeverRaises`, for those any size of stack holds | - |
| | `WholeTheorem` | `PassIsWhole`: every leaf ran once and the data is what the edges lead to | - |
| | `RankDescends`, `FirstIsReady` | the ranks exist, are numbers, and grow along every edge; the first node left has no predecessor left | the recursion ends |
| `PlaneProofs` | `FilePlaneTheorem`, `EffectsTheorem` | `FilePlane` implements `DataPlane` for as long as no write is cut short; so does the plane under `Effects` | - |
| | `CollectorTheorem`, `PurityTheorem` | `EffectsAreOwn`, `PurePassStoredNothing` | - |
| `ContractsProofs` | `SubstitutableTheorem`, `NothingInventedTheorem` | `Substitutable`, `NothingInvented`, for chains of any length | - |
| | `MigrationTheorem` | `NoSilentBreak` | - |
| | `AgreementTheorem`, `FillingTheorem` | `ValidatorsAgree`, `FillIsStable`, for all schemas and records | - |

`Distinct`: no two contexts judge one tool's file. `Steady` of the judge: files
do not come and go, local imports are inside functions, the judge is entered by
its CLI, no file imports a tool, and a helper the tool's directory lacks is not
found elsewhere on the path. `Steady` of the supervisor asks for less, since a
worker is a fresh process: only where the tool's directory is on the worker's
path must files stay, be imported inside functions and not import the tool.
These are the conditions of section 3; TLC refutes the statements without them.

`Forward`: no lock names its own tool's file among its dependencies; that is what
`HelperImportsTool` shows to be needed. `Outward`: no tool that is asked for
imports its own file. A worker counts that file among the local imports, so
such a tool is refused without a lock for it, and with one the seal, which
leaves the tool's file out, reports a drift: the same fault of the code, from
the other side. A helper may import the tool back under `Outward`; what is then
excused is the lock that names the tool.

### The arguments

The invariants are not inductive by themselves.

* Seal: the strengthening says, of each stage, what is already settled: while
  helpers are executed the seal in force is the one that was compared; during
  discovery what was found was read from a file; a judgement that left has no
  seal. Other contexts leave all of that alone (`OthersUnchanged`), since the
  seal is a context variable.
* Gate (`GateInv`): the bytes between the read and the pin match the lock, and
  a pinned file holds the bytes some gate compared.
* Helpers (`HelperInv`): a file exists if and only if it has versions, so what a
  walk has found and has yet to visit is closed under local imports, so the
  seal has every name the body can reach, and an import never gets past it.
* Promise: what has run is part of what was asked. Each step of `Judge` is
  mapped to `Ask`, `Run` or a stutter, one lemma per group of steps; the
  invariants above give that what runs is approved.
* Facts and one tree: by the stage, what has been compared already. The binding
  compares the declaration of the bytes the gate let through; the seal compares
  dependencies that were read through the same pins.
* Supervisor: `OrderInv` carries what `identify` answered into the second
  process; `SafeInv` is the helpers' argument once more, within one process.
  The declaration that came with `identify` and the type that comes with `run`
  are of the same locked bytes (`VerdictInv`), so the verdicts need comparing
  kind by kind only. Where nothing is saved, the places the root may be asked
  for are one place (`PinInv`), and what the walk has read and has yet to read
  is within every set closed under imports, and is closed in the end
  (`StillInv`): it is the least one, which is how `Reachable` is defined.
* No refusal (`UntouchedInv`): while nothing is saved, a pin is what it pins and
  the code is the tool's file; what a walk has hashed is on the disk, what it has
  yet to hash is reached from the tool, and what is reached is one of the two
  or lies behind a file still open (`CollectOf`, `DiscoverOf`). A walk that is over has therefore
  found what is reached, the least set closed under imports, and the walk of the
  lock and the walk of the seal, which differ in their order and in the tool's own file, end
  alike. The lemmas on both walks are shared with `Freeze` (`QuietInv`: each
  reading a command has behind it is of the tree as it is). In the supervisor
  (`RefusalInv`) a process dies of an accident or for what entitles the supervisor
  to refuse, stage by stage; that both processes answer one canon makes the second comparison hold.
* Walks: as long as the counter is zero everything behind the loop is decided
  well and has its receipt (`BehindInv`), and a receipt written later goes to
  another file, if files are not shared. Every way to skip an entry is one lemma
  (`SkipInv`): it counts, or ends the walk with exit code 1. For the hook,
  `lookup` settles that the entry is that of the file the event names.
* Blanks (`GateInv`, `ClaimInv`): what the gate pinned is what the loader reads,
  and each step of the loader leaves behind what it compared. Where nothing is saved
  (`QuietInv`) each comparison is of the file with a fact about that file, and of two canons of it
  only the preview may differ from the one claimed. The defaults and
  the closure in a live canon are the function's own, whichever text was on the
  disk (`LiveCanon`); that is why `ClaimsHold` can speak of them.
* Composite (`Good`, for every frame): the black nodes are closed under edges and
  none of them is on a circle; the gray ones are a path along edges, and an edge
  of theirs already taken leads to a black node or to the next gray one. So a
  search that ends has coloured all nodes black and there is no cycle, and an
  edge back to a gray node closes a walk. That ranks exist is an argument by
  least sets, since the library's induction theorems cannot be used: of the sets
  of visited nodes outside of which ranks exist a smallest one is empty, or it
  would have a node whose predecessors all have ranks. A finite set in which
  every node has a predecessor has a subset in which every node has a successor,
  so where there is no cycle the first node left has none left before it, and
  its input is there. What else can raise at such a node is the leaf itself or the
  stack (`RaiseFrame`).
* Composite, a PASS (`WholeInv`): what ran is exactly the leaves below the nodes
  that are done in some frame, each once, and below a node left nothing ran but
  what the frame within it has done; the output of a node that is done is the
  one value it denotes; each frame is the execution of a node left in the frame
  around it, with what that node is given as its input. Only the equations of
  `Leaves` and `Denotes` are used. That functions satisfying them exist, even
  where a composite contains itself, is Knaster and Tarski's argument
  (`FixedPoint`), which their being sets makes possible.
* Plane (`PlaneInv`): the index in memory and the index on disk differ only
  between the second and the third step of a store, and then by the key being
  stored, whose blob has the new value from the first step on. The refinement
  mapping reads the map through the index in memory while the plane is open and
  through the file while it is not.
* Effects: the context variable of a task, in every copy of it, names the
  innermost run the task is inside of, and the token of each collector the run
  around it (`ContextInv`, `RunInv`), so an effect is recorded by the collector
  of the run that stored (`OwnInv`).
* Contracts (`BoundInv`): the effective value bounds every declared one, field
  by field; one lemma per strategy says that a merge keeps what either side
  bounded, and that what meets both meets the merge. A plan is that of the two
  interfaces it was made from (`PlanInv`), no value of which is `None`.

Only model-checked: all liveness (`JudgementEnds`, `Answered`, `ExecuteEnds`;
fairness and ENABLED are beyond the prover). `TypeOK` of `Effects` and `Contracts` describes their variables
and is neither; that of `Composite` is proved and not part of a run.

## 5. What is left out

* In `Judge`: the order in which a walk takes files is any; files always parse;
  package-relative imports; links; more than one entry of `sys.path`;
  `replay_run`, which is the same gate with an expected output; a file that
  vanishes and comes back within one hashing step; async entries.
* In `Supervisor`: name and contract id as alternative keys of a module hash
  (one key, `body`); single engine files that are unlinked; an engine on the
  caller's own `PYTHONPATH`; roots relative to a directory the two sides do not
  share (the driver passes its own, absolute).
* In `Freeze`: the second walk of `dump_script_lock` (above); signing, and what
  `diff` prints; locks of composites; a command that is killed writes nothing.
* In `IndexWalk`: the index is read once, the hook reads it twice; one walk at a
  time.
* In `Verdict`: record schemas, semantic rules and invariants, options of
  `check_conformance` that no judgement uses.
* In `Contracts`: the predicates besides `json_schema`, one comparison each; the
  text of a migration; records nested deeper than once. No judgement reads an
  effective policy: what the module says is of the library, not of a PASS.
* In `Composite`: the asynchronous twin, and the gate of a leaf beyond its
  outcomes. `Shallow` counts levels, not Python's frames.
* In `Effects`: threads, which would not copy the context variable; a task that
  outlives its run records into a collector that has ended; several planes
  over one directory overwrite each other's index.
* In `Blank`: dependencies, contour and interface are taken to match; validity
  of the JSON.

### Not modelled

PROJECT.json names each part. Canonical serialisation and SHA-256 are values
here, equal exactly when what they stand for is: how source text is normalised
(`implementation_canon.py`) is a matter of strings, not of states. Signatures
and evidence are calls of an external key and text over one file; containers
and observations are immutable records whose deciding fields are state of other
modules; pipelines, the external runner, adapters, level 0 and level 4 are not
reached from a judgement; the atomic storage example is a tool to be judged.

## 6. Plan

1. `CollectorTheorem` for several planes.
2. Two walks at once over one directory of receipts; the hook's second reading
   of the index.
3. The asynchronous composite, whose leaves interleave with other tasks.
