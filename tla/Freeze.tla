------------------------------- MODULE Freeze -------------------------------
(***************************************************************************)
(* How a lock comes to be: `acid-judge lock` reads the tree in several     *)
(* passes and writes a plan.lock, `acid-judge diff` compares one with the  *)
(* tree (acid_engine/cli.py, lock_diff.py, level3/script/runner.py), other *)
(* programs save files between any two reads, and Judge then judges what   *)
(* was written.  A command is a process of its own: nothing is pinned when *)
(* it starts.  Commands and judgements run one after another; they share   *)
(* files only, which the other programs change meanwhile.                  *)
(***************************************************************************)
EXTENDS Judge

CONSTANTS
  Given,        \* the locks that were there before
  Nameless,     \* declarations of a ScriptModule without a name
  MaxCommands   \* bound: commands and judgements together

ASSUME FreezeAssumption ==
  /\ Given \subseteq Locks
  /\ Nameless \subseteq Contracts
  /\ MaxCommands \in Nat

VARIABLES
  written,      \* the lock files there are
  cmd,          \* the command under way
  last,         \* what the last command printed
  quiet,        \* history: nothing was written since that command began
  commands      \* commands and judgements begun

freezeVars == <<written, cmd, last, quiet, commands>>
allVars == <<vars, freezeVars>>

(* file and lock: the tool and, for diff, the lock on the command line.    *)
NoCommand == [is |-> "none", at |-> "idle", file |-> CHOOSE f \in Files : TRUE,
              lock |-> CHOOSE l \in Locks : TRUE,
              code |-> Absent, walk |-> NoWalk, body |-> Absent,
              contour |-> Absent, match |-> TRUE]
Nothing == [is |-> "none", lock |-> CHOOSE l \in Locks : TRUE, match |-> FALSE]

FreezeInit ==
  /\ Init
  /\ written = Given
  /\ cmd = NoCommand
  /\ last = Nothing
  /\ quiet = FALSE
  /\ commands = 0

-----------------------------------------------------------------------------
CmdFile(n) == <<cmd.file[1], n>>

(* read_source_bytes in a process of its own: diff has passed the gate,    *)
(* which pinned the tool's bytes; lock has pinned nothing.                 *)
CmdRead(n) ==
  IF cmd.is = "diff" /\ n = cmd.file[2] THEN cmd.code ELSE disk[CmdFile(n)]

Unfinished == UNCHANGED <<vars, written, last, quiet, commands>>

Exit(printed) == cmd' = NoCommand /\ last' = printed

(* A command loads the tool from disk, diff behind the gate; one that      *)
(* cannot load it, or fails the gate, prints so and ends.                  *)
Start(is, f, l) ==
  LET tool == disk[f] IN
  /\ cmd.is = "none"
  /\ \A x \in Contexts : pc[x] = "idle"
  /\ commands < MaxCommands
  /\ commands' = commands + 1
  /\ quiet' = TRUE
  /\ last' = Nothing
  /\ \/ /\ tool # Absent
        /\ tool.exec = "ok"
        /\ is = "diff" => l.source = tool
        /\ cmd' = [NoCommand EXCEPT !.is = is, !.file = f, !.lock = l,
                     !.code = tool,
                     !.at = IF is = "lock" THEN "walk" ELSE "contour",
                     !.walk.open = IF is = "lock" THEN {f[2]} ELSE {}]
     \/ /\ \/ tool = Absent
           \/ tool.exec # "ok" \/ tool.eager # {}
           \/ is = "diff" /\ l.source # tool
        /\ cmd' = NoCommand
  /\ UNCHANGED <<vars, written>>

(* cmd_lock. *)
LockBegin(f) == Start("lock", f, NoCommand.lock)

(* cmd_diff: source_hash_gate first, then the load. *)
DiffBegin(l) == l \in written /\ Start("diff", <<l.dir, l.tool>>, l)

(* collect_local_dep_hashes, as in Judge. *)
CmdParse(n) ==
  LET w == cmd.walk
      c == CmdRead(n)
      found == IF disk[CmdFile(n)] = Absent THEN {}
               ELSE {m \in c.imports : /\ disk[CmdFile(m)] # Absent
                                       /\ w.got[m] = Absent}
  IN
  /\ cmd.at = "walk"
  /\ n \in w.open
  /\ cmd' = [cmd EXCEPT !.walk.todo = @ \cup found, !.walk.open = @ \ {n}]
  /\ Unfinished

CmdHash(n) ==
  LET c == CmdRead(n) IN
  /\ cmd.at = "walk"
  /\ n \in cmd.walk.todo
  /\ IF c = Absent
       THEN /\ Exit(Nothing)
            /\ UNCHANGED <<vars, written, quiet, commands>>
       ELSE /\ cmd' = [cmd EXCEPT
                 !.walk.todo = @ \ {n}, !.walk.got[n] = c,
                 !.walk.open = @ \cup IF n = cmd.file[2] THEN {} ELSE {n}]
            /\ Unfinished

Walked == cmd.at = "walk" /\ cmd.walk.todo = {} /\ cmd.walk.open = {}

(* ScriptModule.content_hash: the declaration that was loaded, the canon   *)
(* of the body as it stands on disk.                                       *)
CmdBody ==
  IF disk[cmd.file] = Absent THEN Absent
  ELSE <<disk[cmd.file].canon, cmd.code.contract>>

(* lock_for_script: the module hash, after the dependencies. *)
LockBody ==
  /\ cmd.is = "lock"
  /\ Walked
  /\ cmd' = [cmd EXCEPT !.at = "contour", !.body = CmdBody]
  /\ Unfinished

(* lock_toolchain: the engine's files, and the interpreter of whoever      *)
(* takes the lock.                                                         *)
LockContour ==
  /\ cmd.is = "lock"
  /\ cmd.at = "contour"
  /\ \E p \in Pythons :
       cmd' = [cmd EXCEPT !.at = "source",
                 !.contour = [files |-> contour, python |-> p]]
  /\ Unfinished

(* What dump_script_lock returns: hashes of up to five different readings. *)
Dumped == [dir |-> cmd.file[1], tool |-> cmd.file[2],
           source |-> disk[cmd.file], body |-> cmd.body, deps |-> cmd.walk.got,
           contour |-> cmd.contour, complete |-> TRUE, iface |-> TRUE,
           dynamic |-> FALSE]

(* origin_source_hash, the last reading, and the lock is written. *)
LockWrite ==
  /\ cmd.at = "source"
  /\ written' = written \cup {Dumped}
  /\ Exit([is |-> "lock", lock |-> Dumped, match |-> TRUE])
  /\ UNCHANGED <<vars, quiet, commands>>

(* diff_lock: rows for the canon kind, worker.py and the runtime files,    *)
(* then for the body, then for each dependency.  No row is for the Python  *)
(* version that verify_runtime_pin compares.                               *)
SameFiles(l) == l.contour # Absent /\ l.contour.files = contour

DiffContour ==
  /\ cmd.is = "diff"
  /\ cmd.at = "contour"
  /\ cmd' = [cmd EXCEPT !.at = "body",
               !.match = SameFiles(cmd.lock) /\ disk[cmd.file] # Absent]
  /\ Unfinished

(* The locked body is looked up under the name of the script or under the  *)
(* whole contract id.  lock_for_script writes it, for want of a name,      *)
(* under the last part of the id, where only the judge looks.              *)
DiffBody ==
  /\ cmd.at = "body"
  /\ cmd' = [cmd EXCEPT !.at = "walk", !.walk.open = {cmd.file[2]},
               !.match = /\ @
                         /\ cmd.code.contract \notin Nameless
                         /\ CmdBody # Absent /\ CmdBody = cmd.lock.body]
  /\ Unfinished

(* Mutant of DiffDeps: a dependency that the lock has and the tree no      *)
(* longer reaches has no row.                                              *)
DiffLiveDeps ==
  /\ cmd.is = "diff"
  /\ Walked
  /\ Exit([is |-> "diff", lock |-> cmd.lock,
           match |-> cmd.match /\ \A n \in Names :
             cmd.walk.got[n] \in {Absent, cmd.lock.deps[n]}])
  /\ UNCHANGED <<vars, written, quiet, commands>>

DiffDeps ==
  /\ cmd.is = "diff"
  /\ Walked
  /\ Exit([is |-> "diff", lock |-> cmd.lock,
           match |-> cmd.match /\ cmd.walk.got = cmd.lock.deps])
  /\ UNCHANGED <<vars, written, quiet, commands>>

Command ==
  \/ \E f \in {<<l.dir, l.tool>> : l \in Locks} : LockBegin(f)
  \/ \E l \in Locks : DiffBegin(l)
  \/ \E n \in Names : CmdParse(n) \/ CmdHash(n)
  \/ LockBody \/ LockContour \/ LockWrite
  \/ DiffContour \/ DiffBody \/ DiffDeps

-----------------------------------------------------------------------------
(* Between commands, judgements of locks that have been written. *)
JudgeBegins ==
  /\ commands < MaxCommands
  /\ commands' = commands + 1
  /\ \E x \in Contexts : \E l \in written : Admit(x, l) \/ ImportByHost(x, l)

JudgeGoesOn ==
  /\ commands' = commands
  /\ \E x \in Contexts : \/ Continue(x)
                        \/ \E n \in Names : ReloadModule(x, n)

Judging ==
  /\ cmd.is = "none"
  /\ JudgeBegins \/ JudgeGoesOn
  /\ last' = Nothing
  /\ UNCHANGED <<written, cmd, quiet>>

(* Other programs write at any time. *)
Saving ==
  /\ Environment
  /\ quiet' = FALSE
  /\ UNCHANGED <<written, cmd, last, commands>>

FreezeNext == Command \/ Judging \/ Saving

FreezeSpec == FreezeInit /\ [][FreezeNext]_allVars

-----------------------------------------------------------------------------
(* Properties *)

(* The tree a lock describes, if it describes one: its own bytes under the *)
(* names it has, any file that may be there under the names it lacks.      *)
TreeOf(l) ==
  [f \in Files |->
     IF f = <<l.dir, l.tool>> THEN l.source
     ELSE IF f[1] = l.dir /\ l.deps[f[2]] # Absent THEN l.deps[f[2]]
     ELSE IF Saves[f] = {} THEN Absent
     ELSE CHOOSE c \in Saves[f] : TRUE]

(* A lock is several readings of a tree that may be saved between any two  *)
(* of them, so the one on disk may describe no tree: the declaration of    *)
(* one version of the tool, the source hash of another, a helper with the  *)
(* imports of its successor (lock_for_script, dump_script_lock).  Such a   *)
(* lock never passes: under a PASS of the CLI its source hash, declaration *)
(* and dependencies are those of one tree (source_hash_gate, _seal_enter). *)
(* The canon of the body is exempt: inspect takes it from disk both times. *)
PassIsOfOneTree ==
  \A x \in Contexts :
    LET l == lock[x]
        whole == DumpLock(l.dir, l.tool, TreeOf(l), l.contour)
    IN  entry[x] = "admit" /\ verdict[x].status = "PASS" =>
          l.body[2] = whole.body[2] /\ l.deps = whole.deps

(* As long as nothing is saved, lock writes the lock of the tree, whole,   *)
(* with the Python it runs on, and diff says MATCH for a lock if and only  *)
(* if source, body, dependencies and engine files are those lock would     *)
(* write and the script has a name.  Where the lock is whole that is the   *)
(* judge's own comparison but for two things: diff says nothing of the     *)
(* Python version, and never finds the body of a script without a name,    *)
(* whose fresh lock is DRIFT to diff and binds for the judge (cmd_lock,    *)
(* diff_lock against verify_runtime_pin and bind_script_to_plan).          *)
QuietIsExact ==
  LET l == last.lock
      live == DumpLock(l.dir, l.tool, disk, l.contour)
  IN
  /\ quiet /\ last.is = "lock" => l = live /\ SameFiles(l)
  /\ quiet /\ last.is = "diff" =>
       (last.match <=> /\ l.source = live.source /\ l.body = live.body
                       /\ l.deps = live.deps /\ SameFiles(l)
                       /\ disk[<<l.dir, l.tool>>].contract \notin Nameless)
=============================================================================
