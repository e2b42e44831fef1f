--------------------------- MODULE SettingsManager ---------------------------
(***************************************************************************)
(* The settings (agent-host/src/settings-manager.ts): processes that share *)
(* settings.json, each with the settings it last loaded, the fields it has *)
(* modified since, and a queue of writes.  A write takes the file's lock   *)
(* and puts the modified fields into what the file then holds.  The global *)
(* scope is modelled; the project scope is the same code on its own state. *)
(***************************************************************************)
EXTENDS Naturals, Integers, Sequences, SequencesExt

CONSTANTS
  Processes,
  Fields,
  MaxSets,   \* bound: values ever given to a field
  MaxQueue   \* bound: writes queued in a process

ASSUME BoundAssumption == MaxSets \in Nat /\ MaxQueue \in Nat \ {0}

VARIABLES
  file,      \* settings.json: "missing", "json", or "torn", which does not parse
  saved,     \* the settings in it
  orphaned,  \* a killed process left its lock
  up,        \* the processes that run
  settings,  \* globalSettings of each process
  loadError, \* the processes with a globalSettingsLoadError
  modified,  \* modifiedFields
  writeQueue,\* the tasks of writeQueue, each with its snapshots
  reloading, \* the tasks a reload still waits for, NotReloading for no reload
  creating,  \* what a process is about to write to a file it found missing
  sets,      \* values 1..sets were given
  changed,   \* history: fields a process has set since it loaded them
  unsaved,   \* history: what it has set and no write of it has put into the file
  dropped    \* history: those of these changes that it gave up

vars == <<file, saved, orphaned, up, settings, loadError, modified, writeQueue, reloading, creating,
          sets, changed, unsaved, dropped>>
fileVars == <<file, saved, orphaned>>
histVars == <<sets, changed, unsaved, dropped>>

NotReloading == -1
Settings == [Fields -> 0..MaxSets]
Changes == [field : Fields, value : 1..MaxSets]
Defaults == [f \in Fields |-> 0]
Task == [fields : SUBSET Fields, values : Settings]

(* A task will write a change.                                             *)
Holds(t, u) == u.field \in t.fields /\ t.values[u.field] = u.value
Queued(q, u) == \E t \in ToSet(q) : Holds(t, u)

(* The process is between two synchronous sections.                        *)
Ready(p) == p \in up /\ creating[p] = <<>>

Init ==
  /\ file \in {"missing", "json"} /\ saved = Defaults
  /\ orphaned = FALSE
  /\ up = {} /\ loadError = {}
  /\ settings = [p \in Processes |-> Defaults]
  /\ modified = [p \in Processes |-> {}]
  /\ writeQueue = [p \in Processes |-> <<>>]
  /\ reloading = [p \in Processes |-> NotReloading]
  /\ creating = [p \in Processes |-> <<>>]
  /\ sets = 0
  /\ changed = [p \in Processes |-> {}]
  /\ unsaved = [p \in Processes |-> {}]
  /\ dropped = [p \in Processes |-> {}]
-----------------------------------------------------------------------------
(* loadFromStorage: a missing file is read without a lock; a lock that is  *)
(* held for all ten attempts is an error like a file that does not parse.  *)
Loads == file = "missing" \/ (file = "json" /\ ~orphaned)

Start(p) ==
  /\ p \notin up /\ up' = up \cup {p}
  /\ settings' = [settings EXCEPT ![p] = IF Loads THEN saved ELSE Defaults]
  /\ loadError' = IF Loads THEN loadError \ {p} ELSE loadError \cup {p}
  /\ UNCHANGED <<fileVars, modified, writeQueue, reloading, creating, histVars>>

(* A setter with markModified and save: after the file could not be loaded *)
(* nothing is queued, and the change is given up.                          *)
Set(p, f) ==
  /\ Ready(p)
  /\ sets < MaxSets /\ Len(writeQueue[p]) < MaxQueue
  /\ sets' = sets + 1
  /\ settings' = [settings EXCEPT ![p][f] = sets']
  /\ modified' = [modified EXCEPT ![p] = @ \cup {f}]
  /\ LET change == [field |-> f, value |-> sets']
         others(U) == {u \in U : u.field # f}
     IN  /\ unsaved' = [unsaved EXCEPT ![p] = others(@) \cup {change}]
         /\ dropped' = [dropped EXCEPT ![p] = others(@) \cup (IF p \in loadError THEN {change} ELSE {})]
  /\ IF p \in loadError
       THEN UNCHANGED <<writeQueue, changed>>
       ELSE /\ writeQueue' = [writeQueue EXCEPT ![p] = Append(@, [fields |-> modified'[p], values |-> settings'[p]])]
            /\ changed' = [changed EXCEPT ![p] = @ \cup {f}]
  /\ UNCHANGED <<fileVars, up, loadError, reloading, creating>>

(* Mutant: the file gets every field of the snapshot. *)
MergedAll(base, t) == t.values

(* persistScopedSettings: the modified fields over those of the file.      *)
Merged(base, t) == [f \in Fields |-> IF f \in t.fields THEN t.values[f] ELSE base[f]]

(* Mutant: the marks are cleared whatever became of the write. *)
MarksAfterCleared(p, ok) == {}

(* clearModifiedScope clears all marks, those set since the task was made  *)
(* included; a task that fails leaves them for the next one.               *)
MarksAfter(p, ok) == IF ok THEN {} ELSE modified[p]

(* A task of the queue has ended, and the reload that waits for it counts: *)
(* a rejected one is caught, and the next one follows.                     *)
(* What a failed task leaves to no mark and to no later task is given up:  *)
(* an earlier task, or a reload, has cleared its marks.                    *)
TaskEnds(p, ok) ==
  LET left == {u \in unsaved[p] : u.field \notin modified[p] /\ ~Queued(writeQueue'[p], u)}
  IN  /\ writeQueue' = [writeQueue EXCEPT ![p] = Tail(@)]
      /\ modified' = [modified EXCEPT ![p] = MarksAfter(p, ok)]
      /\ reloading' = IF reloading[p] > 0 THEN [reloading EXCEPT ![p] = @ - 1] ELSE reloading
      /\ unsaved' = IF ok THEN [unsaved EXCEPT ![p] = {u \in @ : saved'[u.field] # u.value}] ELSE unsaved
      /\ dropped' = [dropped EXCEPT ![p] = IF ok THEN @ \cap unsaved'[p] ELSE @ \cup left]

(* The next task, when no reload is about to continue.                     *)
MayWrite(p) == Ready(p) /\ writeQueue[p] # <<>> /\ reloading[p] # 0

(* withLock on a file that exists.                                         *)
Write(p) ==
  /\ MayWrite(p) /\ file = "json" /\ ~orphaned
  /\ saved' = Merged(saved, Head(writeQueue[p]))
  /\ TaskEnds(p, TRUE)
  /\ UNCHANGED <<file, orphaned, up, settings, loadError, creating, sets, changed>>

(* What is left of a file whose writing was cut short: nothing, which reads*)
(* as no settings, or a part.                                              *)
WriteCut ==
  \/ file' = "json" /\ saved' = Defaults
  \/ file' = "torn" /\ UNCHANGED saved

(* writeFileSync fails before it has opened the file or after.             *)
WriteError == UNCHANGED <<file, saved>> \/ WriteCut

(* The lock is held, the file does not parse, or it cannot be written.     *)
WriteFails(p) ==
  /\ MayWrite(p) /\ file # "missing"
  /\ IF orphaned \/ file = "torn" THEN UNCHANGED <<file, saved>> ELSE WriteError
  /\ TaskEnds(p, FALSE)
  /\ UNCHANGED <<orphaned, up, settings, loadError, creating, sets, changed>>

(* A missing file is read without the lock, which is taken for the write:  *)
(* other processes may come between.                                       *)
ReadMissing(p) ==
  /\ MayWrite(p) /\ file = "missing"
  /\ creating' = [creating EXCEPT ![p] = <<Merged(Defaults, Head(writeQueue[p]))>>]
  /\ UNCHANGED <<fileVars, up, settings, loadError, modified, writeQueue, reloading, histVars>>

Create(p) ==
  /\ creating[p] # <<>>
  /\ creating' = [creating EXCEPT ![p] = <<>>]
  /\ \/ ~orphaned /\ file' = "json" /\ saved' = creating[p][1] /\ TaskEnds(p, TRUE)
     \/ orphaned /\ UNCHANGED <<file, saved>> /\ TaskEnds(p, FALSE)
     \/ ~orphaned /\ WriteError /\ TaskEnds(p, FALSE)
  /\ UNCHANGED <<orphaned, up, settings, loadError, sets, changed>>
-----------------------------------------------------------------------------
(* reload waits for the queue as it is.                                    *)
Reload(p) ==
  /\ Ready(p) /\ reloading[p] = NotReloading
  /\ reloading' = [reloading EXCEPT ![p] = Len(writeQueue[p])]
  /\ UNCHANGED <<fileVars, up, settings, loadError, modified, writeQueue, creating, histVars>>

(* Then it loads the file and forgets all marks: tasks that were queued    *)
(* meanwhile have their own snapshots, and what no task has is given up.   *)
ReloadEnds(p) ==
  /\ Ready(p) /\ reloading[p] = 0
  /\ reloading' = [reloading EXCEPT ![p] = NotReloading]
  /\ settings' = IF Loads THEN [settings EXCEPT ![p] = saved] ELSE settings
  /\ loadError' = IF Loads THEN loadError \ {p} ELSE loadError \cup {p}
  /\ modified' = [modified EXCEPT ![p] = {}]
  /\ changed' = [changed EXCEPT ![p] = @ \cap UNION {t.fields : t \in ToSet(writeQueue[p])}]
  /\ dropped' = [dropped EXCEPT ![p] = @ \cup {u \in unsaved[p] : ~Queued(writeQueue[p], u)}]
  /\ UNCHANGED <<fileVars, up, writeQueue, creating, sets, unsaved>>

(* The user edits the file, and repairs it if it does not parse.           *)
EditFile(f) ==
  /\ file # "missing" /\ sets < MaxSets
  /\ sets' = sets + 1
  /\ file' = "json"
  /\ saved' = [saved EXCEPT ![f] = sets']
  /\ UNCHANGED <<orphaned, up, settings, loadError, modified, writeQueue, reloading, creating, changed, unsaved, dropped>>

(* A process ends, or is killed while it has the lock: as it reads the file*)
(* or as it writes it.                                                     *)
Locks(p) == ~orphaned /\ (creating[p] # <<>> \/ (file # "missing" /\ (MayWrite(p) \/ reloading[p] = 0)))
Writes(p) == creating[p] # <<>> \/ (file = "json" /\ MayWrite(p))

Kill(p, inside) ==
  /\ p \in up /\ up' = up \ {p}
  /\ inside => Locks(p)
  /\ UNCHANGED <<file, saved>> \/ (inside /\ Writes(p) /\ WriteCut)
  /\ orphaned' = (orphaned \/ inside)
  /\ loadError' = loadError \ {p}
  /\ settings' = [settings EXCEPT ![p] = Defaults]
  /\ modified' = [modified EXCEPT ![p] = {}]
  /\ writeQueue' = [writeQueue EXCEPT ![p] = <<>>]
  /\ reloading' = [reloading EXCEPT ![p] = NotReloading]
  /\ creating' = [creating EXCEPT ![p] = <<>>]
  /\ changed' = [changed EXCEPT ![p] = {}]
  /\ unsaved' = [unsaved EXCEPT ![p] = {}]
  /\ dropped' = [dropped EXCEPT ![p] = {}]
  /\ UNCHANGED sets

(* proper-lockfile: a lock that is not updated becomes stale.              *)
LockGoesStale ==
  /\ orphaned /\ orphaned' = FALSE
  /\ UNCHANGED <<file, saved, up, settings, loadError, modified, writeQueue, reloading, creating, histVars>>

Step(p) == Write(p) \/ WriteFails(p) \/ ReadMissing(p) \/ Create(p) \/ ReloadEnds(p)

Next ==
  \/ \E p \in Processes : Start(p) \/ Step(p) \/ Reload(p)
  \/ \E p \in Processes, f \in Fields : Set(p, f)
  \/ \E p \in Processes, inside \in BOOLEAN : Kill(p, inside)
  \/ \E f \in Fields : EditFile(f)
  \/ LockGoesStale

Spec == Init /\ [][Next]_vars
-----------------------------------------------------------------------------
(* The types, and only running processes hold anything.                    *)
TypeOK ==
  /\ file \in {"missing", "json", "torn"} /\ saved \in Settings /\ orphaned \in BOOLEAN
  /\ up \subseteq Processes /\ loadError \subseteq up
  /\ settings \in [Processes -> Settings]
  /\ modified \in [Processes -> SUBSET Fields]
  /\ \A p \in Processes : writeQueue[p] \in Seq(Task) /\ creating[p] \in Seq(Settings)
  /\ reloading \in [Processes -> NotReloading..MaxQueue]
  /\ sets \in 0..MaxSets
  /\ changed \in [Processes -> SUBSET Fields]
  /\ unsaved \in [Processes -> SUBSET Changes] /\ dropped \in [Processes -> SUBSET Changes]
  /\ \A p \in Processes : Len(writeQueue[p]) <= MaxQueue /\ reloading[p] <= Len(writeQueue[p])

(* The next setter's task will write a change.                             *)
Marked(p, u) == u.field \in modified[p] /\ settings[p][u.field] = u.value

(* The types hold, and a setting that a process has changed is, with its   *)
(* value, in a queued task or marked for the next one until it is in the   *)
(* file, whatever writes fail and however marks are cleared.  The code     *)
(* gives a change up (dropped) in three places: it was made after a failed *)
(* load (save), its task failed when an earlier one or a reload had cleared*)
(* its mark (clearModifiedScope), or a reload cleared its mark after its   *)
(* task had failed.                                                        *)
NothingForgotten ==
  /\ TypeOK
  /\ \A p \in up : \A u \in unsaved[p] \ dropped[p] : Marked(p, u) \/ Queued(writeQueue[p], u)

(* No change is ever given up.  The code violates it in each of the three  *)
(* places.                                                                 *)
NothingDropped == \A p \in up : dropped[p] = {}

(* A write of a process changes only settings it has set itself since it   *)
(* loaded them: what the user or another process changed stays, except     *)
(* when both create the file (persistScopedSettings).                      *)
OwnChangesOnly ==
  [][\A p \in Processes : Write(p) => \A f \in Fields : saved'[f] # saved[f] => f \in changed[p]]_vars
=============================================================================
