------------------------- MODULE SettingsManagerProofs -------------------------
(* Proofs about SettingsManager, for any processes, fields, values and     *)
(* queues: a change that is not given up stays marked or queued with its   *)
(* value until it is in the file, and a write puts only the process's own  *)
(* changes into the file.                                                  *)
EXTENDS SettingsManager, TLAPS

FileTypes ==
  /\ file \in {"missing", "json", "torn"} /\ saved \in Settings /\ orphaned \in BOOLEAN
  /\ sets \in 0..MaxSets

SetTypes == up \subseteq Processes /\ loadError \subseteq up

ProcessTypes ==
  /\ settings \in [Processes -> Settings]
  /\ modified \in [Processes -> SUBSET Fields]
  /\ changed \in [Processes -> SUBSET Fields]
  /\ unsaved \in [Processes -> SUBSET Changes] /\ dropped \in [Processes -> SUBSET Changes]

QueueTypes ==
  /\ writeQueue \in [Processes -> Seq(Task)] /\ creating \in [Processes -> Seq(Settings)]
  /\ reloading \in [Processes -> NotReloading..MaxQueue]
  /\ \A p \in Processes : Len(writeQueue[p]) <= MaxQueue /\ reloading[p] <= Len(writeQueue[p])

Types == FileTypes /\ SetTypes /\ ProcessTypes /\ QueueTypes

(* The changes that are neither in the file nor given up.                  *)
Live(p) == unsaved[p] \ dropped[p]

(* A change is marked with its value, or waits in the queue.               *)
Remembered(p) == \A u \in Live(p) : Marked(p, u) \/ Queued(writeQueue[p], u)

(* The last task has all marked changes: when a task succeeds and clears   *)
(* the marks, they are in the file or in a later task.                     *)
Covered(p) ==
  Len(writeQueue[p]) > 0 => \A u \in Live(p) : Marked(p, u) => Holds(writeQueue[p][Len(writeQueue[p])], u)

(* A change whose field is marked is what the settings say: the next task  *)
(* will have its value.                                                    *)
Current(p) == \A u \in Live(p) : u.field \in modified[p] => settings[p][u.field] = u.value

OnlyChanged(q, C) == \A i \in 1..Len(q) : q[i].fields \subseteq C

(* What holds of one process.  Setters after a failed load leave marks that*)
(* no task has.                                                            *)
Sound(p) ==
  /\ Remembered(p) /\ Covered(p) /\ Current(p)
  /\ OnlyChanged(writeQueue[p], changed[p])
  /\ p \in loadError \/ modified[p] \subseteq changed[p]
  /\ creating[p] # <<>> =>
       Len(writeQueue[p]) > 0 /\ creating[p][1] = Merged(Defaults, Head(writeQueue[p]))
  /\ p \notin up => writeQueue[p] = <<>> /\ creating[p] = <<>> /\ modified[p] = {} /\ unsaved[p] = {}

IInv == Types /\ \A p \in Processes : Sound(p)
-----------------------------------------------------------------------------
USE BoundAssumption

(* A process that starts or ends is sound.                                 *)
LEMMA NothingChanged ==
  ASSUME NEW p \in Processes,
         writeQueue'[p] = <<>>, creating'[p] = <<>>, modified'[p] = {}, unsaved'[p] = {}
  PROVE  Sound(p)'
<1>1. Len(writeQueue'[p]) = 0 /\ Live(p)' = {}
  BY DEF Live
<1> QED BY <1>1 DEF Sound, Remembered, Covered, Current, OnlyChanged

LEMMA EmptyQueue == Len(<<>>) = 0 /\ <<>> \in Seq(Task) /\ <<>> \in Seq(Settings)
  OBVIOUS

(* The queue without its first task.                                       *)
LEMMA TailTasks ==
  ASSUME NEW q \in Seq(Task), Len(q) > 0
  PROVE  /\ Head(q) = q[1] /\ q[1] \in Task /\ Len(q) \in Nat
         /\ Tail(q) \in Seq(Task) /\ Len(Tail(q)) = Len(q) - 1
         /\ \A i \in 1..(Len(q) - 1) : Tail(q)[i] = q[i + 1]
  OBVIOUS

(* The queue with one more.                                                *)
LEMMA AppendTask ==
  ASSUME NEW q \in Seq(Task), NEW t \in Task
  PROVE  /\ Append(q, t) \in Seq(Task) /\ Len(q) \in Nat /\ Len(Append(q, t)) = Len(q) + 1
         /\ \A i \in 1..Len(q) : Append(q, t)[i] = q[i]
         /\ Append(q, t)[Len(q) + 1] = t
  OBVIOUS

(* A queued change is held by a task at some place.                        *)
LEMMA QueuedAt ==
  ASSUME NEW q \in Seq(Task), NEW u
  PROVE  Queued(q, u) <=> \E i \in 1..Len(q) : Holds(q[i], u)
  BY DEF Queued, ToSet

(* The fields of the tasks of a queue.                                     *)
LEMMA QueuedFields ==
  ASSUME NEW q \in Seq(Task), NEW i \in 1..Len(q)
  PROVE  q[i].fields \subseteq UNION {t.fields : t \in ToSet(q)}
  BY DEF ToSet

(* A queued change is in the first task or in a later one.                 *)
LEMMA QueuedTail ==
  ASSUME NEW q \in Seq(Task), Len(q) > 0, NEW u, Queued(q, u)
  PROVE  Holds(q[1], u) \/ Queued(Tail(q), u)
<1>1. PICK i \in 1..Len(q) : Holds(q[i], u)
  BY QueuedAt
<1>2. CASE i = 1
  BY <1>1, <1>2
<1>3. CASE i # 1
  <2>1. i - 1 \in 1..Len(Tail(q)) /\ Tail(q)[i - 1] = q[i] /\ Tail(q) \in Seq(Task)
    BY <1>3, TailTasks
  <2> QED BY <1>1, <2>1, QueuedAt
<1> QED BY <1>2, <1>3

(* What was queued stays so, and the new task is queued.                   *)
LEMMA QueuedAppend ==
  ASSUME NEW q \in Seq(Task), NEW t \in Task, NEW u, Queued(q, u) \/ Holds(t, u)
  PROVE  Queued(Append(q, t), u)
<1>1. /\ Append(q, t) \in Seq(Task) /\ Len(q) \in Nat /\ Len(Append(q, t)) = Len(q) + 1
      /\ \A i \in 1..Len(q) : Append(q, t)[i] = q[i]
      /\ Append(q, t)[Len(q) + 1] = t
  BY AppendTask
<1> DEFINE r == Append(q, t)
<1> HIDE DEF r
<1>2. \E i \in 1..Len(r) : Holds(r[i], u)
  <2>1. CASE Queued(q, u)
    <3>1. PICK i \in 1..Len(q) : Holds(q[i], u)
      BY <2>1, QueuedAt
    <3>2. i \in 1..Len(r) /\ r[i] = q[i]
      BY <1>1 DEF r
    <3> QED BY <3>1, <3>2
  <2>2. CASE Holds(t, u)
    <3>1. Len(q) + 1 \in 1..Len(r) /\ r[Len(q) + 1] = t
      BY <1>1 DEF r
    <3> QED BY <2>2, <3>1
  <2> QED BY <2>1, <2>2
<1>3. r \in Seq(Task)
  BY <1>1 DEF r
<1> QED BY <1>2, <1>3, QueuedAt DEF r

(* The defaults are settings.                                              *)
LEMMA DefaultsType == Defaults \in Settings
  BY DEF Defaults, Settings

(* What a task puts into the file are settings.                            *)
LEMMA MergedType ==
  ASSUME NEW base \in Settings, NEW t \in Task
  PROVE  Merged(base, t) \in Settings /\ \A f \in Fields : f \in t.fields => Merged(base, t)[f] = t.values[f]
  BY DEF Merged, Settings, Task

(* The invariant holds at first.                                           *)
LEMMA InitIInv == Init => IInv
<1> SUFFICES ASSUME Init PROVE IInv
  OBVIOUS
<1>1. FileTypes /\ SetTypes
  <2>1. saved \in Settings /\ file \in {"missing", "json", "torn"} /\ orphaned \in BOOLEAN
    BY DefaultsType DEF Init
  <2>2. sets \in 0..MaxSets
    BY DEF Init
  <2> QED BY <2>1, <2>2 DEF Init, FileTypes, SetTypes
<1>2. ProcessTypes
  BY DefaultsType DEF Init, ProcessTypes
<1>3. QueueTypes
  BY EmptyQueue DEF Init, QueueTypes, NotReloading
<1>4. ASSUME NEW p \in Processes PROVE Sound(p)
  <2>1. writeQueue[p] = <<>> /\ creating[p] = <<>> /\ modified[p] = {} /\ unsaved[p] = {}
    BY DEF Init
  <2>2. Len(writeQueue[p]) = 0 /\ Live(p) = {}
    BY <2>1 DEF Live
  <2> QED BY <2>1, <2>2 DEF Sound, Remembered, Covered, Current, OnlyChanged
<1> QED BY <1>1, <1>2, <1>3, <1>4 DEF IInv, Types

(* A process of which nothing changes stays sound.                         *)
LEMMA SameSound ==
  ASSUME NEW p \in Processes, Sound(p),
         writeQueue'[p] = writeQueue[p], changed'[p] = changed[p],
         unsaved'[p] = unsaved[p], dropped'[p] = dropped[p],
         creating'[p] = creating[p], modified'[p] = modified[p], settings'[p] = settings[p],
         p \in loadError <=> p \in loadError', p \in up <=> p \in up'
  PROVE  Sound(p)'
<1>1. Live(p)' = Live(p) /\ \A u : Marked(p, u)' <=> Marked(p, u)
  BY DEF Live, Marked
<1>2. Remembered(p)' /\ Covered(p)' /\ Current(p)'
  BY <1>1 DEF Sound, Remembered, Covered, Current
<1> QED BY <1>2 DEF Sound
-----------------------------------------------------------------------------
(* What the end of a task changes.                                         *)
LEMMA TaskEndsIs ==
  ASSUME Types, NEW p \in up, NEW ok, Len(writeQueue[p]) > 0, TaskEnds(p, ok)
  PROVE  /\ p \in Processes /\ writeQueue[p] \in Seq(Task)
         /\ writeQueue' = [writeQueue EXCEPT ![p] = Tail(writeQueue[p])]
         /\ writeQueue'[p] = Tail(writeQueue[p])
         /\ modified'[p] = (IF ok THEN {} ELSE modified[p])
         /\ Live(p)' \subseteq Live(p)
         /\ ok => \A u \in Live(p)' : saved'[u.field] # u.value
         /\ ~ok => \A u \in Live(p)' : u.field \in modified[p] \/ Queued(Tail(writeQueue[p]), u)
         /\ unsaved'[p] \subseteq unsaved[p]
         /\ modified' \in [Processes -> SUBSET Fields] /\ unsaved' \in [Processes -> SUBSET Changes]
         /\ dropped' \in [Processes -> SUBSET Changes]
         /\ \A r \in Processes \ {p} :
              writeQueue'[r] = writeQueue[r] /\ modified'[r] = modified[r] /\ unsaved'[r] = unsaved[r]
              /\ dropped'[r] = dropped[r]
<1> DEFINE q == writeQueue[p]
           left == {u \in unsaved[p] : u.field \notin modified[p] /\ ~Queued(writeQueue'[p], u)}
<1>1. SetTypes /\ ProcessTypes /\ QueueTypes /\ p \in Processes
  BY DEF Types, SetTypes
<1>2. /\ writeQueue' = [writeQueue EXCEPT ![p] = Tail(writeQueue[p])]
      /\ modified' = [modified EXCEPT ![p] = IF ok THEN {} ELSE modified[p]]
      /\ unsaved' = IF ok THEN [unsaved EXCEPT ![p] = {u \in unsaved[p] : saved'[u.field] # u.value}] ELSE unsaved
      /\ dropped' = [dropped EXCEPT ![p] = IF ok THEN dropped[p] \cap unsaved'[p] ELSE dropped[p] \cup left]
  BY DEF TaskEnds, MarksAfter
<1>3. left \subseteq unsaved[p]
  OBVIOUS
<1> HIDE DEF left
<1>4. writeQueue'[p] = Tail(writeQueue[p]) /\ \A r \in Processes \ {p} : writeQueue'[r] = writeQueue[r]
  BY <1>1, <1>2 DEF QueueTypes
<1>5. /\ modified' \in [Processes -> SUBSET Fields] /\ modified'[p] = (IF ok THEN {} ELSE modified[p])
      /\ \A r \in Processes \ {p} : modified'[r] = modified[r]
  BY <1>1, <1>2 DEF ProcessTypes
<1>6. /\ unsaved' \in [Processes -> SUBSET Changes]
      /\ unsaved'[p] = (IF ok THEN {u \in unsaved[p] : saved'[u.field] # u.value} ELSE unsaved[p])
      /\ \A r \in Processes \ {p} : unsaved'[r] = unsaved[r]
  BY <1>1, <1>2 DEF ProcessTypes
<1>7. /\ dropped'[p] = (IF ok THEN dropped[p] \cap unsaved'[p] ELSE dropped[p] \cup left)
      /\ \A r \in Processes \ {p} : dropped'[r] = dropped[r]
  BY <1>1, <1>2 DEF ProcessTypes
<1>8. dropped' \in [Processes -> SUBSET Changes]
  <2>1. (IF ok THEN dropped[p] \cap unsaved'[p] ELSE dropped[p] \cup left) \in SUBSET Changes
    BY <1>1, <1>3 DEF ProcessTypes
  <2> QED BY <1>1, <1>2, <2>1 DEF ProcessTypes
<1>9. /\ Live(p)' \subseteq Live(p)
      /\ ok => \A u \in Live(p)' : saved'[u.field] # u.value
      /\ ~ok => \A u \in Live(p)' : u.field \in modified[p] \/ Queued(Tail(writeQueue[p]), u)
  <2>1. CASE ok
    BY <1>6, <1>7, <2>1 DEF Live
  <2>2. CASE ~ok
    BY <1>4, <1>6, <1>7, <2>2 DEF Live, left
  <2> QED BY <2>1, <2>2
<1> QED BY <1>1, <1>2, <1>4, <1>5, <1>6, <1>7, <1>8, <1>9 DEF QueueTypes

(* The types of what the end of a task changes.                            *)
LEMMA TaskEndsTypes ==
  ASSUME Types, NEW p \in up, NEW ok, Len(writeQueue[p]) > 0, TaskEnds(p, ok),
         creating' \in [Processes -> Seq(Settings)], UNCHANGED <<settings, changed, loadError, up>>
  PROVE  SetTypes' /\ ProcessTypes' /\ QueueTypes'
<1> DEFINE q == writeQueue[p]
<1>1. SetTypes /\ ProcessTypes /\ QueueTypes
  BY DEF Types
<1>2. /\ p \in Processes /\ q \in Seq(Task)
      /\ writeQueue' = [writeQueue EXCEPT ![p] = Tail(q)] /\ writeQueue'[p] = Tail(q)
      /\ modified' \in [Processes -> SUBSET Fields] /\ unsaved' \in [Processes -> SUBSET Changes]
      /\ dropped' \in [Processes -> SUBSET Changes]
  BY TaskEndsIs
<1>3. Tail(q) \in Seq(Task) /\ Len(Tail(q)) = Len(q) - 1 /\ Len(q) \in Nat
  BY <1>2, TailTasks
<1>4. reloading' = IF reloading[p] > 0 THEN [reloading EXCEPT ![p] = reloading[p] - 1] ELSE reloading
  BY DEF TaskEnds
<1>5. SetTypes' /\ ProcessTypes'
  BY <1>1, <1>2 DEF SetTypes, ProcessTypes
<1>6. QueueTypes'
  <2>1. writeQueue' \in [Processes -> Seq(Task)]
    BY <1>1, <1>2, <1>3 DEF QueueTypes
  <2>2. reloading' \in [Processes -> NotReloading..MaxQueue]
    <3>1. reloading \in [Processes -> NotReloading..MaxQueue] /\ reloading[p] \in -1..MaxQueue
      BY <1>1, <1>2 DEF QueueTypes, NotReloading
    <3>2. CASE ~(reloading[p] > 0)
      BY <1>4, <3>1, <3>2
    <3>3. CASE reloading[p] > 0
      <4>1. reloading[p] - 1 \in NotReloading..MaxQueue
        BY <3>1, <3>3 DEF NotReloading
      <4> QED BY <1>4, <3>1, <3>3, <4>1
    <3> QED BY <3>2, <3>3
  <2>3. ASSUME NEW r \in Processes PROVE Len(writeQueue'[r]) <= MaxQueue /\ reloading'[r] <= Len(writeQueue'[r])
    <3>1. CASE r = p
      <4>1. reloading'[p] <= Len(q) - 1
        BY <1>1, <1>2, <1>3, <1>4 DEF QueueTypes, NotReloading
      <4> QED BY <1>1, <1>2, <1>3, <3>1, <4>1 DEF QueueTypes
    <3>2. CASE r # p
      BY <1>1, <1>2, <1>4, <3>2 DEF QueueTypes
    <3> QED BY <3>1, <3>2
  <2> QED BY <2>1, <2>2, <2>3 DEF QueueTypes
<1> QED BY <1>5, <1>6

(* The end of a task keeps all processes sound.                            *)
LEMMA TaskEndsSound ==
  ASSUME IInv, NEW p \in up, NEW ok, Len(writeQueue[p]) > 0, TaskEnds(p, ok),
         creating' = [creating EXCEPT ![p] = <<>>], UNCHANGED <<settings, changed, loadError, up>>,
         ok => \A f \in writeQueue[p][1].fields : saved'[f] = writeQueue[p][1].values[f]
  PROVE  \A r \in Processes : Sound(r)'
<1> DEFINE q == writeQueue[p]
           n == Len(q)
<1>1. /\ Types /\ SetTypes /\ ProcessTypes /\ QueueTypes /\ p \in Processes /\ q \in Seq(Task)
      /\ Sound(p)
  BY DEF IInv, Types, SetTypes, QueueTypes
<1>2. ASSUME NEW r \in Processes, r # p PROVE Sound(r)'
  <2>1. /\ writeQueue'[r] = writeQueue[r] /\ modified'[r] = modified[r] /\ unsaved'[r] = unsaved[r]
        /\ dropped'[r] = dropped[r]
    BY <1>1, <1>2, TaskEndsIs
  <2>2. creating'[r] = creating[r] /\ Sound(r)
    BY <1>1, <1>2 DEF IInv, QueueTypes
  <2> QED BY <2>1, <2>2, SameSound
<1>3. /\ writeQueue'[p] = Tail(q) /\ modified'[p] = (IF ok THEN {} ELSE modified[p])
      /\ unsaved'[p] \subseteq unsaved[p]
  BY <1>1, TaskEndsIs
<1>4. /\ Tail(q) \in Seq(Task) /\ n \in Nat /\ Len(Tail(q)) = n - 1
      /\ \A i \in 1..(n - 1) : Tail(q)[i] = q[i + 1]
  BY <1>1, TailTasks
<1>5. /\ Live(p)' \subseteq Live(p)
      /\ ok => \A u \in Live(p)' : saved'[u.field] # u.value
      /\ ~ok => \A u \in Live(p)' : u.field \in modified[p] \/ Queued(Tail(q), u)
  BY <1>1, TaskEndsIs
<1>6. \A u : Marked(p, u)' => Marked(p, u) /\ ~ok
  BY <1>3 DEF Marked
<1>7. Remembered(p)'
  <2> SUFFICES ASSUME NEW u \in Live(p)' PROVE Marked(p, u)' \/ Queued(Tail(q), u)
    BY <1>3 DEF Remembered
  <2>1. CASE ok
    <3>1. ~Holds(q[1], u)
      BY <1>5, <2>1 DEF Holds
    <3>2. Queued(q, u)
      <4>1. CASE Queued(q, u)
        BY <4>1
      <4>2. CASE Marked(p, u)
        <5>1. Holds(q[n], u) /\ n \in 1..n
          BY <1>1, <1>4, <1>5, <4>2 DEF Sound, Covered
        <5> QED BY <1>1, <5>1, QueuedAt
      <4> QED BY <1>1, <1>5, <4>1, <4>2 DEF Sound, Remembered
    <3> QED BY <1>1, <3>1, <3>2, QueuedTail
  <2>2. CASE ~ok
    <3>1. CASE Queued(Tail(q), u)
      BY <3>1
    <3>2. CASE u.field \in modified[p]
      <4>1. settings[p][u.field] = u.value
        BY <1>1, <1>5, <3>2 DEF Sound, Current
      <4> QED BY <1>3, <2>2, <3>2, <4>1 DEF Marked
    <3> QED BY <1>5, <2>2, <3>1, <3>2
  <2> QED BY <2>1, <2>2
<1>8. Covered(p)'
  <2> SUFFICES ASSUME Len(Tail(q)) > 0, NEW u \in Live(p)', Marked(p, u)'
               PROVE  Holds(Tail(q)[Len(Tail(q))], u)
    BY <1>3 DEF Covered
  <2>1. Holds(q[n], u)
    BY <1>1, <1>5, <1>6 DEF Sound, Covered
  <2>2. Tail(q)[Len(Tail(q))] = q[n]
    BY <1>4
  <2> QED BY <2>1, <2>2
<1>9. Current(p)'
  BY <1>1, <1>3, <1>5 DEF Sound, Current
<1>10. OnlyChanged(Tail(q), changed[p])
  BY <1>1, <1>4 DEF Sound, OnlyChanged
<1>11. Sound(p)'
  <2>1. creating'[p] = <<>> /\ modified'[p] \subseteq modified[p]
    BY <1>1, <1>3 DEF QueueTypes
  <2> QED BY <1>1, <1>3, <1>7, <1>8, <1>9, <1>10, <2>1 DEF Sound
<1> QED BY <1>2, <1>11
-----------------------------------------------------------------------------
(* A cut or failing write leaves settings in the file.                     *)
LEMMA WriteErrorTypes ==
  ASSUME FileTypes, WriteError \/ WriteCut
  PROVE  file' \in {"missing", "json", "torn"} /\ saved' \in Settings
  BY DefaultsType DEF FileTypes, WriteError, WriteCut

(* The first task of a queue, and the settings it writes.                  *)
LEMMA FirstTask ==
  ASSUME NEW q \in Seq(Task), Len(q) > 0, NEW base \in Settings
  PROVE  /\ Merged(base, Head(q)) \in Settings
         /\ \A f \in q[1].fields : Merged(base, Head(q))[f] = q[1].values[f]
<1>1. Head(q) = q[1] /\ q[1] \in Task
  BY TailTasks
<1>2. q[1].fields \subseteq Fields
  BY <1>1 DEF Task
<1> QED BY <1>1, <1>2, MergedType

(* Every step keeps the invariant.                                         *)
LEMMA StepIInv == IInv /\ [Next]_vars => IInv'
<1> SUFFICES ASSUME IInv, [Next]_vars PROVE IInv'
  OBVIOUS
<1> USE DEF fileVars, histVars
<1>a. FileTypes /\ SetTypes /\ ProcessTypes /\ QueueTypes /\ \A p \in Processes : Sound(p)
  BY DEF IInv, Types
<1>b. \A p \in Processes : writeQueue[p] \in Seq(Task) /\ (writeQueue[p] # <<>> => Len(writeQueue[p]) > 0)
  BY <1>a DEF QueueTypes
<1>1. ASSUME NEW p \in Processes, Start(p) PROVE IInv'
  <2>1. FileTypes' /\ QueueTypes' /\ SetTypes'
    BY <1>a, <1>1 DEF Start, FileTypes, QueueTypes, SetTypes
  <2>2. ProcessTypes'
    BY <1>a, <1>1, DefaultsType DEF Start, ProcessTypes, FileTypes
  <2>3. Sound(p)'
    <3>1. writeQueue'[p] = <<>> /\ creating'[p] = <<>> /\ modified'[p] = {} /\ unsaved'[p] = {}
      BY <1>a, <1>1 DEF Start, Sound
    <3> QED BY <3>1, NothingChanged
  <2>4. ASSUME NEW r \in Processes, r # p PROVE Sound(r)'
    <3>1. /\ UNCHANGED <<writeQueue, unsaved, dropped, changed, creating, modified>>
          /\ settings'[r] = settings[r] /\ (r \in loadError <=> r \in loadError') /\ (r \in up <=> r \in up')
      BY <1>a, <1>1, <2>4 DEF Start, ProcessTypes
    <3> QED BY <1>a, <3>1, SameSound
  <2> QED BY <2>1, <2>2, <2>3, <2>4 DEF IInv, Types
<1>2. ASSUME NEW p \in Processes, NEW f \in Fields, Set(p, f) PROVE IInv'
  <2> DEFINE q == writeQueue[p]
             t == [fields |-> modified'[p], values |-> settings'[p]]
             change == [field |-> f, value |-> sets']
             others(U) == {u \in U : u.field # f}
  <2>1. FileTypes' /\ sets' \in 1..MaxSets
    BY <1>a, <1>2 DEF Set, FileTypes
  <2>2. SetTypes'
    BY <1>a, <1>2 DEF Set, SetTypes
  <2>3. settings' \in [Processes -> Settings] /\ modified' \in [Processes -> SUBSET Fields]
    BY <1>a, <1>2, <2>1 DEF Set, ProcessTypes, Settings
  <2>4. change \in Changes
    BY <2>1 DEF Changes
  <2>5. /\ unsaved' = [unsaved EXCEPT ![p] = others(unsaved[p]) \cup {change}]
        /\ dropped' = [dropped EXCEPT ![p] = others(dropped[p]) \cup (IF p \in loadError THEN {change} ELSE {})]
        /\ modified' = [modified EXCEPT ![p] = modified[p] \cup {f}]
        /\ settings' = [settings EXCEPT ![p][f] = sets']
        /\ p \in up /\ creating[p] = <<>> /\ UNCHANGED <<fileVars, up, loadError, reloading, creating>>
    BY <1>2 DEF Set, Ready
  <2>6. unsaved' \in [Processes -> SUBSET Changes] /\ dropped' \in [Processes -> SUBSET Changes]
    <3>1. /\ others(unsaved[p]) \cup {change} \in SUBSET Changes
          /\ others(dropped[p]) \cup (IF p \in loadError THEN {change} ELSE {}) \in SUBSET Changes
      BY <1>a, <2>4 DEF ProcessTypes
    <3> QED BY <1>a, <2>5, <3>1 DEF ProcessTypes
  <2>7. changed' \in [Processes -> SUBSET Fields]
    BY <1>a, <1>2 DEF Set, ProcessTypes
  <2>8. ProcessTypes'
    BY <2>3, <2>6, <2>7 DEF ProcessTypes
  <2>9. t \in Task /\ q \in Seq(Task)
    BY <1>b, <2>3 DEF Task
  <2>10. QueueTypes'
    <3>1. CASE p \in loadError
      BY <1>a, <1>2, <3>1 DEF Set, QueueTypes
    <3>2. CASE p \notin loadError
      <4>1. writeQueue' = [writeQueue EXCEPT ![p] = Append(q, t)] /\ Len(q) < MaxQueue
            /\ UNCHANGED <<creating, reloading>>
        BY <1>2, <3>2 DEF Set
      <4>2. Append(q, t) \in Seq(Task) /\ Len(Append(q, t)) = Len(q) + 1 /\ Len(q) \in Nat
        BY <2>9, AppendTask
      <4>3. reloading[p] \in NotReloading..MaxQueue /\ reloading[p] <= Len(q)
        BY <1>a DEF QueueTypes
      <4>4. Len(Append(q, t)) <= MaxQueue /\ reloading[p] <= Len(Append(q, t))
        BY <4>1, <4>2, <4>3 DEF NotReloading
      <4> QED BY <1>a, <4>1, <4>2, <4>4 DEF QueueTypes
    <3> QED BY <3>1, <3>2
  <2>11. /\ modified'[p] = modified[p] \cup {f}
         /\ settings'[p][f] = sets' /\ \A g \in Fields \ {f} : settings'[p][g] = settings[p][g]
    BY <1>a, <2>5 DEF ProcessTypes, Settings
  <2>12. /\ \A u \in Live(p)' : u = change \/ (u \in Live(p) /\ u.field # f)
         /\ p \in loadError => \A u \in Live(p)' : u # change
    BY <1>a, <2>5 DEF Live, ProcessTypes
  <2>13. \A u \in Live(p) : u.field \in Fields
    BY <1>a DEF Live, ProcessTypes, Changes
  <2>14. Current(p)'
    <3> SUFFICES ASSUME NEW u \in Live(p)', u.field \in modified'[p]
                 PROVE  settings'[p][u.field] = u.value
      BY DEF Current
    <3>1. CASE u = change
      BY <2>11, <3>1
    <3>2. CASE u \in Live(p) /\ u.field # f
      BY <1>a, <2>11, <2>13, <3>2 DEF Sound, Current
    <3> QED BY <2>12, <3>1, <3>2
  <2>15. \A u \in Live(p)' : u # change => (Marked(p, u)' <=> Marked(p, u))
    BY <2>11, <2>12, <2>13 DEF Marked
  <2>16. Sound(p)'
    <3>1. CASE p \in loadError
      <4>1. UNCHANGED <<writeQueue, changed, creating, loadError, up>>
        BY <1>2, <3>1 DEF Set
      <4>2. \A u \in Live(p)' : u \in Live(p) /\ (Marked(p, u)' <=> Marked(p, u))
        BY <2>12, <2>15, <3>1
      <4>3. Remembered(p)' /\ Covered(p)'
        BY <1>a, <4>1, <4>2 DEF Sound, Remembered, Covered
      <4> QED BY <1>a, <2>5, <2>14, <3>1, <4>1, <4>3 DEF Sound
    <3>2. CASE p \notin loadError
      <4>1. writeQueue'[p] = Append(q, t) /\ changed'[p] = changed[p] \cup {f}
        BY <1>a, <1>2, <3>2 DEF Set, ProcessTypes, QueueTypes
      <4>2. \A u \in Live(p)' : Marked(p, u)' => Holds(t, u)
        BY DEF Marked, Holds
      <4>3. Remembered(p)'
        <5> SUFFICES ASSUME NEW u \in Live(p)' PROVE Marked(p, u)' \/ Queued(Append(q, t), u)
          BY <4>1 DEF Remembered
        <5>1. CASE u = change
          BY <2>11, <5>1 DEF Marked
        <5>2. CASE u # change
          <6>1. u \in Live(p) /\ (Marked(p, u)' <=> Marked(p, u))
            BY <2>12, <2>15, <5>2
          <6>2. Marked(p, u) \/ Queued(q, u)
            BY <1>a, <6>1 DEF Sound, Remembered
          <6> QED BY <2>9, <6>1, <6>2, QueuedAppend
        <5> QED BY <5>1, <5>2
      <4>4. /\ Len(Append(q, t)) = Len(q) + 1 /\ Len(q) \in Nat
            /\ (\A i \in 1..Len(q) : Append(q, t)[i] = q[i]) /\ Append(q, t)[Len(q) + 1] = t
        BY <2>9, AppendTask
      <4>5. Covered(p)'
        BY <4>1, <4>2, <4>4 DEF Covered
      <4>6. modified'[p] \subseteq changed'[p]
        BY <1>a, <2>11, <3>2, <4>1 DEF Sound
      <4>7. OnlyChanged(writeQueue'[p], changed'[p])
        <5> SUFFICES ASSUME NEW i \in 1..(Len(q) + 1) PROVE Append(q, t)[i].fields \subseteq changed'[p]
          BY <4>1, <4>4 DEF OnlyChanged
        <5>1. CASE i = Len(q) + 1
          BY <4>4, <4>6, <5>1
        <5>2. CASE i # Len(q) + 1
          <6>1. i \in 1..Len(q) /\ OnlyChanged(q, changed[p])
            BY <1>a, <4>4, <5>2 DEF Sound
          <6> QED BY <4>1, <4>4, <6>1 DEF OnlyChanged
        <5> QED BY <5>1, <5>2
      <4> QED BY <2>5, <2>14, <4>3, <4>5, <4>6, <4>7 DEF Sound
    <3> QED BY <3>1, <3>2
  <2>17. ASSUME NEW r \in Processes, r # p PROVE Sound(r)'
    <3>1. /\ writeQueue'[r] = writeQueue[r] /\ changed'[r] = changed[r]
      BY <1>a, <1>2, <2>17 DEF Set, ProcessTypes, QueueTypes
    <3>2. /\ unsaved'[r] = unsaved[r] /\ dropped'[r] = dropped[r]
          /\ modified'[r] = modified[r] /\ settings'[r] = settings[r]
      BY <1>a, <2>5, <2>17 DEF ProcessTypes
    <3> QED BY <1>a, <2>5, <3>1, <3>2, SameSound
  <2>18. \A r \in Processes : Sound(r)'
    BY <2>16, <2>17
  <2> QED BY <2>1, <2>2, <2>8, <2>10, <2>18 DEF IInv, Types
<1>3. ASSUME NEW p \in Processes, Write(p) PROVE IInv'
  <2>1. /\ p \in up /\ Len(writeQueue[p]) > 0 /\ TaskEnds(p, TRUE) /\ creating[p] = <<>>
        /\ saved' = Merged(saved, Head(writeQueue[p]))
        /\ UNCHANGED <<file, orphaned, up, settings, loadError, creating, sets, changed>>
    BY <1>b, <1>3 DEF Write, MayWrite, Ready
  <2>2. saved' \in Settings /\ \A f \in writeQueue[p][1].fields : saved'[f] = writeQueue[p][1].values[f]
    BY <1>a, <1>b, <2>1, FirstTask DEF FileTypes
  <2>3. FileTypes'
    BY <1>a, <2>1, <2>2 DEF FileTypes
  <2>4. SetTypes' /\ ProcessTypes' /\ QueueTypes'
    <3>1. creating' \in [Processes -> Seq(Settings)]
      BY <1>a, <2>1 DEF QueueTypes
    <3> QED BY <2>1, <3>1, TaskEndsTypes DEF IInv
  <2>5. \A r \in Processes : Sound(r)'
    <3>1. creating' = [creating EXCEPT ![p] = <<>>]
      BY <1>a, <2>1 DEF QueueTypes
    <3> QED BY <2>1, <2>2, <3>1, TaskEndsSound
  <2> QED BY <2>3, <2>4, <2>5 DEF IInv, Types
<1>4. ASSUME NEW p \in Processes, WriteFails(p) PROVE IInv'
  <2>1. /\ p \in up /\ Len(writeQueue[p]) > 0 /\ TaskEnds(p, FALSE) /\ creating[p] = <<>>
        /\ UNCHANGED <<file, saved>> \/ WriteError
        /\ UNCHANGED <<orphaned, up, settings, loadError, creating, sets, changed>>
    BY <1>b, <1>4 DEF WriteFails, MayWrite, Ready
  <2>2. FileTypes'
    BY <1>a, <2>1, WriteErrorTypes DEF FileTypes
  <2>3. SetTypes' /\ ProcessTypes' /\ QueueTypes'
    <3>1. creating' \in [Processes -> Seq(Settings)]
      BY <1>a, <2>1 DEF QueueTypes
    <3> QED BY <2>1, <3>1, TaskEndsTypes DEF IInv
  <2>4. \A r \in Processes : Sound(r)'
    <3>1. creating' = [creating EXCEPT ![p] = <<>>]
      BY <1>a, <2>1 DEF QueueTypes
    <3> QED BY <2>1, <3>1, TaskEndsSound
  <2> QED BY <2>2, <2>3, <2>4 DEF IInv, Types
<1>5. ASSUME NEW p \in Processes, ReadMissing(p) PROVE IInv'
  <2> DEFINE merged == Merged(Defaults, Head(writeQueue[p]))
  <2>1. /\ p \in up /\ Len(writeQueue[p]) > 0
        /\ creating' = [creating EXCEPT ![p] = <<merged>>]
        /\ UNCHANGED <<fileVars, up, settings, loadError, modified, writeQueue, reloading, histVars>>
    BY <1>b, <1>5 DEF ReadMissing, MayWrite, Ready
  <2>2. merged \in Settings
    BY <1>b, <2>1, FirstTask, DefaultsType
  <2>3. FileTypes' /\ SetTypes' /\ ProcessTypes'
    BY <1>a, <2>1 DEF FileTypes, SetTypes, ProcessTypes
  <2>4. <<merged>> \in Seq(Settings) /\ <<merged>>[1] = merged
    <3> HIDE DEF merged
    <3> QED BY <2>2
  <2>5. QueueTypes'
    <3> HIDE DEF merged
    <3> QED BY <1>a, <2>1, <2>4 DEF QueueTypes
  <2>6. Sound(p)'
    <3>1. creating'[p][1] = merged
      BY <1>a, <2>1, <2>4 DEF QueueTypes
    <3>2. Live(p)' = Live(p) /\ \A u : Marked(p, u)' <=> Marked(p, u)
      BY <2>1 DEF Live, Marked
    <3>3. Remembered(p)' /\ Covered(p)' /\ Current(p)'
      BY <1>a, <2>1, <3>2 DEF Sound, Remembered, Covered, Current
    <3> QED BY <1>a, <2>1, <3>1, <3>3 DEF Sound
  <2>7. ASSUME NEW r \in Processes, r # p PROVE Sound(r)'
    <3>1. creating'[r] = creating[r]
      BY <1>a, <2>1, <2>7 DEF QueueTypes
    <3> QED BY <1>a, <2>1, <3>1, SameSound
  <2> QED BY <2>3, <2>5, <2>6, <2>7 DEF IInv, Types
<1>6. ASSUME NEW p \in Processes, Create(p) PROVE IInv'
  <2>1. /\ creating[p] # <<>> /\ creating' = [creating EXCEPT ![p] = <<>>]
        /\ UNCHANGED <<orphaned, up, settings, loadError, sets, changed>>
        /\ \/ file' = "json" /\ saved' = creating[p][1] /\ TaskEnds(p, TRUE)
           \/ (UNCHANGED <<file, saved>> \/ WriteError) /\ TaskEnds(p, FALSE)
    BY <1>6 DEF Create
  <2>2. /\ p \in up /\ Len(writeQueue[p]) > 0
        /\ creating[p][1] = Merged(Defaults, Head(writeQueue[p]))
    BY <1>a, <2>1 DEF Sound
  <2>3. creating[p][1] \in Settings
        /\ \A f \in writeQueue[p][1].fields : creating[p][1][f] = writeQueue[p][1].values[f]
    BY <1>b, <2>2, FirstTask, DefaultsType
  <2>4. creating' \in [Processes -> Seq(Settings)]
    BY <1>a, <2>1, EmptyQueue DEF QueueTypes
  <2>5. CASE file' = "json" /\ saved' = creating[p][1] /\ TaskEnds(p, TRUE)
    <3>1. FileTypes'
      BY <1>a, <2>1, <2>3, <2>5 DEF FileTypes
    <3>2. SetTypes' /\ ProcessTypes' /\ QueueTypes'
      BY <2>1, <2>2, <2>4, <2>5, TaskEndsTypes DEF IInv
    <3>3. \A r \in Processes : Sound(r)'
      BY <2>1, <2>2, <2>3, <2>5, TaskEndsSound
    <3> QED BY <3>1, <3>2, <3>3 DEF IInv, Types
  <2>6. CASE (UNCHANGED <<file, saved>> \/ WriteError) /\ TaskEnds(p, FALSE)
    <3>1. FileTypes'
      BY <1>a, <2>1, <2>6, WriteErrorTypes DEF FileTypes
    <3>2. SetTypes' /\ ProcessTypes' /\ QueueTypes'
      BY <2>1, <2>2, <2>4, <2>6, TaskEndsTypes DEF IInv
    <3>3. \A r \in Processes : Sound(r)'
      BY <2>1, <2>2, <2>6, TaskEndsSound
    <3> QED BY <3>1, <3>2, <3>3 DEF IInv, Types
  <2> QED BY <2>1, <2>5, <2>6
<1>7. ASSUME NEW p \in Processes, ReloadEnds(p) PROVE IInv'
  <2> DEFINE q == writeQueue[p]
             queued == UNION {t.fields : t \in ToSet(q)}
             left == {u \in unsaved[p] : ~Queued(q, u)}
  <2>1. /\ p \in up /\ creating[p] = <<>>
        /\ reloading' = [reloading EXCEPT ![p] = NotReloading]
        /\ settings' = settings \/ settings' = [settings EXCEPT ![p] = saved]
        /\ loadError' = loadError \ {p} \/ loadError' = loadError \cup {p}
        /\ modified' = [modified EXCEPT ![p] = {}]
        /\ changed' = [changed EXCEPT ![p] = @ \cap queued]
        /\ dropped' = [dropped EXCEPT ![p] = @ \cup left]
        /\ UNCHANGED <<fileVars, up, writeQueue, creating, sets, unsaved>>
    BY <1>7 DEF ReloadEnds, Ready
  <2>2. FileTypes' /\ SetTypes'
    BY <1>a, <2>1 DEF FileTypes, SetTypes
  <2>3. QueueTypes'
    <3>1. NotReloading \in NotReloading..MaxQueue /\ \A r \in Processes : Len(writeQueue[r]) \in Nat
      BY <1>b DEF NotReloading
    <3>2. reloading' \in [Processes -> NotReloading..MaxQueue]
      BY <1>a, <2>1, <3>1 DEF QueueTypes
    <3>3. NotReloading <= Len(writeQueue[p])
      BY <3>1 DEF NotReloading
    <3>4. \A r \in Processes : reloading'[r] <= Len(writeQueue[r])
      BY <1>a, <2>1, <3>3 DEF QueueTypes
    <3> QED BY <1>a, <2>1, <3>2, <3>4 DEF QueueTypes
  <2>4. ProcessTypes'
    <3>1. left \subseteq unsaved[p]
      OBVIOUS
    <3> HIDE DEF queued, left
    <3>2. settings' \in [Processes -> Settings]
      BY <1>a, <2>1 DEF ProcessTypes, FileTypes
    <3>3. dropped' \in [Processes -> SUBSET Changes]
      BY <1>a, <2>1, <3>1 DEF ProcessTypes
    <3> QED BY <1>a, <2>1, <3>2, <3>3 DEF ProcessTypes
  <2>5. Sound(p)'
    <3>1. /\ modified'[p] = {} /\ writeQueue'[p] = q /\ creating'[p] = <<>>
      BY <1>a, <2>1 DEF ProcessTypes
    <3>2. changed'[p] = changed[p] \cap queued
      <4> HIDE DEF queued
      <4> QED BY <1>a, <2>1 DEF ProcessTypes
    <3>3. dropped'[p] = dropped[p] \cup left
      <4> HIDE DEF left
      <4> QED BY <1>a, <2>1 DEF ProcessTypes
    <3>4. \A u \in Live(p)' : Queued(q, u)
      BY <2>1, <3>3 DEF Live
    <3>5. Remembered(p)' /\ Covered(p)' /\ Current(p)'
      BY <3>1, <3>4 DEF Remembered, Covered, Current, Marked
    <3>6. OnlyChanged(q, changed'[p])
      <4>1. \A i \in 1..Len(q) : q[i].fields \subseteq queued
        BY <1>b, QueuedFields
      <4> HIDE DEF queued
      <4> QED BY <1>a, <3>2, <4>1 DEF Sound, OnlyChanged
    <3> QED BY <2>1, <3>1, <3>5, <3>6 DEF Sound
  <2>6. ASSUME NEW r \in Processes, r # p PROVE Sound(r)'
    <3> HIDE DEF queued, left
    <3>1. /\ UNCHANGED <<writeQueue, creating, up, unsaved>>
          /\ dropped'[r] = dropped[r] /\ changed'[r] = changed[r]
          /\ modified'[r] = modified[r] /\ settings'[r] = settings[r]
          /\ r \in loadError <=> r \in loadError'
      BY <1>a, <2>1, <2>6 DEF ProcessTypes
    <3> QED BY <1>a, <3>1, SameSound
  <2> QED BY <2>2, <2>3, <2>4, <2>5, <2>6 DEF IInv, Types
<1>8. ASSUME NEW p \in Processes, Reload(p) PROVE IInv'
  <2>1. /\ reloading' = [reloading EXCEPT ![p] = Len(writeQueue[p])]
        /\ UNCHANGED <<fileVars, up, settings, loadError, modified, writeQueue, creating, histVars>>
    BY <1>8 DEF Reload
  <2>2. FileTypes' /\ SetTypes' /\ ProcessTypes'
    BY <1>a, <2>1 DEF FileTypes, SetTypes, ProcessTypes
  <2>3. QueueTypes'
    <3>1. Len(writeQueue[p]) \in NotReloading..MaxQueue
      BY <1>a, <1>b DEF QueueTypes, NotReloading
    <3>2. Len(writeQueue[p]) <= Len(writeQueue[p])
      BY <3>1 DEF NotReloading
    <3> QED BY <1>a, <2>1, <3>1, <3>2 DEF QueueTypes
  <2>4. ASSUME NEW r \in Processes PROVE Sound(r)'
    BY <1>a, <2>1, SameSound
  <2> QED BY <2>2, <2>3, <2>4 DEF IInv, Types
<1>9. ASSUME NEW p \in Processes, NEW inside \in BOOLEAN, Kill(p, inside) PROVE IInv'
  <2>1. /\ up' = up \ {p} /\ loadError' = loadError \ {p}
        /\ settings' = [settings EXCEPT ![p] = Defaults] /\ modified' = [modified EXCEPT ![p] = {}]
        /\ writeQueue' = [writeQueue EXCEPT ![p] = <<>>] /\ creating' = [creating EXCEPT ![p] = <<>>]
        /\ reloading' = [reloading EXCEPT ![p] = NotReloading]
        /\ changed' = [changed EXCEPT ![p] = {}] /\ unsaved' = [unsaved EXCEPT ![p] = {}]
        /\ dropped' = [dropped EXCEPT ![p] = {}]
    BY <1>9 DEF Kill
  <2>2. FileTypes'
    <3>1. /\ UNCHANGED <<file, saved>> \/ WriteCut
          /\ orphaned' = (orphaned \/ inside) /\ sets' = sets
      BY <1>9 DEF Kill
    <3> QED BY <1>a, <3>1, WriteErrorTypes DEF FileTypes
  <2>3. SetTypes'
    BY <1>a, <2>1 DEF SetTypes
  <2>4. ProcessTypes'
    BY <1>a, <2>1, DefaultsType DEF ProcessTypes
  <2>5. QueueTypes'
    <3>1. NotReloading \in NotReloading..MaxQueue /\ 0 <= MaxQueue /\ NotReloading <= 0
      BY DEF NotReloading
    <3> QED BY <1>a, <2>1, <3>1, EmptyQueue DEF QueueTypes
  <2>6. Sound(p)'
    <3>1. writeQueue'[p] = <<>> /\ creating'[p] = <<>> /\ modified'[p] = {} /\ unsaved'[p] = {}
      BY <1>a, <2>1 DEF ProcessTypes, QueueTypes
    <3> QED BY <3>1, NothingChanged
  <2>7. ASSUME NEW r \in Processes, r # p PROVE Sound(r)'
    <3>1. /\ writeQueue'[r] = writeQueue[r] /\ unsaved'[r] = unsaved[r] /\ dropped'[r] = dropped[r]
          /\ changed'[r] = changed[r] /\ modified'[r] = modified[r] /\ settings'[r] = settings[r]
          /\ creating'[r] = creating[r]
      BY <1>a, <2>1, <2>7 DEF ProcessTypes, QueueTypes
    <3> QED BY <1>a, <2>1, <2>7, <3>1, SameSound
  <2> QED BY <2>2, <2>3, <2>4, <2>5, <2>6, <2>7 DEF IInv, Types
<1>10. ASSUME NEW f \in Fields, EditFile(f) PROVE IInv'
  <2>1. UNCHANGED <<up, settings, loadError, modified, writeQueue, reloading, creating, changed, unsaved, dropped>>
    BY <1>10 DEF EditFile
  <2>2. FileTypes'
    <3>1. sets' \in 0..MaxSets /\ saved' = [saved EXCEPT ![f] = sets'] /\ file' = "json" /\ orphaned' = orphaned
      BY <1>a, <1>10 DEF EditFile, FileTypes
    <3> QED BY <1>a, <3>1 DEF FileTypes, Settings
  <2>3. SetTypes' /\ ProcessTypes' /\ QueueTypes'
    BY <1>a, <2>1 DEF SetTypes, ProcessTypes, QueueTypes
  <2>4. ASSUME NEW r \in Processes PROVE Sound(r)'
    BY <1>a, <2>1, SameSound
  <2> QED BY <2>2, <2>3, <2>4 DEF IInv, Types
<1>11. CASE LockGoesStale \/ UNCHANGED vars
  <2>1. UNCHANGED <<file, saved, up, settings, loadError, modified, writeQueue, reloading, creating, histVars>>
        /\ orphaned' \in BOOLEAN
    BY <1>a, <1>11 DEF LockGoesStale, vars, FileTypes
  <2>2. FileTypes' /\ SetTypes' /\ ProcessTypes' /\ QueueTypes'
    BY <1>a, <2>1 DEF FileTypes, SetTypes, ProcessTypes, QueueTypes
  <2>3. ASSUME NEW r \in Processes PROVE Sound(r)'
    BY <1>a, <2>1, SameSound
  <2> QED BY <2>2, <2>3 DEF IInv, Types
<1> QED BY <1>1, <1>2, <1>3, <1>4, <1>5, <1>6, <1>7, <1>8, <1>9, <1>10, <1>11 DEF Next, Step

(* The inductive invariant holds always.                                   *)
THEOREM Invariance == Spec => []IInv
  BY InitIInv, StepIInv, PTL DEF Spec

(* A setting that a process has changed is, with its value, marked or in a *)
(* queued task until it is in the file (markModified, enqueueWrite,        *)
(* clearModifiedScope), or the code has given it up in one of three places:*)
(* set after a failed load, its task failed when its mark was cleared, or  *)
(* its mark cleared by a reload when its task had failed.                  *)
THEOREM ChangesRemembered == Spec => []NothingForgotten
<1>1. IInv => NothingForgotten
  <2> SUFFICES ASSUME IInv PROVE NothingForgotten
    OBVIOUS
  <2>1. TypeOK
    BY DEF IInv, Types, FileTypes, SetTypes, ProcessTypes, QueueTypes, TypeOK
  <2>2. ASSUME NEW p \in up PROVE Remembered(p)
    BY DEF IInv, Types, SetTypes, Sound
  <2> QED BY <2>1, <2>2 DEF NothingForgotten, Remembered, Live
<1> QED BY <1>1, Invariance, PTL

(* A write changes no setting in the file but those its process has set    *)
(* since it loaded them (persistScopedSettings merges by field).           *)
THEOREM OthersChangesStay == Spec => OwnChangesOnly
<1>1. IInv /\ [Next]_vars =>
        \A p \in Processes : Write(p) => \A f \in Fields : saved'[f] # saved[f] => f \in changed[p]
  <2> SUFFICES ASSUME IInv, NEW p \in Processes, Write(p), NEW f \in Fields, saved'[f] # saved[f]
               PROVE  f \in changed[p]
    OBVIOUS
  <2>1. writeQueue[p] \in Seq(Task) /\ OnlyChanged(writeQueue[p], changed[p])
    BY DEF IInv, Types, QueueTypes, Sound
  <2>2. Len(writeQueue[p]) > 0
    BY <2>1 DEF Write, MayWrite
  <2>3. f \in Head(writeQueue[p]).fields
    BY DEF Write, Merged
  <2> QED BY <2>1, <2>2, <2>3, TailTasks DEF OnlyChanged
<1>2. IInv /\ [Next]_vars =>
        [\A p \in Processes : Write(p) => \A f \in Fields : saved'[f] # saved[f] => f \in changed[p]]_vars
  BY <1>1
<1> QED BY <1>2, Invariance, PTL DEF Spec, OwnChangesOnly
=============================================================================
