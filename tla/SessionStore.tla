---------------------------- MODULE SessionStore ----------------------------
(***************************************************************************)
(* The session store (agent-host/src/session-manager.ts) as one process    *)
(* uses it: a SessionManager that holds the entry tree of the current      *)
(* session, the session files on disk, and the operations of               *)
(* AgentSessionRuntime that replace the current session (new, switch,      *)
(* fork).  The process may be killed at any moment, in the middle of a     *)
(* sequence of appendFileSync calls too, and started again.                *)
(***************************************************************************)
EXTENDS Naturals, Sequences, FiniteSets, SequencesExt

CONSTANTS
  Ids,         \* entry ids (generateId)
  NoId,        \* null
  SessionFiles,\* paths of session files
  NoFile,
  PlainKinds,  \* bound: the kinds of plain entries that are appended
  MaxSessions  \* bound: how many times a manager is created

ASSUME IdAssumption == NoId \notin Ids
ASSUME FileAssumption == NoFile \notin SessionFiles
ASSUME KindAssumption == PlainKinds \subseteq {"user", "assistant", "note", "setting"}
ASSUME BoundAssumption == MaxSessions \in Nat

VARIABLES
  running,     \* a manager exists
  sessionFile, \* its file; none when it is in memory only
  fileEntries, \* its entries in file order, the header first
  leafId,      \* the current position in the tree
  labelsById,  \* the entries that carry a label
  flushed,     \* the file holds the entries
  disk,        \* the lines of every existing session file
  sessions     \* how many times a manager was created

(* persist and isPersisted: inMemory() is the manager without a file.      *)
persist == sessionFile # NoFile

memory == <<running, sessionFile, fileEntries, leafId, labelsById, flushed>>
vars == <<memory, disk, sessions>>

(* What an entry is to the store.  "user" stands for every message that is *)
(* not the assistant's, "note" for custom_message and branch_summary,      *)
(* "setting" for the entries that are no part of the LLM context.  ref is  *)
(* the target of a label or the firstKeptEntryId of a compaction, and a    *)
(* label with on = FALSE clears.                                           *)
Kinds == {"user", "assistant", "note", "setting", "label", "compaction"}
Entry == {e \in [id : Ids, parentId : Ids \cup {NoId}, kind : Kinds,
                 ref : Ids \cup {NoId}, on : BOOLEAN] : e.kind = "label" => e.ref \in Ids}
Header == [kind : {"session"}, parentSession : SessionFiles \cup {NoFile}]
Torn == [kind |-> "torn"]        \* an incomplete last line
Garbage == [kind |-> "garbage"]  \* a line that does not parse

FileEntry == Header \cup Entry
Line == FileEntry \cup {Torn, Garbage}

NewHeader(parent) == [kind |-> "session", parentSession |-> parent]
NewEntry(id, parent, kind, ref, on) ==
  [id |-> id, parentId |-> parent, kind |-> kind, ref |-> ref, on |-> on]
-----------------------------------------------------------------------------
(* The index of a list of entries.                                         *)
EntryAt(fe) == {i \in DOMAIN fe : fe[i].kind \in Kinds}
IdsOf(fe) == {fe[i].id : i \in EntryAt(fe)}

(* byId: a later line with the same id wins, as in Map.set.                *)
ById(fe, id) ==
  fe[CHOOSE i \in EntryAt(fe) :
       fe[i].id = id /\ \A j \in EntryAt(fe) : fe[j].id = id => j <= i]

LastId(fe) ==
  IF EntryAt(fe) = {} THEN NoId
  ELSE fe[CHOOSE i \in EntryAt(fe) : \A j \in EntryAt(fe) : j <= i].id

(* The targets whose last label entry sets a label.                        *)
LabelledIn(fe) ==
  {fe[i].ref : i \in {j \in EntryAt(fe) :
     /\ fe[j].kind = "label" /\ fe[j].on
     /\ \A k \in EntryAt(fe) :
          (k > j /\ fe[k].kind = "label") => fe[k].ref # fe[j].ref}}

(* The walk from an entry to the root, root first.                         *)
ParentOf(fe, id) == IF id \in IdsOf(fe) THEN ById(fe, id).parentId ELSE NoId
Ancestor(fe, from) ==
  LET up[n \in Nat] == IF n = 0 THEN from ELSE ParentOf(fe, up[n - 1]) IN up

getBranch(fe, from) ==
  LET up == Ancestor(fe, from)
      depth == CHOOSE d \in 0..Len(fe) :
                 up[d] \notin IdsOf(fe) /\ \A n \in 0..(d - 1) : up[n] \in IdsOf(fe)
  IN [n \in 1..depth |-> ById(fe, up[depth - n])]

HasAssistant(fe) == \E i \in DOMAIN fe : fe[i].kind = "assistant"

(* The elements of s at the indices I, in their order.                     *)
Place(I, n) == CHOOSE i \in I : Cardinality({j \in I : j <= i}) = n
ElementsAt(s, I) == [n \in 1..Cardinality(I) |-> s[Place(I, n)]]

(* loadEntriesFromFile: lines that do not parse are skipped, and a file    *)
(* without a header in front yields nothing.                               *)
Parsable(lines) == {i \in DOMAIN lines : lines[i].kind \notin {"torn", "garbage"}}
Parsed(lines) == ElementsAt(lines, Parsable(lines))
loadEntriesFromFile(lines) ==
  LET fe == Parsed(lines) IN IF fe # <<>> /\ fe[1].kind = "session" THEN fe ELSE <<>>

(* appendFileSync of one line.  Behind an incomplete line the two become   *)
(* one line that does not parse.                                           *)
AppendLine(lines, l) ==
  IF lines # <<>> /\ lines[Len(lines)] = Torn
    THEN [lines EXCEPT ![Len(lines)] = IF l = Torn THEN Torn ELSE Garbage]
    ELSE Append(lines, l)

AppendLines(lines, ls) ==
  IF ls = <<>> THEN lines ELSE AppendLine(lines, ls[1]) \o Tail(ls)

LinesOf(f) == IF f \in DOMAIN disk THEN disk[f] ELSE <<>>

(* The disk d with the file f holding these lines.                         *)
Put(d, f, lines) ==
  [g \in DOMAIN d \cup {f} |-> IF g = f THEN lines ELSE d[g]]

(* Mutant: the first flush writes the new entry only. *)
PendingLastOnly(fe) ==
  IF ~persist \/ ~HasAssistant(fe) THEN <<>> ELSE <<fe[Len(fe)]>>

(* The lines _persist writes when the last of fe has just been pushed:     *)
(* nothing before there is an assistant message, everything the first      *)
(* time, one line afterwards.                                              *)
Pending(fe) ==
  IF ~persist \/ ~HasAssistant(fe) THEN <<>>
  ELSE IF ~flushed THEN fe
  ELSE <<fe[Len(fe)]>>

(* _appendEntry and _persist.                                              *)
AppendEntry(e) ==
  LET fe == Append(fileEntries, e) IN
  /\ fileEntries' = fe
  /\ leafId' = e.id
  /\ flushed' = IF persist THEN HasAssistant(fe) ELSE flushed
  /\ disk' = IF Pending(fe) = <<>> THEN disk
             ELSE Put(disk, sessionFile, AppendLines(LinesOf(sessionFile), Pending(fe)))

(* generateId draws 32 random bits: a new id is none that a session in      *)
(* memory or on disk mentions, as an entry, a parent or a reference.       *)
Mentioned(fe) ==
  UNION {{fe[i].id, fe[i].parentId, fe[i].ref} : i \in EntryAt(fe)}
FreshIds ==
  Ids \ (Mentioned(fileEntries) \cup UNION {Mentioned(disk[f]) : f \in DOMAIN disk})

FreshFiles == SessionFiles \ (DOMAIN disk \cup {sessionFile})

Init ==
  /\ running = FALSE
  /\ sessionFile = NoFile
  /\ fileEntries = <<>>
  /\ leafId = NoId
  /\ labelsById = {}
  /\ flushed = FALSE
  /\ disk = [f \in {} |-> <<>>]
  /\ sessions = 0

(* appendMessage, appendThinkingLevelChange, appendModelChange,            *)
(* appendCustomEntry, appendSessionInfo, appendCustomMessageEntry.         *)
AppendPlain(id, kind) ==
  /\ running
  /\ AppendEntry(NewEntry(id, leafId, kind, NoId, FALSE))
  /\ UNCHANGED <<running, sessionFile, labelsById, sessions>>

(* appendCompaction: the first kept entry is one of the current path.      *)
AppendCompaction(id, first) ==
  /\ running
  /\ \E n \in DOMAIN getBranch(fileEntries, leafId) :
       getBranch(fileEntries, leafId)[n].id = first
  /\ AppendEntry(NewEntry(id, leafId, "compaction", first, FALSE))
  /\ UNCHANGED <<running, sessionFile, labelsById, sessions>>

(* Mutant: clearing a label leaves it in the map. *)
AppendLabelChangeKeeps(id, target, on) ==
  /\ running
  /\ target \in IdsOf(fileEntries)
  /\ AppendEntry(NewEntry(id, leafId, "label", target, on))
  /\ labelsById' = labelsById \cup {target}
  /\ UNCHANGED <<running, sessionFile, sessions>>

(* appendLabelChange: the label is an entry of the path too, so the leaf   *)
(* moves to it.                                                            *)
AppendLabelChange(id, target, on) ==
  /\ running
  /\ target \in IdsOf(fileEntries)
  /\ AppendEntry(NewEntry(id, leafId, "label", target, on))
  /\ labelsById' = IF on THEN labelsById \cup {target} ELSE labelsById \ {target}
  /\ UNCHANGED <<running, sessionFile, sessions>>

(* branch and resetLeaf: only the pointer moves, in memory only.           *)
Branch(id) ==
  /\ running
  /\ id \in IdsOf(fileEntries) \cup {NoId}
  /\ leafId' = id
  /\ UNCHANGED <<running, sessionFile, fileEntries, labelsById, flushed, disk, sessions>>

BranchWithSummary(id, from) ==
  /\ running
  /\ from \in IdsOf(fileEntries) \cup {NoId}
  /\ AppendEntry(NewEntry(id, from, "note", NoId, FALSE))
  /\ UNCHANGED <<running, sessionFile, labelsById, sessions>>

Counted == sessions < MaxSessions /\ sessions' = sessions + 1

(* newSession: nothing is written yet.                                     *)
Fresh(f, parent) ==
  /\ running' = TRUE
  /\ sessionFile' = f
  /\ fileEntries' = <<NewHeader(parent)>>
  /\ leafId' = NoId /\ labelsById' = {}
  /\ flushed' = FALSE

(* _buildIndex over the entries.                                           *)
Indexed(fe) ==
  /\ fileEntries' = fe
  /\ leafId' = LastId(fe)
  /\ labelsById' = LabelledIn(fe)

(* Mutant: a file without an assistant message counts as corrupted. *)
OpenDiscards(d, f) ==
  IF f \notin DOMAIN d THEN Fresh(f, NoFile) /\ disk' = d
  ELSE /\ running' = TRUE /\ sessionFile' = f /\ flushed' = TRUE
       /\ LET fe == loadEntriesFromFile(d[f]) IN
            IF HasAssistant(fe) THEN Indexed(fe) /\ disk' = d
            ELSE Indexed(<<NewHeader(NoFile)>>) /\ disk' = Put(d, f, fileEntries')

(* SessionManager.open of the file f on the disk d: a file without a valid *)
(* header is overwritten with one, a missing file is a new session of that *)
(* name.                                                                   *)
Open(d, f) ==
  IF f \notin DOMAIN d THEN Fresh(f, NoFile) /\ disk' = d
  ELSE /\ running' = TRUE /\ sessionFile' = f /\ flushed' = TRUE
       /\ LET fe == loadEntriesFromFile(d[f]) IN
            IF fe = <<>>
              THEN /\ Indexed(<<NewHeader(NoFile)>>)
                   /\ disk' = Put(d, f, fileEntries')
              ELSE /\ Indexed(fe)
                   /\ disk' = d

(* The program starts with SessionManager.create, or with inMemory() for   *)
(* --no-session.                                                           *)
Start(f) ==
  /\ Counted
  /\ ~running
  /\ f \in FreshFiles \cup {NoFile}
  /\ Fresh(f, NoFile)
  /\ UNCHANGED disk

(* AgentSessionRuntime.newSession: always SessionManager.create.           *)
NewSession(f, parent) ==
  /\ Counted
  /\ running
  /\ f \in FreshFiles
  /\ parent \in {NoFile, sessionFile}
  /\ Fresh(f, parent)
  /\ UNCHANGED disk

(* switchSession and --resume.                                             *)
SwitchSession(f) ==
  /\ Counted
  /\ f \in DOMAIN disk
  /\ Open(disk, f)

(* importFromJsonl of a copy of the session file g, taken between two      *)
(* appends when g had n lines: it is copied into the session directory     *)
(* under its own name, that of g or another, over what has this name.      *)
ImportFromJsonl(g, n, f) ==
  /\ Counted
  /\ running
  /\ n # Len(disk[g]) => HasAssistant(SubSeq(disk[g], 1, n))
  /\ f \in FreshFiles \cup {g}
  /\ Open(Put(disk, f, SubSeq(disk[g], 1, n)), f)
-----------------------------------------------------------------------------
IsLabel(e) == e.kind = "label"
WithoutLabels(path) == ElementsAt(path, {n \in DOMAIN path : ~IsLabel(path[n])})

(* The orders in which a set can be listed.                                *)
Orderings(S) == {s \in [1..Cardinality(S) -> S] : IsInjective(s)}

(* The label entries a branched session ends with, each the child of the   *)
(* one before.                                                             *)
LabelEntries(path, targets, ids) ==
  [n \in 1..Len(targets) |->
     NewEntry(ids[n],
              IF n > 1 THEN ids[n - 1]
              ELSE IF path = <<>> THEN NoId ELSE path[Len(path)].id,
              "label", targets[n], TRUE)]

(* Mutant: the labels of the path are not recreated. *)
BranchedWithoutLabels(fe, leaf, parent) ==
  {<<NewHeader(parent)>> \o WithoutLabels(getBranch(fe, leaf))}

(* The entries createBranchedSession(leaf) leaves when fe are the entries  *)
(* of the manager: the path without its labels, unchanged, and the labels  *)
(* of what is on it.  One member per order of the Map and choice of ids.   *)
FreshLists(n) == UNION {Orderings(S) : S \in {T \in SUBSET FreshIds : Cardinality(T) = n}}
WithLabels(path, labelled, parent) ==
  {<<NewHeader(parent)>> \o path \o LabelEntries(path, targets, ids) :
     targets \in Orderings(labelled), ids \in FreshLists(Cardinality(labelled))}
Branched(fe, leaf, parent) ==
  LET path == WithoutLabels(getBranch(fe, leaf))
  IN WithLabels(path, LabelledIn(fe) \cap IdsOf(path), parent)

(* fork of a persisted session: the branched session is made from the file *)
(* on disk, written if it holds an assistant message, and opened again.    *)
ForkPersisted(target, f) ==
  LET source == loadEntriesFromFile(LinesOf(sessionFile)) IN
  /\ f \in FreshFiles
  /\ getBranch(source, target) # <<>>
  /\ \E fe \in Branched(source, target, sessionFile) :
       Open(IF HasAssistant(fe) THEN Put(disk, f, fe) ELSE disk, f)

(* fork of an in-memory session: the manager itself becomes the branch.    *)
ForkInMemory(target, f) ==
  /\ f = NoFile
  /\ \E fe \in Branched(fileEntries, target, NoFile) : Indexed(fe)
  /\ UNCHANGED <<running, sessionFile, flushed, disk>>

(* AgentSessionRuntime.fork.                                               *)
Fork(id, position, f) ==
  /\ Counted
  /\ running
  /\ id \in IdsOf(fileEntries)
  /\ position = "before" => ById(fileEntries, id).kind = "user"
  /\ LET target == IF position = "at" THEN id ELSE ById(fileEntries, id).parentId IN
       IF target = NoId
         THEN /\ f \in IF persist THEN FreshFiles ELSE {NoFile}
              /\ Fresh(f, sessionFile)
              /\ UNCHANGED disk
         ELSE IF persist THEN ForkPersisted(target, f) ELSE ForkInMemory(target, f)

(* SessionManager.forkFrom, run by a new process on a file on disk.        *)
ForkFrom(source, f) ==
  /\ Counted
  /\ ~running
  /\ source \in DOMAIN disk /\ f \in FreshFiles
  /\ LET fe == loadEntriesFromFile(disk[source])
         copy == <<NewHeader(source)>> \o ElementsAt(fe, EntryAt(fe))
     IN fe # <<>> /\ Open(Put(disk, f, copy), f)

(* The process is killed.  If it was appending, the next write being that  *)
(* of an assistant message, some of the lines are on disk, the last one    *)
(* perhaps in part.                                                        *)
Kill ==
  /\ running
  /\ running' = FALSE /\ sessionFile' = NoFile /\ fileEntries' = <<>>
  /\ leafId' = NoId /\ labelsById' = {} /\ flushed' = FALSE
  /\ UNCHANGED sessions
  /\ \/ UNCHANGED disk
     \/ \E id \in FreshIds :
          LET ls == Pending(Append(fileEntries, NewEntry(id, leafId, "assistant", NoId, FALSE)))
          IN \E n \in 0..(Len(ls) - 1), torn \in {<<>>, <<Torn>>} :
               LET lines == AppendLines(LinesOf(sessionFile), SubSeq(ls, 1, n) \o torn) IN
               disk' = IF n = 0 /\ torn = <<>> THEN disk ELSE Put(disk, sessionFile, lines)

Next ==
  \/ \E id \in FreshIds :
       \/ \E kind \in PlainKinds : AppendPlain(id, kind)
       \/ \E first \in IdsOf(fileEntries) : AppendCompaction(id, first)
       \/ \E target \in IdsOf(fileEntries), on \in BOOLEAN : AppendLabelChange(id, target, on)
       \/ \E from \in IdsOf(fileEntries) \cup {NoId} : BranchWithSummary(id, from)
  \/ \E id \in IdsOf(fileEntries) \cup {NoId} : Branch(id)
  \/ \E f \in SessionFiles \cup {NoFile} :
       \/ Start(f)
       \/ \E parent \in {NoFile, sessionFile} : NewSession(f, parent)
       \/ SwitchSession(f)
       \/ \E g \in DOMAIN disk : \E n \in DOMAIN disk[g] : ImportFromJsonl(g, n, f)
       \/ \E id \in IdsOf(fileEntries), position \in {"at", "before"} : Fork(id, position, f)
       \/ \E source \in DOMAIN disk : ForkFrom(source, f)
  \/ Kill

Spec == Init /\ [][Next]_vars
-----------------------------------------------------------------------------
(* Every variable has the type its declaration names; memory is a session  *)
(* only while the process runs.                                            *)
TypeOK ==
  /\ running \in BOOLEAN /\ flushed \in BOOLEAN
  /\ sessionFile \in SessionFiles \cup {NoFile}
  /\ fileEntries \in Seq(FileEntry)
  /\ running => fileEntries # <<>> /\ fileEntries[1] \in Header
  /\ leafId \in IdsOf(fileEntries) \cup {NoId}
  /\ labelsById \subseteq Ids
  /\ DOMAIN disk \subseteq SessionFiles /\ disk \in [DOMAIN disk -> Seq(Line)]

(* A line written behind the incomplete line of an earlier kill is lost    *)
(* with it; the properties of what is on disk except files that hold one.  *)
Swallowed(f) == \E i \in DOMAIN LinesOf(f) : LinesOf(f)[i] = Garbage

(* Once the assistant has answered, everything of the session is on disk,  *)
(* whatever was appended, branched, switched or killed before (_persist).  *)
Durable ==
  persist /\ HasAssistant(fileEntries) /\ ~Swallowed(sessionFile) =>
    \A i \in DOMAIN fileEntries :
      \E j \in DOMAIN LinesOf(sessionFile) : LinesOf(sessionFile)[j] = fileEntries[i]

(* The walks of getBranch and buildSessionContext end: an entry's parent,  *)
(* if it is there at all, stands before the entry, whatever was branched,  *)
(* forked or loaded.                                                       *)
ParentBeforeChild ==
  \A i, j \in EntryAt(fileEntries) :
    (fileEntries[i].parentId = fileEntries[j].id) =>
      \E k \in EntryAt(fileEntries) : fileEntries[k] = fileEntries[j] /\ k < i

(* The tree in memory is sound, and opening the file again yields the same *)
(* one with the same labels, so a restart loses nothing that was flushed   *)
(* (setSessionFile, _buildIndex against the incremental updates).          *)
ReloadAgrees ==
  /\ TypeOK /\ ParentBeforeChild
  /\ persist /\ flushed /\ ~Swallowed(sessionFile) =>
       LET fe == loadEntriesFromFile(LinesOf(sessionFile)) IN
       /\ IdsOf(fe) = IdsOf(fileEntries)
       /\ \A id \in IdsOf(fe) : ById(fe, id) = ById(fileEntries, id)
       /\ LabelledIn(fe) = labelsById

(* No operation rewrites a session file that has a header: lines are only  *)
(* added behind what is there ("append-only trees stored in JSONL files"). *)
(* The exception is an import of an older copy over it.                    *)
WholeLines(lines) ==
  IF lines # <<>> /\ lines[Len(lines)] = Torn THEN Front(lines) ELSE lines
FilesOnlyGrow ==
  [][\A f \in DOMAIN disk : loadEntriesFromFile(disk[f]) # <<>> =>
       /\ f \in DOMAIN disk'
       /\ \/ IsPrefix(WholeLines(disk[f]), disk'[f])
          \/ \E n \in DOMAIN disk[f] : ImportFromJsonl(f, n, f)]_vars

(* The path the new session shows, without label entries, as ids.          *)
PathIds(fe, id) ==
  LET path == WithoutLabels(getBranch(fe, id)) IN [n \in DOMAIN path |-> path[n].id]

(* Label entries stand on the path only behind its other entries.          *)
LabelsLast(path) ==
  /\ ~IsLabel(path[1])
  /\ \A n, m \in DOMAIN path : n < m /\ IsLabel(path[n]) => IsLabel(path[m])

(* What a fork at an entry keeps of its path: the entries in their order   *)
(* and their labels.                                                       *)
PathKept(id) ==
  LET path == getBranch(fileEntries, id) IN
  /\ PathIds(fileEntries', leafId') = PathIds(fileEntries, id)
  /\ labelsById' = labelsById \cap {path[n].id : n \in {m \in DOMAIN path : ~IsLabel(path[m])}}
  /\ \A g \in DOMAIN disk : disk'[g] = disk[g]

(* A fork keeps the path, with its labels, and leaves the source file as   *)
(* it was, if no label stands in the middle of the path and, in a session  *)
(* that is saved, the assistant has answered on it and no line of the file *)
(* was swallowed (createBranchedSession).                                  *)
ForkCopiesPath ==
  [][sessions' # sessions /\ running /\ ~Swallowed(sessionFile) =>
       \A id \in IdsOf(fileEntries) :
         LET path == getBranch(fileEntries, id) IN
         LabelsLast(path) /\ (persist => HasAssistant(path)) /\ Fork(id, "at", sessionFile') =>
           PathKept(id)]_vars

(* A forked session contains the path from the root to the entry: no entry *)
(* of the path is missing (createBranchedSession's comment).               *)
ForkKeepsPath ==
  [][sessions' # sessions /\ running =>
       \A id \in IdsOf(fileEntries) :
         (HasAssistant(getBranch(fileEntries, id)) /\ Fork(id, "at", sessionFile')) =>
           PathIds(fileEntries', leafId') = PathIds(fileEntries, id)]_vars

(* "--no-session: Don't save session (ephemeral)": a session in memory is  *)
(* followed by one with a file only if the user opens or imports that file.*)
EphemeralStaysInMemory ==
  [][(running /\ running' /\ ~persist) => (~persist' \/ sessionFile' \in DOMAIN disk')]_vars

(* A session file holds one header and no line twice.                      *)
NoDuplicateLines ==
  \A f \in DOMAIN disk : \A i, j \in DOMAIN disk[f] :
    (disk[f][i] = disk[f][j] /\ disk[f][i] \in FileEntry) => i = j
=============================================================================
