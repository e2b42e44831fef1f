-------------------------- MODULE FileMutationQueue --------------------------
(***************************************************************************)
(* withFileMutationQueue (coding-agent/src/core/tools): one promise chain  *)
(* per file that serialises the edit and write tools, and the two tools'   *)
(* bodies as far as the chain sees them: what they read, when their        *)
(* writeFile lands, and what an abort does while it is in flight.          *)
(*                                                                         *)
(* A call of withFileMutationQueue is a member of Calls.  The content of a *)
(* file is the set of calls whose change it holds.                         *)
(***************************************************************************)
EXTENDS Naturals

CONSTANTS
  Calls,     \* the tool calls made in one process
  NoCall,    \* no predecessor in the chain: Promise.resolve()
  Paths,     \* the absolute paths the calls name
  Files,     \* the files behind the paths
  FileOf,    \* the file a path leads to once symbolic links are followed
  RealPath,  \* realpathSync.native of an existing file
  Existing   \* the files that exist at first

ASSUME NoCallAssumption == NoCall \notin Calls
ASSUME PathAssumption ==
  Paths # {} /\ FileOf \in [Paths -> Files] /\ RealPath \in [Files -> Paths]
ASSUME ExistingAssumption == Existing \subseteq Files

VARIABLES
  fileMutationQueues, \* key -> the call whose chained promise is the tail
  key,       \* the key a call queued under
  prev,      \* the call whose chain a call awaits
  path,      \* the path a call was given
  tool,      \* "edit" or "write"
  pc,        \* where the tool's body is
  settled,   \* how the promise of fn ended, "no" while it is pending
  aborted,   \* the abort signal of the call has fired
  ticket,    \* the order of the calls, 0 before the call is made
  calls,     \* how many calls have been made
  exists,    \* the files that exist
  content,   \* file -> the calls whose change it holds
  snapshot,  \* what a call's readFile returned
  disturbed  \* history: edits whose file the write of an aborted call changed after they read it

queueVars == <<fileMutationQueues, key, prev, path, tool, ticket, calls>>
fileVars == <<exists, content, disturbed>>
vars == <<queueVars, pc, settled, aborted, fileVars, snapshot>>

InFn(o) == pc[o] \in {"opening", "read", "writing"} /\ settled[o] = "no"
Queued(o) == pc[o] = "waiting"
Released(o) == settled[o] # "no"

(* Mutant: resolve without realpath. *)
KeyIsResolvedPath(p) == p

getMutationQueueKey(p) == IF FileOf[p] \in exists THEN RealPath[FileOf[p]] ELSE p

AnyPath == CHOOSE p \in Paths : TRUE  \* of a call not yet made

Init ==
  /\ fileMutationQueues = [k \in Paths |-> NoCall]
  /\ key = [o \in Calls |-> AnyPath] /\ path = key
  /\ prev = [o \in Calls |-> NoCall]
  /\ tool = [o \in Calls |-> "edit"]
  /\ pc = [o \in Calls |-> "idle"]
  /\ settled = [o \in Calls |-> "no"]
  /\ aborted = [o \in Calls |-> FALSE]
  /\ ticket = [o \in Calls |-> 0]
  /\ calls = 0
  /\ exists = Existing
  /\ content = [f \in Files |-> {}]
  /\ snapshot = [o \in Calls |-> {}]
  /\ disturbed = {}

(* Calls differ by nothing before they are made: which is next is fixed.   *)
NextCall == CHOOSE o \in Calls : pc[o] = "idle"

(* The synchronous head of withFileMutationQueue: take the tail of the     *)
(* chain as predecessor and become the tail.                               *)
Enqueue(o, p, t) ==
  /\ pc[o] = "idle"
  /\ o = NextCall
  /\ LET k == getMutationQueueKey(p) IN
       /\ key' = [key EXCEPT ![o] = k]
       /\ prev' = [prev EXCEPT ![o] = fileMutationQueues[k]]
       /\ fileMutationQueues' = [fileMutationQueues EXCEPT ![k] = o]
  /\ path' = [path EXCEPT ![o] = p]
  /\ tool' = [tool EXCEPT ![o] = t]
  /\ calls' = calls + 1
  /\ ticket' = [ticket EXCEPT ![o] = calls + 1]
  /\ pc' = [pc EXCEPT ![o] = "waiting"]
  /\ UNCHANGED <<settled, aborted, fileVars, snapshot>>

(* Mutant: the map is never cleaned. *)
SettleDeletesNever(o, how) ==
  /\ settled' = [settled EXCEPT ![o] = how]
  /\ UNCHANGED queueVars

(* The promise of fn settles: the finally block releases the successor and *)
(* drops the map entry if it is still its own.                             *)
Settle(o, how) ==
  /\ settled' = [settled EXCEPT ![o] = how]
  /\ fileMutationQueues' =
       [fileMutationQueues EXCEPT ![key[o]] = IF @ = o THEN NoCall ELSE @]
  /\ UNCHANGED <<key, prev, path, tool, ticket, calls>>

Keep == UNCHANGED <<settled, queueVars>>

Goto(o, l) == pc' = [pc EXCEPT ![o] = l]

(* Mutant: fn is run without awaiting the chain. *)
ChainIgnored(o) == o \in Calls

ChainResolved(o) == prev[o] # NoCall => Released(prev[o])

(* await currentQueue, then fn: an aborted signal rejects at once, else    *)
(* the first I/O (access or mkdir) is started.                             *)
Begin(o) ==
  /\ pc[o] = "waiting"
  /\ ChainResolved(o)
  /\ IF aborted[o]
       THEN Goto(o, "done") /\ Settle(o, "aborted")
       ELSE Goto(o, "opening") /\ Keep
  /\ UNCHANGED <<aborted, fileVars, snapshot>>

(* The edit tool's access (of a missing file, or of any other) or readFile *)
(* fails, or the write tool's mkdir does; the reject has no effect on a     *)
(* promise an abort has rejected already.                                  *)
OpenFails(o) ==
  /\ pc[o] = "opening"
  /\ Goto(o, "done")
  /\ IF Released(o) THEN Keep ELSE Settle(o, "failed")
  /\ UNCHANGED <<aborted, fileVars, snapshot>>

(* The edit tool's readFile; the write tool reads nothing.                 *)
Read(o) ==
  /\ pc[o] = "opening" /\ tool[o] = "edit"
  /\ FileOf[path[o]] \in exists
  /\ IF aborted[o]
       THEN Goto(o, "done") /\ UNCHANGED snapshot
       ELSE /\ Goto(o, "read")
            /\ snapshot' = [snapshot EXCEPT ![o] = content[FileOf[path[o]]]]
  /\ Keep
  /\ UNCHANGED <<aborted, fileVars>>

(* From the end of readFile (or of mkdir) to the call of writeFile the     *)
(* code is synchronous: it checks the abort flag, computes the new text    *)
(* and starts the write.                                                   *)
StartWrite(o) ==
  /\ IF tool[o] = "edit" THEN pc[o] = "read" ELSE pc[o] = "opening"
  /\ Goto(o, IF aborted[o] THEN "done" ELSE "writing")
  /\ Keep
  /\ UNCHANGED <<aborted, fileVars, snapshot>>

(* Mutant: the chain is released on success only. *)
MismatchKeepsChain(o) ==
  /\ pc[o] = "read" /\ ~aborted[o]
  /\ Goto(o, "done") /\ Keep
  /\ UNCHANGED <<aborted, fileVars, snapshot>>

(* The edit's old text does not match what was read.                       *)
EditMismatch(o) ==
  /\ pc[o] = "read" /\ ~aborted[o]
  /\ Goto(o, "done")
  /\ Settle(o, "failed")
  /\ UNCHANGED <<aborted, fileVars, snapshot>>

(* The text a call writes: an edit's is what it read with its own change.  *)
NewText(o) == IF tool[o] = "edit" THEN snapshot[o] \cup {o} ELSE {o}

(* The file of a call now holds a text.  Of an aborted call this may come  *)
(* behind the reading of the next.                                         *)
FileBecomes(o, text) ==
  LET f == FileOf[path[o]] IN
    /\ content' = [content EXCEPT ![f] = text]
    /\ exists' = exists \cup {f}
    /\ disturbed' = IF Released(o)
                      THEN disturbed \cup {q \in Calls : pc[q] \in {"read", "writing"} /\ FileOf[path[q]] = f}
                      ELSE disturbed

(* writeFile lands.  The abort flag is looked at only afterwards.          *)
Land(o) ==
  /\ pc[o] = "writing"
  /\ FileBecomes(o, NewText(o))
  /\ Goto(o, "done")
  /\ IF Released(o) THEN Keep ELSE Settle(o, "ok")
  /\ UNCHANGED <<aborted, snapshot>>

(* writeFile fails before it has opened the file, or after: opening it has *)
(* emptied the file, and a part of the text may have been written.         *)
WriteFails(o) ==
  /\ pc[o] = "writing"
  /\ UNCHANGED fileVars \/ \E part \in SUBSET NewText(o) : FileBecomes(o, part)
  /\ Goto(o, "done")
  /\ IF Released(o) THEN Keep ELSE Settle(o, "failed")
  /\ UNCHANGED <<aborted, snapshot>>

(* The signal fires: onAbort rejects the promise of fn at once, whatever   *)
(* I/O is still in flight.  Before fn runs only the signal remembers it.   *)
Abort(o) ==
  /\ ~aborted[o] /\ ~Released(o)
  /\ pc[o] # "idle"
  /\ aborted' = [aborted EXCEPT ![o] = TRUE]
  /\ IF InFn(o) THEN Settle(o, "aborted") ELSE Keep
  /\ UNCHANGED <<pc, fileVars, snapshot>>

Step(o) ==
  \/ Begin(o) \/ OpenFails(o) \/ Read(o) \/ StartWrite(o)
  \/ EditMismatch(o) \/ Land(o) \/ WriteFails(o)

Next ==
  \E o \in Calls :
    \/ \E p \in Paths, t \in {"edit", "write"} : Enqueue(o, p, t)
    \/ Step(o)
    \/ Abort(o)

Spec == Init /\ [][Next]_vars

(* Promise reactions run and file-system calls complete.                   *)
FairSpec == Spec /\ \A o \in Calls : WF_vars(Step(o))
-----------------------------------------------------------------------------
(* Every variable has the type its declaration names.                      *)
TypeOK ==
  /\ fileMutationQueues \in [Paths -> Calls \cup {NoCall}]
  /\ key \in [Calls -> Paths] /\ path \in [Calls -> Paths]
  /\ prev \in [Calls -> Calls \cup {NoCall}]
  /\ tool \in [Calls -> {"edit", "write"}]
  /\ pc \in [Calls -> {"idle", "waiting", "opening", "read", "writing", "done"}]
  /\ settled \in [Calls -> {"no", "ok", "failed", "aborted"}]
  /\ aborted \in [Calls -> BOOLEAN]
  /\ ticket \in [Calls -> Nat] /\ calls \in Nat
  /\ exists \subseteq Files
  /\ content \in [Files -> SUBSET Calls] /\ disturbed \subseteq Calls
  /\ snapshot \in [Calls -> SUBSET Calls]

Earlier(o, p) == ticket[o] \in 1..ticket[p] /\ ticket[o] # ticket[p]

(* The chain of one key is first come, first served, and exclusive: fn of  *)
(* a call starts only when every call queued before it under the same key  *)
(* has settled (withFileMutationQueue, "Serialize file mutation            *)
(* operations").                                                           *)
FifoExclusion ==
  \A o, p \in Calls :
    (key[o] = key[p] /\ Earlier(o, p) /\ ~Released(o)) =>
      pc[p] = "waiting" /\ ~Released(p)

(* A key of the map always leads to a pending call: the entry is deleted   *)
(* with the last call of the chain, so the map cannot grow without bound,  *)
(* and never while a later call depends on it.                             *)
QueueEntryIsPending ==
  /\ \A k \in Paths : fileMutationQueues[k] # NoCall =>
       LET o == fileMutationQueues[k] IN key[o] = k /\ ~Released(o) /\ pc[o] # "idle"
  /\ \A o \in Calls : pc[o] # "idle" /\ ~Released(o) =>
       fileMutationQueues[key[o]] # NoCall

(* A change reported as made is lost in a step that removes it from its    *)
(* file, unless the step is that of a write tool called later, which       *)
(* replaces the whole file by intent.                                      *)
Landing(o) == pc[o] = "writing" /\ pc'[o] = "done"
Lost(p, f) ==
  /\ settled[p] = "ok"
  /\ p \in content[f] /\ p \notin content'[f]
  /\ \A o \in Calls : Landing(o) => ~(Earlier(p, o) /\ tool[o] = "write")

(* No edit drops a reported change it has not read and no earlier call     *)
(* overwrites a later one, but for a write that fails with the file open,  *)
(* and so reports, for the write of an aborted call that lands late, and   *)
(* for an edit that had read the file when it did (withFileMutationQueue). *)
NoLostUpdate ==
  [][\A p \in Calls, f \in Existing : Lost(p, f) =>
       \E o \in Calls : Landing(o) /\ (aborted[o] \/ settled'[o] = "failed" \/ o \in disturbed)]_vars

(* "Serialize file mutation operations targeting the same file": no        *)
(* reported change is lost at all.                                         *)
ReportedChangeStays == [][\A p \in Calls, f \in Existing : ~Lost(p, f)]_vars

(* At most one call at a time is inside fn for one file that exists, under *)
(* whatever names the calls were given.                                    *)
FileExclusion ==
  \A o, p \in Calls :
    o # p /\ InFn(o) /\ InFn(p) /\ FileOf[path[o]] \in Existing =>
      FileOf[path[o]] # FileOf[path[p]]

(* The calls made whose promise is pending, and for each those before it.  *)
Pending == {o \in Calls : pc[o] # "idle" /\ ~Released(o)}
Ahead == [o \in Calls |-> {p \in Pending : o \in Pending /\ key[p] = key[o] /\ Earlier(p, o)}]

Lock == INSTANCE FifoLock WITH
  Clients <- Calls, Locks <- Paths, lock <- key,
  asked <- {o \in Calls : pc[o] # "idle"}, pending <- Pending,
  inside <- {o \in Calls : InFn(o)}, ahead <- Ahead

(* The chains of promises are locks that serve their callers in the order  *)
(* of their calls, however the calls end: aborted before or inside fn,     *)
(* failed or done (withFileMutationQueue).                                 *)
ChainIsFifoLock == Lock!Spec

(* A queued call is never starved: its fn runs and settles, whatever       *)
(* happens to the calls before it (error, abort, success).                 *)
QueuedCallSettles == \A o \in Calls : pc[o] = "waiting" ~> Released(o)
=============================================================================
