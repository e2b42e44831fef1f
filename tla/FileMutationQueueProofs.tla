----------------------- MODULE FileMutationQueueProofs -----------------------
(* Proofs about FileMutationQueue, for any number of calls, paths and      *)
(* files: the chain of a key is first come, first served and exclusive,    *)
(* the map holds pending calls only, calls on an existing file exclude     *)
(* each other, and a reported change of one is lost to nothing but writes  *)
(* that fail or land late.                                                 *)
EXTENDS FileMutationQueue, TLAPS

(* Tickets number the calls made, without repetition; a call that waits is *)
(* pending and a call not yet made has not settled.                        *)
TicketInv ==
  /\ \A o \in Calls : ticket[o] <= calls
  /\ \A o \in Calls : ticket[o] = 0 <=> pc[o] = "idle"
  /\ \A o, p \in Calls : ticket[o] = ticket[p] /\ ticket[o] # 0 => o = p
  /\ \A o \in Calls : pc[o] \in {"idle", "waiting"} => settled[o] = "no"

(* Behind a pending call of a key everyone waits, each for a call of the   *)
(* key that is no earlier than the pending one.                            *)
ChainInv ==
  \A o, p \in Calls :
    (key[o] = key[p] /\ Earlier(o, p) /\ ~Released(o)) =>
      /\ pc[p] = "waiting"
      /\ prev[p] \in Calls
      /\ key[prev[p]] = key[p]
      /\ ticket[o] <= ticket[prev[p]]

(* The tail of a key is its last call, and pending.                        *)
TailInv ==
  /\ \A o \in Calls : (pc[o] # "idle" /\ ~Released(o)) =>
       /\ fileMutationQueues[key[o]] \in Calls
       /\ ticket[o] <= ticket[fileMutationQueues[key[o]]]
  /\ \A k \in Paths : fileMutationQueues[k] # NoCall =>
       /\ key[fileMutationQueues[k]] = k
       /\ pc[fileMutationQueues[k]] # "idle"
       /\ ~Released(fileMutationQueues[k])

(* A tool body that still runs after its promise settled was aborted.      *)
AbortInv ==
  \A o \in Calls :
    (pc[o] \in {"opening", "read", "writing"} /\ Released(o)) =>
      aborted[o] /\ settled[o] = "aborted"

IInv == TypeOK /\ AbortInv /\ TicketInv /\ ChainInv /\ TailInv
-----------------------------------------------------------------------------
USE NoCallAssumption, PathAssumption, ExistingAssumption

(* The inductive invariant holds at first: no call has been made.          *)
LEMMA InitIInv == Init => IInv
  BY DEF Init, IInv, TypeOK, AbortInv, TicketInv, ChainInv, TailInv, Earlier, Released, AnyPath

(* What a settled promise leaves has the types it had.                     *)
LEMMA SettleTypes ==
  ASSUME TypeOK, NEW o \in Calls, NEW how \in {"ok", "failed", "aborted"}, Settle(o, how)
  PROVE  /\ settled' \in [Calls -> {"no", "ok", "failed", "aborted"}]
         /\ fileMutationQueues' \in [Paths -> Calls \cup {NoCall}]
         /\ UNCHANGED <<key, prev, path, tool, ticket, calls>>
  BY DEF Settle, TypeOK

(* The text a call writes holds changes of calls.                          *)
LEMMA TextType == ASSUME TypeOK, NEW o \in Calls PROVE NewText(o) \in SUBSET Calls
  BY DEF NewText, TypeOK

(* What a write leaves has the types it had.                               *)
LEMMA TextTypes ==
  ASSUME TypeOK, NEW o \in Calls, NEW text \in SUBSET Calls, FileBecomes(o, text)
  PROVE  content' \in [Files -> SUBSET Calls] /\ exists' \subseteq Files /\ disturbed' \subseteq Calls
  BY DEF FileBecomes, TypeOK

(* Every step keeps the types.                                             *)
LEMMA TypeStep == TypeOK /\ [Next]_vars => TypeOK'
<1> SUFFICES ASSUME TypeOK, [Next]_vars PROVE TypeOK'
  OBVIOUS
<1>a. ASSUME NEW o \in Calls, NEW l \in {"read", "writing", "done", "opening"}, Goto(o, l),
             Keep \/ \E how \in {"ok", "failed", "aborted"} : Settle(o, how),
             aborted' \in [Calls -> BOOLEAN], exists' \subseteq Files,
             content' \in [Files -> SUBSET Calls], snapshot' \in [Calls -> SUBSET Calls],
             disturbed' \subseteq Calls
      PROVE  TypeOK'
  <2>1. pc' \in [Calls -> {"idle", "waiting", "opening", "read", "writing", "done"}]
    BY <1>a DEF Goto, TypeOK
  <2>2. /\ settled' \in [Calls -> {"no", "ok", "failed", "aborted"}]
        /\ fileMutationQueues' \in [Paths -> Calls \cup {NoCall}]
        /\ UNCHANGED <<key, prev, path, tool, ticket, calls>>
    BY <1>a, SettleTypes DEF Keep, queueVars, TypeOK
  <2> QED BY <1>a, <2>1, <2>2 DEF TypeOK
<1> USE DEF TypeOK, queueVars, fileVars
<1>1. CASE UNCHANGED vars
  BY <1>1 DEF vars
<1>2. ASSUME NEW o \in Calls, NEW p \in Paths, NEW t \in {"edit", "write"}, Enqueue(o, p, t)
      PROVE TypeOK'
  <2>1. getMutationQueueKey(p) \in Paths
    BY DEF getMutationQueueKey
  <2> QED BY <1>2, <2>1 DEF Enqueue
<1>3. ASSUME NEW o \in Calls, Begin(o) PROVE TypeOK'
  <2>1. CASE aborted[o]
    <3>1. /\ Goto(o, "done") /\ Settle(o, "aborted")
          /\ UNCHANGED <<aborted, fileVars, snapshot>>
      BY <1>3, <2>1, Zenon DEF Begin
    <3> QED BY <1>a, <3>1
  <2>2. CASE ~aborted[o]
    BY <1>a, <1>3, <2>2 DEF Begin
  <2> QED BY <2>1, <2>2
<1>4. ASSUME NEW o \in Calls, OpenFails(o) PROVE TypeOK'
  BY <1>a, <1>4 DEF OpenFails
<1>5. ASSUME NEW o \in Calls, Read(o) PROVE TypeOK'
  <2>1. snapshot' \in [Calls -> SUBSET Calls] /\ UNCHANGED <<aborted, exists, content, disturbed>>
    BY <1>5 DEF Read
  <2>2. Goto(o, "done") \/ Goto(o, "read")
    BY <1>5 DEF Read
  <2> QED BY <1>a, <1>5, <2>1, <2>2 DEF Read
<1>6. ASSUME NEW o \in Calls, StartWrite(o) PROVE TypeOK'
  BY <1>a, <1>6 DEF StartWrite
<1>7. ASSUME NEW o \in Calls, EditMismatch(o) PROVE TypeOK'
  BY <1>a, <1>7 DEF EditMismatch
<1>8. ASSUME NEW o \in Calls, Land(o) PROVE TypeOK'
  <2>1. content' \in [Files -> SUBSET Calls] /\ exists' \subseteq Files /\ disturbed' \subseteq Calls
    BY <1>8, TextType, TextTypes DEF Land
  <2> QED BY <1>a, <1>8, <2>1 DEF Land
<1>9. ASSUME NEW o \in Calls, WriteFails(o) PROVE TypeOK'
  <2>1. content' \in [Files -> SUBSET Calls] /\ exists' \subseteq Files /\ disturbed' \subseteq Calls
    <3>1. CASE UNCHANGED fileVars
      BY <3>1
    <3>2. ASSUME NEW part \in SUBSET NewText(o), FileBecomes(o, part)
          PROVE  content' \in [Files -> SUBSET Calls] /\ exists' \subseteq Files /\ disturbed' \subseteq Calls
      BY <3>2, TextType, TextTypes
    <3> QED BY <1>9, <3>1, <3>2 DEF WriteFails
  <2> QED BY <1>a, <1>9, <2>1 DEF WriteFails
<1>10. ASSUME NEW o \in Calls, Abort(o) PROVE TypeOK'
  BY <1>10, SettleTypes DEF Abort, Keep
<1> QED BY <1>1, <1>2, <1>3, <1>4, <1>5, <1>6, <1>7, <1>8, <1>9, <1>10 DEF Next, Step

(* Only an abort settles the promise of a body that goes on.               *)
LEMMA AbortStep == IInv /\ [Next]_vars => AbortInv'
<1> SUFFICES ASSUME IInv, [Next]_vars, NEW a \in Calls,
                    pc'[a] \in {"opening", "read", "writing"}, settled'[a] # "no"
             PROVE  aborted'[a] /\ settled'[a] = "aborted"
  BY DEF AbortInv, Released
<1> USE DEF IInv, TypeOK, AbortInv, queueVars, Goto, Keep, Settle, Released
<1>1. CASE UNCHANGED vars
  BY <1>1 DEF vars
<1>2. ASSUME NEW o \in Calls, NEW p \in Paths, NEW t \in {"edit", "write"}, Enqueue(o, p, t)
      PROVE aborted'[a] /\ settled'[a] = "aborted"
  BY <1>2 DEF Enqueue
<1>3. ASSUME NEW o \in Calls, Begin(o) PROVE aborted'[a] /\ settled'[a] = "aborted"
  <2>1. pc[o] = "waiting" /\ settled[o] = "no"
    BY <1>3 DEF Begin, TicketInv
  <2>2. CASE aborted[o]
    BY <1>3, <2>1, <2>2 DEF Begin
  <2>3. CASE ~aborted[o]
    BY <1>3, <2>1, <2>3 DEF Begin
  <2> QED BY <2>2, <2>3
<1>4. ASSUME NEW o \in Calls, OpenFails(o) PROVE aborted'[a] /\ settled'[a] = "aborted"
  BY <1>4 DEF OpenFails
<1>5. ASSUME NEW o \in Calls, Read(o) PROVE aborted'[a] /\ settled'[a] = "aborted"
  BY <1>5 DEF Read
<1>6. ASSUME NEW o \in Calls, StartWrite(o) PROVE aborted'[a] /\ settled'[a] = "aborted"
  BY <1>6 DEF StartWrite
<1>7. ASSUME NEW o \in Calls, EditMismatch(o) PROVE aborted'[a] /\ settled'[a] = "aborted"
  BY <1>7 DEF EditMismatch
<1>8. ASSUME NEW o \in Calls, Land(o) PROVE aborted'[a] /\ settled'[a] = "aborted"
  BY <1>8 DEF Land
<1>9. ASSUME NEW o \in Calls, WriteFails(o) PROVE aborted'[a] /\ settled'[a] = "aborted"
  BY <1>9 DEF WriteFails
<1>10. ASSUME NEW o \in Calls, Abort(o) PROVE aborted'[a] /\ settled'[a] = "aborted"
  BY <1>10 DEF Abort, InFn
<1> QED BY <1>1, <1>2, <1>3, <1>4, <1>5, <1>6, <1>7, <1>8, <1>9, <1>10 DEF Next, Step

(* Nobody behind the call that may start: the predecessor it awaits has    *)
(* settled, so every earlier call of its key has.                          *)
LEMMA FrontOfChain ==
  ASSUME IInv, NEW o \in Calls, NEW q \in Calls,
         pc[o] = "waiting" => ChainResolved(o),
         key[q] = key[o], Earlier(q, o)
  PROVE  Released(q)
<1> SUFFICES ASSUME ~Released(q) PROVE FALSE
  OBVIOUS
<1>1. /\ pc[o] = "waiting" /\ prev[o] \in Calls /\ key[prev[o]] = key[o]
      /\ ticket[q] <= ticket[prev[o]]
  BY DEF IInv, ChainInv
<1>2. Released(prev[o])
  BY <1>1 DEF ChainResolved
<1>3. q # prev[o]
  BY <1>2
<1>4. Earlier(q, prev[o])
  BY <1>1, <1>3 DEF IInv, TypeOK, TicketInv, Earlier
<1>5. pc[prev[o]] = "waiting"
  BY <1>1, <1>4 DEF IInv, ChainInv
<1> QED BY <1>1, <1>2, <1>5 DEF IInv, TicketInv, Released

(* A call at the front of its chain that settles leaves the invariant      *)
(* intact: the map entry it deletes is not needed by a later call.         *)
LEMMA SettleStep ==
  ASSUME IInv, NEW o \in Calls, NEW how \in {"ok", "failed", "aborted"},
         pc[o] # "idle", ~Released(o),
         pc[o] = "waiting" => ChainResolved(o),
         Settle(o, how), pc' = [pc EXCEPT ![o] = "done"] \/ (pc' = pc /\ pc[o] # "waiting")
  PROVE  (TicketInv /\ ChainInv /\ TailInv)'
<1> USE DEF IInv, TypeOK, Settle
<1>1. \A q \in Calls : key[q] = key[o] /\ Earlier(q, o) => Released(q)
  BY FrontOfChain
<1>2. TicketInv'
  BY DEF TicketInv, Released
<1>3. ChainInv'
  <2> SUFFICES ASSUME NEW a \in Calls, NEW b \in Calls,
                      key[a] = key[b], Earlier(a, b), ~Released(a)'
               PROVE  /\ pc'[b] = "waiting" /\ prev[b] \in Calls
                      /\ key[prev[b]] = key[b] /\ ticket[a] <= ticket[prev[b]]
    BY DEF ChainInv, Earlier
  <2>1. a # o /\ ~Released(a)
    BY DEF Released
  <2>2. b # o
    BY <1>1, <2>1
  <2> QED BY <2>1, <2>2 DEF ChainInv
<1>4. TailInv'
  <2>1. \A q \in Calls : (pc[q] # "idle" /\ ~Released(q) /\ key[q] = key[o] /\ q # o
                             /\ fileMutationQueues[key[o]] = o) => FALSE
    <3> SUFFICES ASSUME NEW q \in Calls, pc[q] # "idle", ~Released(q), key[q] = key[o],
                        q # o, fileMutationQueues[key[o]] = o
                 PROVE  FALSE
      OBVIOUS
    <3>1. ticket[q] <= ticket[o] /\ ticket[q] # 0
      BY DEF TailInv, TicketInv
    <3>2. Earlier(q, o)
      BY <3>1 DEF TicketInv, Earlier
    <3> QED BY <3>2, <1>1
  <2>2. ASSUME NEW q \in Calls, pc'[q] # "idle", ~Released(q)'
        PROVE  /\ fileMutationQueues'[key[q]] \in Calls
               /\ ticket[q] <= ticket[fileMutationQueues'[key[q]]]
    <3>1. q # o /\ pc[q] # "idle" /\ ~Released(q)
      BY <2>2 DEF Released
    <3>2. fileMutationQueues'[key[q]] = fileMutationQueues[key[q]]
      BY <3>1, <2>1
    <3> QED BY <3>1, <3>2 DEF TailInv
  <2>3. ASSUME NEW k \in Paths, fileMutationQueues'[k] # NoCall
        PROVE  /\ key[fileMutationQueues'[k]] = k
               /\ pc'[fileMutationQueues'[k]] # "idle"
               /\ settled'[fileMutationQueues'[k]] = "no"
    <3>1. fileMutationQueues'[k] = fileMutationQueues[k]
      BY <2>3
    <3>2. fileMutationQueues[k] # o
      BY <2>3, <3>1 DEF TailInv
    <3> QED BY <2>3, <3>1, <3>2 DEF TailInv, Released
  <2> QED BY <2>2, <2>3 DEF TailInv, Released
<1> QED BY <1>2, <1>3, <1>4

(* A call past the wait that moves on without settling disturbs nothing.   *)
LEMMA MoveStep ==
  ASSUME IInv, NEW o \in Calls, pc[o] # "idle", Keep,
         pc[o] = "waiting" => ChainResolved(o),
         NEW l \in {"opening", "read", "writing", "done"}, Goto(o, l)
  PROVE  (TicketInv /\ ChainInv /\ TailInv)'
<1> USE DEF IInv, TypeOK, Keep, queueVars, Goto
<1>1. TicketInv'
  BY DEF TicketInv
<1>2. ChainInv'
  <2>1. \A q \in Calls : key[q] = key[o] /\ Earlier(q, o) => Released(q)
    BY FrontOfChain
  <2> QED BY <2>1 DEF ChainInv, Earlier, Released
<1>3. TailInv'
  BY DEF TailInv, Released
<1> QED BY <1>1, <1>2, <1>3

(* A new call takes the last ticket and the tail of its key as predecessor.*)
LEMMA EnqueueStep ==
  ASSUME IInv, NEW o \in Calls, NEW p \in Paths, NEW t \in {"edit", "write"}, Enqueue(o, p, t)
  PROVE  (TicketInv /\ ChainInv /\ TailInv)'
<1> USE DEF IInv, TypeOK, Enqueue
<1> DEFINE k == getMutationQueueKey(p)
<1>0. k \in Paths
  BY DEF getMutationQueueKey
<1> HIDE DEF k
<1>k. /\ key' = [key EXCEPT ![o] = k]
      /\ prev' = [prev EXCEPT ![o] = fileMutationQueues[k]]
      /\ fileMutationQueues' = [fileMutationQueues EXCEPT ![k] = o]
  BY DEF k
<1>1. TicketInv'
  BY DEF TicketInv
<1>2. ticket[o] = 0 /\ \A q \in Calls : q # o => ticket'[q] = ticket[q]
  BY DEF TicketInv
<1>3. ChainInv'
  <2> SUFFICES ASSUME NEW a \in Calls, NEW b \in Calls,
                      key'[a] = key'[b], Earlier(a, b)', ~Released(a)'
               PROVE  /\ pc'[b] = "waiting" /\ prev'[b] \in Calls
                      /\ key'[prev'[b]] = key'[b] /\ ticket'[a] <= ticket'[prev'[b]]
    BY DEF ChainInv
  <2>1. a # o
    BY DEF Earlier, TicketInv
  <2>2. pc[a] # "idle" /\ ~Released(a) /\ key[a] = key'[a] /\ ticket'[a] = ticket[a] /\ ticket[a] # 0
    BY <2>1, <1>k DEF Earlier, TicketInv, Released
  <2>3. CASE b = o
    <3>1. key[a] = k
      BY <2>2, <2>3, <1>0, <1>k
    <3>2. /\ fileMutationQueues[k] \in Calls /\ ticket[a] <= ticket[fileMutationQueues[k]]
          /\ key[fileMutationQueues[k]] = k /\ fileMutationQueues[k] # o
      BY <2>2, <3>1, <1>0 DEF TailInv
    <3> QED BY <2>2, <2>3, <3>1, <3>2, <1>0, <1>2, <1>k
  <2>4. CASE b # o
    <3>1. key[a] = key[b] /\ Earlier(a, b)
      BY <2>1, <2>2, <2>4, <1>k, <1>2 DEF Earlier
    <3>2. /\ pc[b] = "waiting" /\ prev[b] \in Calls /\ key[prev[b]] = key[b]
          /\ ticket[a] <= ticket[prev[b]]
      BY <3>1, <2>2 DEF ChainInv
    <3>3. prev[b] # o
      BY <3>2, <2>2, <1>2
    <3> QED BY <2>2, <2>4, <3>2, <3>3, <1>2, <1>k
  <2> QED BY <2>3, <2>4
<1>4. TailInv'
  <2>1. ASSUME NEW q \in Calls, pc'[q] # "idle", ~Released(q)'
        PROVE  /\ fileMutationQueues'[key'[q]] \in Calls
               /\ ticket'[q] <= ticket'[fileMutationQueues'[key'[q]]]
    <3>1. CASE q = o
      BY <3>1, <1>0, <1>k
    <3>2. CASE q # o
      <4>1. /\ pc[q] # "idle" /\ ~Released(q) /\ key'[q] = key[q]
            /\ fileMutationQueues[key[q]] \in Calls
            /\ ticket[q] <= ticket[fileMutationQueues[key[q]]]
            /\ ticket[q] <= calls
        BY <3>2, <2>1, <1>k DEF TailInv, TicketInv, Released
      <4>2. fileMutationQueues[key[q]] # o
        BY <4>1 DEF TailInv
      <4>3. CASE key[q] = k
        <5>1. fileMutationQueues'[key'[q]] = o
          BY <4>1, <4>3, <1>0, <1>k
        <5> QED BY <5>1, <4>1, <3>2
      <4>4. CASE key[q] # k
        <5>1. fileMutationQueues'[key'[q]] = fileMutationQueues[key[q]]
          BY <4>1, <4>4, <1>0, <1>k
        <5> QED BY <5>1, <4>1, <4>2, <3>2
      <4> QED BY <4>3, <4>4
    <3> QED BY <3>1, <3>2
  <2>2. ASSUME NEW j \in Paths, fileMutationQueues'[j] # NoCall
        PROVE  /\ key'[fileMutationQueues'[j]] = j
               /\ pc'[fileMutationQueues'[j]] # "idle"
               /\ settled'[fileMutationQueues'[j]] = "no"
    <3>1. CASE j = k
      BY <3>1, <1>0, <1>k DEF TicketInv, Released
    <3>2. CASE j # k
      BY <3>2, <2>2, <1>0, <1>k DEF TailInv, Released
    <3> QED BY <3>1, <3>2
  <2> QED BY <2>1, <2>2 DEF TailInv, Released
<1> QED BY <1>1, <1>3, <1>4

(* The invariant is inductive.                                             *)
LEMMA NextIInv == IInv /\ [Next]_vars => IInv'
<1> SUFFICES ASSUME IInv, [Next]_vars PROVE IInv'
  OBVIOUS
<1>t. TypeOK'
  BY TypeStep DEF IInv
<1>a. AbortInv'
  BY AbortStep
<1> SUFFICES (TicketInv /\ ChainInv /\ TailInv)'
  BY <1>t, <1>a DEF IInv
<1>1. CASE UNCHANGED vars
  BY <1>1 DEF IInv, TicketInv, ChainInv, TailInv, Earlier, Released, vars, queueVars
<1>2. ASSUME NEW o \in Calls, NEW p \in Paths, NEW t \in {"edit", "write"}, Enqueue(o, p, t)
      PROVE (TicketInv /\ ChainInv /\ TailInv)'
  BY <1>2, EnqueueStep
<1>3. ASSUME NEW o \in Calls, Begin(o) PROVE (TicketInv /\ ChainInv /\ TailInv)'
  <2>1. ~Released(o)
    BY <1>3 DEF Begin, IInv, TicketInv, Released
  <2>2. CASE aborted[o]
    BY <1>3, <2>1, <2>2, SettleStep DEF Begin, Goto
  <2>3. CASE ~aborted[o]
    BY <1>3, <2>3, MoveStep DEF Begin
  <2> QED BY <2>2, <2>3
<1>4. ASSUME NEW o \in Calls, OpenFails(o) PROVE (TicketInv /\ ChainInv /\ TailInv)'
  <2>1. CASE Released(o)
    BY <1>4, <2>1, MoveStep DEF OpenFails
  <2>2. CASE ~Released(o)
    BY <1>4, <2>2, SettleStep DEF OpenFails, Goto
  <2> QED BY <2>1, <2>2
<1>5. ASSUME NEW o \in Calls, Read(o) PROVE (TicketInv /\ ChainInv /\ TailInv)'
  <2>1. CASE aborted[o]
    BY <1>5, <2>1, MoveStep DEF Read
  <2>2. CASE ~aborted[o]
    BY <1>5, <2>2, MoveStep DEF Read
  <2> QED BY <2>1, <2>2
<1>6. ASSUME NEW o \in Calls, StartWrite(o) PROVE (TicketInv /\ ChainInv /\ TailInv)'
  <2>1. pc[o] \in {"opening", "read"}
    BY <1>6 DEF StartWrite
  <2>2. CASE aborted[o]
    BY <1>6, <2>1, <2>2, MoveStep DEF StartWrite
  <2>3. CASE ~aborted[o]
    BY <1>6, <2>1, <2>3, MoveStep DEF StartWrite
  <2> QED BY <2>2, <2>3
<1>7. ASSUME NEW o \in Calls, EditMismatch(o) PROVE (TicketInv /\ ChainInv /\ TailInv)'
  <2>1. ~Released(o)
    BY <1>7 DEF EditMismatch, IInv, AbortInv
  <2> QED BY <1>7, <2>1, SettleStep DEF EditMismatch, Goto
<1>8. ASSUME NEW o \in Calls, Land(o) PROVE (TicketInv /\ ChainInv /\ TailInv)'
  <2>1. CASE Released(o)
    BY <1>8, <2>1, MoveStep DEF Land
  <2>2. CASE ~Released(o)
    BY <1>8, <2>2, SettleStep DEF Land, Goto
  <2> QED BY <2>1, <2>2
<1>9. ASSUME NEW o \in Calls, WriteFails(o) PROVE (TicketInv /\ ChainInv /\ TailInv)'
  <2>1. CASE Released(o)
    BY <1>9, <2>1, MoveStep DEF WriteFails
  <2>2. CASE ~Released(o)
    BY <1>9, <2>2, SettleStep DEF WriteFails, Goto
  <2> QED BY <2>1, <2>2
<1>10. ASSUME NEW o \in Calls, Abort(o) PROVE (TicketInv /\ ChainInv /\ TailInv)'
  <2>1. CASE InFn(o)
    BY <1>10, <2>1, SettleStep DEF Abort, InFn
  <2>2. CASE ~InFn(o)
    BY <1>10, <2>2 DEF Abort, Keep, queueVars, IInv, TicketInv, ChainInv, TailInv, Earlier, Released
  <2> QED BY <2>1, <2>2
<1> QED BY <1>1, <1>2, <1>3, <1>4, <1>5, <1>6, <1>7, <1>8, <1>9, <1>10 DEF Next, Step

(* IInv holds in every reachable state.                                    *)
THEOREM Invariance == Spec => []IInv
  BY InitIInv, NextIInv, PTL DEF Spec

(* The chain of a key is first come, first served and exclusive.           *)
THEOREM Serialised == Spec => []FifoExclusion
<1>1. IInv => FifoExclusion
  BY DEF IInv, FifoExclusion, ChainInv, TicketInv, Released
<1> QED BY Invariance, <1>1, PTL

(* The map of chains holds pending calls only, and every pending call's    *)
(* key is in it.                                                           *)
THEOREM MapHoldsPending == Spec => []QueueEntryIsPending
<1>1. IInv => QueueEntryIsPending
  BY DEF IInv, QueueEntryIsPending, TailInv, TypeOK
<1> QED BY Invariance, <1>1, PTL
-----------------------------------------------------------------------------
(* A call on a file that exists queues under its real path.                *)
KeyInv ==
  /\ Existing \subseteq exists
  /\ \A o \in Calls : (pc[o] # "idle" /\ FileOf[path[o]] \in Existing) =>
       key[o] = RealPath[FileOf[path[o]]]

(* Files hold the changes of calls that are done, and so does what was read*)
(* from them.                                                              *)
ContentInv ==
  /\ \A f \in Files : \A x \in content[f] : pc[x] = "done" /\ FileOf[path[x]] = f
  /\ \A o \in Calls : \A x \in snapshot[o] :
       pc[o] # "idle" /\ pc[x] = "done" /\ FileOf[path[x]] = FileOf[path[o]]

(* The file is as a pending edit read it, unless it was disturbed.         *)
SnapshotInv ==
  \A o \in Calls :
    (/\ tool[o] = "edit" /\ pc[o] \in {"read", "writing"} /\ ~Released(o)
     /\ FileOf[path[o]] \in Existing) =>
       content[FileOf[path[o]]] = snapshot[o] \/ o \in disturbed

FileInv == KeyInv /\ ContentInv /\ SnapshotInv

(* Two calls inside fn are not on one existing file.                       *)
LEMMA ExclusiveInFn ==
  ASSUME IInv, KeyInv, NEW o \in Calls, NEW p \in Calls, o # p, InFn(o), InFn(p),
         FileOf[path[o]] \in Existing, FileOf[path[o]] = FileOf[path[p]]
  PROVE  FALSE
<1>1. key[o] = key[p]
  BY DEF KeyInv, InFn
<1>2. ticket[o] \in Nat \ {0} /\ ticket[p] \in Nat \ {0} /\ ticket[o] # ticket[p]
  BY DEF IInv, TypeOK, TicketInv, InFn
<1>3. Earlier(o, p) \/ Earlier(p, o)
  BY <1>2 DEF Earlier
<1> QED BY <1>1, <1>3 DEF IInv, ChainInv, InFn, Released

(* The file invariant holds at first: the files are empty.                 *)
LEMMA InitFileInv == Init => FileInv
  BY DEF Init, FileInv, KeyInv, ContentInv, SnapshotInv

(* The key of a call is chosen when it is queued, and existing files stay. *)
LEMMA KeyStep == IInv /\ KeyInv /\ [Next]_vars => KeyInv'
<1> SUFFICES ASSUME IInv, KeyInv, [Next]_vars PROVE KeyInv'
  OBVIOUS
<1> USE DEF IInv, TypeOK, KeyInv, queueVars, fileVars, Goto, Keep, Settle
<1>1. CASE UNCHANGED vars
  BY <1>1 DEF vars
<1>2. ASSUME NEW o \in Calls, NEW p \in Paths, NEW t \in {"edit", "write"}, Enqueue(o, p, t)
      PROVE KeyInv'
  BY <1>2 DEF Enqueue, getMutationQueueKey
<1>3. ASSUME NEW o \in Calls, Begin(o) PROVE KeyInv'
  <2>1. CASE aborted[o]
    BY <1>3, <2>1 DEF Begin
  <2>2. CASE ~aborted[o]
    BY <1>3, <2>2 DEF Begin
  <2> QED BY <2>1, <2>2
<1>4. ASSUME NEW o \in Calls, OpenFails(o) PROVE KeyInv'
  BY <1>4 DEF OpenFails
<1>5. ASSUME NEW o \in Calls, Read(o) PROVE KeyInv'
  BY <1>5 DEF Read
<1>6. ASSUME NEW o \in Calls, StartWrite(o) PROVE KeyInv'
  BY <1>6 DEF StartWrite
<1>7. ASSUME NEW o \in Calls, EditMismatch(o) PROVE KeyInv'
  BY <1>7 DEF EditMismatch
<1>8. ASSUME NEW o \in Calls, Land(o) PROVE KeyInv'
  BY <1>8 DEF Land, FileBecomes
<1>9. ASSUME NEW o \in Calls, WriteFails(o) PROVE KeyInv'
  <2>1. exists \subseteq exists' /\ UNCHANGED <<path, key>> /\ pc[o] # "idle" /\ pc' = [pc EXCEPT ![o] = "done"]
    BY <1>9 DEF WriteFails, FileBecomes
  <2> QED BY <2>1
<1>10. ASSUME NEW o \in Calls, Abort(o) PROVE KeyInv'
  BY <1>10 DEF Abort
<1> QED BY <1>1, <1>2, <1>3, <1>4, <1>5, <1>6, <1>7, <1>8, <1>9, <1>10 DEF Next, Step

(* What every step but that of writeFile leaves to the files: calls that   *)
(* are done stay so.                                                       *)
Unwritten ==
  /\ content' = content /\ disturbed' = disturbed
  /\ \A x \in Calls : pc[x] = "done" => pc'[x] = "done" /\ path'[x] = path[x]

(* Under a step that writes no file, only the call that moves matters.     *)
LEMMA UnwrittenStep ==
  ASSUME IInv, FileInv, Unwritten, NEW o \in Calls,
         \A a \in Calls : a # o =>
           /\ pc'[a] = pc[a] /\ settled'[a] = settled[a] /\ tool'[a] = tool[a]
           /\ path'[a] = path[a] /\ snapshot'[a] = snapshot[a],
         pc'[o] # "idle",
         \/ /\ snapshot'[o] = snapshot[o] /\ path'[o] = path[o] /\ tool'[o] = tool[o]
            /\ pc'[o] \in {"read", "writing"} => pc[o] = "read" \/ tool[o] # "edit" \/ pc[o] = pc'[o]
            /\ Released(o) => Released(o)'
         \/ pc[o] = "idle" /\ pc'[o] = "waiting" /\ snapshot'[o] = snapshot[o]
         \/ snapshot'[o] = content[FileOf[path[o]]] /\ path'[o] = path[o]
  PROVE  ContentInv' /\ SnapshotInv'
<1> USE DEF IInv, TypeOK, FileInv, Unwritten
<1>1. ContentInv'
  BY DEF ContentInv
<1>2. SnapshotInv'
  <2> SUFFICES ASSUME NEW a \in Calls, tool'[a] = "edit", pc'[a] \in {"read", "writing"},
                      ~Released(a)', FileOf[path'[a]] \in Existing
               PROVE  content'[FileOf[path'[a]]] = snapshot'[a] \/ a \in disturbed'
    BY DEF SnapshotInv
  <2>1. CASE a # o
    BY <2>1 DEF SnapshotInv, Released
  <2>2. CASE a = o /\ snapshot'[o] = content[FileOf[path[o]]] /\ path'[o] = path[o]
    BY <2>2
  <2>3. CASE a = o /\ snapshot'[o] = snapshot[o] /\ path'[o] = path[o] /\ tool'[o] = tool[o]
             /\ (pc'[o] \in {"read", "writing"} =>
                    pc[o] = "read" \/ tool[o] # "edit" \/ pc[o] = pc'[o])
             /\ (Released(o) => Released(o)')
    BY <2>3 DEF SnapshotInv
  <2> QED BY <2>1, <2>2, <2>3
<1> QED BY <1>1, <1>2

(* A write that ends is done, and an edit of the file that is pending was  *)
(* disturbed by it.                                                        *)
LEMMA LandStep ==
  ASSUME IInv, FileInv, NEW o \in Calls, pc[o] = "writing", NEW text \in SUBSET NewText(o), FileBecomes(o, text),
         Goto(o, "done"), Keep \/ \E how \in {"ok", "failed"} : Settle(o, how), UNCHANGED snapshot
  PROVE  ContentInv' /\ SnapshotInv'
<1> DEFINE f == FileOf[path[o]]
<1> USE DEF IInv, TypeOK, FileInv
<1>1. /\ f \in Files /\ text \subseteq snapshot[o] \cup {o}
      /\ content' = [content EXCEPT ![f] = text]
      /\ pc' = [pc EXCEPT ![o] = "done"]
      /\ path' = path /\ tool' = tool /\ snapshot' = snapshot
      /\ settled' = settled \/ \E how \in {"ok", "failed"} : settled' = [settled EXCEPT ![o] = how]
      /\ disturbed \subseteq disturbed'
  BY DEF FileBecomes, NewText, Goto, Keep, Settle, queueVars
<1>2. ContentInv'
  <2>1. \A x \in text : x = o \/ (pc[x] = "done" /\ FileOf[path[x]] = f)
    BY <1>1 DEF ContentInv
  <2>2. \A g \in Files : \A x \in content'[g] : pc'[x] = "done" /\ FileOf[path[x]] = g
    BY <1>1, <2>1 DEF ContentInv
  <2>3. \A q \in Calls : \A x \in snapshot[q] :
          pc'[q] # "idle" /\ pc'[x] = "done" /\ FileOf[path[x]] = FileOf[path[q]]
    BY <1>1 DEF ContentInv
  <2> QED BY <1>1, <2>2, <2>3 DEF ContentInv
<1>3. SnapshotInv'
  <2> SUFFICES ASSUME NEW a \in Calls, tool[a] = "edit", pc'[a] \in {"read", "writing"},
                      ~Released(a)', FileOf[path[a]] \in Existing
               PROVE  content'[FileOf[path[a]]] = snapshot[a] \/ a \in disturbed'
    BY <1>1 DEF SnapshotInv
  <2>1. a # o /\ pc[a] \in {"read", "writing"} /\ ~Released(a)
    BY <1>1 DEF Released
  <2>2. CASE FileOf[path[a]] # f
    <3>1. content'[FileOf[path[a]]] = content[FileOf[path[a]]]
      BY <2>2, <1>1
    <3> QED BY <1>1, <3>1, <2>1 DEF SnapshotInv
  <2>3. CASE FileOf[path[a]] = f
    <3>1. Released(o)
      BY <2>1, <2>3, <1>1, ExclusiveInFn DEF InFn, Released
    <3> QED BY <3>1, <2>1, <2>3 DEF FileBecomes
  <2> QED BY <2>2, <2>3
<1> QED BY <1>2, <1>3

(* The file invariant is inductive, given IInv.                            *)
LEMMA NextFileInv == IInv /\ FileInv /\ [Next]_vars => FileInv'
<1> SUFFICES ASSUME IInv, FileInv, [Next]_vars PROVE ContentInv' /\ SnapshotInv'
  BY KeyStep DEF FileInv
<1> USE DEF Unwritten, queueVars, fileVars, Goto, Keep, Settle, Released
<1>i. TypeOK /\ AbortInv /\ TicketInv
  BY DEF IInv
<1>1. CASE UNCHANGED vars
  BY <1>1 DEF vars, FileInv, ContentInv, SnapshotInv
<1>2. ASSUME NEW o \in Calls, NEW p \in Paths, NEW t \in {"edit", "write"}, Enqueue(o, p, t)
      PROVE ContentInv' /\ SnapshotInv'
  BY <1>2, <1>i, UnwrittenStep DEF Enqueue, TypeOK
<1>3. ASSUME NEW o \in Calls, Begin(o) PROVE ContentInv' /\ SnapshotInv'
  <2>1. CASE aborted[o]
    <3>1. /\ pc[o] = "waiting" /\ pc' = [pc EXCEPT ![o] = "done"]
          /\ settled' = [settled EXCEPT ![o] = "aborted"]
          /\ path' = path /\ tool' = tool /\ snapshot' = snapshot /\ content' = content
          /\ disturbed' = disturbed
      BY <1>3, <2>1 DEF Begin
    <3>2. settled[o] = "no"
      BY <1>i, <3>1 DEF TicketInv
    <3>3. Unwritten /\ pc'[o] = "done"
      BY <1>i, <3>1, <3>2 DEF TypeOK
    <3>4. \A a \in Calls : a # o =>
            /\ pc'[a] = pc[a] /\ settled'[a] = settled[a] /\ tool'[a] = tool[a]
            /\ path'[a] = path[a] /\ snapshot'[a] = snapshot[a]
      BY <1>i, <3>1 DEF TypeOK
    <3>5. settled'[o] # "no" /\ path'[o] = path[o] /\ tool'[o] = tool[o] /\ snapshot'[o] = snapshot[o]
      BY <1>i, <3>1 DEF TypeOK
    <3> QED BY <3>3, <3>4, <3>5, UnwrittenStep
  <2>2. CASE ~aborted[o]
    BY <1>3, <2>2, <1>i, UnwrittenStep DEF Begin, TypeOK
  <2> QED BY <2>1, <2>2
<1>4. ASSUME NEW o \in Calls, OpenFails(o) PROVE ContentInv' /\ SnapshotInv'
  BY <1>4, <1>i, UnwrittenStep DEF OpenFails, TypeOK
<1>5. ASSUME NEW o \in Calls, Read(o) PROVE ContentInv' /\ SnapshotInv'
  <2>1. CASE aborted[o]
    BY <1>5, <2>1, <1>i, UnwrittenStep DEF Read, TypeOK
  <2>2. CASE ~aborted[o]
    BY <1>5, <2>2, <1>i, UnwrittenStep DEF Read, TypeOK
  <2> QED BY <2>1, <2>2
<1>6. ASSUME NEW o \in Calls, StartWrite(o) PROVE ContentInv' /\ SnapshotInv'
  BY <1>6, <1>i, UnwrittenStep DEF StartWrite, TypeOK
<1>7. ASSUME NEW o \in Calls, EditMismatch(o) PROVE ContentInv' /\ SnapshotInv'
  BY <1>7, <1>i, UnwrittenStep DEF EditMismatch, TypeOK, AbortInv
<1>8. ASSUME NEW o \in Calls, Land(o) PROVE ContentInv' /\ SnapshotInv'
  <2>1. /\ pc[o] = "writing" /\ FileBecomes(o, NewText(o)) /\ NewText(o) \in SUBSET NewText(o)
        /\ pc' = [pc EXCEPT ![o] = "done"] /\ Goto(o, "done") /\ UNCHANGED snapshot
        /\ Keep \/ \E how \in {"ok", "failed"} : Settle(o, how)
    <3> HIDE DEF Keep, Settle
    <3> QED BY <1>8 DEF Land
  <2> QED BY <2>1, LandStep
<1>9. ASSUME NEW o \in Calls, WriteFails(o) PROVE ContentInv' /\ SnapshotInv'
  <2>1. /\ pc[o] = "writing" /\ Goto(o, "done") /\ UNCHANGED snapshot
        /\ Keep \/ \E how \in {"ok", "failed"} : Settle(o, how)
        /\ UNCHANGED fileVars \/ \E part \in SUBSET NewText(o) : FileBecomes(o, part)
    <3> HIDE DEF Keep, Settle, fileVars
    <3> QED BY <1>9 DEF WriteFails
  <2>2. CASE UNCHANGED fileVars
    BY <2>1, <2>2, <1>i, UnwrittenStep DEF TypeOK
  <2>3. ASSUME NEW part \in SUBSET NewText(o), FileBecomes(o, part) PROVE ContentInv' /\ SnapshotInv'
    BY <2>1, <2>3, LandStep
  <2> QED BY <2>1, <2>2, <2>3
<1>10. ASSUME NEW o \in Calls, Abort(o) PROVE ContentInv' /\ SnapshotInv'
  <2>1. CASE InFn(o)
    BY <1>10, <2>1, <1>i, UnwrittenStep DEF Abort, TypeOK, InFn
  <2>2. CASE ~InFn(o)
    BY <1>10, <2>2, <1>i, UnwrittenStep DEF Abort, TypeOK
  <2> QED BY <2>1, <2>2
<1> QED BY <1>1, <1>2, <1>3, <1>4, <1>5, <1>6, <1>7, <1>8, <1>9, <1>10 DEF Next, Step

(* Both invariants hold in every reachable state.                          *)
THEOREM FileInvariance == Spec => [](IInv /\ FileInv)
  BY InitIInv, NextIInv, InitFileInv, NextFileInv, PTL DEF Spec

(* At most one call is inside fn for an existing file, whatever the names. *)
THEOREM ExclusivePerFile == Spec => []FileExclusion
<1>1. IInv /\ FileInv => FileExclusion
  BY ExclusiveInFn DEF FileInv, FileExclusion
<1> QED BY FileInvariance, <1>1, PTL

(* The only steps that change a file are those of writeFile.               *)
LEMMA OnlyLandWrites ==
  ASSUME TypeOK, [Next]_vars, content' # content
  PROVE  \E o \in Calls : Land(o) \/ WriteFails(o)
<1> USE DEF fileVars, vars
<1>1. ASSUME NEW o \in Calls, Begin(o) PROVE content' = content
  BY <1>1 DEF Begin
<1>2. ASSUME NEW o \in Calls, NEW p \in Paths, NEW t \in {"edit", "write"}, Enqueue(o, p, t)
      PROVE  content' = content
  BY <1>2 DEF Enqueue
<1> QED BY <1>1, <1>2
        DEF Next, Step, OpenFails, Read, StartWrite, EditMismatch, Abort

(* A reported change of an existing file is lost to nobody's edit and to   *)
(* no earlier call, but by a write that fails and so reports, by the late  *)
(* write of an aborted call, or by an edit one of these disturbed.         *)
THEOREM ChangesStay == Spec => NoLostUpdate
<1>1. ASSUME IInv, FileInv, [Next]_vars, NEW p \in Calls, NEW f \in Existing, Lost(p, f)
      PROVE  \E o \in Calls : Landing(o) /\ (aborted[o] \/ settled'[o] = "failed" \/ o \in disturbed)
  <2> USE <1>1 DEF IInv, TypeOK, FileInv
  <2>1. PICK o \in Calls : Land(o) \/ WriteFails(o)
    BY <1>1, OnlyLandWrites DEF Lost
  <2>2. pc[o] = "writing" /\ pc'[o] = "done"
    BY <2>1 DEF Land, WriteFails, Goto
  <2>3. Landing(o)
    BY <2>2 DEF Landing
  <2>4. SUFFICES ASSUME ~aborted[o], settled'[o] # "failed" PROVE o \in disturbed
    BY <2>3
  <2>5. ~Released(o)
    BY <2>2, <2>4 DEF AbortInv
  <2>6. /\ pc[o] = "writing" /\ pc'[o] = "done"
        /\ content' = [content EXCEPT ![FileOf[path[o]]] =
                         IF tool[o] = "edit" THEN snapshot[o] \cup {o} ELSE {o}]
    <3>1. ~WriteFails(o)
      BY <2>4, <2>5 DEF WriteFails, Settle
    <3> QED BY <2>2, <2>1, <3>1 DEF Land, FileBecomes, NewText
  <2>7. /\ FileOf[path[o]] = f /\ p \in content[f] /\ p \notin content'[f]
        /\ settled[p] = "ok" /\ ~(Earlier(p, o) /\ tool[o] = "write")
    BY <1>1, <2>6, <2>3 DEF Lost
  <2>8. CASE tool[o] = "edit"
    BY <2>6, <2>5, <2>7, <2>8 DEF SnapshotInv
  <2>9. CASE tool[o] = "write"
    <3>1. pc[p] = "done" /\ FileOf[path[p]] = f
      BY <2>7 DEF ContentInv
    <3>2. key[p] = key[o] /\ p # o
      <4>1. p # o /\ pc[p] # "idle" /\ pc[o] # "idle"
        BY <3>1, <2>6
      <4> QED BY <3>1, <2>7, <4>1 DEF KeyInv
    <3>3. Earlier(o, p)
      BY <3>1, <3>2, <2>6, <2>7, <2>9 DEF TicketInv, Earlier
    <3> QED BY <3>1, <3>2, <3>3, <2>5 DEF ChainInv
  <2> QED BY <2>8, <2>9
<1>2. IInv /\ FileInv /\ [Next]_vars =>
        [\A p \in Calls, f \in Existing : Lost(p, f) =>
           \E o \in Calls : Landing(o) /\ (aborted[o] \/ settled'[o] = "failed" \/ o \in disturbed)]_vars
  BY <1>1
<1> QED BY FileInvariance, <1>2, PTL DEF NoLostUpdate, Spec
-----------------------------------------------------------------------------
(* An abort inside fn settles its promise at once: with AbortInv, a body   *)
(* that runs has settled exactly when it was aborted.                      *)
AbortSettles ==
  \A o \in Calls : pc[o] \in {"opening", "read", "writing"} /\ aborted[o] => Released(o)

(* AbortSettles is inductive, given the types.                             *)
LEMMA AbortSettlesStep == TypeOK /\ AbortSettles /\ [Next]_vars => AbortSettles'
<1> SUFFICES ASSUME TypeOK, AbortSettles, [Next]_vars, NEW a \in Calls,
                    pc'[a] \in {"opening", "read", "writing"}, aborted'[a]
             PROVE  settled'[a] # "no"
  BY DEF AbortSettles, Released
<1> USE DEF TypeOK, AbortSettles, queueVars, Goto, Keep, Settle, Released
<1>1. CASE UNCHANGED vars
  BY <1>1 DEF vars
<1>2. ASSUME NEW o \in Calls, NEW p \in Paths, NEW t \in {"edit", "write"}, Enqueue(o, p, t)
      PROVE settled'[a] # "no"
  BY <1>2 DEF Enqueue
<1>3. ASSUME NEW o \in Calls, Begin(o) PROVE settled'[a] # "no"
  <2>1. CASE aborted[o]
    BY <1>3, <2>1 DEF Begin
  <2>2. CASE ~aborted[o]
    BY <1>3, <2>2 DEF Begin
  <2> QED BY <2>1, <2>2
<1>4. ASSUME NEW o \in Calls, OpenFails(o) PROVE settled'[a] # "no"
  BY <1>4 DEF OpenFails
<1>5. ASSUME NEW o \in Calls, Read(o) PROVE settled'[a] # "no"
  BY <1>5 DEF Read
<1>6. ASSUME NEW o \in Calls, StartWrite(o) PROVE settled'[a] # "no"
  BY <1>6 DEF StartWrite
<1>7. ASSUME NEW o \in Calls, EditMismatch(o) PROVE settled'[a] # "no"
  BY <1>7 DEF EditMismatch
<1>8. ASSUME NEW o \in Calls, Land(o) PROVE settled'[a] # "no"
  BY <1>8 DEF Land
<1>9. ASSUME NEW o \in Calls, WriteFails(o) PROVE settled'[a] # "no"
  BY <1>9 DEF WriteFails
<1>10. ASSUME NEW o \in Calls, Abort(o) PROVE settled'[a] # "no"
  BY <1>10 DEF Abort, InFn
<1> QED BY <1>1, <1>2, <1>3, <1>4, <1>5, <1>6, <1>7, <1>8, <1>9, <1>10 DEF Next, Step

(* The call whose fn settles leaves the lock.                              *)
LEMMA SettleLeaves ==
  ASSUME IInv, NEW o \in Calls, NEW how \in {"ok", "failed", "aborted"},
         pc[o] # "idle", ~Released(o),
         pc[o] = "waiting" => ChainResolved(o),
         Settle(o, how), pc' = [pc EXCEPT ![o] = "done"] \/ pc' = pc
  PROVE  Lock!Leave(o)
<1> USE DEF IInv, TypeOK, Settle
<1>1. \A q \in Calls : key[q] = key[o] /\ Earlier(q, o) => Released(q)
  BY FrontOfChain
<1>2. o \in Pending /\ Ahead[o] = {}
  BY <1>1 DEF Pending, Ahead
<1>3. Pending' = Pending \ {o}
  BY DEF Pending, Released
<1>4. {q \in Calls : InFn(q)}' = {q \in Calls : InFn(q)} \ {o}
  BY DEF InFn
<1>5. Ahead' = [d \in Calls |-> Ahead[d] \ {o}]
  <2>1. \A d \in Calls : Ahead'[d] = Ahead[d] \ {o}
    BY <1>2, <1>3 DEF Ahead, Earlier
  <2> QED BY <2>1 DEF Ahead
<1>6. {q \in Calls : pc[q] # "idle"}' = {q \in Calls : pc[q] # "idle"}
  OBVIOUS
<1> QED BY <1>2, <1>3, <1>4, <1>5, <1>6 DEF Lock!Leave

(* A step that settles nothing and enters nothing is not seen.             *)
LEMMA MoveStutters ==
  ASSUME key' = key, ticket' = ticket, settled' = settled,
         \A q \in Calls : (pc'[q] = "idle" <=> pc[q] = "idle") /\ (InFn(q)' <=> InFn(q))
  PROVE  UNCHANGED Lock!vars
<1>1. Pending' = Pending
  BY DEF Pending, Released
<1>2. Ahead' = Ahead
  BY <1>1 DEF Ahead, Earlier
<1>3. {q \in Calls : InFn(q)}' = {q \in Calls : InFn(q)}
  OBVIOUS
<1>4. {q \in Calls : pc[q] # "idle"}' = {q \in Calls : pc[q] # "idle"}
  OBVIOUS
<1> QED BY <1>1, <1>2, <1>3, <1>4 DEF Lock!vars

(* A call that is made asks for the lock of its key.                       *)
LEMMA EnqueueAsks ==
  ASSUME IInv, NEW o \in Calls, NEW p \in Paths, NEW t \in {"edit", "write"}, Enqueue(o, p, t)
  PROVE  \E k \in Paths : Lock!Ask(o, k)
<1> USE DEF IInv, TypeOK
<1> DEFINE k == getMutationQueueKey(p)
<1>0. k \in Paths
  BY DEF getMutationQueueKey
<1>1. /\ key' = [key EXCEPT ![o] = k]
      /\ pc[o] = "idle" /\ pc' = [pc EXCEPT ![o] = "waiting"] /\ settled' = settled
      /\ ticket' = [ticket EXCEPT ![o] = calls + 1]
  BY DEF Enqueue
<1> HIDE DEF k
<1>2. settled[o] = "no" /\ ticket[o] = 0 /\ \A q \in Calls : ticket[q] <= calls
  BY <1>1 DEF TicketInv
<1>3. Pending' = Pending \cup {o} /\ o \notin Pending
  BY <1>1, <1>2 DEF Pending, Released
<1>4. \A d \in Calls : Ahead'[d] = IF d = o THEN {q \in Pending : key[q] = k} ELSE Ahead[d]
  <2>1. \A q \in Pending : q # o /\ q \in Calls /\ ticket[q] \in 1..calls /\ key'[q] = key[q]
    BY <1>1, <1>2 DEF Pending, TicketInv
  <2>2. {q \in Pending' : o \in Pending' /\ key'[q] = key'[o] /\ Earlier(q, o)'} = {q \in Pending : key[q] = k}
    BY <2>1, <1>0, <1>1, <1>3 DEF Earlier
  <2>3. ASSUME NEW d \in Calls, d # o
        PROVE  {q \in Pending' : d \in Pending' /\ key'[q] = key'[d] /\ Earlier(q, d)'}
                 = {q \in Pending : d \in Pending /\ key[q] = key[d] /\ Earlier(q, d)}
    BY <2>1, <2>3, <1>1, <1>2, <1>3 DEF Earlier
  <2> QED BY <2>2, <2>3 DEF Ahead
<1>5. Ahead' = [Ahead EXCEPT ![o] = {q \in Pending : key[q] = k}]
  BY <1>4 DEF Ahead
<1>6. {q \in Calls : InFn(q)}' = {q \in Calls : InFn(q)}
  BY <1>1 DEF InFn
<1>7. {q \in Calls : pc[q] # "idle"}' = {q \in Calls : pc[q] # "idle"} \cup {o}
  BY <1>1
<1>8. o \notin {q \in Calls : pc[q] # "idle"}
  BY <1>1
<1> QED BY <1>0, <1>1, <1>3, <1>5, <1>6, <1>7, <1>8 DEF Lock!Ask

(* The call whose turn has come enters the lock.                           *)
LEMMA BeginEnters ==
  ASSUME IInv, NEW o \in Calls, pc[o] = "waiting", ChainResolved(o), Goto(o, "opening"), Keep
  PROVE  Lock!Enter(o)
<1> USE DEF IInv, TypeOK, Goto, Keep, queueVars
<1>1. \A q \in Calls : key[q] = key[o] /\ Earlier(q, o) => Released(q)
  BY FrontOfChain
<1>2. settled[o] = "no"
  BY DEF TicketInv
<1>3. o \in Pending /\ Ahead[o] = {}
  BY <1>1, <1>2 DEF Pending, Ahead, Released
<1>4. Pending' = Pending
  BY DEF Pending, Released
<1>5. Ahead' = Ahead
  BY <1>4 DEF Ahead, Earlier
<1>6. /\ {q \in Calls : InFn(q)}' = {q \in Calls : InFn(q)} \cup {o}
      /\ o \notin {q \in Calls : InFn(q)}
  BY <1>2 DEF InFn
<1>7. {q \in Calls : pc[q] # "idle"}' = {q \in Calls : pc[q] # "idle"}
  OBVIOUS
<1> QED BY <1>3, <1>4, <1>5, <1>6, <1>7 DEF Lock!Enter

(* Every step of the chains is a step of the locks or none.                *)
LEMMA StepIsLockStep == IInv /\ AbortSettles /\ [Next]_vars => [Lock!Next]_(Lock!vars)
<1> SUFFICES ASSUME IInv, AbortSettles, [Next]_vars
             PROVE  Lock!Next \/ UNCHANGED Lock!vars
  OBVIOUS
<1> USE DEF IInv, TypeOK
<1>1. CASE UNCHANGED vars
  <2>1. key' = key /\ ticket' = ticket /\ settled' = settled /\ pc' = pc
    BY <1>1 DEF vars, queueVars
  <2> QED BY <2>1, MoveStutters DEF InFn
<1>2. ASSUME NEW o \in Calls, NEW p \in Paths, NEW t \in {"edit", "write"}, Enqueue(o, p, t)
      PROVE Lock!Next
  BY <1>2, EnqueueAsks DEF Lock!Next
<1>l. ASSUME NEW o \in Calls, Lock!Leave(o) PROVE Lock!Next
  BY <1>l DEF Lock!Next
<1>m. ASSUME NEW o \in Calls, NEW l \in {"read", "writing", "done"}, Goto(o, l), Keep, pc[o] # "idle",
             Released(o) \/ (l # "done" /\ pc[o] \in {"opening", "read"})
      PROVE  UNCHANGED Lock!vars
  BY <1>m, MoveStutters DEF Goto, Keep, queueVars, InFn, Released
<1>3. ASSUME NEW o \in Calls, Begin(o) PROVE Lock!Next
  <2>1. ~Released(o) /\ pc[o] = "waiting" /\ ChainResolved(o)
    BY <1>3 DEF Begin, TicketInv, Released
  <2>2. CASE aborted[o]
    BY <1>3, <2>1, <2>2, <1>l, SettleLeaves DEF Begin, Goto
  <2>3. CASE ~aborted[o]
    <3>1. Goto(o, "opening") /\ Keep
      BY <1>3, <2>3 DEF Begin
    <3>2. Lock!Enter(o)
      BY <3>1, <2>1, BeginEnters
    <3> QED BY <3>2 DEF Lock!Next
  <2> QED BY <2>2, <2>3
<1>4. ASSUME NEW o \in Calls, OpenFails(o) PROVE Lock!Next \/ UNCHANGED Lock!vars
  <2>1. CASE Released(o)
    BY <1>4, <2>1, <1>m DEF OpenFails
  <2>2. CASE ~Released(o)
    BY <1>4, <2>2, <1>l, SettleLeaves DEF OpenFails, Goto
  <2> QED BY <2>1, <2>2
<1>5. ASSUME NEW o \in Calls, Read(o) PROVE UNCHANGED Lock!vars
  <2>1. CASE aborted[o]
    BY <1>5, <2>1, <1>m DEF Read, AbortSettles
  <2>2. CASE ~aborted[o]
    BY <1>5, <2>2, <1>m DEF Read
  <2> QED BY <2>1, <2>2
<1>6. ASSUME NEW o \in Calls, StartWrite(o) PROVE UNCHANGED Lock!vars
  <2>1. pc[o] \in {"opening", "read"}
    BY <1>6 DEF StartWrite
  <2>2. CASE aborted[o]
    BY <1>6, <2>1, <2>2, <1>m DEF StartWrite, AbortSettles
  <2>3. CASE ~aborted[o]
    BY <1>6, <2>1, <2>3, <1>m DEF StartWrite
  <2> QED BY <2>2, <2>3
<1>7. ASSUME NEW o \in Calls, EditMismatch(o) PROVE Lock!Next
  <2>1. ~Released(o)
    BY <1>7 DEF EditMismatch, AbortInv
  <2> QED BY <1>7, <2>1, <1>l, SettleLeaves DEF EditMismatch, Goto
<1>8. ASSUME NEW o \in Calls, Land(o) PROVE Lock!Next \/ UNCHANGED Lock!vars
  <2>1. CASE Released(o)
    BY <1>8, <2>1, <1>m DEF Land
  <2>2. CASE ~Released(o)
    BY <1>8, <2>2, <1>l, SettleLeaves DEF Land, Goto
  <2> QED BY <2>1, <2>2
<1>9. ASSUME NEW o \in Calls, WriteFails(o) PROVE Lock!Next \/ UNCHANGED Lock!vars
  <2>1. CASE Released(o)
    BY <1>9, <2>1, <1>m DEF WriteFails
  <2>2. CASE ~Released(o)
    BY <1>9, <2>2, <1>l, SettleLeaves DEF WriteFails, Goto
  <2> QED BY <2>1, <2>2
<1>10. ASSUME NEW o \in Calls, Abort(o) PROVE Lock!Next \/ UNCHANGED Lock!vars
  <2>1. CASE InFn(o)
    BY <1>10, <2>1, <1>l, SettleLeaves DEF Abort, InFn
  <2>2. CASE ~InFn(o)
    <3>1. key' = key /\ ticket' = ticket /\ settled' = settled /\ pc' = pc
      BY <1>10, <2>2 DEF Abort, Keep, queueVars
    <3> QED BY <3>1, MoveStutters DEF InFn
  <2> QED BY <2>1, <2>2
<1> QED BY <1>1, <1>2, <1>3, <1>4, <1>5, <1>6, <1>7, <1>8, <1>9, <1>10 DEF Next, Step

(* The chains of promises implement first-come, first-served locks, for    *)
(* any number of calls, keys and files, with aborts and failures.          *)
THEOREM ChainsAreLocks == Spec => ChainIsFifoLock
<1>1. Init => AbortSettles
  BY DEF Init, AbortSettles
<1>2. Init => Lock!Init
  <2> SUFFICES ASSUME Init PROVE Lock!Init
    OBVIOUS
  <2>1. Pending = {} /\ {q \in Calls : pc[q] # "idle"} = {} /\ {q \in Calls : InFn(q)} = {}
    BY DEF Init, Pending, InFn
  <2>2. Ahead = [q \in Calls |-> {}]
    BY <2>1 DEF Ahead
  <2>3. key \in [Calls -> Paths]
    BY DEF Init, AnyPath
  <2> QED BY <2>1, <2>2, <2>3 DEF Lock!Init
<1>3. IInv /\ AbortSettles /\ [Next]_vars => AbortSettles'
  BY AbortSettlesStep DEF IInv
<1> QED BY <1>1, <1>2, <1>3, Invariance, StepIsLockStep, PTL DEF Spec, ChainIsFifoLock, Lock!Spec
-----------------------------------------------------------------------------
(* The abstract lock over the queue's variables, whatever its steps are.   *)
Made == {o \in Calls : pc[o] # "idle"}
Inside == {o \in Calls : InFn(o)}

(* Of two pending clients of one lock one is ahead of the other, and a     *)
(* client inside has nobody ahead of it.                                   *)
Ordered ==
  /\ key \in [Calls -> Paths] /\ Ahead \in [Calls -> SUBSET Calls]
  /\ Pending \subseteq Made /\ Made \subseteq Calls
  /\ Inside \subseteq Pending
  /\ \A c \in Inside : Ahead[c] = {}
  /\ \A c, d \in Pending : key[c] = key[d] /\ c # d => c \in Ahead[d] \/ d \in Ahead[c]

(* Every step of the lock keeps the order.                                 *)
LEMMA OrderedStep == Ordered /\ [Lock!Next]_(Lock!vars) => Ordered'
<1> SUFFICES ASSUME Ordered, [Lock!Next]_(Lock!vars) PROVE Ordered'
  OBVIOUS
<1>1. ASSUME NEW c \in Calls, NEW l \in Paths, Lock!Ask(c, l) PROVE Ordered'
  <2>1. /\ c \notin Made /\ Made' = Made \cup {c} /\ Pending' = Pending \cup {c}
        /\ key' = [key EXCEPT ![c] = l]
        /\ Ahead' = [Ahead EXCEPT ![c] = {d \in Pending : key[d] = l}]
        /\ Inside' = Inside
    BY <1>1 DEF Lock!Ask, Made, Inside
  <2> QED BY <2>1 DEF Ordered
<1>2. ASSUME NEW c \in Calls, Lock!Enter(c) PROVE Ordered'
  <2>1. /\ c \in Pending \ Inside /\ Ahead[c] = {} /\ Inside' = Inside \cup {c}
        /\ key' = key /\ Made' = Made /\ Pending' = Pending /\ Ahead' = Ahead
    BY <1>2 DEF Lock!Enter, Made, Inside
  <2> QED BY <2>1 DEF Ordered
<1>3. ASSUME NEW c \in Calls, Lock!Leave(c) PROVE Ordered'
  <2>1. /\ c \in Pending /\ Ahead[c] = {}
        /\ Pending' = Pending \ {c} /\ Inside' = Inside \ {c}
        /\ Ahead' = [d \in Calls |-> Ahead[d] \ {c}]
        /\ key' = key /\ Made' = Made
    BY <1>3 DEF Lock!Leave, Made, Inside
  <2> QED BY <2>1 DEF Ordered
<1>4. CASE UNCHANGED Lock!vars
  <2>1. key' = key /\ Made' = Made /\ Pending' = Pending /\ Inside' = Inside /\ Ahead' = Ahead
    BY <1>4 DEF Lock!vars, Made, Inside
  <2> QED BY <2>1 DEF Ordered
<1> QED BY <1>1, <1>2, <1>3, <1>4 DEF Lock!Next

(* A lock is held by one client at a time: the promise ChainsAreLocks      *)
(* hands to the calls of withFileMutationQueue under one key.              *)
THEOREM LockExcludes == Lock!Spec => []Lock!Exclusion
<1>1. Lock!Init => Ordered
  <2> SUFFICES ASSUME Lock!Init PROVE Ordered
    OBVIOUS
  <2>1. key \in [Calls -> Paths] /\ Made = {} /\ Pending = {} /\ Inside = {} /\ Ahead = [c \in Calls |-> {}]
    BY DEF Lock!Init, Made, Inside
  <2> QED BY <2>1 DEF Ordered
<1>2. Ordered => Lock!Exclusion
  BY DEF Ordered, Lock!Exclusion, Inside
<1> QED BY <1>1, <1>2, OrderedStep, PTL DEF Lock!Spec
=============================================================================
