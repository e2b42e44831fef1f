---------------------------- MODULE LeadRunsProofs ----------------------------
(* Proofs about LeadRuns, for any number of runs, steps, attempts and      *)
(* artifacts: workers read what is there and accepted, a result recorded   *)
(* as accepted is that of accepted steps, and nothing is retrieved twice.  *)
EXTENDS LeadRuns, FiniteSetTheorems, TLAPS

RunType ==
  [pc : {"none", "planning", "answering", "working", "writing", "recording", "ending", "ended"},
   steps : 0..MaxSteps, step : 0..MaxSteps, attempt : 0..MaxAttempts,
   asked : BOOLEAN, prior : SUBSET Artifacts, refs : SUBSET Artifacts,
   carried : SUBSET Artifacts, found : SUBSET Artifacts, searching : BOOLEAN,
   store : SUBSET Artifact, accepted : BOOLEAN]

Entry == [kind : {"user", "answer", "result"}, run : Runs, arts : SUBSET Artifacts, accepted : BOOLEAN]

LogLine == [run : Runs, step : 1..MaxSteps, accepted : BOOLEAN]

FileName == {StepFiles[i] : i \in DOMAIN StepFiles}
FileType == [run : Runs, step : 1..MaxSteps, file : FileName]

Searching == {r \in Runs : run[r].searching}

(* Work has begun in the workspace.                                        *)
Holds(r) == run[r].pc \in {"working", "writing", "recording", "ending"}

(* A step is at work, or its result is being recorded.                     *)
Stepping == {"working", "writing", "recording"}
InStep(r) == run[r].pc \in Stepping

Alone == "overlap" \notin mishaps

SessionTypes ==
  /\ up \in BOOLEAN /\ awaited \in 0..MaxRuns
  /\ stored = Torn \/ stored \subseteq Artifact
  /\ approved \subseteq Artifacts /\ mishaps \subseteq {"overlap", "cut"}
  /\ log \subseteq LogLine
  /\ session \in Seq(Entry)

RunTypes == run \in [Runs -> RunType]

(* There is room for what the searches under way will create.              *)
RoomInv == created \in Nat /\ created + Cardinality(Searching) <= MaxArtifacts

(* Unless runs went on side by side, one is live at a time.                *)
LiveInv ==
  /\ \A r \in Runs : Live(r) => up
  /\ Alone => \A q, r \in Runs : Live(q) /\ Live(r) => q = r
  /\ stored = Torn => \A r \in Runs : ~Holds(r)
  /\ \A r \in Runs : run[r].searching => run[r].pc = "working"

(* Its copy of the manifest is the manifest, and has all it knows of.      *)
StoreInv ==
  Alone =>
    /\ stored # Torn => \A i \in 1..Len(session) : session[i].arts \subseteq IdsOf(stored)
    /\ \A r \in Runs : run[r].pc = "planning" /\ stored # Torn => run[r].prior \subseteq IdsOf(stored)
    /\ \A r \in Runs : Holds(r) =>
         /\ run[r].store = stored
         /\ run[r].refs \cup run[r].carried \cup run[r].found \subseteq IdsOf(stored)

(* What is carried to a worker was accepted.                               *)
CarriedInv ==
  \A r \in Runs :
    /\ InStep(r) => run[r].carried \subseteq approved
    /\ run[r].pc \in {"none", "planning", "answering"} => run[r].carried = {} /\ run[r].found = {}

Done(r, n) == [run |-> r, step |-> n, accepted |-> TRUE] \in log

(* A step in the log has its files.                                        *)
FilesInv ==
  /\ files \subseteq FileType
  /\ \A line \in log, i \in DOMAIN StepFiles : StepFile(line.run, line.step, i) \in files

(* The steps before the present one were accepted.                         *)
LogInv ==
  /\ \A r \in Runs : InStep(r) =>
       run[r].step \in 1..run[r].steps /\ \A n \in 1..(run[r].step - 1) : Done(r, n)
  /\ \A r \in Runs : run[r].pc = "ending" /\ run[r].accepted /\ ~run[r].asked =>
       \A n \in 1..run[r].steps : Done(r, n)
  /\ \A r \in Runs : run[r].pc \in {"none", "planning", "answering"} => run[r].steps = 0
  /\ \A i \in 1..Len(session) : session[i].kind = "result" => run[session[i].run].pc = "ended"
  /\ \A i \in 1..Len(session) :
       session[i].kind = "result" /\ session[i].accepted /\ ~run[session[i].run].asked =>
         \A n \in 1..run[session[i].run].steps : Done(session[i].run, n)

Searched(a) == a.content # "other"

(* A search that is under way has no predecessor that was stored.          *)
SearchInv ==
  mishaps = {} /\ stored # Torn =>
    /\ \A a, b \in stored : Searched(a) /\ Searched(b) => a = b
    /\ \A a \in stored : a.content # "bare"
    /\ \A r \in Runs : run[r].searching => \A a \in stored : ~Searched(a)

IInv ==
  /\ SessionTypes /\ RunTypes /\ RoomInv /\ LiveInv
  /\ StoreInv /\ CarriedInv /\ FilesInv /\ LogInv /\ SearchInv
-----------------------------------------------------------------------------
(* The bounds one by one.                                                  *)
LEMMA BoundFacts ==
  /\ MaxRuns \in Nat /\ MaxRuns > 0 /\ MaxSteps \in Nat /\ MaxSteps > 0
  /\ MaxAttempts \in Nat /\ MaxAttempts > 0 /\ MaxArtifacts \in Nat
  BY BoundAssumption

(* A run that has not begun.                                               *)
LEMMA BlankType == Blank \in RunType
  BY BoundFacts DEF Blank, RunType

(* A run that has ended.                                                   *)
LEMMA PastType ==
  ASSUME RunTypes, NEW r \in Runs
  PROVE  /\ Past(r) \in RunType
         /\ Past(r).pc = "ended" /\ Past(r).steps = run[r].steps /\ Past(r).asked = run[r].asked
         /\ Past(r).searching = FALSE
<1>1. run[r] \in RunType
  BY DEF RunTypes
<1>2. Past(r) \in RunType
  BY <1>1, BlankType DEF Past, RunType
<1>3. /\ Past(r).pc = "ended" /\ Past(r).steps = run[r].steps /\ Past(r).asked = run[r].asked
      /\ Past(r).searching = FALSE
  BY BlankType DEF Past, RunType, Blank
<1> QED BY <1>2, <1>3

(* One run goes on.                                                        *)
LEMMA OneRun ==
  ASSUME RunTypes, NEW r \in Runs, NEW R \in RunType, run' = [run EXCEPT ![r] = R]
  PROVE  RunTypes' /\ run'[r] = R /\ \A q \in Runs \ {r} : run'[q] = run[q]
  BY DEF RunTypes

(* The searches under way are finitely many.                               *)
LEMMA SearchingFinite ==
  /\ IsFiniteSet(Searching) /\ IsFiniteSet(Searching')
  /\ Cardinality(Searching) \in Nat /\ Cardinality(Searching') \in Nat
<1>1. IsFiniteSet(Runs)
  BY BoundFacts, FS_Interval DEF Runs
<1>2. Searching \subseteq Runs /\ Searching' \subseteq Runs
  BY DEF Searching
<1> QED BY <1>1, <1>2, FS_Subset, FS_CardinalityType

(* A search that ends or is cut makes room.                                *)
LEMMA RoomShrinks ==
  ASSUME RoomInv, Searching' \subseteq Searching, created' = created
  PROVE  RoomInv'
<1>1. Cardinality(Searching') <= Cardinality(Searching)
  BY SearchingFinite, FS_Subset
<1> QED BY <1>1, SearchingFinite, BoundFacts DEF RoomInv

(* Neither the files of the steps nor the log change.                      *)
LEMMA FilesSame ==
  ASSUME IInv, UNCHANGED <<files, log>>
  PROVE  FilesInv'
  BY DEF IInv, FilesInv

(* The invariant holds at first.                                           *)
LEMMA InitIInv == Init => IInv
<1> SUFFICES ASSUME Init PROVE IInv
  OBVIOUS
<1>1. /\ up = TRUE /\ awaited = 0 /\ run = [r \in Runs |-> Blank] /\ session = <<>>
      /\ stored = {} /\ created = 0 /\ files = {} /\ log = {} /\ approved = {} /\ mishaps = {}
  BY DEF Init
<1>2. \A r \in Runs : run[r] = Blank
  BY <1>1
<1>3. /\ Blank.pc = "none" /\ Blank.steps = 0 /\ Blank.searching = FALSE
      /\ Blank.carried = {} /\ Blank.found = {}
  BY DEF Blank
<1>4. SessionTypes
  BY <1>1, BoundFacts DEF SessionTypes
<1>5. RunTypes
  BY <1>1, BlankType DEF RunTypes
<1>6. RoomInv
  <2>1. Searching = {}
    BY <1>2, <1>3 DEF Searching
  <2> QED BY <1>1, <2>1, FS_EmptySet, BoundFacts DEF RoomInv
<1>7. LiveInv
  BY <1>1, <1>2, <1>3 DEF LiveInv, Live, Holds
<1>8. StoreInv
  BY <1>1, <1>2, <1>3 DEF StoreInv, Holds
<1>9. CarriedInv
  BY <1>2, <1>3 DEF CarriedInv, InStep, Stepping
<1>10. LogInv
  BY <1>1, <1>2, <1>3 DEF LogInv, InStep, Stepping
<1>11. FilesInv /\ SearchInv
  BY <1>1 DEF FilesInv, SearchInv
<1> QED BY <1>4, <1>5, <1>6, <1>7, <1>8, <1>9, <1>10, <1>11 DEF IInv
-----------------------------------------------------------------------------
(* A live run ends, with or without a word to the session: what it adds as *)
(* accepted it has done.                                                   *)
LEMMA EndKeeps ==
  ASSUME IInv, NEW r \in Runs, Live(r), Ends(r),
         UNCHANGED <<up, stored, created, files, log, approved, mishaps>>,
         session' \in Seq(Entry), Len(session) <= Len(session'),
         \A i \in 1..Len(session) : session'[i] = session[i],
         \A i \in (Len(session) + 1)..Len(session') :
           /\ Alone /\ stored # Torn => session'[i].arts \subseteq IdsOf(stored)
           /\ session'[i].kind = "result" => session'[i].run = r
           /\ session'[i].kind = "result" /\ session'[i].accepted /\ ~run[r].asked =>
                \A n \in 1..run[r].steps : Done(r, n)
  PROVE  IInv'
<1>a. SessionTypes /\ RunTypes /\ RoomInv /\ LiveInv /\ StoreInv /\ CarriedInv /\ FilesInv /\ LogInv /\ SearchInv
  BY DEF IInv
<1>b. run' = [run EXCEPT ![r] = Past(r)] /\ (awaited' = awaited \/ awaited' = 0)
  BY DEF Ends, Settles
<1>c. /\ RunTypes' /\ run'[r] = Past(r) /\ \A q \in Runs \ {r} : run'[q] = run[q]
      /\ run'[r].pc = "ended" /\ run'[r].steps = run[r].steps /\ run'[r].asked = run[r].asked
      /\ run'[r].searching = FALSE
  BY <1>a, <1>b, PastType, OneRun
<1>d. run[r].pc # "ended" /\ run[r].pc # "none"
  BY DEF Live
<1>e. \A i \in 1..Len(session') : i \in 1..Len(session) \/ i \in (Len(session) + 1)..Len(session')
  BY <1>a DEF SessionTypes
<1>1. SessionTypes'
  BY <1>a, <1>b, BoundFacts DEF SessionTypes
<1>2. RoomInv'
  <2>1. Searching' \subseteq Searching
    BY <1>c DEF Searching
  <2> QED BY <1>a, <2>1, RoomShrinks
<1>3. LiveInv'
  BY <1>a, <1>c DEF LiveInv, Live, Holds, Alone
<1>4. StoreInv'
  <2> SUFFICES ASSUME Alone PROVE StoreInv'
    BY DEF StoreInv, Alone
  <2>1. ASSUME stored # Torn, NEW i \in 1..Len(session') PROVE session'[i].arts \subseteq IdsOf(stored)
    BY <1>a, <1>e, <2>1 DEF StoreInv
  <2>2. \A q \in Runs : run'[q].pc = "planning" /\ stored # Torn => run'[q].prior \subseteq IdsOf(stored)
    BY <1>a, <1>c DEF StoreInv
  <2>3. \A q \in Runs : Holds(q)' =>
           /\ run'[q].store = stored
           /\ run'[q].refs \cup run'[q].carried \cup run'[q].found \subseteq IdsOf(stored)
    BY <1>a, <1>c DEF StoreInv, Holds
  <2> QED BY <2>1, <2>2, <2>3 DEF StoreInv
<1>5. CarriedInv'
  BY <1>a, <1>c DEF CarriedInv, InStep, Stepping
<1>6. LogInv'
  <2>1. \A q \in Runs : InStep(q)' =>
           run'[q].step \in 1..run'[q].steps /\ \A n \in 1..(run'[q].step - 1) : Done(q, n)
    BY <1>a, <1>c DEF LogInv, InStep, Stepping
  <2>2. /\ \A q \in Runs : run'[q].pc = "ending" /\ run'[q].accepted /\ ~run'[q].asked =>
               \A n \in 1..run'[q].steps : Done(q, n)
        /\ \A q \in Runs : run'[q].pc \in {"none", "planning", "answering"} => run'[q].steps = 0
    BY <1>a, <1>c DEF LogInv
  <2>3. ASSUME NEW i \in 1..Len(session'), session'[i].kind = "result"
        PROVE  /\ run'[session'[i].run].pc = "ended"
               /\ session'[i].accepted /\ ~run'[session'[i].run].asked =>
                    \A n \in 1..run'[session'[i].run].steps : Done(session'[i].run, n)
    <3>1. CASE i \in 1..Len(session)
      <4>1. session[i] \in Entry /\ session'[i] = session[i]
        BY <1>a, <3>1 DEF SessionTypes
      <4>2. session[i].run \in Runs /\ run[session[i].run].pc = "ended"
        BY <1>a, <2>3, <3>1, <4>1 DEF LogInv, Entry
      <4>3. run'[session[i].run] = run[session[i].run]
        BY <1>c, <1>d, <4>2
      <4> QED BY <1>a, <2>3, <3>1, <4>1, <4>2, <4>3 DEF LogInv
    <3>2. CASE i \in (Len(session) + 1)..Len(session')
      BY <1>c, <2>3, <3>2
    <3> QED BY <1>e, <3>1, <3>2
  <2>4. UNCHANGED log
    OBVIOUS
  <2> QED BY <2>1, <2>2, <2>3, <2>4 DEF LogInv, Done
<1>7. FilesInv' /\ SearchInv'
  BY <1>a, <1>c, FilesSame DEF SearchInv
<1> QED BY <1>c, <1>1, <1>2, <1>3, <1>4, <1>5, <1>6, <1>7 DEF IInv

(* What the session has recorded of artifacts.                             *)
LEMMA PriorType ==
  ASSUME session \in Seq(Entry)
  PROVE  PriorArtifacts \subseteq Artifacts
<1>1. ASSUME NEW i \in DOMAIN session PROVE session[i].arts \subseteq Artifacts
  <2>1. session[i] \in Entry
    OBVIOUS
  <2> QED BY <2>1 DEF Entry
<1> QED BY <1>1 DEF PriorArtifacts

(* A run begins: it knows what the session knows.                          *)
LEMMA SubmitKeeps ==
  ASSUME IInv, NEW r \in Runs, Submit(r)
  PROVE  IInv'
<1> DEFINE R == [run[r] EXCEPT !.pc = "planning", !.prior = PriorArtifacts]
<1>a. SessionTypes /\ RunTypes /\ RoomInv /\ LiveInv /\ StoreInv /\ CarriedInv /\ FilesInv /\ LogInv /\ SearchInv
  BY DEF IInv
<1>b. /\ up /\ run[r].pc = "none" /\ awaited' = r /\ session' = Append(session, User(r))
      /\ run' = [run EXCEPT ![r] = R]
      /\ mishaps' = IF \E q \in Runs : Live(q) THEN mishaps \cup {"overlap"} ELSE mishaps
      /\ UNCHANGED <<up, stored, created, files, log, approved>>
  BY DEF Submit, Idle
<1>c. run[r] \in RunType /\ ~run[r].searching /\ run[r].steps = 0
  BY <1>a, <1>b DEF RunTypes, LiveInv, LogInv
<1>d. R \in RunType
  BY <1>a, <1>c, PriorType DEF RunType, SessionTypes
<1>e. /\ R.pc = "planning" /\ R.prior = PriorArtifacts /\ R.searching = FALSE /\ R.steps = 0
      /\ R.carried = run[r].carried /\ R.found = run[r].found
  BY <1>c DEF RunType
<1> HIDE DEF R
<1>f. /\ RunTypes' /\ run'[r] = R /\ \A q \in Runs \ {r} : run'[q] = run[q]
  BY <1>a, <1>b, <1>d, OneRun
<1>g. /\ User(r) \in Entry /\ User(r).kind = "user" /\ User(r).arts = {}
  BY DEF User, Entry
<1>h. /\ session' \in Seq(Entry) /\ Len(session) \in Nat /\ Len(session') = Len(session) + 1
      /\ \A i \in 1..Len(session) : session'[i] = session[i]
      /\ session'[Len(session) + 1] = User(r)
  BY <1>a, <1>b, <1>g DEF SessionTypes
<1>i. \A i \in 1..Len(session') : i \in 1..Len(session) \/ i = Len(session) + 1
  BY <1>h
<1>1. SessionTypes'
  <2>1. r \in 0..MaxRuns /\ mishaps' \subseteq {"overlap", "cut"}
    BY <1>a, <1>b, BoundFacts DEF Runs, SessionTypes
  <2> QED BY <1>a, <1>b, <1>h, <2>1 DEF SessionTypes
<1>2. RoomInv'
  <2>1. Searching' \subseteq Searching
    BY <1>e, <1>f DEF Searching
  <2> QED BY <1>a, <1>b, <2>1, RoomShrinks
<1>3. LiveInv'
  <2>1. Alone' => Alone /\ \A q \in Runs : ~Live(q)
    BY <1>b DEF Alone
  <2>2. \A q \in Runs : Live(q)' => q = r \/ Live(q)
    BY <1>f DEF Live
  <2>3. \A q \in Runs : Holds(q)' => Holds(q)
    BY <1>e, <1>f DEF Holds
  <2>4. \A q \in Runs : run'[q].searching => run'[q].pc = "working"
    BY <1>a, <1>e, <1>f DEF LiveInv
  <2> QED BY <1>a, <1>b, <2>1, <2>2, <2>3, <2>4 DEF LiveInv
<1>4. StoreInv'
  <2> SUFFICES ASSUME Alone' PROVE StoreInv'
    BY DEF StoreInv
  <2>a. Alone /\ stored' = stored
    BY <1>b DEF Alone
  <2>1. stored # Torn => \A i \in 1..Len(session') : session'[i].arts \subseteq IdsOf(stored)
    BY <1>a, <1>g, <1>h, <1>i, <2>a DEF StoreInv
  <2>2. stored # Torn => PriorArtifacts \subseteq IdsOf(stored)
    BY <1>a, <1>h, <2>a DEF StoreInv, PriorArtifacts, SessionTypes
  <2>3. \A q \in Runs : run'[q].pc = "planning" /\ stored # Torn => run'[q].prior \subseteq IdsOf(stored)
    BY <1>a, <1>e, <1>f, <2>a, <2>2 DEF StoreInv
  <2>4. \A q \in Runs : Holds(q)' =>
           /\ run'[q].store = stored
           /\ run'[q].refs \cup run'[q].carried \cup run'[q].found \subseteq IdsOf(stored)
    BY <1>a, <1>e, <1>f, <2>a DEF StoreInv, Holds
  <2> QED BY <2>a, <2>1, <2>3, <2>4 DEF StoreInv
<1>5. CarriedInv'
  BY <1>a, <1>b, <1>e, <1>f DEF CarriedInv, InStep, Stepping
<1>6. LogInv'
  <2>1. \A q \in Runs : InStep(q)' =>
           run'[q].step \in 1..run'[q].steps /\ \A n \in 1..(run'[q].step - 1) : Done(q, n)
    BY <1>a, <1>e, <1>f DEF LogInv, InStep, Stepping
  <2>2. /\ \A q \in Runs : run'[q].pc = "ending" /\ run'[q].accepted /\ ~run'[q].asked =>
               \A n \in 1..run'[q].steps : Done(q, n)
        /\ \A q \in Runs : run'[q].pc \in {"none", "planning", "answering"} => run'[q].steps = 0
    BY <1>a, <1>e, <1>f DEF LogInv
  <2>3. ASSUME NEW i \in 1..Len(session'), session'[i].kind = "result"
        PROVE  /\ run'[session'[i].run].pc = "ended"
               /\ session'[i].accepted /\ ~run'[session'[i].run].asked =>
                    \A n \in 1..run'[session'[i].run].steps : Done(session'[i].run, n)
    <3>1. i \in 1..Len(session) /\ session'[i] = session[i] /\ session[i] \in Entry
      BY <1>a, <1>g, <1>h, <1>i, <2>3 DEF SessionTypes
    <3>2. session[i].run \in Runs /\ run[session[i].run].pc = "ended"
      BY <1>a, <2>3, <3>1 DEF LogInv, Entry
    <3>3. run'[session[i].run] = run[session[i].run]
      BY <1>b, <1>f, <3>2
    <3> QED BY <1>a, <2>3, <3>1, <3>2, <3>3 DEF LogInv
  <2> QED BY <1>b, <2>1, <2>2, <2>3 DEF LogInv, Done
<1>7. SearchInv'
  <2>1. mishaps' = {} => mishaps = {}
    BY <1>b
  <2> QED BY <1>a, <1>b, <1>e, <1>f, <2>1 DEF SearchInv
<1>8. FilesInv'
  BY <1>b, FilesSame
<1> QED BY <1>f, <1>1, <1>2, <1>3, <1>4, <1>5, <1>6, <1>7, <1>8 DEF IInv

(* Two entries more.                                                       *)
LEMMA Recorded ==
  ASSUME NEW s \in Seq(Entry), NEW a \in Entry, NEW b \in Entry
  PROVE  /\ Append(s, a) \in Seq(Entry) /\ Len(s) \in Nat /\ Len(Append(s, a)) = Len(s) + 1
         /\ \A i \in 1..Len(s) : Append(s, a)[i] = s[i]
         /\ Append(s, a)[Len(s) + 1] = a
         /\ s \o <<a, b>> \in Seq(Entry) /\ Len(s \o <<a, b>>) = Len(s) + 2
         /\ \A i \in 1..Len(s) : (s \o <<a, b>>)[i] = s[i]
         /\ (s \o <<a, b>>)[Len(s) + 1] = a /\ (s \o <<a, b>>)[Len(s) + 2] = b
  OBVIOUS

(* A run that has not begun its work ends.                                 *)
LEMMA EarlyEnd ==
  ASSUME IInv, NEW r \in Runs
  PROVE  /\ PlanFails(r) \/ PlanAsks(r) => IInv'
         /\ \A ok \in BOOLEAN : DirectEnds(r, ok) => IInv'
<1> DEFINE result == Result(r, {}, TRUE)
<1>a. SessionTypes /\ session \in Seq(Entry) /\ Len(session) \in Nat
  BY DEF IInv, SessionTypes
<1>b. /\ Answer(r) \in Entry /\ Answer(r).kind = "answer" /\ Answer(r).arts = {}
      /\ result \in Entry /\ result.run = r /\ result.arts = {}
  BY DEF Answer, Result, Entry
<1>1. ASSUME PlanFails(r) PROVE IInv'
  BY <1>1, <1>a, EndKeeps DEF PlanFails, Live
<1>2. ASSUME PlanAsks(r) PROVE IInv'
  <2>1. /\ Live(r) /\ Ends(r) /\ session' = Append(session, Answer(r))
        /\ UNCHANGED <<up, stored, created, files, log, approved, mishaps>>
    BY <1>2 DEF PlanAsks, Live
  <2>2. \A i \in (Len(session) + 1)..Len(session') : session'[i] = Answer(r)
    BY <1>a, <1>b, <2>1, Recorded
  <2> QED BY <1>a, <1>b, <2>1, <2>2, Recorded, EndKeeps
<1>3. ASSUME NEW ok \in BOOLEAN, DirectEnds(r, ok) PROVE IInv'
  <2>1. /\ Live(r) /\ Ends(r) /\ run[r].pc = "answering"
        /\ session' = session \/ session' = session \o <<Answer(r), result>>
        /\ UNCHANGED <<up, stored, created, files, log, approved, mishaps>>
    BY <1>3 DEF DirectEnds, Live
  <2> HIDE DEF result
  <2>2. CASE session' = session
    BY <1>a, <2>1, <2>2, EndKeeps
  <2>3. CASE session' = session \o <<Answer(r), result>>
    <3>1. \A i \in (Len(session) + 1)..Len(session') : session'[i] \in {Answer(r), result}
      BY <1>a, <1>b, <2>3, Recorded
    <3>2. run[r].steps = 0
      BY <2>1 DEF IInv, LogInv
    <3>3. \A n \in 1..run[r].steps : Done(r, n)
      BY <3>2
    <3>4. /\ session' \in Seq(Entry) /\ Len(session) <= Len(session')
          /\ \A i \in 1..Len(session) : session'[i] = session[i]
      BY <1>a, <1>b, <2>3, Recorded
    <3> QED BY <1>b, <2>1, <3>1, <3>3, <3>4, EndKeeps
  <2> QED BY <2>1, <2>2, <2>3
<1> QED BY <1>1, <1>2, <1>3

(* The synthesis is recorded.                                              *)
LEMMA FinishKeeps ==
  ASSUME IInv, NEW r \in Runs, Finish(r)
  PROVE  IInv'
<1> DEFINE result == Result(r, run[r].carried, ResultAccepted(r))
<1>a. SessionTypes /\ session \in Seq(Entry) /\ Len(session) \in Nat /\ run[r] \in RunType /\ StoreInv /\ LogInv
  BY DEF IInv, SessionTypes, RunTypes
<1>b. /\ Live(r) /\ Holds(r) /\ Ends(r) /\ run[r].pc = "ending"
      /\ session' = session \o <<Answer(r), result>>
      /\ UNCHANGED <<up, stored, created, files, log, approved, mishaps>>
  BY DEF Finish, Live, Holds
<1>c. /\ Answer(r) \in Entry /\ Answer(r).kind = "answer" /\ Answer(r).arts = {}
      /\ result \in Entry /\ result.run = r /\ result.arts = run[r].carried
      /\ result.accepted = run[r].accepted
  BY <1>a DEF Answer, Result, ResultAccepted, Entry, RunType
<1> HIDE DEF result
<1>1. /\ session' \in Seq(Entry) /\ Len(session) <= Len(session')
      /\ \A i \in 1..Len(session) : session'[i] = session[i]
  BY <1>a, <1>b, <1>c, Recorded
<1>2. \A i \in (Len(session) + 1)..Len(session') : session'[i] \in {Answer(r), result}
  BY <1>a, <1>b, <1>c, Recorded
<1>3. Alone => run[r].carried \subseteq IdsOf(stored)
  BY <1>a, <1>b DEF StoreInv
<1>4. run[r].accepted /\ ~run[r].asked => \A n \in 1..run[r].steps : Done(r, n)
  BY <1>a, <1>b DEF LogInv
<1> QED BY <1>b, <1>c, <1>1, <1>2, <1>3, <1>4, EndKeeps

(* The user turns away.                                                    *)
LEMMA AbortKeeps == IInv /\ Abort => IInv'
<1> SUFFICES ASSUME IInv, Abort PROVE IInv'
  OBVIOUS
<1>1. awaited' = 0 /\ UNCHANGED <<up, run, session, stored, created, files, log, approved, mishaps>>
  BY DEF Abort
<1>2. SessionTypes'
  BY <1>1, BoundFacts DEF IInv, SessionTypes
<1> QED BY <1>1, <1>2 DEF IInv, RunTypes, RoomInv, Searching, LiveInv, Live, Holds, Alone,
                          StoreInv, CarriedInv, InStep, Stepping, FilesInv, LogInv, Done, SearchInv
-----------------------------------------------------------------------------
(* A live run takes a step and stays live: what it then holds is there,    *)
(* what it carries was accepted, and what it has done is on the log.       *)
LEMMA WorkKeeps ==
  ASSUME IInv, NEW r \in Runs, NEW R \in RunType, Live(r), run' = [run EXCEPT ![r] = R],
         R.pc \in {"answering", "working", "writing", "recording", "ending"},
         UNCHANGED <<up, awaited, session, mishaps>>,
         RoomInv', SearchInv', FilesInv',
         stored' = Torn <=> stored = Torn,
         stored' = Torn \/ stored' \subseteq Artifact,
         log \subseteq log', log' \subseteq LogLine,
         approved \subseteq approved', approved' \subseteq Artifacts,
         R.searching => R.pc = "working",
         R.pc = "answering" => R.steps = 0 /\ R.carried = {} /\ R.found = {},
         R.pc # "answering" => stored # Torn,
         Alone => IdsOf(stored) \subseteq IdsOf(stored'),
         Alone /\ R.pc # "answering" =>
           R.store = stored' /\ R.refs \cup R.carried \cup R.found \subseteq IdsOf(stored'),
         R.pc \in Stepping =>
           /\ R.carried \subseteq approved'
           /\ R.step \in 1..R.steps /\ \A n \in 1..(R.step - 1) : Done(r, n)',
         R.pc = "ending" /\ R.accepted /\ ~R.asked => \A n \in 1..R.steps : Done(r, n)'
  PROVE  IInv'
<1>a. SessionTypes /\ RunTypes /\ LiveInv /\ StoreInv /\ CarriedInv /\ FilesInv /\ LogInv
  BY DEF IInv
<1>b. RunTypes' /\ run'[r] = R /\ \A q \in Runs \ {r} : run'[q] = run[q]
  BY <1>a, OneRun
<1>c. up /\ run[r].pc # "ended" /\ run[r].pc # "none"
  BY <1>a DEF LiveInv, Live
<1>d. Alone => \A q \in Runs \ {r} : ~Live(q) /\ run[q].pc # "planning" /\ ~Holds(q)
  BY <1>a DEF LiveInv, Live, Holds
<1>e. \A q, n : Done(q, n) => Done(q, n)'
  BY DEF Done
<1>1. SessionTypes'
  BY <1>a DEF SessionTypes
<1>2. LiveInv'
  <2>1. \A q \in Runs : Live(q)' => Live(q)
    BY <1>b DEF Live
  <2>2. stored' = Torn => \A q \in Runs : ~Holds(q)'
    BY <1>a, <1>b DEF LiveInv, Holds
  <2>3. \A q \in Runs : run'[q].searching => run'[q].pc = "working"
    BY <1>a, <1>b DEF LiveInv
  <2>4. Alone' => Alone
    BY DEF Alone
  <2> QED BY <1>a, <2>1, <2>2, <2>3, <2>4 DEF LiveInv
<1>3. StoreInv'
  <2> SUFFICES ASSUME Alone PROVE StoreInv'
    BY DEF StoreInv, Alone
  <2>1. stored' # Torn => \A i \in 1..Len(session') : session'[i].arts \subseteq IdsOf(stored')
    BY <1>a DEF StoreInv
  <2>2. \A q \in Runs : run'[q].pc # "planning"
    BY <1>b, <1>d
  <2>3. \A q \in Runs : Holds(q)' =>
           /\ run'[q].store = stored'
           /\ run'[q].refs \cup run'[q].carried \cup run'[q].found \subseteq IdsOf(stored')
    BY <1>b, <1>d DEF Holds
  <2> QED BY <2>1, <2>2, <2>3 DEF StoreInv
<1>4. CarriedInv'
  BY <1>a, <1>b DEF CarriedInv, InStep, Stepping
<1>5. LogInv'
  <2>1. \A q \in Runs : InStep(q)' =>
           run'[q].step \in 1..run'[q].steps /\ \A n \in 1..(run'[q].step - 1) : Done(q, n)'
    BY <1>a, <1>b, <1>e DEF LogInv, InStep
  <2>2. \A q \in Runs : run'[q].pc = "ending" /\ run'[q].accepted /\ ~run'[q].asked =>
               \A n \in 1..run'[q].steps : Done(q, n)'
    BY <1>a, <1>b, <1>e DEF LogInv
  <2>3. \A q \in Runs : run'[q].pc \in {"none", "planning", "answering"} => run'[q].steps = 0
    BY <1>a, <1>b DEF LogInv
  <2>4. ASSUME NEW i \in 1..Len(session'), session'[i].kind = "result"
        PROVE  /\ run'[session'[i].run].pc = "ended"
               /\ session'[i].accepted /\ ~run'[session'[i].run].asked =>
                    \A n \in 1..run'[session'[i].run].steps :
                      [run |-> session'[i].run, step |-> n, accepted |-> TRUE] \in log'
    <3>1. i \in 1..Len(session) /\ session'[i] = session[i] /\ session[i] \in Entry
      BY <1>a, <2>4 DEF SessionTypes
    <3>2. session[i].run \in Runs /\ run[session[i].run].pc = "ended"
      BY <1>a, <2>4, <3>1 DEF LogInv, Entry
    <3>3. run'[session[i].run] = run[session[i].run]
      BY <1>b, <1>c, <3>2
    <3> QED BY <1>a, <2>4, <3>1, <3>2, <3>3 DEF LogInv, Done
  <2> QED BY <2>1, <2>2, <2>3, <2>4 DEF LogInv, Done
<1> QED BY <1>b, <1>1, <1>2, <1>3, <1>4, <1>5 DEF IInv

(* Neither a search begins nor an artifact is written.                     *)
LEMMA SearchSame ==
  ASSUME IInv, UNCHANGED <<stored, created, mishaps>>, Searching' \subseteq Searching
  PROVE  RoomInv' /\ SearchInv'
<1>1. RoomInv'
  BY RoomShrinks DEF IInv
<1>2. \A q \in Runs : run'[q].searching => run[q].searching
  BY DEF Searching
<1> QED BY <1>1, <1>2 DEF IInv, SearchInv

(* The plan is a direct answer.                                            *)
LEMMA PlanDirectKeeps ==
  ASSUME IInv, NEW r \in Runs, PlanDirect(r)
  PROVE  IInv'
<1> DEFINE R == [run[r] EXCEPT !.pc = "answering"]
<1>a. /\ run[r] \in RunType /\ run[r].pc = "planning" /\ Live(r) /\ run' = [run EXCEPT ![r] = R]
      /\ UNCHANGED <<up, awaited, session, stored, created, files, log, approved, mishaps>>
  BY DEF PlanDirect, Live, IInv, RunTypes
<1>b. /\ R \in RunType /\ R.pc = "answering" /\ R.steps = run[r].steps /\ R.carried = run[r].carried
      /\ R.found = run[r].found /\ R.searching = run[r].searching
  BY <1>a DEF RunType
<1>c. run[r].steps = 0 /\ run[r].carried = {} /\ run[r].found = {} /\ ~run[r].searching
  BY <1>a DEF IInv, LogInv, CarriedInv, LiveInv
<1> HIDE DEF R
<1>d. Searching' \subseteq Searching
  BY <1>a, <1>b, <1>c, OneRun DEF IInv, Searching
<1>e. stored = Torn \/ stored \subseteq Artifact
  BY DEF IInv, SessionTypes
<1>f. log \subseteq LogLine /\ approved \subseteq Artifacts
  BY DEF IInv, SessionTypes
<1>g. RoomInv' /\ SearchInv'
  BY <1>a, <1>d, SearchSame
<1>h. ~(R.pc \in Stepping) /\ FilesInv'
  BY <1>a, <1>b, FilesSame DEF Stepping
<1> QED BY <1>a, <1>b, <1>c, <1>e, <1>f, <1>g, <1>h, WorkKeeps

(* The plan is a workflow: the manifest is read, and the first step begins. *)
LEMMA PlanWorkflowKeeps ==
  ASSUME IInv, NEW r \in Runs, NEW n \in 1..MaxSteps, NEW kind \in Kinds, NEW refs,
         PlanWorkflow(r, n, kind, refs)
  PROVE  IInv'
<1> DEFINE R == [run[r] EXCEPT !.pc = kind, !.steps = n, !.step = 1, !.attempt = 1,
                               !.prior = {}, !.refs = refs, !.store = stored]
<1>a. /\ run[r] \in RunType /\ run[r].pc = "planning" /\ Live(r) /\ refs \subseteq run[r].prior
      /\ UNCHANGED <<up, session, stored, created, files, log, approved, mishaps>>
  BY DEF PlanWorkflow, Loaded, Live, IInv, RunTypes
<1>1. CASE stored = Torn
  <2>1. Ends(r)
    BY <1>1 DEF PlanWorkflow
  <2>2. session' \in Seq(Entry) /\ Len(session') = Len(session) /\ Len(session) \in Nat
    BY <1>a DEF IInv, SessionTypes
  <2> QED BY <1>a, <2>1, <2>2, EndKeeps
<1>2. CASE stored # Torn
  <2>a. run' = [run EXCEPT ![r] = R] /\ awaited' = awaited
    BY <1>2 DEF PlanWorkflow, Loaded
  <2>b. stored \subseteq Artifact /\ log \subseteq LogLine /\ approved \subseteq Artifacts
    BY <1>2 DEF IInv, SessionTypes
  <2>c. /\ run[r].carried = {} /\ run[r].found = {} /\ ~run[r].searching
        /\ Alone => run[r].prior \subseteq IdsOf(stored)
    BY <1>2, <1>a DEF IInv, CarriedInv, LiveInv, StoreInv
  <2>d. kind \in {"working", "writing"}
    BY DEF Kinds
  <2>e. n \in 0..MaxSteps /\ 1 \in 0..MaxSteps /\ 1 \in 0..MaxAttempts
    BY BoundFacts
  <2>f. refs \subseteq Artifacts
    BY <1>a DEF RunType
  <2>g. R \in RunType
    BY <1>a, <2>b, <2>d, <2>e, <2>f DEF RunType
  <2>h. /\ R.pc = kind /\ R.steps = n /\ R.step = 1 /\ R.refs = refs /\ R.store = stored
        /\ R.carried = run[r].carried /\ R.found = run[r].found /\ R.searching = run[r].searching
    BY <1>a DEF RunType
  <2> HIDE DEF R
  <2>i. Searching' \subseteq Searching
    BY <2>a, <2>c, <2>g, <2>h, OneRun DEF IInv, Searching
  <2>j. RoomInv' /\ SearchInv'
    BY <1>a, <2>i, SearchSame
  <2>k. FilesInv' /\ R.step \in 1..R.steps /\ \A m \in 1..(R.step - 1) : Done(r, m)'
    BY <1>a, <2>h, FilesSame
  <2> QED BY <1>2, <1>a, <2>a, <2>b, <2>c, <2>d, <2>g, <2>h, <2>j, <2>k, WorkKeeps
<1> QED BY <1>1, <1>2

(* What is found in a store is in it.                                      *)
LEMMA CachedIds ==
  ASSUME NEW S
  PROVE  Cached(S) \subseteq IdsOf(S)
  BY DEF Cached, IdsOf

(* A store without a bare artifact, and with one search at most, has it    *)
(* cached.                                                                 *)
LEMMA CachedAll ==
  ASSUME NEW S \in SUBSET Artifact, \A a, b \in S : Searched(a) /\ Searched(b) => a = b,
         \A a \in S : a.content # "bare", Cached(S) = {}
  PROVE  \A a \in S : ~Searched(a)
<1> SUFFICES ASSUME NEW a \in S, Searched(a) PROVE FALSE
  OBVIOUS
<1>1. a.id \in Nat /\ a.content = "full"
  BY BoundFacts DEF Artifact, Artifacts, Searched
<1>2. \A c \in S : c.content # "other" => a.id <= c.id
  BY <1>1 DEF Searched
<1>3. a.id \in Cached(S)
  BY <1>1, <1>2 DEF Cached
<1> QED BY <1>3

(* What a run at work holds.                                               *)
LEMMA WorkFacts ==
  ASSUME IInv, NEW r \in Runs, Holds(r)
  PROVE  /\ run[r] \in RunType /\ Live(r) /\ stored # Torn /\ stored \subseteq Artifact
         /\ run[r].store \subseteq Artifact
         /\ log \subseteq LogLine /\ approved \subseteq Artifacts
         /\ created \in Nat /\ created + Cardinality(Searching) <= MaxArtifacts
         /\ Alone => run[r].store = stored
         /\ Alone => run[r].refs \cup run[r].carried \cup run[r].found \subseteq IdsOf(stored)
         /\ run[r].pc \in Stepping => /\ run[r].carried \subseteq approved /\ run[r].step \in 1..run[r].steps
                                      /\ \A n \in 1..(run[r].step - 1) : Done(r, n)
<1>1. run[r] \in RunType /\ Live(r) /\ stored # Torn
  BY DEF IInv, RunTypes, LiveInv, Holds, Live
<1>2. run[r].store \subseteq Artifact
  BY <1>1 DEF RunType
<1>3. stored \subseteq Artifact /\ log \subseteq LogLine /\ approved \subseteq Artifacts
  BY <1>1 DEF IInv, SessionTypes
<1>4. created \in Nat /\ created + Cardinality(Searching) <= MaxArtifacts
  BY DEF IInv, RoomInv
<1>5. Alone => /\ run[r].store = stored
               /\ run[r].refs \cup run[r].carried \cup run[r].found \subseteq IdsOf(stored)
  BY DEF IInv, StoreInv
<1>6. run[r].pc \in Stepping => /\ run[r].carried \subseteq approved /\ run[r].step \in 1..run[r].steps
                                /\ \A n \in 1..(run[r].step - 1) : Done(r, n)
  BY DEF IInv, CarriedInv, LogInv, InStep
<1> QED BY <1>1, <1>2, <1>3, <1>4, <1>5, <1>6

(* A worker searches, or has its search answered from the store.           *)
LEMMA SearchKeeps ==
  ASSUME IInv, NEW r \in Runs, Search(r)
  PROVE  IInv'
<1>a. /\ run[r].pc = "working" /\ Holds(r) /\ ~run[r].searching
      /\ UNCHANGED <<up, awaited, session, stored, created, files, log, approved, mishaps>>
  BY DEF Search, Holds
<1>b. /\ run[r] \in RunType /\ Live(r) /\ stored # Torn /\ stored \subseteq Artifact
      /\ run[r].store \subseteq Artifact /\ log \subseteq LogLine /\ approved \subseteq Artifacts
      /\ created \in Nat /\ created + Cardinality(Searching) <= MaxArtifacts
      /\ Alone => run[r].store = stored
      /\ Alone => run[r].refs \cup run[r].carried \cup run[r].found \subseteq IdsOf(stored)
      /\ run[r].carried \subseteq approved /\ run[r].step \in 1..run[r].steps
      /\ \A n \in 1..(run[r].step - 1) : Done(r, n)
  BY <1>a, WorkFacts DEF Stepping
<1>c. FilesInv' /\ \A n : Done(r, n) => Done(r, n)'
  BY <1>a, FilesSame DEF Done
<1>1. CASE Cached(run[r].store) # {}
  <2> DEFINE R == [run[r] EXCEPT !.found = @ \cup Cached(run[r].store)]
  <2>1. run' = [run EXCEPT ![r] = R]
    BY <1>1 DEF Search
  <2>2. Cached(run[r].store) \subseteq IdsOf(run[r].store) /\ IdsOf(run[r].store) \subseteq Artifacts
    BY <1>b, CachedIds DEF IdsOf, Artifact
  <2>3. R \in RunType
    BY <1>b, <2>2 DEF RunType
  <2>4. /\ R.pc = run[r].pc /\ R.steps = run[r].steps /\ R.step = run[r].step /\ R.refs = run[r].refs
        /\ R.store = run[r].store /\ R.carried = run[r].carried /\ R.searching = run[r].searching
        /\ R.found = run[r].found \cup Cached(run[r].store)
    BY <1>b DEF RunType
  <2> HIDE DEF R
  <2>5. Searching' \subseteq Searching
    BY <1>a, <2>1, <2>3, <2>4, OneRun DEF IInv, Searching
  <2>6. RoomInv' /\ SearchInv'
    BY <1>a, <2>5, SearchSame
  <2>7. Alone => R.store = stored' /\ R.refs \cup R.carried \cup R.found \subseteq IdsOf(stored')
    BY <1>a, <1>b, <2>2, <2>4
  <2> QED BY <1>a, <1>b, <1>c, <2>1, <2>3, <2>4, <2>6, <2>7, WorkKeeps
<1>2. CASE Cached(run[r].store) = {}
  <2> DEFINE R == [run[r] EXCEPT !.searching = TRUE]
  <2>1. run' = [run EXCEPT ![r] = R] /\ created + Cardinality(Searching) < MaxArtifacts
    BY <1>2 DEF Search, Room, Searching
  <2>2. R \in RunType
    BY <1>b DEF RunType
  <2>3. /\ R.pc = run[r].pc /\ R.steps = run[r].steps /\ R.step = run[r].step /\ R.refs = run[r].refs
        /\ R.store = run[r].store /\ R.carried = run[r].carried /\ R.found = run[r].found /\ R.searching
    BY <1>b DEF RunType
  <2> HIDE DEF R
  <2>4. run'[r] = R /\ \A q \in Runs \ {r} : run'[q] = run[q]
    BY <2>1, <2>2, OneRun DEF IInv
  <2>5. Searching' = Searching \cup {r} /\ r \notin Searching
    BY <1>a, <2>3, <2>4 DEF Searching
  <2>6. Cardinality(Searching') = Cardinality(Searching) + 1
    BY <2>5, SearchingFinite, FS_AddElement
  <2>7. RoomInv'
    BY <1>a, <1>b, <2>1, <2>6, SearchingFinite, BoundFacts DEF RoomInv
  <2>8. SearchInv'
    <3> SUFFICES ASSUME mishaps = {} PROVE SearchInv'
      BY <1>a DEF SearchInv
    <3>1. Alone /\ run[r].store = stored
      BY <1>b DEF Alone
    <3>2. /\ \A a, b \in stored : Searched(a) /\ Searched(b) => a = b
          /\ \A a \in stored : a.content # "bare"
      BY <1>b DEF IInv, SearchInv
    <3>3. \A a \in stored : ~Searched(a)
      BY <1>b, <1>2, <3>1, <3>2, CachedAll
    <3> QED BY <1>a, <3>2, <3>3 DEF SearchInv
  <2> QED BY <1>a, <1>b, <1>c, <2>1, <2>2, <2>3, <2>7, <2>8, WorkKeeps
<1> QED BY <1>1, <1>2

(* A new artifact in the copy of a run.                                    *)
LEMMA WithType ==
  ASSUME NEW r \in Runs, run[r].store \subseteq Artifact, NEW content \in {"bare", "full", "other"},
         created + 1 \in Artifacts
  PROVE  /\ With(r, content) \subseteq Artifact /\ With(r, content) # Torn
         /\ IdsOf(With(r, content)) = IdsOf(run[r].store) \cup {created + 1}
         /\ \A a \in With(r, content) : a \in run[r].store \/ a = [id |-> created + 1, content |-> content]
<1>1. With(r, content) \subseteq Artifact
  BY DEF With, Artifact
<1>2. IdsOf(With(r, content)) = IdsOf(run[r].store) \cup {created + 1}
  <2> DEFINE new == [id |-> created + 1, content |-> content]
  <2>1. new.id = created + 1 /\ With(r, content) = run[r].store \cup {new}
    BY DEF With
  <2> HIDE DEF new
  <2>2. \A S : IdsOf(S \cup {new}) = IdsOf(S) \cup {new.id}
    BY DEF IdsOf
  <2> QED BY <2>1, <2>2
<1>3. \A a \in With(r, content) : a \in run[r].store \/ a = [id |-> created + 1, content |-> content]
  BY DEF With
<1> QED BY <1>1, <1>2, <1>3, TornAssumption

(* What is under way has its place among the artifacts.                    *)
LEMMA SearchHasRoom ==
  ASSUME IInv, NEW r \in Runs, run[r].searching
  PROVE  /\ created + 1 \in Artifacts
         /\ created + 1 + Cardinality(Searching \ {r}) <= MaxArtifacts
<1>1. r \in Searching
  BY DEF Searching
<1>2. IsFiniteSet(Searching \ {r}) /\ Cardinality(Searching \ {r}) = Cardinality(Searching) - 1
  BY <1>1, SearchingFinite, FS_RemoveElement
<1>3. Cardinality(Searching \ {r}) \in Nat
  BY <1>2, FS_CardinalityType
<1> QED BY <1>2, <1>3, SearchingFinite, BoundFacts DEF IInv, RoomInv, Artifacts

(* A search ends with an artifact.                                         *)
LEMMA SearchEndsKeeps ==
  ASSUME IInv, NEW r \in Runs, SearchEnds(r)
  PROVE  IInv'
<1> DEFINE R == [run[r] EXCEPT !.searching = FALSE, !.store = With(r, "full"), !.found = @ \cup {created + 1}]
<1>a. /\ run[r].searching /\ created' = created + 1 /\ stored' = With(r, "full")
      /\ run' = [run EXCEPT ![r] = R]
      /\ UNCHANGED <<up, awaited, session, files, log, approved, mishaps>>
  BY DEF SearchEnds
<1>b. run[r].pc = "working" /\ Holds(r)
  BY <1>a DEF IInv, LiveInv, Holds
<1>c. /\ run[r] \in RunType /\ Live(r) /\ stored # Torn /\ stored \subseteq Artifact
      /\ run[r].store \subseteq Artifact /\ log \subseteq LogLine /\ approved \subseteq Artifacts
      /\ created \in Nat
      /\ Alone => run[r].store = stored
      /\ Alone => run[r].refs \cup run[r].carried \cup run[r].found \subseteq IdsOf(stored)
      /\ run[r].carried \subseteq approved /\ run[r].step \in 1..run[r].steps
      /\ \A n \in 1..(run[r].step - 1) : Done(r, n)
  BY <1>b, WorkFacts DEF Stepping
<1>d. created + 1 \in Artifacts /\ created + 1 + Cardinality(Searching \ {r}) <= MaxArtifacts
  BY <1>a, SearchHasRoom
<1>e. /\ With(r, "full") \subseteq Artifact /\ With(r, "full") # Torn
      /\ IdsOf(With(r, "full")) = IdsOf(run[r].store) \cup {created + 1}
      /\ \A a \in With(r, "full") : a \in run[r].store \/ a = [id |-> created + 1, content |-> "full"]
  BY <1>c, <1>d, WithType
<1>f. R \in RunType
  BY <1>c, <1>d, <1>e DEF RunType
<1>g. /\ R.pc = run[r].pc /\ R.steps = run[r].steps /\ R.step = run[r].step /\ R.refs = run[r].refs
      /\ R.store = With(r, "full") /\ R.carried = run[r].carried /\ R.searching = FALSE
      /\ R.found = run[r].found \cup {created + 1}
  BY <1>c DEF RunType
<1> HIDE DEF R
<1>h. run'[r] = R /\ \A q \in Runs \ {r} : run'[q] = run[q]
  BY <1>a, <1>f, OneRun DEF IInv
<1>1. RoomInv'
  <2>1. Searching' = Searching \ {r}
    BY <1>g, <1>h DEF Searching
  <2> QED BY <1>a, <1>c, <1>d, <2>1 DEF RoomInv
<1>2. SearchInv'
  <2> SUFFICES ASSUME mishaps = {} PROVE SearchInv'
    BY <1>a DEF SearchInv
  <2>1. Alone /\ run[r].store = stored
    BY <1>c DEF Alone
  <2>2. \A a \in stored : ~Searched(a)
    BY <1>a, <1>c DEF IInv, SearchInv
  <2>3. \A a \in stored' : a.content # "bare"
    BY <1>a, <1>c, <1>e, <2>1, <2>2 DEF Searched
  <2>4. \A a, b \in stored' : Searched(a) /\ Searched(b) => a = b
    BY <1>a, <1>e, <2>1, <2>2
  <2>5. \A q \in Runs : ~run'[q].searching
    BY <1>c, <1>g, <1>h, <2>1 DEF IInv, LiveInv, Live
  <2> QED BY <1>a, <2>3, <2>4, <2>5 DEF SearchInv
<1>3. Alone => /\ IdsOf(stored) \subseteq IdsOf(stored') /\ R.store = stored'
               /\ R.refs \cup R.carried \cup R.found \subseteq IdsOf(stored')
  BY <1>a, <1>c, <1>e, <1>g
<1>4. FilesInv' /\ \A n : Done(r, n) => Done(r, n)'
  BY <1>a, FilesSame DEF Done
<1> QED BY <1>a, <1>b, <1>c, <1>e, <1>f, <1>g, <1>1, <1>2, <1>3, <1>4, WorkKeeps

(* A worker has returned: it is tried again, or its result is recorded.    *)
LEMMA JudgeKeeps ==
  ASSUME IInv, NEW r \in Runs, run[r].pc \in Kinds, ~run[r].searching,
         NEW accepted \in BOOLEAN, NEW asks \in BOOLEAN, Judge(r, accepted, asks),
         UNCHANGED <<up, awaited, session, stored, created, files, log, approved, mishaps>>
  PROVE  IInv'
<1> DEFINE Again == [run[r] EXCEPT !.attempt = NextAttempt(@), !.found = {}]
           R == [run[r] EXCEPT !.pc = "recording", !.accepted = accepted, !.asked = asks]
<1>a. Holds(r) /\ run[r].pc \in {"working", "writing"} /\ run[r].pc \in Stepping
  BY DEF Holds, Kinds, Stepping
<1>b. /\ run[r] \in RunType /\ Live(r) /\ stored # Torn /\ stored \subseteq Artifact
      /\ log \subseteq LogLine /\ approved \subseteq Artifacts
      /\ Alone => run[r].store = stored
      /\ Alone => run[r].refs \cup run[r].carried \cup run[r].found \subseteq IdsOf(stored)
      /\ run[r].carried \subseteq approved /\ run[r].step \in 1..run[r].steps
      /\ \A n \in 1..(run[r].step - 1) : Done(r, n)
  BY <1>a, WorkFacts
<1>c. FilesInv' /\ \A n : Done(r, n) => Done(r, n)'
  BY FilesSame DEF Done
<1>1. ASSUME NEW Q \in RunType, run' = [run EXCEPT ![r] = Q], ~Q.searching,
             Q.pc \in Stepping, Q.steps = run[r].steps, Q.step = run[r].step, Q.store = run[r].store,
             Q.refs = run[r].refs, Q.carried = run[r].carried, Q.found \subseteq run[r].found
      PROVE  IInv'
  <2>1. run'[r] = Q /\ \A q \in Runs \ {r} : run'[q] = run[q]
    BY <1>1, OneRun DEF IInv
  <2>2. Searching' \subseteq Searching
    BY <1>1, <2>1 DEF Searching
  <2>3. RoomInv' /\ SearchInv'
    BY <2>2, SearchSame
  <2>4. Q.pc \in {"working", "writing", "recording"}
    BY <1>1 DEF Stepping
  <2>5. Alone => Q.store = stored' /\ Q.refs \cup Q.carried \cup Q.found \subseteq IdsOf(stored')
    BY <1>b, <1>1
  <2>6. Q.carried \subseteq approved' /\ Q.step \in 1..Q.steps /\ \A n \in 1..(Q.step - 1) : Done(r, n)'
    BY <1>b, <1>c, <1>1
  <2> QED BY <1>b, <1>c, <1>1, <2>3, <2>4, <2>5, <2>6, WorkKeeps
<1>2. CASE ~accepted /\ ~asks /\ RetriesLeft(r)
  <2>1. run' = [run EXCEPT ![r] = Again]
    BY <1>2 DEF Judge
  <2>2. run[r].attempt + 1 \in 0..MaxAttempts
    BY <1>2, <1>b, BoundFacts DEF RetriesLeft, RunType
  <2>3. Again \in RunType
    BY <1>b, <2>2 DEF RunType, NextAttempt
  <2>4. /\ Again.pc = run[r].pc /\ Again.steps = run[r].steps /\ Again.step = run[r].step
        /\ Again.refs = run[r].refs /\ Again.carried = run[r].carried /\ Again.found = {}
        /\ Again.store = run[r].store /\ Again.searching = run[r].searching
    BY <1>b DEF RunType
  <2> HIDE DEF Again
  <2> QED BY <1>1, <1>a, <2>1, <2>3, <2>4
<1>3. CASE ~(~accepted /\ ~asks /\ RetriesLeft(r))
  <2>1. run' = [run EXCEPT ![r] = R]
    BY <1>3, ZenonT(40) DEF Judge
  <2>2. R \in RunType
    BY <1>b DEF RunType
  <2>3. /\ R.pc = "recording" /\ R.steps = run[r].steps /\ R.step = run[r].step
        /\ R.refs = run[r].refs /\ R.carried = run[r].carried /\ R.found = run[r].found
        /\ R.store = run[r].store /\ R.searching = run[r].searching
    BY <1>b DEF RunType
  <2>4. "recording" \in Stepping
    BY DEF Stepping
  <2> HIDE DEF R
  <2> QED BY <1>1, <2>1, <2>2, <2>3, <2>4
<1> QED BY <1>2, <1>3

(* A profile worker returns.                                               *)
LEMMA WorkerEndsKeeps ==
  ASSUME IInv, NEW r \in Runs, NEW accepted \in BOOLEAN, NEW asks \in BOOLEAN,
         WorkerEnds(r, accepted, asks)
  PROVE  IInv'
<1>1. /\ run[r].pc \in Kinds /\ ~run[r].searching /\ Judge(r, accepted, asks)
      /\ UNCHANGED <<up, awaited, session, stored, created, files, log, approved, mishaps>>
  BY DEF WorkerEnds, Kinds
<1> QED BY <1>1, JudgeKeeps

(* A structured worker returns.                                            *)
LEMMA StructuredEndsKeeps ==
  ASSUME IInv, NEW r \in Runs, NEW accepted \in BOOLEAN, StructuredEnds(r, accepted)
  PROVE  IInv'
<1>1. /\ run[r].pc = "writing" /\ run[r].pc \in Kinds /\ Judge(r, accepted, FALSE)
      /\ UNCHANGED <<up, awaited, session, stored, created, files, log, approved, mishaps>>
  BY DEF StructuredEnds, Kinds
<1>2. ~run[r].searching /\ FALSE \in BOOLEAN
  BY <1>1 DEF IInv, LiveInv
<1> QED BY <1>1, <1>2, JudgeKeeps

(* A structured worker creates an artifact.                                *)
LEMMA StructuredWriteKeeps ==
  ASSUME IInv, NEW r \in Runs, StructuredWrite(r)
  PROVE  IInv'
<1> DEFINE R == [run[r] EXCEPT !.store = With(r, "other"), !.found = @ \cup {created + 1}]
<1>a. /\ run[r].pc = "writing" /\ created' = created + 1 /\ stored' = With(r, "other")
      /\ run' = [run EXCEPT ![r] = R] /\ created + Cardinality(Searching) < MaxArtifacts
      /\ UNCHANGED <<up, awaited, session, files, log, approved, mishaps>>
  BY DEF StructuredWrite, Room, Searching
<1>b. Holds(r) /\ run[r].pc \in Stepping
  BY <1>a DEF Holds, Stepping
<1>c. /\ run[r] \in RunType /\ Live(r) /\ stored # Torn /\ stored \subseteq Artifact
      /\ run[r].store \subseteq Artifact /\ log \subseteq LogLine /\ approved \subseteq Artifacts
      /\ created \in Nat
      /\ Alone => run[r].store = stored
      /\ Alone => run[r].refs \cup run[r].carried \cup run[r].found \subseteq IdsOf(stored)
      /\ run[r].carried \subseteq approved /\ run[r].step \in 1..run[r].steps
      /\ \A n \in 1..(run[r].step - 1) : Done(r, n)
  BY <1>b, WorkFacts
<1>d. ~run[r].searching
  BY <1>a DEF IInv, LiveInv
<1>e. created + 1 \in Artifacts /\ created + 1 + Cardinality(Searching) <= MaxArtifacts
  BY <1>a, <1>c, SearchingFinite, BoundFacts DEF Artifacts
<1>f. /\ With(r, "other") \subseteq Artifact /\ With(r, "other") # Torn
      /\ IdsOf(With(r, "other")) = IdsOf(run[r].store) \cup {created + 1}
      /\ \A a \in With(r, "other") : a \in run[r].store \/ a = [id |-> created + 1, content |-> "other"]
  BY <1>c, <1>e, WithType
<1>g. R \in RunType
  BY <1>c, <1>e, <1>f DEF RunType
<1>h. /\ R.pc = run[r].pc /\ R.steps = run[r].steps /\ R.step = run[r].step /\ R.refs = run[r].refs
      /\ R.store = With(r, "other") /\ R.carried = run[r].carried /\ R.searching = run[r].searching
      /\ R.found = run[r].found \cup {created + 1}
  BY <1>c DEF RunType
<1> HIDE DEF R
<1>i. run'[r] = R /\ \A q \in Runs \ {r} : run'[q] = run[q]
  BY <1>a, <1>g, OneRun DEF IInv
<1>1. RoomInv'
  <2>1. Searching' = Searching
    BY <1>h, <1>i DEF Searching
  <2> QED BY <1>a, <1>c, <1>e, <2>1 DEF RoomInv
<1>2. SearchInv'
  <2> SUFFICES ASSUME mishaps = {} PROVE SearchInv'
    BY <1>a DEF SearchInv
  <2>1. Alone /\ run[r].store = stored
    BY <1>c DEF Alone
  <2>2. /\ \A a, b \in stored : Searched(a) /\ Searched(b) => a = b
        /\ \A a \in stored : a.content # "bare"
    BY <1>c DEF IInv, SearchInv
  <2>3. \A a \in stored' : a \in stored \/ (~Searched(a) /\ a.content # "bare")
    BY <1>a, <1>f, <2>1 DEF Searched
  <2>4. \A q \in Runs : ~run'[q].searching
    BY <1>c, <1>d, <1>h, <1>i, <2>1 DEF IInv, LiveInv, Live
  <2> QED BY <2>2, <2>3, <2>4 DEF SearchInv
<1>3. Alone => /\ IdsOf(stored) \subseteq IdsOf(stored') /\ R.store = stored'
               /\ R.refs \cup R.carried \cup R.found \subseteq IdsOf(stored')
  BY <1>a, <1>c, <1>f, <1>h
<1>4. FilesInv' /\ \A n : Done(r, n) => Done(r, n)'
  BY <1>a, FilesSame DEF Done
<1> QED BY <1>a, <1>c, <1>d, <1>f, <1>g, <1>h, <1>1, <1>2, <1>3, <1>4, WorkKeeps

(* A file of the step is written.                                          *)
LEMMA RecordFileKeeps ==
  ASSUME IInv, NEW r \in Runs, RecordFile(r)
  PROVE  IInv'
<1>1. /\ run[r].pc = "recording"
      /\ UNCHANGED <<up, awaited, run, session, stored, created, log, approved, mishaps>>
  BY DEF RecordFile
<1>2. PICK i \in DOMAIN StepFiles : files' = files \cup {StepFile(r, run[r].step, i)}
  BY DEF RecordFile
<1>3. run[r] \in RunType /\ run[r].step \in 1..run[r].steps
  BY <1>1, WorkFacts DEF Holds, Stepping
<1>4. StepFile(r, run[r].step, i) \in FileType
  BY <1>3, BoundFacts DEF StepFile, FileType, FileName, RunType
<1>5. FilesInv'
  BY <1>1, <1>2, <1>4 DEF IInv, FilesInv
<1> QED BY <1>1, <1>5 DEF IInv, SessionTypes, RunTypes, RoomInv, Searching, LiveInv, Live, Holds, Alone,
                          StoreInv, CarriedInv, InStep, Stepping, LogInv, Done, SearchInv

(* A step is in the log: the next one begins, or the workflow is at its    *)
(* end.                                                                    *)
LEMMA StepEndsKeeps ==
  ASSUME IInv, NEW r \in Runs, NEW kind \in Kinds, StepEnds(r, kind)
  PROVE  IInv'
<1> DEFINE on == GoesOn(r)
           R == [run[r] EXCEPT !.pc = IF on THEN kind ELSE "ending", !.step = IF on THEN @ + 1 ELSE @,
                               !.attempt = 1, !.found = {}, !.carried = @ \cup run[r].found]
           line == [run |-> r, step |-> run[r].step, accepted |-> run[r].accepted]
<1>a. /\ run[r].pc = "recording" /\ Holds(r) /\ run[r].pc \in Stepping
      /\ \A i \in DOMAIN StepFiles : StepFile(r, run[r].step, i) \in files
      /\ run' = [run EXCEPT ![r] = R] /\ log' = log \cup {line}
      /\ approved' = IF run[r].accepted THEN approved \cup run[r].found ELSE approved
      /\ UNCHANGED <<up, awaited, session, stored, created, files, mishaps>>
  BY DEF StepEnds, Holds, Stepping
<1>b. /\ run[r] \in RunType /\ Live(r) /\ stored # Torn /\ stored \subseteq Artifact
      /\ log \subseteq LogLine /\ approved \subseteq Artifacts
      /\ Alone => run[r].store = stored
      /\ Alone => run[r].refs \cup run[r].carried \cup run[r].found \subseteq IdsOf(stored)
      /\ run[r].carried \subseteq approved /\ run[r].step \in 1..run[r].steps
      /\ \A n \in 1..(run[r].step - 1) : Done(r, n)
  BY <1>a, WorkFacts
<1>c. run[r].steps \in 0..MaxSteps /\ run[r].step \in 1..MaxSteps /\ run[r].accepted \in BOOLEAN
  BY <1>b, BoundFacts DEF RunType
<1>d. ~run[r].searching
  BY <1>a DEF IInv, LiveInv
<1>e. on => run[r].accepted /\ ~run[r].asked /\ run[r].step < run[r].steps
  BY DEF GoesOn
<1>f. on \in BOOLEAN
  BY <1>c DEF GoesOn
<1>g. run[r].accepted /\ ~run[r].asked /\ ~on => run[r].step = run[r].steps
  BY <1>b, <1>c DEF GoesOn
<1>h. line \in LogLine /\ (run[r].accepted => \A n : n = run[r].step => Done(r, n)')
  BY <1>a, <1>c DEF LogLine, Done
<1>i. line.run = r /\ line.step = run[r].step
  OBVIOUS
<1> HIDE DEF on, line
<1>j. kind \in {"working", "writing"} /\ (IF on THEN kind ELSE "ending") \in {"working", "writing", "ending"}
  BY DEF Kinds
<1>k. (IF on THEN run[r].step + 1 ELSE run[r].step) \in 0..MaxSteps /\ 1 \in 0..MaxAttempts
  BY <1>c, <1>e, <1>f, BoundFacts
<1>l. run[r].carried \cup run[r].found \in SUBSET Artifacts /\ run[r].found \subseteq Artifacts
  BY <1>b DEF RunType
<1>m. R \in RunType
  BY <1>b, <1>j, <1>k, <1>l DEF RunType
<1>n. /\ R.pc = (IF on THEN kind ELSE "ending") /\ R.steps = run[r].steps
      /\ R.step = (IF on THEN run[r].step + 1 ELSE run[r].step)
      /\ R.refs = run[r].refs /\ R.carried = run[r].carried \cup run[r].found /\ R.found = {}
      /\ R.store = run[r].store /\ R.searching = run[r].searching
      /\ R.asked = run[r].asked /\ R.accepted = run[r].accepted
  BY <1>b DEF RunType
<1> HIDE DEF R
<1>o. run'[r] = R /\ \A q \in Runs \ {r} : run'[q] = run[q]
  BY <1>a, <1>m, OneRun DEF IInv
<1>1. RoomInv' /\ SearchInv'
  <2>1. Searching' \subseteq Searching
    BY <1>n, <1>o DEF Searching
  <2> QED BY <1>a, <2>1, SearchSame
<1>2. FilesInv'
  BY <1>a, <1>i DEF IInv, FilesInv
<1>3. \A n : Done(r, n) => Done(r, n)'
  BY <1>a DEF Done
<1>4. Alone => R.store = stored' /\ R.refs \cup R.carried \cup R.found \subseteq IdsOf(stored')
  BY <1>a, <1>b, <1>n
<1>5. R.pc \in Stepping =>
         /\ R.carried \subseteq approved'
         /\ R.step \in 1..R.steps /\ \A n \in 1..(R.step - 1) : Done(r, n)'
  <2> SUFFICES ASSUME R.pc \in Stepping
               PROVE  /\ R.carried \subseteq approved'
                      /\ R.step \in 1..R.steps /\ \A n \in 1..(R.step - 1) : Done(r, n)'
    OBVIOUS
  <2>1. on
    BY <1>n DEF Stepping
  <2>2. run[r].accepted /\ R.step = run[r].step + 1 /\ run[r].step < run[r].steps
    BY <1>e, <1>n, <2>1
  <2>3. R.carried \subseteq approved'
    BY <1>a, <1>b, <1>n, <2>2
  <2>4. R.step \in 1..R.steps
    BY <1>b, <1>c, <1>n, <2>2
  <2>5. \A n \in 1..(R.step - 1) : n \in 1..(run[r].step - 1) \/ n = run[r].step
    BY <1>c, <2>2
  <2> QED BY <1>b, <1>h, <1>3, <2>2, <2>3, <2>4, <2>5
<1>6. R.pc = "ending" /\ R.accepted /\ ~R.asked => \A n \in 1..R.steps : Done(r, n)'
  <2> SUFFICES ASSUME R.pc = "ending", R.accepted, ~R.asked, NEW n \in 1..R.steps PROVE Done(r, n)'
    OBVIOUS
  <2>1. ~on
    BY <1>j, <1>n
  <2>2. run[r].accepted /\ run[r].step = run[r].steps /\ R.steps = run[r].steps
    BY <1>g, <1>n, <2>1
  <2>3. n \in 1..(run[r].step - 1) \/ n = run[r].step
    BY <1>c, <2>2
  <2> QED BY <1>b, <1>h, <1>3, <2>2, <2>3
<1>7. R.pc \in {"answering", "working", "writing", "recording", "ending"} /\ R.pc # "answering"
  BY <1>j, <1>n
<1>8. log \subseteq log' /\ log' \subseteq LogLine /\ approved \subseteq approved' /\ approved' \subseteq Artifacts
  BY <1>a, <1>b, <1>h, <1>l
<1>9. ~R.searching
  BY <1>d, <1>n
<1> QED BY <1>a, <1>b, <1>m, <1>1, <1>2, <1>4, <1>5, <1>6, <1>7, <1>8, <1>9, WorkKeeps
-----------------------------------------------------------------------------
(* The process is killed, whatever the manifest is then.                   *)
LEMMA KilledKeeps ==
  ASSUME IInv, Killed, created' \in Nat, created' <= MaxArtifacts,
         mishaps' \subseteq {"overlap", "cut"}, Alone' <=> Alone,
         stored' = Torn \/ stored' \subseteq Artifact,
         Alone /\ stored' # Torn => stored # Torn /\ IdsOf(stored) \subseteq IdsOf(stored'),
         mishaps' = {} /\ stored' # Torn => mishaps = {} /\ stored' = stored
  PROVE  IInv'
<1>a. SessionTypes /\ RunTypes /\ LiveInv /\ StoreInv /\ CarriedInv /\ FilesInv /\ LogInv /\ SearchInv
  BY DEF IInv
<1>b. /\ up' = FALSE /\ awaited' = 0 /\ UNCHANGED <<session, files, log, approved>>
      /\ run' = [q \in Runs |-> IF Live(q) THEN Past(q) ELSE run[q]]
  BY DEF Killed
<1>c. \A q \in Runs : run'[q] = IF Live(q) THEN Past(q) ELSE run[q]
  BY <1>b
<1>d. \A q \in Runs : run'[q] \in RunType /\ run'[q].steps = run[q].steps /\ run'[q].asked = run[q].asked
  BY <1>a, <1>c, PastType DEF RunTypes
<1>e. \A q \in Runs : run'[q].pc = "ended" \/ (~Live(q) /\ run'[q] = run[q])
  BY <1>a, <1>c, PastType
<1>f. \A q \in Runs : ~run'[q].searching
  BY <1>a, <1>c, PastType DEF LiveInv, Live
<1>g. \A q \in Runs : /\ ~(run'[q].pc \in {"planning", "answering", "working", "writing", "recording", "ending"})
                      /\ run[q].pc = "ended" => run'[q].pc = "ended"
  BY <1>e DEF Live
<1>1. SessionTypes'
  <2>a. 0 \in 0..MaxRuns /\ FALSE \in BOOLEAN
    BY BoundFacts
  <2>b. session' = session /\ log' = log /\ approved' = approved
    BY <1>b
  <2>1. /\ up' \in BOOLEAN /\ awaited' \in 0..MaxRuns
        /\ session' = session /\ log' = log /\ approved' = approved
    BY <1>b, <2>a, <2>b
  <2>2. approved \subseteq Artifacts /\ log \subseteq LogLine /\ session \in Seq(Entry)
    BY <1>a DEF SessionTypes
  <2> QED BY <2>1, <2>2 DEF SessionTypes
<1>2. RunTypes'
  BY <1>b, <1>c, <1>d DEF RunTypes
<1>3. RoomInv'
  <2>1. Searching' = {}
    BY <1>f DEF Searching
  <2> QED BY <2>1, FS_EmptySet, BoundFacts DEF RoomInv
<1>4. LiveInv'
  BY <1>f, <1>g DEF LiveInv, Live, Holds
<1>5. StoreInv'
  <2> SUFFICES ASSUME Alone PROVE StoreInv'
    BY DEF StoreInv
  <2>1. stored' # Torn => \A i \in 1..Len(session') : session'[i].arts \subseteq IdsOf(stored')
    BY <1>a, <1>b DEF StoreInv
  <2> QED BY <1>g, <2>1 DEF StoreInv, Holds
<1>6. CarriedInv'
  BY <1>a, <1>e, <1>g DEF CarriedInv, InStep, Stepping
<1>7. LogInv'
  <2>1. \A q \in Runs : ~InStep(q)' /\ run'[q].pc # "ending"
    BY <1>g DEF InStep, Stepping
  <2>2. \A q \in Runs : run'[q].pc \in {"none", "planning", "answering"} => run'[q].steps = 0
    BY <1>a, <1>e DEF LogInv
  <2>3. ASSUME NEW i \in 1..Len(session'), session'[i].kind = "result"
        PROVE  /\ run'[session'[i].run].pc = "ended"
               /\ session'[i].accepted /\ ~run'[session'[i].run].asked =>
                    \A n \in 1..run'[session'[i].run].steps : Done(session'[i].run, n)
    <3>1. i \in 1..Len(session) /\ session'[i] = session[i] /\ session[i] \in Entry
      BY <1>a, <1>b, <2>3 DEF SessionTypes
    <3>2. session[i].run \in Runs /\ run[session[i].run].pc = "ended"
      BY <1>a, <2>3, <3>1 DEF LogInv, Entry
    <3>3. /\ run'[session[i].run].pc = "ended"
          /\ run'[session[i].run].steps = run[session[i].run].steps
          /\ run'[session[i].run].asked = run[session[i].run].asked
      BY <1>d, <1>g, <3>2
    <3> QED BY <1>a, <2>3, <3>1, <3>2, <3>3 DEF LogInv
  <2> QED BY <1>b, <2>1, <2>2, <2>3 DEF LogInv, Done
<1>8. FilesInv' /\ SearchInv'
  BY <1>a, <1>b, <1>f, FilesSame DEF SearchInv
<1> QED BY <1>1, <1>2, <1>3, <1>4, <1>5, <1>6, <1>7, <1>8 DEF IInv

(* A kill that cuts no search.                                             *)
LEMMA KillKeeps ==
  ASSUME IInv, NEW tears \in BOOLEAN, Kill(tears)
  PROVE  IInv'
<1>1. Killed /\ (stored' = Torn \/ stored' = stored) /\ UNCHANGED <<created, mishaps>>
  BY DEF Kill
<1>2. created \in Nat /\ created <= MaxArtifacts
  BY SearchingFinite, BoundFacts DEF IInv, RoomInv
<1>3. mishaps \subseteq {"overlap", "cut"} /\ (stored = Torn \/ stored \subseteq Artifact)
  BY DEF IInv, SessionTypes
<1>4. Alone' <=> Alone
  BY <1>1 DEF Alone
<1> QED BY <1>1, <1>2, <1>3, <1>4, KilledKeeps

(* A kill that cuts a search: its artifact stays bare.                     *)
LEMMA KillInSearchKeeps ==
  ASSUME IInv, NEW r \in Runs, KillInSearch(r)
  PROVE  IInv'
<1>1. /\ Killed /\ run[r].searching /\ created' = created + 1 /\ stored' = With(r, "bare")
      /\ mishaps' = mishaps \cup {"cut"}
  BY DEF KillInSearch
<1>2. Holds(r)
  BY <1>1 DEF IInv, LiveInv, Holds
<1>3. /\ stored # Torn /\ run[r].store \subseteq Artifact /\ created \in Nat
      /\ Alone => run[r].store = stored
  BY <1>2, WorkFacts
<1>4. created + 1 \in Artifacts /\ created + 1 <= MaxArtifacts
  <2>1. created + 1 \in Artifacts
    BY <1>1, SearchHasRoom
  <2> QED BY <2>1, BoundFacts DEF Artifacts
<1>5. /\ With(r, "bare") \subseteq Artifact /\ With(r, "bare") # Torn
      /\ IdsOf(With(r, "bare")) = IdsOf(run[r].store) \cup {created + 1}
  BY <1>3, <1>4, WithType
<1>6. Alone => stored # Torn /\ IdsOf(stored) \subseteq IdsOf(stored')
  BY <1>1, <1>3, <1>5
<1>7. /\ mishaps' \subseteq {"overlap", "cut"} /\ (Alone' <=> Alone) /\ mishaps' # {}
  BY <1>1 DEF IInv, SessionTypes, Alone
<1> QED BY <1>1, <1>3, <1>4, <1>5, <1>6, <1>7, KilledKeeps

(* The process starts again.                                               *)
LEMMA RestartKeeps ==
  ASSUME IInv, NEW continue \in BOOLEAN, Restart(continue)
  PROVE  IInv'
<1>a. SessionTypes /\ RunTypes /\ RoomInv /\ LiveInv /\ StoreInv /\ CarriedInv /\ FilesInv /\ LogInv /\ SearchInv
  BY DEF IInv
<1>b. /\ ~up /\ up' = TRUE /\ UNCHANGED <<awaited, run, created, approved, mishaps>>
      /\ \/ session' = session /\ stored' = stored /\ files' = files /\ log' = log
         \/ session' = <<>> /\ stored' = {} /\ files' = {} /\ log' = {}
  BY DEF Restart
<1>c. \A q \in Runs : /\ ~Live(q) /\ ~Holds(q) /\ ~InStep(q) /\ ~run[q].searching
                      /\ run[q].pc # "planning" /\ run[q].pc # "ending"
  BY <1>a, <1>b DEF LiveInv, Live, Holds, InStep, Stepping
<1>1. SessionTypes'
  <2>1. up' \in BOOLEAN /\ awaited' = awaited /\ approved' = approved /\ mishaps' = mishaps
    BY <1>b
  <2>2. session' \in Seq(Entry) /\ log' \subseteq LogLine /\ (stored' = Torn \/ stored' \subseteq Artifact)
    <3>1. session \in Seq(Entry) /\ log \subseteq LogLine /\ (stored = Torn \/ stored \subseteq Artifact)
      BY <1>a DEF SessionTypes
    <3>2. CASE session' = session /\ stored' = stored /\ log' = log
      BY <3>1, <3>2
    <3>3. CASE session' = <<>> /\ stored' = {} /\ log' = {}
      BY <3>3
    <3> QED BY <1>b, <3>2, <3>3
  <2>3. awaited \in 0..MaxRuns /\ approved \subseteq Artifacts /\ mishaps \subseteq {"overlap", "cut"}
    BY <1>a DEF SessionTypes
  <2> QED BY <2>1, <2>2, <2>3 DEF SessionTypes
<1>2. RunTypes' /\ RoomInv'
  BY <1>a, <1>b DEF RunTypes, RoomInv, Searching
<1>3. LiveInv'
  BY <1>b, <1>c DEF LiveInv, Live, Holds
<1>4. StoreInv'
  BY <1>a, <1>b, <1>c DEF StoreInv, Alone, Holds
<1>5. CarriedInv'
  BY <1>a, <1>b DEF CarriedInv, InStep
<1>6. LogInv'
  <2>1. CASE session' = session /\ stored' = stored /\ log' = log
    BY <1>a, <1>b, <2>1 DEF LogInv, InStep, Done
  <2>2. CASE session' = <<>> /\ stored' = {} /\ log' = {}
    BY <1>a, <1>b, <1>c, <2>2 DEF LogInv, InStep
  <2> QED BY <1>b, <2>1, <2>2
<1>7. FilesInv' /\ SearchInv'
  <2>1. SearchInv'
    BY <1>a, <1>b, <1>c DEF SearchInv
  <2>2. CASE files' = files /\ log' = log
    BY <2>1, <2>2, FilesSame
  <2>3. CASE files' = {} /\ log' = {}
    BY <2>1, <2>3 DEF FilesInv
  <2> QED BY <1>b, <2>2, <2>3
<1> QED BY <1>1, <1>2, <1>3, <1>4, <1>5, <1>6, <1>7 DEF IInv
-----------------------------------------------------------------------------
(* Every step keeps the invariant.                                         *)
LEMMA NextKeeps == IInv /\ [Next]_vars => IInv'
<1> SUFFICES ASSUME IInv, [Next]_vars PROVE IInv'
  OBVIOUS
<1>1. ASSUME NEW r \in Runs, Step(r) PROVE IInv'
  <2>1. CASE PlanFails(r) \/ PlanAsks(r)
    BY <2>1, EarlyEnd
  <2>2. CASE PlanDirect(r)
    BY <2>2, PlanDirectKeeps
  <2>3. ASSUME NEW n \in 1..MaxSteps, NEW kind \in Kinds, NEW refs \in {{}, run[r].prior},
               PlanWorkflow(r, n, kind, refs)
        PROVE  IInv'
    BY <2>3, PlanWorkflowKeeps
  <2>4. ASSUME NEW ok \in BOOLEAN, DirectEnds(r, ok) PROVE IInv'
    BY <2>4, EarlyEnd
  <2>5. CASE SearchEnds(r)
    BY <2>5, SearchEndsKeeps
  <2>6. CASE Finish(r)
    BY <2>6, FinishKeeps
  <2>7. ASSUME NEW accepted \in BOOLEAN, NEW asks \in BOOLEAN, WorkerEnds(r, accepted, asks) PROVE IInv'
    BY <2>7, WorkerEndsKeeps
  <2>8. CASE StructuredWrite(r)
    BY <2>8, StructuredWriteKeeps
  <2>9. ASSUME NEW accepted \in BOOLEAN, StructuredEnds(r, accepted) PROVE IInv'
    BY <2>9, StructuredEndsKeeps
  <2>10. CASE RecordFile(r)
    BY <2>10, RecordFileKeeps
  <2>11. ASSUME NEW kind \in Kinds, StepEnds(r, kind) PROVE IInv'
    BY <2>11, StepEndsKeeps
  <2> QED BY <1>1, <2>1, <2>2, <2>3, <2>4, <2>5, <2>6, <2>7, <2>8, <2>9, <2>10, <2>11 DEF Step
<1>2. ASSUME NEW r \in Runs, Submit(r) \/ Search(r) \/ KillInSearch(r) PROVE IInv'
  BY <1>2, SubmitKeeps, SearchKeeps, KillInSearchKeeps
<1>3. CASE Abort
  BY <1>3, AbortKeeps
<1>4. ASSUME NEW tears \in BOOLEAN, Kill(tears) PROVE IInv'
  BY <1>4, KillKeeps
<1>5. ASSUME NEW continue \in BOOLEAN, Restart(continue) PROVE IInv'
  BY <1>5, RestartKeeps
<1>6. CASE UNCHANGED vars
  BY <1>6 DEF vars, IInv, SessionTypes, RunTypes, RoomInv, Searching, LiveInv, Live, Holds, Alone,
              StoreInv, CarriedInv, InStep, Stepping, FilesInv, LogInv, Done, SearchInv
<1> QED BY <1>1, <1>2, <1>3, <1>4, <1>5, <1>6 DEF Next

(* The invariant always holds.                                             *)
THEOREM Invariance == Spec => []IInv
BY InitIInv, NextKeeps, PTL DEF Spec

(* The invariant has the types in it.                                      *)
LEMMA TypesHold == IInv => TypeOK
<1> SUFFICES ASSUME IInv PROVE TypeOK
  OBVIOUS
<1>1. /\ up \in BOOLEAN /\ awaited \in 0..MaxRuns
      /\ (stored = Torn \/ stored \subseteq Artifact)
      /\ approved \subseteq Artifacts /\ mishaps \subseteq {"overlap", "cut"}
      /\ log \subseteq LogLine /\ files \subseteq FileType /\ session \in Seq(Entry)
  BY DEF IInv, SessionTypes, FilesInv
<1>2. created \in 0..MaxArtifacts
  BY SearchingFinite, BoundFacts DEF IInv, RoomInv
<1>3. \A i \in DOMAIN session : session[i] \in Entry
  BY <1>1
<1>4. \A r \in Runs : run[r] \in RunType /\ (up \/ ~Live(r))
  BY DEF IInv, RunTypes, LiveInv
<1> QED BY <1>1, <1>2, <1>3, <1>4 DEF TypeOK, RunType, Entry, LogLine, FileType, FileName

(* For any number of objectives, steps and attempts: a worker finds every  *)
(* artifact it is given in the store of its run, unless a run went on      *)
(* beside another, and what the steps before hand it was accepted          *)
(* (retrievedArtifactsForInput, executeWorkflowPlan).                      *)
THEOREM WorkersFindTheirInputs == Spec => []InputsReadable
<1>1. IInv => InputsReadable
  <2> SUFFICES ASSUME IInv PROVE InputsReadable
    OBVIOUS
  <2>1. ASSUME NEW r \in Runs, AtWork(r), Alone PROVE InputsOf(r) \subseteq IdsOf(run[r].store)
    <3>1. Holds(r)
      BY <2>1 DEF AtWork, Kinds, Holds
    <3> QED BY <2>1, <3>1, WorkFacts DEF InputsOf
  <2>2. \A r \in Runs : AtWork(r) => run[r].carried \subseteq approved
    BY DEF IInv, CarriedInv, AtWork, Kinds, InStep, Stepping
  <2> QED BY <2>1, <2>2, TypesHold DEF InputsReadable, Alone
<1> QED BY <1>1, Invariance, PTL

(* A result recorded as accepted is that of a run whose steps were all     *)
(* accepted, unless a worker's question stopped it, and a step in the log  *)
(* has its files, across kills, aborts and restarts (runImpl,              *)
(* executeWorkflowPlan).                                                   *)
THEOREM AcceptedResultsAreDone == Spec => []AcceptedMeansDone
<1>1. IInv => AcceptedMeansDone
  BY DEF IInv, SessionTypes, LogInv, FilesInv, Done, AcceptedMeansDone
<1> QED BY <1>1, Invariance, PTL

(* The artifact of a search is created once, for any number of workers,    *)
(* retries and restarts, unless runs went on side by side or a kill cut a  *)
(* search (cachedOutput).                                                  *)
THEOREM OneRetrieval == Spec => []RetrievedOnce
<1>1. IInv => RetrievedOnce
  <2> SUFFICES ASSUME IInv, mishaps = {}, stored # Torn
               PROVE  Cardinality({a \in stored : a.content # "other"}) <= 1
    BY DEF RetrievedOnce
  <2> DEFINE S == {a \in stored : a.content # "other"}
  <2>1. \A a, b \in S : a = b
    BY DEF IInv, SearchInv, Searched
  <2> HIDE DEF S
  <2>2. S = {} \/ \E a : S = {a}
    BY <2>1
  <2>3. Cardinality(S) <= 1
    <3>1. CASE S = {}
      BY <3>1, FS_EmptySet
    <3>2. ASSUME NEW a, S = {a} PROVE Cardinality(S) = 1
      BY <3>2, FS_Singleton
    <3> QED BY <2>2, <3>1, <3>2
  <2> QED BY <2>3 DEF S
<1> QED BY <1>1, Invariance, PTL
=============================================================================
