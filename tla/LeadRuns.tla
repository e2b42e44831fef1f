------------------------------ MODULE LeadRuns ------------------------------
(***************************************************************************)
(* The runs of a lead agent (lead-agent/src/index.ts) from its terminal    *)
(* mode: run() races runImpl with a promise that abort() rejects, and      *)
(* nothing stops runImpl.  A run plans, lets a worker do each step, retries*)
(* what is not accepted, and records its result in the session.  Artifacts *)
(* are kept in artifacts.json of the session's workspace, which each       *)
(* workflow reads once and then rewrites from its own copy.                *)
(***************************************************************************)
EXTENDS Naturals, Sequences, FiniteSets

CONSTANTS
  MaxRuns,      \* bound: objectives the user submits
  MaxSteps,     \* bound: steps of a plan
  MaxAttempts,  \* maxAttempts of a step
  MaxArtifacts, \* bound: artifacts ever created
  Torn          \* artifacts.json as a kill leaves it in the middle of a write

ASSUME BoundAssumption == {MaxRuns, MaxSteps, MaxAttempts} \subseteq Nat \ {0} /\ MaxArtifacts \in Nat

VARIABLES
  up,       \* the process runs
  awaited,  \* the run whose promise the user waits for, 0 for none
  run,      \* what runImpl and the executor hold for each run
  session,  \* the entries of the session that concern runs
  stored,   \* artifacts.json: a set of artifacts, or Torn
  created,  \* artifacts 1..created exist
  files,    \* the files in the directories of the steps
  log,      \* the workflow_step_result lines of session-workflow-log.jsonl
  approved, \* history: artifacts of accepted steps
  mishaps   \* history: "overlap" of two runs, "cut" search

vars == <<up, awaited, run, session, stored, created, files, log, approved, mishaps>>

Runs == 1..MaxRuns
Artifacts == 1..MaxArtifacts

(* A stored artifact.  Searches are for one query, so each artifact is the *)
(* result of a search, "bare" before its output is added and "full" after, *)
(* or "other".                                                             *)
Artifact == [id : Artifacts, content : {"bare", "full", "other"}]
IdsOf(S) == {a.id : a \in S}

(* A torn manifest is no set of artifacts.                                 *)
ASSUME TornAssumption == \A S \in SUBSET Artifact : S # Torn

Blank == [pc |-> "none", steps |-> 0, step |-> 0, attempt |-> 0, asked |-> FALSE,
          prior |-> {}, refs |-> {}, carried |-> {}, found |-> {}, searching |-> FALSE,
          store |-> {}, accepted |-> FALSE]

(* Under the bound there is room for what the searches under way create,   *)
(* and for one more.                                                       *)
Room == created + Cardinality({r \in Runs : run[r].searching}) < MaxArtifacts

Live(r) == run[r].pc \in {"planning", "answering", "working", "writing", "recording", "ending"}

(* A profile worker and the planner wait for others.  A structured worker, *)
(* the recording of a step and the end of a workflow do not: but for a     *)
(* kill nothing comes between.                                             *)
Busy(r) == run[r].pc \in {"writing", "recording", "ending"}
Idle == up /\ ~\E r \in Runs : Busy(r)
Kinds == {"working", "writing"}
AtWork(r) == run[r].pc \in Kinds
Answered(s) == \E i \in DOMAIN s : s[i].kind = "answer"

(* What is written of a step before its line in the log, in this order.    *)
StepFiles == <<"worker-result", "artifact-briefs", "acceptance-report">>
StepFile(r, n, i) == [run |-> r, step |-> n, file |-> StepFiles[i]]

Init ==
  /\ up = TRUE /\ awaited = 0
  /\ run = [r \in Runs |-> Blank]
  /\ session = <<>>
  /\ stored = {} /\ created = 0
  /\ files = {} /\ log = {}
  /\ approved = {} /\ mishaps = {}
-----------------------------------------------------------------------------
User(r) == [kind |-> "user", run |-> r, arts |-> {}, accepted |-> FALSE]
Answer(r) == [kind |-> "answer", run |-> r, arts |-> {}, accepted |-> FALSE]
Result(r, arts, accepted) == [kind |-> "result", run |-> r, arts |-> arts, accepted |-> accepted]

(* extractArtifacts: what any result recorded, accepted or not.            *)
PriorArtifacts == UNION {session[i].arts : i \in DOMAIN session}

(* The promise of run() settles with runImpl, unless abort came first.     *)
Settles(r) == awaited' = IF awaited = r THEN 0 ELSE awaited

(* What an ended run held is gone; only what it was stays.                 *)
Past(r) == [Blank EXCEPT !.pc = "ended", !.steps = run[r].steps, !.asked = run[r].asked]

Ends(r) == Settles(r) /\ run' = [run EXCEPT ![r] = Past(r)]

(* The user submits an objective when no run is awaited.                   *)
Submit(r) ==
  /\ Idle /\ awaited = 0
  /\ run[r].pc = "none" /\ \A q \in 1..(r - 1) : run[q].pc # "none"
  /\ awaited' = r
  /\ session' = Append(session, User(r))
  /\ run' = [run EXCEPT ![r].pc = "planning", ![r].prior = PriorArtifacts]
  /\ mishaps' = IF \E q \in Runs : Live(q) THEN mishaps \cup {"overlap"} ELSE mishaps
  /\ UNCHANGED <<up, stored, created, files, log, approved>>

(* Escape: abort() rejects the awaited promise.                            *)
Abort ==
  /\ Idle /\ awaited # 0
  /\ awaited' = 0
  /\ UNCHANGED <<up, run, session, stored, created, files, log, approved, mishaps>>

(* The planner throws something that is no PlannerValidationError.         *)
PlanFails(r) ==
  /\ Idle /\ run[r].pc = "planning"
  /\ Ends(r)
  /\ UNCHANGED <<up, session, stored, created, files, log, approved, mishaps>>

(* The plan asks the user first.                                           *)
PlanAsks(r) ==
  /\ Idle /\ run[r].pc = "planning"
  /\ session' = Append(session, Answer(r))
  /\ Ends(r)
  /\ UNCHANGED <<up, stored, created, files, log, approved, mishaps>>

PlanDirect(r) ==
  /\ Idle /\ run[r].pc = "planning"
  /\ run' = [run EXCEPT ![r].pc = "answering"]
  /\ UNCHANGED <<up, awaited, session, stored, created, files, log, approved, mishaps>>

(* The direct runner answers, or throws.                                   *)
DirectEnds(r, ok) ==
  /\ Idle /\ run[r].pc = "answering"
  /\ session' = IF ok THEN session \o <<Answer(r), Result(r, {}, TRUE)>> ELSE session
  /\ Ends(r)
  /\ UNCHANGED <<up, stored, created, files, log, approved, mishaps>>
-----------------------------------------------------------------------------
(* Mutant: the workspace starts from an empty manifest. *)
LoadedEmpty == {}

(* What the FileSystemArtifactStore of a new workspace holds.              *)
Loaded == stored

(* The workspace is opened, and a manifest that does not parse makes the   *)
(* run throw.  The planner refers to artifacts of the conversation only.   *)
(* A step's profile decides whether its worker waits or writes at once.    *)
PlanWorkflow(r, n, kind, refs) ==
  /\ Idle /\ run[r].pc = "planning"
  /\ refs \subseteq run[r].prior
  /\ IF stored = Torn
       THEN Ends(r) /\ UNCHANGED stored
       ELSE /\ stored' = Loaded
            /\ run' = [run EXCEPT ![r].pc = kind, ![r].steps = n, ![r].step = 1, ![r].attempt = 1,
                                  ![r].prior = {}, ![r].refs = refs, ![r].store = Loaded]
            /\ UNCHANGED awaited
  /\ UNCHANGED <<up, session, created, files, log, approved, mishaps>>

(* The artifacts a worker is given: those of the plan and of the steps     *)
(* before.  What its store does not have is left out.                      *)
InputsOf(r) == run[r].refs \cup run[r].carried

(* Mutant: an artifact is no cached result. *)
CachedNever(S) == {}

(* cachedOutput looks at the first artifact with the key only.             *)
Cached(S) ==
  LET matching == {a \in S : a.content # "other"}
  IN  {a.id : a \in {b \in matching : b.content = "full" /\ \A c \in matching : b.id <= c.id}}

(* The worker calls the search tool, which is sequential: the calls of a   *)
(* batch that holds one are executed one after another.                    *)
Search(r) ==
  /\ Idle /\ run[r].pc = "working" /\ ~run[r].searching
  /\ IF Cached(run[r].store) # {}
       THEN run' = [run EXCEPT ![r].found = @ \cup Cached(run[r].store)]
       ELSE Room /\ run' = [run EXCEPT ![r].searching = TRUE]
  /\ UNCHANGED <<up, awaited, session, stored, created, files, log, approved, mishaps>>

(* create and update rewrite artifacts.json from the copy of the run.      *)
With(r, content) == run[r].store \cup {[id |-> created + 1, content |-> content]}

(* The providers have answered or failed: the artifact is created, then    *)
(* updated with the output.                                                *)
SearchEnds(r) ==
  /\ Idle /\ run[r].searching
  /\ created' = created + 1
  /\ stored' = With(r, "full")
  /\ run' = [run EXCEPT ![r].searching = FALSE, ![r].store = stored', ![r].found = @ \cup {created'}]
  /\ UNCHANGED <<up, awaited, session, files, log, approved, mishaps>>
-----------------------------------------------------------------------------
RetriesLeft(r) == run[r].attempt < MaxAttempts

(* Mutant: the attempt is not counted. *)
AttemptNotCounted(a) == a

NextAttempt(a) == a + 1

(* A worker has returned: it is tried again, or what it gave is recorded.  *)
Judge(r, accepted, asks) ==
  IF ~accepted /\ ~asks /\ RetriesLeft(r)
    THEN run' = [run EXCEPT ![r].attempt = NextAttempt(@), ![r].found = {}]
    ELSE run' = [run EXCEPT ![r].pc = "recording", ![r].accepted = accepted, ![r].asked = asks]

(* A profile worker, whose artifacts are those its searches gave; it has   *)
(* failed without one.                                                     *)
WorkerEnds(r, accepted, asks) ==
  /\ Idle /\ run[r].pc = "working" /\ ~run[r].searching
  /\ accepted => run[r].found # {}
  /\ Judge(r, accepted, asks)
  /\ UNCHANGED <<up, awaited, session, stored, created, files, log, approved, mishaps>>

(* A structured worker creates the artifacts its contract asks for, one    *)
(* after another, and returns at once.                                     *)
StructuredWrite(r) ==
  /\ run[r].pc = "writing" /\ Room
  /\ created' = created + 1
  /\ stored' = With(r, "other")
  /\ run' = [run EXCEPT ![r].store = stored', ![r].found = @ \cup {created'}]
  /\ UNCHANGED <<up, awaited, session, files, log, approved, mishaps>>

StructuredEnds(r, accepted) ==
  /\ run[r].pc = "writing"
  /\ Judge(r, accepted, FALSE)
  /\ UNCHANGED <<up, awaited, session, stored, created, files, log, approved, mishaps>>

(* The next file of the step is written.                                   *)
RecordFile(r) ==
  /\ run[r].pc = "recording"
  /\ \E i \in DOMAIN StepFiles :
       /\ StepFile(r, run[r].step, i) \notin files
       /\ \A j \in 1..(i - 1) : StepFile(r, run[r].step, j) \in files
       /\ files' = files \cup {StepFile(r, run[r].step, i)}
  /\ UNCHANGED <<up, awaited, run, session, stored, created, log, approved, mishaps>>

GoesOn(r) == run[r].accepted /\ ~run[r].asked /\ run[r].step < run[r].steps

(* The line in the log, and the decision: the next step, or the end.       *)
StepEnds(r, kind) ==
  /\ run[r].pc = "recording"
  /\ \A i \in DOMAIN StepFiles : StepFile(r, run[r].step, i) \in files
  /\ log' = log \cup {[run |-> r, step |-> run[r].step, accepted |-> run[r].accepted]}
  /\ approved' = IF run[r].accepted THEN approved \cup run[r].found ELSE approved
  /\ run' = [run EXCEPT ![r].pc = IF GoesOn(r) THEN kind ELSE "ending",
                        ![r].step = IF GoesOn(r) THEN @ + 1 ELSE @,
                        ![r].attempt = 1, ![r].found = {},
                        ![r].carried = @ \cup run[r].found]
  /\ UNCHANGED <<up, awaited, session, stored, created, files, mishaps>>

(* Mutant: a workflow is recorded like a direct answer. *)
ResultAcceptedAlways(r) == TRUE

(* The report of the last step stands for the workflow.                    *)
ResultAccepted(r) == run[r].accepted

(* The synthesis: the answer and the result are recorded.                  *)
Finish(r) ==
  /\ run[r].pc = "ending"
  /\ session' = session \o <<Answer(r), Result(r, run[r].carried, ResultAccepted(r))>>
  /\ Ends(r)
  /\ UNCHANGED <<up, stored, created, files, log, approved, mishaps>>
-----------------------------------------------------------------------------
Killed ==
  /\ up /\ up' = FALSE /\ awaited' = 0
  /\ run' = [r \in Runs |-> IF Live(r) THEN Past(r) ELSE run[r]]
  /\ UNCHANGED <<session, files, log, approved>>

(* The process is killed, maybe while a run writes artifacts.json.         *)
Kill(tears) ==
  /\ Killed
  /\ tears => \E r \in Runs :
       run[r].searching \/ run[r].pc = "writing" \/ (run[r].pc = "planning" /\ stored = {})
  /\ stored' = IF tears THEN Torn ELSE stored
  /\ UNCHANGED <<created, mishaps>>

(* It is killed after create and before update.                            *)
KillInSearch(r) ==
  /\ Killed
  /\ run[r].searching
  /\ created' = created + 1
  /\ stored' = With(r, "bare")
  /\ mishaps' = mishaps \cup {"cut"}

(* It starts again with the session, which is on disk once it has an       *)
(* answer, or with a new one, whose workspace is new.                      *)
Restart(continue) ==
  /\ ~up /\ up' = TRUE
  /\ continue => Answered(session)
  /\ session' = IF continue THEN session ELSE <<>>
  /\ stored' = IF continue THEN stored ELSE {}
  /\ files' = IF continue THEN files ELSE {}
  /\ log' = IF continue THEN log ELSE {}
  /\ UNCHANGED <<awaited, run, created, approved, mishaps>>

Step(r) ==
  \/ PlanFails(r) \/ PlanAsks(r) \/ PlanDirect(r)
  \/ \E n \in 1..MaxSteps, kind \in Kinds, refs \in {{}, run[r].prior} : PlanWorkflow(r, n, kind, refs)
  \/ \E ok \in BOOLEAN : DirectEnds(r, ok)
  \/ SearchEnds(r) \/ Finish(r)
  \/ \E accepted, asks \in BOOLEAN : WorkerEnds(r, accepted, asks)
  \/ StructuredWrite(r)
  \/ \E accepted \in BOOLEAN : StructuredEnds(r, accepted)
  \/ RecordFile(r)
  \/ \E kind \in Kinds : StepEnds(r, kind)

Next ==
  \/ \E r \in Runs : Submit(r) \/ Step(r) \/ Search(r) \/ KillInSearch(r)
  \/ Abort
  \/ \E tears \in BOOLEAN : Kill(tears)
  \/ \E continue \in BOOLEAN : Restart(continue)

Spec == Init /\ [][Next]_vars

(* Planners, workers and providers answer or fail, and the event loop goes *)
(* on as long as one has.                                                  *)
FairSpec == Spec /\ WF_vars(\E r \in Runs : Step(r))
-----------------------------------------------------------------------------
(* The types, and no step is tried more than maxAttempts times             *)
(* (executeWorkflowPlan).                                                  *)
TypeOK ==
  /\ up \in BOOLEAN /\ awaited \in 0..MaxRuns
  /\ created \in 0..MaxArtifacts
  /\ stored = Torn \/ stored \subseteq Artifact
  /\ approved \subseteq Artifacts /\ mishaps \subseteq {"overlap", "cut"}
  /\ files \subseteq [run : Runs, step : 1..MaxSteps, file : {StepFiles[i] : i \in DOMAIN StepFiles}]
  /\ log \subseteq [run : Runs, step : 1..MaxSteps, accepted : BOOLEAN]
  /\ \A i \in DOMAIN session :
       session[i] \in [kind : {"user", "answer", "result"}, run : Runs,
                       arts : SUBSET Artifacts, accepted : BOOLEAN]
  /\ \A r \in Runs :
       /\ run[r] \in [pc : {"none", "planning", "answering", "working", "writing", "recording",
                             "ending", "ended"},
                       steps : 0..MaxSteps, step : 0..MaxSteps, attempt : 0..MaxAttempts,
                       asked : BOOLEAN, prior : SUBSET Artifacts, refs : SUBSET Artifacts,
                       carried : SUBSET Artifacts, found : SUBSET Artifacts, searching : BOOLEAN,
                       store : SUBSET Artifact, accepted : BOOLEAN]
       /\ up \/ ~Live(r)

(* A worker finds every artifact it is given in the store of its run,      *)
(* across steps, retries, runs of the session and restarts, as long as no  *)
(* run went on beside another (retrievedArtifactsForInput); and what it is *)
(* given beyond the plan's own artifacts comes from steps that were        *)
(* accepted (executeWorkflowPlan, carriedArtifacts).                       *)
InputsReadable ==
  /\ TypeOK
  /\ \A r \in Runs : AtWork(r) =>
       /\ "overlap" \in mishaps \/ InputsOf(r) \subseteq IdsOf(run[r].store)
       /\ run[r].carried \subseteq approved

(* A result that the session records as accepted is that of a run whose    *)
(* steps are all in the log as accepted, unless a worker's question        *)
(* stopped it (runImpl, "lead-agent.result"); and of every step in the log *)
(* the files are there, whenever a kill came (executeWorkflowPlan).        *)
AcceptedMeansDone ==
  /\ \A i \in DOMAIN session :
       LET r == session[i].run
       IN  (session[i].kind = "result" /\ session[i].accepted /\ ~run[r].asked) =>
             \A n \in 1..run[r].steps : [run |-> r, step |-> n, accepted |-> TRUE] \in log
  /\ \A line \in log, i \in DOMAIN StepFiles : StepFile(line.run, line.step, i) \in files

(* The searches of a session find the artifact of an earlier one: it is    *)
(* created once, whatever steps, retries and restarts ask for it, unless   *)
(* runs went on side by side or a kill cut it (cachedOutput).              *)
RetrievedOnce ==
  (mishaps = {} /\ stored # Torn) => Cardinality({a \in stored : a.content # "other"}) <= 1

(* The user waits for no run for ever (run, executeWorkflowPlan).          *)
RunReturns == awaited # 0 ~> awaited = 0

(* The artifacts a worker is given can be read, whatever was aborted.      *)
ManifestKeepsArtifacts ==
  \A r \in Runs : AtWork(r) => InputsOf(r) \subseteq IdsOf(run[r].store)
=============================================================================
