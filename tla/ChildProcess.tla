---------------------------- MODULE ChildProcess ----------------------------
(***************************************************************************)
(* One command run in a child process: the bash tool of the agent, over    *)
(* createLocalBashOperations, and pi.exec of the extensions, over          *)
(* execCommand.  Both wait with waitForChildProcess, which must not hang   *)
(* on a pipe that a descendant of the command keeps open.                  *)
(*                                                                         *)
(* Output is counted in chunks.  Of the descendants one is modelled, that  *)
(* stays in the process group of the command or has left it.               *)
(***************************************************************************)
EXTENDS Naturals, FiniteSets, FiniteSetsExt

CONSTANTS
  Kinds,      \* the callers: a subset of {"bash", "exec"}
  ShownChunks,\* output that is shown without a temporary file
  MaxChunks   \* bound: chunks of output

ASSUME ChildAssumption ==
  Kinds \subseteq {"bash", "exec"} /\ {ShownChunks, MaxChunks} \subseteq Nat

VARIABLES
  kind,
  call,        \* what the caller waits for: the child, the closing of the temporary file
  outcome,
  child,
  stubborn,    \* the child ignores SIGTERM
  helper,      \* the descendant: in the process group or away from it
  held,        \* the streams the helper has inherited
  pipe,        \* chunks written to a stream and not read
  written, delivered,
  ended,       \* the streams whose end has been seen
  exited,      \* the exit of the child has been seen
  graceTimer, timeoutTimer,
  aborted, listening, timedOut,
  killSent,    \* killed of execCommand
  signalled,   \* killed of Node's ChildProcess: a signal has been sent
  killTimer,
  tracked,     \* in trackedDetachedChildPids
  dirty, updateTimer, shown,
  graceOver, stopped  \* history: the grace timer has fired; an abort or a timeout has killed the running child

caller == <<kind, call, outcome, listening, timedOut, timeoutTimer, killSent, signalled, killTimer, tracked>>
process == <<child, stubborn, helper, held>>
streams == <<pipe, written, delivered>>
waiting == <<ended, exited, graceTimer, graceOver>>
updates == <<dirty, updateTimer, shown>>
vars == <<caller, process, streams, waiting, updates, aborted, stopped>>

Streams == {"stdout", "stderr"}
Running == call = "running"
Bash == kind = "bash"

(* Someone can still write to the stream.                                  *)
Open(s) == child = "running" \/ s \in held

Init ==
  /\ kind \in Kinds /\ call = "idle" /\ outcome = "none"
  /\ child = "none" /\ stubborn = FALSE /\ helper = "none" /\ held = {}
  /\ pipe = [s \in Streams |-> 0] /\ written = 0 /\ delivered = 0
  /\ ended = {} /\ exited = FALSE /\ graceTimer = FALSE /\ timeoutTimer = FALSE
  /\ aborted \in BOOLEAN /\ listening = FALSE /\ timedOut = FALSE
  /\ killSent = FALSE /\ signalled = FALSE /\ killTimer = FALSE
  /\ tracked = FALSE
  /\ dirty = FALSE /\ updateTimer = FALSE /\ shown = 0
  /\ graceOver = FALSE /\ stopped = FALSE
-----------------------------------------------------------------------------
(* The command and its descendant.                                         *)
Alive == Running /\ child = "running"

Write(s) ==
  /\ Running /\ Open(s)
  /\ written < MaxChunks /\ written' = written + 1
  /\ pipe' = [pipe EXCEPT ![s] = @ + 1]
  /\ UNCHANGED <<caller, process, delivered, waiting, updates, aborted, stopped>>

StartsHelper ==
  /\ Alive /\ helper = "none"
  /\ helper' \in {"group", "away"}
  /\ held' \in SUBSET Streams
  /\ UNCHANGED <<caller, child, stubborn, streams, waiting, updates, aborted, stopped>>

ChildExits ==
  /\ Alive /\ child' = "dead"
  /\ UNCHANGED <<caller, stubborn, helper, held, streams, waiting, updates, aborted, stopped>>

HelperExits ==
  /\ helper # "none" /\ helper' = "none" /\ held' = {}
  /\ UNCHANGED <<caller, child, stubborn, streams, waiting, updates, aborted, stopped>>
-----------------------------------------------------------------------------
(* Mutant: only the child itself. *)
killProcessTreeAlone ==
  /\ child' = IF child = "running" THEN "dead" ELSE child
  /\ UNCHANGED <<stubborn, helper, held>>

(* SIGKILL to the process group of the child.                              *)
killProcessTree ==
  /\ child' = IF child = "running" THEN "dead" ELSE child
  /\ IF helper = "group" THEN helper' = "none" /\ held' = {} ELSE UNCHANGED <<helper, held>>
  /\ UNCHANGED stubborn

(* killProcess of execCommand: SIGTERM to the child, and a timer.          *)
killProcess ==
  IF killSent THEN UNCHANGED <<process, killSent, signalled, killTimer>>
  ELSE /\ killSent' = TRUE /\ killTimer' = TRUE
       /\ signalled' = (child = "running")
       /\ child' = IF child = "running" /\ ~stubborn THEN "dead" ELSE child
       /\ UNCHANGED <<stubborn, helper, held>>

Stop ==
  IF Bash THEN killProcessTree /\ UNCHANGED <<killSent, signalled, killTimer>> ELSE killProcess

Tracks == Bash

(* exec and execCommand spawn the child; a signal that is aborted already  *)
(* stops it at once.  The pid of a child that could not be spawned is not  *)
(* there: its error event follows.                                         *)
Spawn ==
  /\ call = "idle" /\ call' = "running"
  /\ stubborn' \in BOOLEAN
  /\ timeoutTimer' \in BOOLEAN
  /\ listening' = ~aborted
  /\ tracked' = Tracks
  /\ child' = IF ~aborted \/ (kind = "exec" /\ stubborn') THEN "running" ELSE "dead"
  /\ stopped' = aborted
  /\ killSent' = (aborted /\ kind = "exec") /\ signalled' = killSent' /\ killTimer' = killSent'
  /\ UNCHANGED <<kind, outcome, helper, held, timedOut, streams, waiting, updates, aborted>>

SpawnFails ==
  /\ call = "idle" /\ call' = "running"
  /\ timeoutTimer' \in BOOLEAN
  /\ listening' = ~aborted
  /\ killSent' = (aborted /\ kind = "exec") /\ killTimer' = killSent'
  /\ UNCHANGED <<kind, outcome, process, timedOut, signalled, tracked, streams, waiting, updates, aborted, stopped>>

(* The timer of the call.                                                  *)
Timeout ==
  /\ Running /\ timeoutTimer /\ timeoutTimer' = FALSE
  /\ timedOut' = TRUE
  /\ stopped' = (stopped \/ child = "running")
  /\ IF child = "none" /\ Bash THEN UNCHANGED <<process, killSent, signalled, killTimer>> ELSE Stop
  /\ UNCHANGED <<kind, call, outcome, listening, tracked, streams, waiting, updates, aborted>>

Abort ==
  /\ ~aborted /\ aborted' = TRUE
  /\ IF listening
       THEN /\ stopped' = (stopped \/ child = "running")
            /\ IF child = "none" /\ Bash THEN UNCHANGED <<process, killSent, signalled, killTimer>> ELSE Stop
       ELSE UNCHANGED <<process, killSent, signalled, killTimer, stopped>>
  /\ UNCHANGED <<kind, call, outcome, listening, timedOut, timeoutTimer, tracked, streams, waiting, updates>>

(* After five seconds, SIGKILL unless a signal has been sent.              *)
ForceKill ==
  /\ killTimer /\ killTimer' = FALSE
  /\ child' = IF child = "running" /\ ~signalled THEN "dead" ELSE child
  /\ UNCHANGED <<kind, call, outcome, listening, timedOut, timeoutTimer, killSent, signalled, tracked,
                 stubborn, helper, held, streams, waiting, updates, aborted, stopped>>

(* killTrackedDetachedChildren at SIGTERM or SIGHUP.                       *)
KillTracked ==
  /\ tracked /\ tracked' = FALSE
  /\ killProcessTree
  /\ UNCHANGED <<kind, call, outcome, listening, timedOut, timeoutTimer, killSent, signalled, killTimer,
                 streams, waiting, updates, aborted, stopped>>
-----------------------------------------------------------------------------
(* emitOutputUpdate of finishOutput.                                       *)
FinishShows == dirty' = FALSE /\ shown' = delivered

(* exec rejects, execCommand reports killed.                               *)
Outcome ==
  IF Bash THEN (IF aborted THEN "aborted" ELSE IF timedOut THEN "timeout" ELSE "done")
  ELSE IF killSent THEN "killed" ELSE "done"

(* The promise of waitForChildProcess settles, and in the same turn of the *)
(* event loop the caller goes on, up to the closing of the temporary file. *)
Settles(result) ==
  /\ pipe' = [s \in Streams |-> 0]
  /\ graceTimer' = FALSE /\ timeoutTimer' = FALSE /\ listening' = FALSE /\ tracked' = FALSE
  /\ outcome' = result
  /\ IF Bash
       THEN /\ updateTimer' = FALSE /\ FinishShows
            /\ call' = IF delivered > ShownChunks THEN "closing" ELSE "settled"
       ELSE call' = "settled" /\ UNCHANGED updates
  /\ UNCHANGED <<kind, timedOut, killSent, signalled, killTimer, process, written, delivered, aborted, stopped>>

SpawnError ==
  /\ Running /\ child = "none"
  /\ Settles("error")
  /\ UNCHANGED <<ended, exited, graceOver>>

(* Mutant: output is shown at once or not at all. *)
LaterUpdateNever == UNCHANGED updateTimer

LaterUpdate == updateTimer' = TRUE

(* handleData: an update is shown at once, or by a timer when the last one *)
(* is less than 100 ms old.                                                *)
Data(s) ==
  /\ Running /\ pipe[s] > 0
  /\ pipe' = [pipe EXCEPT ![s] = @ - 1]
  /\ delivered' = delivered + 1
  /\ \/ Bash /\ shown' = delivered' /\ dirty' = FALSE /\ updateTimer' = FALSE
     \/ Bash /\ dirty' = TRUE /\ LaterUpdate /\ UNCHANGED shown
     \/ ~Bash /\ UNCHANGED updates
  /\ UNCHANGED <<caller, process, written, waiting, aborted, stopped>>

UpdateTimer ==
  /\ updateTimer /\ updateTimer' = FALSE
  /\ dirty' = FALSE
  /\ shown' = IF dirty THEN delivered ELSE shown
  /\ UNCHANGED <<caller, process, streams, waiting, aborted, stopped>>

(* Mutant: the exit is the end. *)
AllEndedAlways == TRUE

AllEnded == ended' = Streams

End(s) ==
  /\ Running /\ child # "none" /\ s \notin ended /\ pipe[s] = 0 /\ ~Open(s)
  /\ ended' = ended \cup {s}
  /\ IF exited /\ AllEnded THEN Settles(Outcome)
     ELSE UNCHANGED <<caller, process, streams, graceTimer, updates, aborted, stopped>>
  /\ UNCHANGED <<exited, graceOver>>

(* Mutant: no timer. *)
GraceNever == UNCHANGED graceTimer

Grace == graceTimer' = TRUE

Exit ==
  /\ Running /\ child = "dead" /\ ~exited
  /\ exited' = TRUE
  /\ UNCHANGED <<ended, graceOver>>
  /\ IF AllEnded THEN Settles(Outcome)
     ELSE Grace /\ UNCHANGED <<caller, process, streams, updates, aborted, stopped>>

(* The streams have not ended 100 ms after the exit: they are destroyed.   *)
GraceEnds ==
  /\ Running /\ graceTimer
  /\ graceOver' = TRUE
  /\ Settles(Outcome)
  /\ UNCHANGED <<ended, exited>>

(* closeTempFile.                                                          *)
Closed ==
  /\ call = "closing" /\ call' = "settled"
  /\ UNCHANGED <<kind, outcome, listening, timedOut, timeoutTimer, killSent, signalled, killTimer, tracked,
                 process, streams, waiting, updates, aborted, stopped>>

Command == (\E s \in Streams : Write(s)) \/ StartsHelper \/ ChildExits \/ HelperExits
Handlers == SpawnError \/ (\E s \in Streams : Data(s) \/ End(s)) \/ Exit \/ GraceEnds \/ UpdateTimer \/ Closed

Next == Command \/ Spawn \/ SpawnFails \/ Timeout \/ Abort \/ ForceKill \/ KillTracked \/ Handlers

(* The event loop runs what is due; the command owes nothing.              *)
Fairness ==
  /\ WF_vars(SpawnError) /\ WF_vars(Exit) /\ WF_vars(GraceEnds) /\ WF_vars(Closed)
  /\ WF_vars(UpdateTimer) /\ WF_vars(ForceKill) /\ WF_vars(Timeout)

Spec == Init /\ [][Next]_vars
FairSpec == Spec /\ Fairness
-----------------------------------------------------------------------------
(* The types; a settled call has left no timer but the one of the kill, no *)
(* listener and no child behind it, and the children of the bash tool are  *)
(* known to the signal handlers as long as they run.                       *)
TypeOK ==
  /\ kind \in Kinds /\ call \in {"idle", "running", "closing", "settled"}
  /\ outcome \in {"none", "done", "aborted", "timeout", "killed", "error"}
  /\ child \in {"none", "running", "dead"} /\ helper \in {"none", "group", "away"}
  /\ held \subseteq Streams /\ ended \subseteq Streams /\ pipe \in [Streams -> Nat]
  /\ written \in Nat /\ delivered \in Nat /\ shown \in Nat
  /\ stubborn \in BOOLEAN /\ exited \in BOOLEAN /\ graceTimer \in BOOLEAN /\ timeoutTimer \in BOOLEAN
  /\ aborted \in BOOLEAN /\ listening \in BOOLEAN /\ timedOut \in BOOLEAN /\ killSent \in BOOLEAN
  /\ signalled \in BOOLEAN /\ killTimer \in BOOLEAN /\ tracked \in BOOLEAN /\ dirty \in BOOLEAN
  /\ updateTimer \in BOOLEAN /\ graceOver \in BOOLEAN /\ stopped \in BOOLEAN
  /\ call \in {"closing", "settled"} =>
       ~graceTimer /\ ~timeoutTimer /\ ~listening /\ ~tracked /\ ~updateTimer /\ child # "running"
  /\ Bash /\ child = "running" => tracked

(* Nothing is delivered that no update shows or is going to show, and the  *)
(* last update comes before the result (scheduleOutputUpdate and           *)
(* finishOutput).                                                          *)
UpdatesCatchUp ==
  Bash => shown = delivered \/ (Running /\ dirty /\ updateTimer)

(* A result without all that was written comes from a pipe kept open       *)
(* beyond the grace period, or from nobody reading it in that time; nothing*)
(* else cuts the output off (waitForChildProcess).                         *)
OutputComplete ==
  call \in {"closing", "settled"} /\ ~graceOver /\ outcome # "error" => delivered = written

(* A settled call has left nothing behind (TypeOK), and one that an abort  *)
(* or a timeout has stopped says so, and leaves nothing of its process     *)
(* group behind (killProcessTree).                                         *)
StoppedIsReported ==
  /\ TypeOK
  /\ call \in {"closing", "settled"} /\ stopped =>
       /\ outcome \in {"aborted", "timeout", "killed"}
       /\ Bash => helper # "group"

(* "without hanging on inherited stdio handles": a call whose child is     *)
(* gone settles, though its pipes may stay open for ever; so does one that *)
(* an abort or a timeout stops, unless execCommand meets a command that    *)
(* ignores SIGTERM.                                                        *)
CallReturns ==
  (Running /\ (child # "running" \/ (stopped /\ (Bash \/ ~stubborn)))) ~> call = "settled"

(* execCommand: "Force kill after 5 seconds if SIGTERM doesn't work".      *)
ForceKillKills == [][killTimer /\ ~killTimer' => child' # "running"]_vars
=============================================================================
