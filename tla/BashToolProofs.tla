---------------------------- MODULE BashToolProofs ----------------------------
(* Proofs about the two parts of the bash tool.  ChildProcess, for any     *)
(* amount of output: updates catch up, output is complete, a stopped       *)
(* command is reported as such and nothing of a settled call is left       *)
(* behind.  OutputAccumulator, for any limits and any chunks: no byte of a *)
(* command's output is lost.                                               *)
EXTENDS ChildProcess, OutputAccumulator, TLAPS

Before == call \in {"idle", "running"}
After == call \in {"closing", "settled"}

(* Nothing has happened to a call that was not made.                       *)
Unstarted ==
  call = "idle" =>
    child = "none" /\ helper = "none" /\ ~listening /\ ~killTimer /\ ~tracked /\ ~stopped /\ ~updateTimer

(* The parts of TypeOK.                                                    *)
Types ==
  /\ kind \in Kinds /\ call \in {"idle", "running", "closing", "settled"}
  /\ outcome \in {"none", "done", "aborted", "timeout", "killed", "error"}
  /\ child \in {"none", "running", "dead"} /\ helper \in {"none", "group", "away"}
  /\ held \subseteq Streams /\ ended \subseteq Streams /\ pipe \in [Streams -> Nat]
  /\ written \in Nat /\ delivered \in Nat /\ shown \in Nat

Flags ==
  /\ stubborn \in BOOLEAN /\ exited \in BOOLEAN /\ graceTimer \in BOOLEAN /\ timeoutTimer \in BOOLEAN
  /\ aborted \in BOOLEAN /\ listening \in BOOLEAN /\ timedOut \in BOOLEAN /\ killSent \in BOOLEAN
  /\ signalled \in BOOLEAN /\ killTimer \in BOOLEAN /\ tracked \in BOOLEAN /\ dirty \in BOOLEAN
  /\ updateTimer \in BOOLEAN /\ graceOver \in BOOLEAN /\ stopped \in BOOLEAN

Tidy ==
  /\ After => ~graceTimer /\ ~timeoutTimer /\ ~listening /\ ~tracked /\ ~updateTimer /\ child # "running"
  /\ Bash /\ child = "running" => tracked

(* The exit is seen of a child that is dead, and so are ends of streams,   *)
(* which nobody will write to again.                                       *)
SeenInv ==
  /\ exited => child = "dead"
  /\ graceTimer => exited
  /\ child = "none" => helper = "none"
  /\ \A s \in ended : child = "dead" /\ pipe[s] = 0 /\ s \notin held

(* Output is delivered or in a pipe.                                       *)
PipeInv == Before => written = delivered + pipe["stdout"] + pipe["stderr"]

(* What an abort or a timeout has killed.                                  *)
StopInv ==
  stopped =>
    /\ child # "none"
    /\ Bash => child = "dead" /\ helper # "group" /\ (aborted \/ timedOut)
    /\ ~Bash => killSent

(* Only the bash tool shows updates.                                       *)
OnlyBash == ~Bash => ~updateTimer

Reported == After /\ stopped => outcome \in {"aborted", "timeout", "killed"}

IInv ==
  /\ TypeOK /\ UpdatesCatchUp /\ OutputComplete
  /\ Unstarted /\ SeenInv /\ PipeInv /\ StopInv /\ OnlyBash /\ Reported
-----------------------------------------------------------------------------
(* The invariant holds at first.                                           *)
LEMMA InitIInv == Init => IInv
<1> SUFFICES ASSUME Init PROVE IInv
  OBVIOUS
<1> USE DEF Init
<1>1. TypeOK
  BY ChildAssumption DEF TypeOK, Streams
<1>2. UpdatesCatchUp /\ OutputComplete /\ Unstarted /\ StopInv /\ OnlyBash /\ Reported
  BY DEF UpdatesCatchUp, OutputComplete, Unstarted, StopInv, OnlyBash, Reported, After
<1>3. SeenInv /\ PipeInv
  BY DEF SeenInv, PipeInv, Streams
<1> QED BY <1>1, <1>2, <1>3 DEF IInv

(* The parts together are the types.                                       *)
LEMMA TypeParts == TypeOK <=> Types /\ Flags /\ Tidy
  BY DEF TypeOK, Types, Flags, Tidy, After

(* A call settles once nothing runs any more: with all that was written, or*)
(* after the grace period, or because there was no child.                  *)
LEMMA SettlesKeeps ==
  ASSUME IInv, NEW result \in {"done", "aborted", "timeout", "killed", "error"}, Running, Settles(result),
         child # "running",
         ended' \subseteq Streams, exited' \in BOOLEAN, graceOver' \in BOOLEAN,
         exited' => child = "dead",
         \A s \in ended' : child = "dead" /\ s \notin held,
         stopped => result \in {"aborted", "timeout", "killed"},
         ~graceOver' /\ result # "error" => delivered = written
  PROVE  IInv'
<1>a. Types /\ Flags /\ Tidy
  BY TypeParts DEF IInv
<1>b. UpdatesCatchUp /\ SeenInv /\ StopInv /\ call = "running"
  BY DEF IInv, Running
<1>c. /\ call' \in {"closing", "settled"}
      /\ pipe' = [s \in Streams |-> 0]
      /\ graceTimer' = FALSE /\ timeoutTimer' = FALSE /\ listening' = FALSE /\ tracked' = FALSE
      /\ outcome' = result
      /\ Bash => updateTimer' = FALSE /\ dirty' = FALSE /\ shown' = delivered
      /\ ~Bash => updates' = updates
  BY DEF Settles, FinishShows
<1>d. /\ kind' = kind /\ timedOut' = timedOut /\ killSent' = killSent /\ signalled' = signalled
      /\ killTimer' = killTimer /\ child' = child /\ stubborn' = stubborn /\ helper' = helper
      /\ held' = held /\ written' = written /\ delivered' = delivered /\ aborted' = aborted
      /\ stopped' = stopped
  BY DEF Settles, process
<1>e. ~Bash => updateTimer' = updateTimer /\ dirty' = dirty /\ shown' = shown
  BY <1>c DEF updates
<1>1. Types'
  BY <1>a, <1>c, <1>d, <1>e DEF Types
<1>2. Flags'
  BY <1>a, <1>c, <1>d, <1>e DEF Flags
<1>3. ~Bash => ~updateTimer
  BY <1>b DEF IInv, OnlyBash
<1>4. Tidy'
  BY <1>c, <1>d, <1>e, <1>3 DEF Tidy, Bash
<1>5. UpdatesCatchUp'
  BY <1>c, <1>d DEF UpdatesCatchUp, Bash
<1>6. (OutputComplete /\ Unstarted /\ PipeInv /\ Reported)'
  BY <1>c, <1>d DEF OutputComplete, Unstarted, PipeInv, Reported, Before, After
<1>7. SeenInv'
  BY <1>b, <1>c, <1>d DEF SeenInv
<1>8. StopInv'
  BY <1>b, <1>d DEF StopInv, Bash
<1>9. OnlyBash'
  BY <1>c, <1>d, <1>e, <1>3 DEF OnlyBash, Bash
<1>10. TypeOK'
  BY <1>1, <1>2, <1>4, TypeParts, PTL
<1> QED BY <1>5, <1>6, <1>7, <1>8, <1>9, <1>10 DEF IInv

(* What an abort or a timeout does to the command: nothing to a child that *)
(* could not be spawned, and no descendant in the group of the bash tool   *)
(* outlives it.                                                            *)
Stopping == IF child = "none" /\ Bash THEN UNCHANGED <<process, killSent, signalled, killTimer>> ELSE Stop

LEMMA StoppingKills ==
  ASSUME Types, Flags, Stopping
  PROVE  /\ child' \in {"none", "running", "dead"} /\ (child' = "none" <=> child = "none")
         /\ child' = "running" => child = "running" /\ ~Bash
         /\ helper' \in {helper, "none"} /\ held' \subseteq held
         /\ Bash /\ child # "none" => helper' # "group"
         /\ ~Bash => killSent'
         /\ killSent' \in BOOLEAN /\ signalled' \in BOOLEAN /\ killTimer' \in BOOLEAN
         /\ stubborn' = stubborn
<1>1. CASE child = "none" /\ Bash
  BY <1>1 DEF Stopping, process, Types, Flags
<1>2. CASE Bash /\ child # "none"
  BY <1>2 DEF Stopping, Stop, killProcessTree, Types, Flags
<1>3. CASE ~Bash /\ killSent
  BY <1>3 DEF Stopping, Stop, killProcess, process, Types, Flags
<1>4. CASE ~Bash /\ ~killSent
  BY <1>4 DEF Stopping, Stop, killProcess, Types, Flags
<1> QED BY <1>1, <1>2, <1>3, <1>4

(* Every variable but those of the signals and of the process.             *)
LEMMA StoppingKeeps ==
  ASSUME IInv, Running, Stopping,
         /\ kind' = kind /\ call' = call /\ outcome' = outcome /\ tracked' = tracked
         /\ UNCHANGED streams /\ UNCHANGED waiting /\ UNCHANGED updates,
         timeoutTimer' \in BOOLEAN /\ listening' = listening,
         timedOut' \in BOOLEAN /\ (timedOut => timedOut'),
         aborted' \in BOOLEAN /\ (aborted => aborted'),
         stopped' \in BOOLEAN /\ (stopped' <=> stopped \/ child = "running"),
         aborted' \/ timedOut'
  PROVE  IInv'
<1>a. Types /\ Flags /\ Tidy
  BY TypeParts DEF IInv
<1>b. UpdatesCatchUp /\ SeenInv /\ PipeInv /\ StopInv /\ OnlyBash /\ call = "running"
  BY DEF IInv, Running
<1>c. /\ child' \in {"none", "running", "dead"} /\ (child' = "none" <=> child = "none")
      /\ child' = "running" => child = "running" /\ ~Bash
      /\ helper' \in {helper, "none"} /\ held' \subseteq held
      /\ Bash /\ child # "none" => helper' # "group"
      /\ ~Bash => killSent'
      /\ killSent' \in BOOLEAN /\ signalled' \in BOOLEAN /\ killTimer' \in BOOLEAN
      /\ stubborn' = stubborn
  BY <1>a, StoppingKills
<1>d. /\ pipe' = pipe /\ written' = written /\ delivered' = delivered
      /\ ended' = ended /\ exited' = exited /\ graceTimer' = graceTimer /\ graceOver' = graceOver
      /\ dirty' = dirty /\ updateTimer' = updateTimer /\ shown' = shown
  BY DEF streams, waiting, updates
<1>1. Types'
  BY <1>a, <1>c, <1>d DEF Types
<1>2. Flags'
  BY <1>a, <1>c, <1>d DEF Flags
<1>3. Tidy'
  BY <1>a, <1>b, <1>c DEF Tidy, After, Bash
<1>4. (UpdatesCatchUp /\ OnlyBash)'
  BY <1>b, <1>d DEF UpdatesCatchUp, OnlyBash, Running, Bash
<1>5. (OutputComplete /\ Unstarted /\ Reported)'
  BY <1>b DEF OutputComplete, Unstarted, Reported, After
<1>6. (SeenInv /\ PipeInv)'
  BY <1>a, <1>b, <1>c, <1>d DEF SeenInv, PipeInv, Before, Types
<1>7. StopInv'
  BY <1>a, <1>b, <1>c DEF StopInv, Bash, Types
<1>8. TypeOK'
  BY <1>1, <1>2, <1>3, TypeParts, PTL
<1> QED BY <1>4, <1>5, <1>6, <1>7, <1>8 DEF IInv

(* The invariant is inductive.                                             *)
LEMMA NextIInv == IInv /\ [Next]_vars => IInv'
<1> SUFFICES ASSUME IInv, [Next]_vars PROVE IInv'
  OBVIOUS
<1>a. Types /\ Flags /\ Tidy
  BY TypeParts DEF IInv
<1>b. /\ UpdatesCatchUp /\ OutputComplete /\ Unstarted /\ SeenInv /\ PipeInv /\ StopInv /\ OnlyBash
      /\ Reported
  BY DEF IInv
<1>p. (Types /\ Flags /\ Tidy)' => TypeOK'
  BY TypeParts, PTL
<1> USE DEF caller, process, streams, waiting, updates, Running, Bash, Before, After, Alive, Streams
<1>1. ASSUME NEW s \in Streams, Write(s) PROVE IInv'
  <2>1. Types'
    BY <1>a, <1>1 DEF Write, Open, Types
  <2>2. Flags'
    BY <1>a, <1>1 DEF Write, Open, Types, Flags
  <2>3. (Tidy /\ Unstarted /\ SeenInv)'
    BY <1>a, <1>b, <1>1 DEF Write, Open, Types, Flags, Tidy, Unstarted, SeenInv
  <2>4. (UpdatesCatchUp /\ OnlyBash)'
    BY <1>a, <1>b, <1>1 DEF Write, Open, Types, Flags, UpdatesCatchUp, OnlyBash
  <2>5. (PipeInv /\ OutputComplete)'
    BY <1>a, <1>b, <1>1 DEF Write, Open, Types, Flags, PipeInv, OutputComplete, SeenInv
  <2>6. (StopInv /\ Reported)'
    BY <1>a, <1>b, <1>1 DEF Write, Open, Types, Flags, StopInv, Reported, SeenInv, Unstarted
  <2> QED BY <1>p, <2>1, <2>2, <2>3, <2>4, <2>5, <2>6 DEF IInv
<1>2. ASSUME StartsHelper PROVE IInv'
  <2>1. Types'
    BY <1>a, <1>2 DEF StartsHelper, Types
  <2>2. Flags'
    BY <1>a, <1>2 DEF StartsHelper, Types, Flags
  <2>3. (Tidy /\ Unstarted /\ SeenInv)'
    BY <1>a, <1>b, <1>2 DEF StartsHelper, Types, Flags, Tidy, Unstarted, SeenInv
  <2>4. (UpdatesCatchUp /\ OnlyBash)'
    BY <1>a, <1>b, <1>2 DEF StartsHelper, Types, Flags, UpdatesCatchUp, OnlyBash
  <2>5. (PipeInv /\ OutputComplete)'
    BY <1>a, <1>b, <1>2 DEF StartsHelper, Types, Flags, PipeInv, OutputComplete, SeenInv
  <2>6. (StopInv /\ Reported)'
    BY <1>a, <1>b, <1>2 DEF StartsHelper, Types, Flags, StopInv, Reported, SeenInv, Unstarted
  <2> QED BY <1>p, <2>1, <2>2, <2>3, <2>4, <2>5, <2>6 DEF IInv
<1>3. ASSUME ChildExits PROVE IInv'
  <2>1. Types'
    BY <1>a, <1>3 DEF ChildExits, Types
  <2>2. Flags'
    BY <1>a, <1>3 DEF ChildExits, Types, Flags
  <2>3. (Tidy /\ Unstarted /\ SeenInv)'
    BY <1>a, <1>b, <1>3 DEF ChildExits, Types, Flags, Tidy, Unstarted, SeenInv
  <2>4. (UpdatesCatchUp /\ OnlyBash)'
    BY <1>a, <1>b, <1>3 DEF ChildExits, Types, Flags, UpdatesCatchUp, OnlyBash
  <2>5. (PipeInv /\ OutputComplete)'
    BY <1>a, <1>b, <1>3 DEF ChildExits, Types, Flags, PipeInv, OutputComplete, SeenInv
  <2>6. (StopInv /\ Reported)'
    BY <1>a, <1>b, <1>3 DEF ChildExits, Types, Flags, StopInv, Reported, SeenInv, Unstarted
  <2> QED BY <1>p, <2>1, <2>2, <2>3, <2>4, <2>5, <2>6 DEF IInv
<1>4. ASSUME HelperExits PROVE IInv'
  <2>1. Types'
    BY <1>a, <1>4 DEF HelperExits, Types
  <2>2. Flags'
    BY <1>a, <1>4 DEF HelperExits, Types, Flags
  <2>3. (Tidy /\ Unstarted /\ SeenInv)'
    BY <1>a, <1>b, <1>4 DEF HelperExits, Types, Flags, Tidy, Unstarted, SeenInv
  <2>4. (UpdatesCatchUp /\ OnlyBash)'
    BY <1>a, <1>b, <1>4 DEF HelperExits, Types, Flags, UpdatesCatchUp, OnlyBash
  <2>5. (PipeInv /\ OutputComplete)'
    BY <1>a, <1>b, <1>4 DEF HelperExits, Types, Flags, PipeInv, OutputComplete, SeenInv
  <2>6. (StopInv /\ Reported)'
    BY <1>a, <1>b, <1>4 DEF HelperExits, Types, Flags, StopInv, Reported, SeenInv, Unstarted
  <2> QED BY <1>p, <2>1, <2>2, <2>3, <2>4, <2>5, <2>6 DEF IInv
<1>5. ASSUME Spawn PROVE IInv'
  <2>1. Types'
    BY <1>a, <1>5 DEF Spawn, Tracks, Types
  <2>2. Flags'
    BY <1>a, <1>5 DEF Spawn, Tracks, Types, Flags
  <2>3. (Tidy /\ Unstarted /\ SeenInv)'
    BY <1>a, <1>b, <1>5 DEF Spawn, Tracks, Types, Flags, Tidy, Unstarted, SeenInv
  <2>4. (UpdatesCatchUp /\ OnlyBash)'
    BY <1>a, <1>b, <1>5 DEF Spawn, Tracks, Types, Flags, UpdatesCatchUp, OnlyBash
  <2>5. (PipeInv /\ OutputComplete)'
    BY <1>a, <1>b, <1>5 DEF Spawn, Tracks, Types, Flags, PipeInv, OutputComplete, SeenInv
  <2>6. (StopInv /\ Reported)'
    BY <1>a, <1>b, <1>5, ChildAssumption DEF Spawn, Tracks, Types, Flags, StopInv, Reported, SeenInv, Unstarted
  <2> QED BY <1>p, <2>1, <2>2, <2>3, <2>4, <2>5, <2>6 DEF IInv
<1>6. ASSUME SpawnFails PROVE IInv'
  <2>1. Types'
    BY <1>a, <1>6 DEF SpawnFails, Types
  <2>2. Flags'
    BY <1>a, <1>6 DEF SpawnFails, Types, Flags
  <2>3. (Tidy /\ Unstarted /\ SeenInv)'
    BY <1>a, <1>b, <1>6 DEF SpawnFails, Types, Flags, Tidy, Unstarted, SeenInv
  <2>4. (UpdatesCatchUp /\ OnlyBash)'
    BY <1>a, <1>b, <1>6 DEF SpawnFails, Types, Flags, UpdatesCatchUp, OnlyBash
  <2>5. (PipeInv /\ OutputComplete)'
    BY <1>a, <1>b, <1>6 DEF SpawnFails, Types, Flags, PipeInv, OutputComplete, SeenInv
  <2>6. (StopInv /\ Reported)'
    BY <1>a, <1>b, <1>6 DEF SpawnFails, Types, Flags, StopInv, Reported, SeenInv, Unstarted
  <2> QED BY <1>p, <2>1, <2>2, <2>3, <2>4, <2>5, <2>6 DEF IInv
<1>7. ASSUME Timeout PROVE IInv'
  BY <1>a, <1>7, StoppingKeeps DEF Timeout, Stopping, Flags
<1>8. ASSUME Abort PROVE IInv'
  <2>1. CASE listening
    <3>1. Running
      BY <1>a, <1>b, <2>1 DEF Tidy, Types, Unstarted
    <3> QED BY <1>a, <1>8, <2>1, <3>1, StoppingKeeps DEF Abort, Stopping, Flags
  <2>2. CASE ~listening
    <3>1. /\ aborted' = TRUE
          /\ UNCHANGED <<caller, process, streams, waiting, updates, stopped>>
      BY <1>8, <2>2 DEF Abort
    <3>2. (Types /\ Tidy)'
      BY <1>a, <3>1 DEF Types, Tidy
    <3>3. Flags'
      BY <1>a, <3>1 DEF Flags
    <3>4. (UpdatesCatchUp /\ OutputComplete /\ Unstarted /\ SeenInv /\ PipeInv /\ OnlyBash /\ Reported)'
      BY <1>b, <3>1 DEF UpdatesCatchUp, OutputComplete, Unstarted, SeenInv, PipeInv, OnlyBash, Reported
    <3>5. StopInv'
      BY <1>b, <3>1 DEF StopInv
    <3> QED BY <1>p, <3>2, <3>3, <3>4, <3>5 DEF IInv
  <2> QED BY <2>1, <2>2
<1>9. ASSUME ForceKill PROVE IInv'
  <2>1. Types'
    BY <1>a, <1>9 DEF ForceKill, Types
  <2>2. Flags'
    <3>1. /\ killTimer' \in BOOLEAN /\ UNCHANGED <<stubborn, exited, graceTimer, timeoutTimer, aborted, listening>>
          /\ UNCHANGED <<timedOut, killSent, signalled, tracked, dirty, updateTimer, graceOver, stopped>>
      BY <1>9 DEF ForceKill
    <3> QED BY <1>a, <3>1 DEF Flags
  <2>3. (Tidy /\ Unstarted /\ SeenInv)'
    BY <1>a, <1>b, <1>9 DEF ForceKill, Types, Flags, Tidy, Unstarted, SeenInv
  <2>4. (UpdatesCatchUp /\ OnlyBash)'
    BY <1>a, <1>b, <1>9 DEF ForceKill, Types, Flags, UpdatesCatchUp, OnlyBash
  <2>5. (PipeInv /\ OutputComplete)'
    BY <1>a, <1>b, <1>9 DEF ForceKill, Types, Flags, PipeInv, OutputComplete, SeenInv
  <2>6. (StopInv /\ Reported)'
    BY <1>a, <1>b, <1>9 DEF ForceKill, Types, Flags, StopInv, Reported, SeenInv, Unstarted
  <2> QED BY <1>p, <2>1, <2>2, <2>3, <2>4, <2>5, <2>6 DEF IInv
<1>10. ASSUME KillTracked PROVE IInv'
  <2>1. Types'
    BY <1>a, <1>10 DEF KillTracked, killProcessTree, Types
  <2>2. Flags'
    <3>1. /\ tracked' \in BOOLEAN /\ UNCHANGED <<stubborn, exited, graceTimer, timeoutTimer, aborted, listening>>
          /\ UNCHANGED <<timedOut, killSent, signalled, killTimer, dirty, updateTimer, graceOver, stopped>>
      BY <1>10 DEF KillTracked, killProcessTree
    <3> QED BY <1>a, <3>1 DEF Flags
  <2>3. (Tidy /\ Unstarted /\ SeenInv)'
    BY <1>a, <1>b, <1>10 DEF KillTracked, killProcessTree, Types, Flags, Tidy, Unstarted, SeenInv
  <2>4. (UpdatesCatchUp /\ OnlyBash)'
    BY <1>a, <1>b, <1>10 DEF KillTracked, killProcessTree, Types, Flags, UpdatesCatchUp, OnlyBash
  <2>5. (PipeInv /\ OutputComplete)'
    BY <1>a, <1>b, <1>10 DEF KillTracked, killProcessTree, Types, Flags, PipeInv, OutputComplete, SeenInv
  <2>6. (StopInv /\ Reported)'
    BY <1>a, <1>b, <1>10 DEF KillTracked, killProcessTree, Types, Flags, StopInv, Reported, SeenInv, Unstarted
  <2> QED BY <1>p, <2>1, <2>2, <2>3, <2>4, <2>5, <2>6 DEF IInv
<1>11. ASSUME SpawnError PROVE IInv'
  BY <1>a, <1>b, <1>11, SettlesKeeps DEF SpawnError, Types, Flags, SeenInv, StopInv
<1>12. ASSUME NEW s \in Streams, Data(s) PROVE IInv'
  <2>1. Types'
    BY <1>a, <1>12 DEF Data, LaterUpdate, Types
  <2>2. Flags'
    <3>1. /\ UNCHANGED <<stubborn, exited, graceTimer, timeoutTimer, aborted, listening>>
          /\ UNCHANGED <<timedOut, killSent, signalled, killTimer, tracked, graceOver, stopped>>
          /\ dirty' \in BOOLEAN /\ updateTimer' \in BOOLEAN
      BY <1>a, <1>12 DEF Data, LaterUpdate, Flags
    <3> QED BY <1>a, <3>1 DEF Flags
  <2>3. (Tidy /\ Unstarted /\ SeenInv)'
    BY <1>a, <1>b, <1>12 DEF Data, LaterUpdate, Types, Flags, Tidy, Unstarted, SeenInv
  <2>4. (UpdatesCatchUp /\ OnlyBash)'
    BY <1>a, <1>b, <1>12 DEF Data, LaterUpdate, Types, Flags, UpdatesCatchUp, OnlyBash
  <2>5. (PipeInv /\ OutputComplete)'
    BY <1>a, <1>b, <1>12 DEF Data, LaterUpdate, Types, Flags, PipeInv, OutputComplete, SeenInv
  <2>6. (StopInv /\ Reported)'
    BY <1>a, <1>b, <1>12 DEF Data, LaterUpdate, Types, Flags, StopInv, Reported, SeenInv, Unstarted
  <2> QED BY <1>p, <2>1, <2>2, <2>3, <2>4, <2>5, <2>6 DEF IInv
<1>13. ASSUME NEW s \in Streams, End(s) PROVE IInv'
  <2>1. CASE exited /\ AllEnded
    <3>1. ended' = Streams /\ UNCHANGED <<exited, graceOver>> /\ Settles(Outcome)
      BY <1>13, <2>1 DEF End, AllEnded
    <3>2. \A r \in Streams : pipe[r] = 0 /\ r \notin held
      BY <1>b, <1>13, <2>1 DEF End, AllEnded, SeenInv, Open
    <3>3. delivered = written
      BY <1>a, <1>b, <1>13, <3>2 DEF End, PipeInv, Types
    <3> QED BY <1>a, <1>b, <1>13, <2>1, <3>1, <3>2, <3>3, SettlesKeeps DEF End, Outcome, Types, Flags, SeenInv, StopInv
  <2>2. CASE ~(exited /\ AllEnded)
    <3>1. /\ ended' = ended \cup {s} /\ child = "dead" /\ pipe[s] = 0 /\ s \notin held
          /\ UNCHANGED <<caller, process, streams, updates, aborted, stopped>>
          /\ exited' = exited /\ graceTimer' = graceTimer /\ graceOver' = graceOver
      BY <1>a, <1>13, <2>2 DEF End, Open, Types
    <3>2. (Types /\ Tidy)'
      BY <1>a, <3>1 DEF Types, Tidy
    <3>3. Flags'
      BY <1>a, <3>1 DEF Flags
    <3>4. (UpdatesCatchUp /\ OutputComplete /\ Unstarted /\ PipeInv /\ StopInv /\ OnlyBash /\ Reported)'
      BY <1>b, <3>1 DEF UpdatesCatchUp, OutputComplete, Unstarted, PipeInv, StopInv, OnlyBash, Reported
    <3>5. SeenInv'
      BY <1>b, <3>1 DEF SeenInv
    <3> QED BY <1>p, <3>2, <3>3, <3>4, <3>5 DEF IInv
  <2> QED BY <2>1, <2>2
<1>14. ASSUME Exit PROVE IInv'
  <2>1. CASE AllEnded
    <3>1. ended = Streams /\ exited' = TRUE /\ UNCHANGED <<ended, graceOver>> /\ Settles(Outcome) /\ child = "dead"
      BY <1>14, <2>1 DEF Exit, AllEnded
    <3>2. delivered = written
      BY <1>a, <1>b, <1>14, <3>1 DEF Exit, PipeInv, SeenInv, Types
    <3> QED BY <1>a, <1>b, <1>14, <3>1, <3>2, SettlesKeeps DEF Exit, Outcome, Types, Flags, SeenInv, StopInv
  <2>2. CASE ~AllEnded
    <3>1. /\ exited' = TRUE /\ graceTimer' = TRUE /\ child = "dead" /\ call = "running"
          /\ UNCHANGED <<caller, process, streams, updates, aborted, stopped>>
          /\ ended' = ended /\ graceOver' = graceOver
      BY <1>14, <2>2 DEF Exit, Grace
    <3>2. (Types /\ Tidy)'
      BY <1>a, <3>1 DEF Types, Tidy
    <3>3. Flags'
      BY <1>a, <3>1 DEF Flags
    <3>4. (UpdatesCatchUp /\ OutputComplete /\ Unstarted /\ PipeInv /\ StopInv /\ OnlyBash /\ Reported)'
      BY <1>b, <3>1 DEF UpdatesCatchUp, OutputComplete, Unstarted, PipeInv, StopInv, OnlyBash, Reported
    <3>5. SeenInv'
      BY <1>b, <3>1 DEF SeenInv
    <3> QED BY <1>p, <3>2, <3>3, <3>4, <3>5 DEF IInv
  <2> QED BY <2>1, <2>2
<1>15. ASSUME GraceEnds PROVE IInv'
  <2>1. Running /\ graceOver' = TRUE /\ Settles(Outcome) /\ UNCHANGED <<ended, exited>> /\ graceTimer
    BY <1>15 DEF GraceEnds
  <2>2. /\ child # "running" /\ ended \subseteq Streams /\ exited \in BOOLEAN
        /\ exited => child = "dead"
        /\ \A s \in ended : child = "dead" /\ s \notin held
    BY <1>a, <1>b, <2>1 DEF Types, Flags, SeenInv
  <2>3. /\ Outcome \in {"done", "aborted", "timeout", "killed", "error"}
        /\ stopped => Outcome \in {"aborted", "timeout", "killed"}
    BY <1>a, <1>b, <2>1, <2>2 DEF Outcome, StopInv
  <2> QED BY <2>1, <2>2, <2>3, SettlesKeeps
<1>16. ASSUME UpdateTimer PROVE IInv'
  <2>1. Types'
    BY <1>a, <1>16 DEF UpdateTimer, Types
  <2>2. Flags'
    <3>1. /\ updateTimer' = FALSE /\ dirty' = FALSE /\ UNCHANGED <<aborted, stopped>>
          /\ UNCHANGED <<stubborn, exited, graceTimer, graceOver, timeoutTimer, listening, timedOut>>
          /\ UNCHANGED <<killSent, signalled, killTimer, tracked>>
      BY <1>16 DEF UpdateTimer
    <3>2. updateTimer' \in BOOLEAN /\ dirty' \in BOOLEAN
      BY <3>1
    <3> QED BY <1>a, <3>1, <3>2, ZenonT(30) DEF Flags
  <2>3. (Tidy /\ Unstarted /\ SeenInv)'
    BY <1>a, <1>b, <1>16 DEF UpdateTimer, Types, Flags, Tidy, Unstarted, SeenInv
  <2>4. (UpdatesCatchUp /\ OnlyBash)'
    BY <1>a, <1>b, <1>16 DEF UpdateTimer, Types, Flags, UpdatesCatchUp, OnlyBash
  <2>5. (PipeInv /\ OutputComplete)'
    BY <1>a, <1>b, <1>16 DEF UpdateTimer, Types, Flags, PipeInv, OutputComplete, SeenInv
  <2>6. (StopInv /\ Reported)'
    BY <1>a, <1>b, <1>16 DEF UpdateTimer, Types, Flags, StopInv, Reported, SeenInv, Unstarted
  <2> QED BY <1>p, <2>1, <2>2, <2>3, <2>4, <2>5, <2>6 DEF IInv
<1>17. ASSUME Closed PROVE IInv'
  <2>1. Types'
    BY <1>a, <1>17 DEF Closed, Types
  <2>2. Flags'
    BY <1>a, <1>17 DEF Closed, Types, Flags
  <2>3. (Tidy /\ Unstarted /\ SeenInv)'
    BY <1>a, <1>b, <1>17 DEF Closed, Types, Flags, Tidy, Unstarted, SeenInv
  <2>4. (UpdatesCatchUp /\ OnlyBash)'
    BY <1>a, <1>b, <1>17 DEF Closed, Types, Flags, UpdatesCatchUp, OnlyBash
  <2>5. (PipeInv /\ OutputComplete)'
    BY <1>a, <1>b, <1>17 DEF Closed, Types, Flags, PipeInv, OutputComplete, SeenInv
  <2>6. (StopInv /\ Reported)'
    BY <1>a, <1>b, <1>17 DEF Closed, Types, Flags, StopInv, Reported, SeenInv, Unstarted
  <2> QED BY <1>p, <2>1, <2>2, <2>3, <2>4, <2>5, <2>6 DEF IInv
<1>18. ASSUME UNCHANGED vars PROVE IInv'
  <2>1. Types'
    BY <1>a, <1>18 DEF vars, Types
  <2>2. Flags'
    BY <1>a, <1>18 DEF vars, Types, Flags
  <2>3. (Tidy /\ Unstarted /\ SeenInv)'
    BY <1>a, <1>b, <1>18 DEF vars, Types, Flags, Tidy, Unstarted, SeenInv
  <2>4. (UpdatesCatchUp /\ OnlyBash)'
    BY <1>a, <1>b, <1>18 DEF vars, Types, Flags, UpdatesCatchUp, OnlyBash
  <2>5. (PipeInv /\ OutputComplete)'
    BY <1>a, <1>b, <1>18 DEF vars, Types, Flags, PipeInv, OutputComplete, SeenInv
  <2>6. (StopInv /\ Reported)'
    BY <1>a, <1>b, <1>18 DEF vars, Types, Flags, StopInv, Reported, SeenInv, Unstarted
  <2> QED BY <1>p, <2>1, <2>2, <2>3, <2>4, <2>5, <2>6 DEF IInv
<1> QED BY <1>1, <1>2, <1>3, <1>4, <1>5, <1>6, <1>7, <1>8, <1>9, <1>10, <1>11, <1>12, <1>13, <1>14, <1>15, <1>16, <1>17, <1>18 DEF Next, Command, Handlers
-----------------------------------------------------------------------------
(* The invariant holds in every reachable state.                           *)
THEOREM Invariance == Spec => []IInv
  BY InitIInv, NextIInv, PTL DEF Spec

(* No output is delivered that no update of the bash tool shows or is going*)
(* to show, and the last update comes before the result.                   *)
THEOREM UpdatesFollow == Spec => []UpdatesCatchUp
  BY Invariance, PTL DEF IInv

(* A result that no grace period cut short has all that was written to the *)
(* pipes.                                                                  *)
THEOREM NoOutputLost == Spec => []OutputComplete
  BY Invariance, PTL DEF IInv

(* A settled call leaves no timer, listener or child behind, and one that  *)
(* was stopped says so and leaves nothing of its process group.            *)
THEOREM StopIsReported == Spec => []StoppedIsReported
<1>1. IInv => StoppedIsReported
  BY DEF IInv, StoppedIsReported, StopInv, Reported, After
<1> QED BY Invariance, <1>1, PTL
-----------------------------------------------------------------------------
(* The accumulator of the command's output.                                *)

(* The chunk that makes the file necessary finds all that came before it.  *)
LEMMA AppendKeeps ==
  ASSUME FullOutputKept, NEW chunk, append(chunk)
  PROVE  FullOutputKept'
<1>1. /\ all' = all \o chunk
      /\ IF tempFile \/ shouldUseTempFile
           THEN tempFile' = TRUE /\ file' = FileStart \o chunk /\ rawChunks' = <<>>
           ELSE rawChunks' = rawChunks \o chunk /\ file' = file /\ tempFile' = tempFile
  BY DEF append
<1>2. FileStart = all
  BY DEF FileStart, FullOutputKept
<1>3. CASE tempFile \/ shouldUseTempFile
  BY <1>1, <1>2, <1>3 DEF FullOutputKept
<1>4. CASE ~(tempFile \/ shouldUseTempFile)
  <2>1. all' = rawChunks' /\ ~tempFile'
    BY <1>1, <1>4 DEF FullOutputKept
  <2>2. ~truncated'
    BY <1>4 DEF shouldUseTempFile, truncated
  <2> QED BY <2>1, <2>2 DEF FullOutputKept
<1> QED BY <1>3, <1>4

(* The end of the decoding may still make the file necessary.              *)
LEMMA FinishKeeps ==
  ASSUME FullOutputKept, finish
  PROVE  FullOutputKept'
<1>1. /\ all' = all
      /\ IF shouldUseTempFile
           THEN tempFile' = TRUE /\ file' = FileStart /\ rawChunks' = <<>>
           ELSE tempFile' = tempFile /\ file' = file /\ rawChunks' = rawChunks
  BY DEF finish
<1>2. FileStart = all
  BY DEF FileStart, FullOutputKept
<1>3. CASE shouldUseTempFile
  BY <1>1, <1>2, <1>3 DEF FullOutputKept
<1>4. CASE ~shouldUseTempFile
  BY <1>1, <1>4 DEF FullOutputKept, shouldUseTempFile, truncated
<1> QED BY <1>3, <1>4

(* What is shown in part is in the temporary file as a whole, wherever the *)
(* output is cut into chunks and whatever the limits of lines and bytes    *)
(* (ensureTempFile).                                                       *)
THEOREM NoByteLost == OutputSpec => []FullOutputKept
<1>1. OutputInit => FullOutputKept
  BY LimitAssumption DEF OutputInit, FullOutputKept, truncated
<1>2. FullOutputKept /\ [OutputNext]_outputVars => FullOutputKept'
  <2>1. ASSUME FullOutputKept, UNCHANGED outputVars PROVE FullOutputKept'
    BY <2>1 DEF outputVars, FullOutputKept, truncated
  <2> QED BY <2>1, AppendKeeps, FinishKeeps DEF OutputNext
<1> QED BY <1>1, <1>2, PTL DEF OutputSpec
==============================================================================
