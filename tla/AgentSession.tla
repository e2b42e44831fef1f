---------------------------- MODULE AgentSession ----------------------------
(***************************************************************************)
(* The agent session (agent-host/src/agent-session-impl.ts): what it does  *)
(* with the events of a run.  The run goes ahead of the session, whose     *)
(* handlers take one event after another from _agentEventQueue, each after *)
(* the extensions have had it; the last one, agent_end, retries or         *)
(* compacts.  Meanwhile callers prompt, abort, compact and record the      *)
(* results of shell commands.  AgentRun models the run itself, Compaction  *)
(* where a compaction cuts; both are reduced here to what the session      *)
(* sees.  Retry and auto-compaction are switched on and the model stays    *)
(* the same.                                                               *)
(***************************************************************************)
EXTENDS Naturals, Sequences, FiniteSets

CONSTANTS
  Callers,         \* callers of prompt
  None,
  MaxRetries,      \* retry.maxRetries of the settings
  Budget,          \* bounds: how many of each of Kinds there are, for each of Surroundings
  MaxCompactions,  \* bound: compactions on the branch, those of an overflow aside
  Surroundings     \* what overlap and slowHandlers below may be

Kinds == {"prompt", "tool", "error", "act"}  \* act: whatever else a caller does

ASSUME CallerAssumption == {"handler", "manual", None} \cap Callers = {}
ASSUME SurroundingAssumption == Surroundings \subseteq BOOLEAN \X BOOLEAN
ASSUME BoundAssumption == {MaxRetries, MaxCompactions} \subseteq Nat /\ Budget \in [Surroundings -> [Kinds -> Nat]]

VARIABLES
  \* the surroundings, which do not change
  overlap,      \* callers prompt or compact while a compaction runs or the session is about
                \* to go on by itself, and a timeout may outlast an answer
  slowHandlers, \* an extension makes an event wait while callers act
  \* class Agent
  run,          \* "idle", "llm" while an answer streams, "tool" while a tool runs
  aborting,     \* the abort signal of the run
  owner,        \* the caller whose prompt the run is, or None
  started,      \* the compactions there were when the answer began to stream
  transcript,   \* agent.state.messages
  steered,      \* the steering queue of the agent
  \* AgentSession
  events,       \* _agentEventQueue
  handler,      \* "ready" for the next event, or where that of agent_end waits
  handled,      \* the answer it is about
  connected,    \* the session listens to the agent
  saved,        \* the entries of the session's branch
  lastAssistant,\* _lastAssistantMessage
  retryAttempt,
  retryPending, \* _retryPromise exists
  overflowRecoveryAttempted,
  pendingBash,  \* _pendingBashMessages
  compacting,   \* the compactions under way: of the handler, of prompts, of compact()
  controller,   \* _autoCompactionAbortController: "none", "live" or "aborted"
  timers,       \* timeouts that will call agent.continue(), by their cause
  call,         \* where a caller's prompt is
  manual,       \* where compact() is
  made,         \* messages made so far
  left,         \* what is left of Budget
  \* history
  unheard,      \* messages the session did not listen to, or that no message_end announced
  failed,       \* a callback of a run has thrown: what Agent calls a failed run
  restarts      \* runs the session started itself since a message or an answer without error

surroundings == <<overlap, slowHandlers>>
runVars == <<run, aborting, owner, started, steered>>
retryVars == <<lastAssistant, retryAttempt, retryPending, overflowRecoveryAttempted>>
handlerVars == <<handler, handled>>
compactionVars == <<compacting, controller, manual>>
progress == <<runVars, transcript, events, handlerVars, connected, saved, retryVars, pendingBash,
          compactionVars, timers, call, made, left, unheard, failed, restarts>>
vars == <<surroundings, progress>>

Threads == Callers \cup {"handler", "manual"}
Stops == {"ok", "aborted", "retryable", "overflow", "error"}
Message(id, role, stop) ==
  [id |-> id, role |-> role, stop |-> stop,
   started |-> IF role = "assistant" THEN started ELSE 0]
Fresh(role, stop) == Message(made + 1, role, stop)
IsError(m) == m.role = "assistant" /\ m.stop \in {"retryable", "overflow", "error"}

Causes == {"retry", "overflow", "threshold"}
Zero == [c \in Causes |-> 0]
Add(count, cause) == [count EXCEPT ![cause] = @ + 1]

Init ==
  /\ \E s \in Surroundings : overlap = s[1] /\ slowHandlers = s[2] /\ left = Budget[s]
  /\ run = "idle" /\ aborting = FALSE /\ owner = None /\ started = 0
  /\ transcript = <<>> /\ steered = <<>>
  /\ events = <<>> /\ handler = "ready" /\ handled = None
  /\ connected = TRUE /\ saved = <<>>
  /\ lastAssistant = None /\ retryAttempt = 0 /\ retryPending = FALSE
  /\ overflowRecoveryAttempted = FALSE
  /\ pendingBash = <<>>
  /\ compacting = [t \in Threads |-> None] /\ controller = "none"
  /\ timers = Zero
  /\ call = [c \in Callers |-> "idle"] /\ manual = "idle"
  /\ made = 0
  /\ unheard = {} /\ failed = FALSE /\ restarts = Zero
-----------------------------------------------------------------------------
(* The session's branch and the context it gives.                          *)
IsCompaction(e) == e.role = "compaction"
Compactions == Len(SelectSeq(saved, IsCompaction))
IndexOf(s, id) == CHOOSE i \in DOMAIN s : s[i].id = id /\ ~IsCompaction(s[i])

(* buildSessionContext: the summary of the last compaction, the messages   *)
(* it kept and those since.                                                *)
Context(s) ==
  LET messages(r) == SelectSeq(r, LAMBDA e : ~IsCompaction(e))
      at == {i \in DOMAIN s : IsCompaction(s[i])}
      last == CHOOSE i \in at : \A j \in at : j <= i
  IN  IF at = {} THEN s
      ELSE <<Message(0, "summary", "ok")>>
             \o messages(SubSeq(s, IndexOf(s, s[last].id), Len(s)))

(* Where a compaction may cut: not before the result of a tool.            *)
CutPoints(s) ==
  LET context == Context(s)
  IN  {context[i].id : i \in {j \in 2..Len(context) : context[j].role # "tool"}}

(* The message a compaction that starts now will keep first, 0 when        *)
(* prepareCompaction finds nothing to do.                                  *)
FirstKept(s) ==
  IF CutPoints(s) = {} \/ IsCompaction(s[Len(s)]) THEN {0} ELSE CutPoints(s)

(* appendCompaction; the agent's messages are built anew from the branch.  *)
Compacted(id) == Append(saved, Message(id, "compaction", "ok"))

(* Mutant: whatever comes last is taken for the answer. *)
WithoutLast(s) == IF s # <<>> THEN SubSeq(s, 1, Len(s) - 1) ELSE s

(* The last message is taken back if it is an answer, whichever it is.     *)
WithoutLastAssistant(s) ==
  IF s # <<>> /\ s[Len(s)].role = "assistant" THEN SubSeq(s, 1, Len(s) - 1) ELSE s
-----------------------------------------------------------------------------
(* Events of a run, which the session takes when it listens.               *)
Event(type, m) == [type |-> type, message |-> m]
Starts(ms) == [i \in DOMAIN ms |-> Event("message_start", ms[i])]
Ends(ms) == [i \in DOMAIN ms |-> Event("message_end", ms[i])]
AgentEnd(m) == <<Event("agent_end", m)>>

IdsOf(s) == {s[i].id : i \in DOMAIN s}

(* The messages the session has yet to save.                               *)
Queued(es) == {es[i].message.id : i \in {j \in DOMAIN es : es[j].type = "message_end"}}

(* processEvents for messages ms, then the events more.                    *)
Emit(ms, more) ==
  /\ transcript' = transcript \o ms
  /\ events' = IF connected THEN events \o more ELSE events
  /\ unheard' = unheard \cup (IdsOf(ms) \ Queued(events'))

(* A poll of the steering queue, one at a time.                            *)
Polled == IF steered = <<>> THEN <<>> ELSE <<Head(steered)>>
Unpolled == IF steered = <<>> THEN <<>> ELSE Tail(steered)

IsRetryable(m) == m.stop = "retryable"

(* _createRetryPromiseForAgentEnd, in the emission of agent_end itself.    *)
CreateRetryPromise(m) == retryPending' = (retryPending \/ (connected /\ IsRetryable(m)))

(* The run starts with messages ms.                                        *)
StartRun(c, ms, rest) ==
  /\ run' = "llm" /\ aborting' = FALSE /\ owner' = c /\ started' = Compactions
  /\ steered' = rest
  /\ Emit(ms, Starts(ms) \o Ends(ms))
  /\ restarts' = Zero

(* agent_end and finishRun, with nothing but continuations in between.     *)
EndRun(m, ms, more) ==
  /\ run' = "idle" /\ owner' = None /\ aborting' = FALSE /\ started' = 0
  /\ Emit(ms, more \o AgentEnd(m))
  /\ CreateRetryPromise(m)
  /\ call' = [c \in Callers |-> IF c = owner THEN "ended" ELSE call[c]]
  /\ UNCHANGED steered

GoOn(ms, rest) ==
  /\ run' = "llm" /\ started' = Compactions /\ steered' = rest
  /\ Emit(ms \o Polled, Ends(ms) \o Starts(Polled) \o Ends(Polled))
  /\ UNCHANGED <<aborting, owner, retryPending, call>>

(* Without a slow extension nothing but continuations runs until the queue *)
(* is empty, or its handler asleep or compacting.                          *)
Settled ==
  \/ slowHandlers
  \/ /\ events = <<>> \/ handler \in {"sleeping", "compacting"}
     /\ \A c \in Callers : call[c] \notin {"ready", "ended"}

Spend(kind) == left[kind] > 0 /\ left' = [left EXCEPT ![kind] = @ - 1]

(* The answer ends: with a tool call, to go on with what was steered       *)
(* meanwhile, or for good.                                                 *)
Answer(stop, calls) ==
  /\ Settled /\ run = "llm" /\ (overlap \/ timers = Zero)
  /\ LET m == Fresh("assistant", stop)
     IN  \/ /\ stop = "aborted" /\ aborting /\ ~calls
            /\ EndRun(m, <<m>>, Ends(<<m>>))
            /\ UNCHANGED left
         \/ /\ stop \in {"retryable", "overflow", "error"} /\ ~calls
            /\ Spend("error")
            /\ EndRun(m, <<m>>, Ends(<<m>>))
         \/ /\ stop = "ok" /\ ~aborting /\ calls
            /\ Spend("tool")
            /\ run' = "tool"
            /\ Emit(<<m>>, Ends(<<m>>))
            /\ UNCHANGED <<aborting, owner, started, steered, retryPending, call>>
         \/ /\ stop = "ok" /\ ~aborting /\ ~calls
            /\ IF steered # <<>> THEN GoOn(<<m>>, Unpolled) ELSE EndRun(m, <<m>>, Ends(<<m>>))
            /\ UNCHANGED left
  /\ made' = made + 1
  /\ restarts' = IF stop = "ok" THEN Zero ELSE restarts
  /\ UNCHANGED <<handlerVars, connected, saved, lastAssistant, retryAttempt,
                 overflowRecoveryAttempted, pendingBash, compactionVars, timers, failed>>

ToolEnds ==
  /\ Settled /\ run = "tool"
  /\ GoOn(<<Fresh("tool", "ok")>>, Unpolled)
  /\ made' = made + 1
  /\ UNCHANGED <<handlerVars, connected, saved, lastAssistant, retryAttempt,
                 overflowRecoveryAttempted, pendingBash, compactionVars, timers, left, restarts, failed>>

(* handleRunFailure: the message of the failure gets no events of its own. *)
RunFails ==
  /\ Settled /\ run = "llm"
  /\ \E stop \in IF aborting THEN {"aborted"} ELSE {"retryable", "error"} :
       LET m == Fresh("assistant", stop) IN EndRun(m, <<m>>, <<>>)
  /\ Spend("error") /\ made' = made + 1 /\ failed' = TRUE
  /\ UNCHANGED <<handlerVars, connected, saved, lastAssistant, retryAttempt,
                 overflowRecoveryAttempted, pendingBash, compactionVars, timers, restarts>>
-----------------------------------------------------------------------------
(* Compactions.                                                            *)

(* _runAutoCompaction up to its request for the summary.                   *)
StartAutoCompaction(t, reason, s) ==
  /\ \E id \in FirstKept(s) :
       compacting' = [compacting EXCEPT ![t] = [reason |-> reason, kept |-> id]]
  /\ controller' = "live"

(* Mutant: an overflow is recovered from every time. *)
RecoveryAlways == TRUE
RecoveryAllowed == ~overflowRecoveryAttempted

(* _checkCompaction of message m by t, with transcript tr and branch s;    *)
(* waits says whether a compaction started.  How full the context is stays *)
(* open.                                                                   *)
CheckCompaction(t, m, skipAborted, tr, s, waits) ==
  LET skipped == (skipAborted /\ m.stop = "aborted") \/ m.started < Compactions
  IN  \/ /\ ~waits
         /\ skipped \/ m.stop # "overflow" \/ ~RecoveryAllowed
         /\ transcript' = tr
         /\ UNCHANGED <<overflowRecoveryAttempted, compacting, controller>>
      \/ /\ waits /\ ~skipped /\ m.stop = "overflow" /\ RecoveryAllowed
         /\ overflowRecoveryAttempted' = TRUE
         /\ transcript' = WithoutLastAssistant(tr)
         /\ StartAutoCompaction(t, "overflow", s)
      \/ /\ waits /\ ~skipped /\ m.stop # "overflow" /\ Compactions < MaxCompactions
         /\ transcript' = tr
         /\ StartAutoCompaction(t, "threshold", s)
         /\ UNCHANGED overflowRecoveryAttempted

(* Mutant: the promise is dropped without being resolved. *)
ResumedNever(pending, w) == w

(* Promises that resolve with _resolveRetry; a prompt then waits for idle. *)
Resumed(pending, w) ==
  [c \in Callers |-> IF pending /\ w[c] = "retrying" THEN "settling" ELSE w[c]]
ResolveRetry ==
  /\ retryPending' = FALSE
  /\ call' = Resumed(retryPending, call)

(* The rest of _runAutoCompaction of t, when the summary is there (ok) or  *)
(* the request failed or was aborted.  The controller is shared: whoever   *)
(* ends first takes it from the other.                                     *)
EndAutoCompaction(t, ok) ==
  LET kept == compacting[t].kept
  IN  /\ controller' = "none"
      /\ compacting' = [compacting EXCEPT ![t] = None]
      /\ IF ok
           THEN /\ controller = "live" /\ kept # 0
                /\ saved' = Compacted(kept)
                /\ LET context == Context(Compacted(kept))
                   IN  transcript' = IF /\ compacting[t].reason = "overflow"
                                        /\ IsError(context[Len(context)])
                                     THEN WithoutLastAssistant(context)
                                     ELSE context
                /\ timers' = IF compacting[t].reason = "overflow" \/ steered # <<>>
                             THEN Add(timers, compacting[t].reason) ELSE timers
           ELSE UNCHANGED <<saved, transcript, timers>>

-----------------------------------------------------------------------------
(* _processAgentEvent, one event after another.                            *)
First == events[1].message
Waiting(type) == events # <<>> /\ handler = "ready" /\ events[1].type = type
Processed == events' = Tail(events)

UserStarts ==
  /\ Waiting("message_start")
  /\ Processed
  /\ overflowRecoveryAttempted' = FALSE
  /\ UNCHANGED <<runVars, transcript, handlerVars, connected, saved, lastAssistant, retryAttempt,
                 retryPending, pendingBash, compactionVars, timers, call, made, left, unheard,
                 restarts, failed>>

MessageEnds ==
  /\ Waiting("message_end")
  /\ Processed
  /\ saved' = Append(saved, First)
  /\ IF First.role = "assistant"
       THEN /\ lastAssistant' = First
            /\ overflowRecoveryAttempted' = (overflowRecoveryAttempted /\ IsError(First))
            /\ retryAttempt' = IF IsError(First) THEN retryAttempt ELSE 0
       ELSE UNCHANGED <<lastAssistant, overflowRecoveryAttempted, retryAttempt>>
  /\ UNCHANGED <<runVars, transcript, handlerVars, connected, retryPending, pendingBash,
                 compactionVars, timers, call, made, left, unheard, restarts, failed>>

(* What is left to do with agent_end: the compaction, if there is one.     *)
FinishAgentEnd(m, tr) ==
  \/ CheckCompaction("handler", m, TRUE, tr, saved, FALSE) /\ Processed /\ handler' = "ready"
  \/ CheckCompaction("handler", m, TRUE, tr, saved, TRUE) /\ handler' = "compacting" /\ UNCHANGED events

(* An agent_end without an answer to look at.                              *)
NothingEnded ==
  /\ Waiting("agent_end") /\ lastAssistant = None
  /\ Processed
  /\ UNCHANGED <<runVars, transcript, handlerVars, connected, saved, retryVars, pendingBash,
                 compactionVars, timers, call, made, left, unheard, restarts, failed>>

(* retryAttempt is counted before it is compared with maxRetries.          *)
RetriesLeft == retryAttempt + 1 <= MaxRetries

(* _handleRetryableError: the error is taken from the agent and the handler*)
(* sleeps.                                                                 *)
Retry ==
  /\ Waiting("agent_end") /\ lastAssistant # None
  /\ IsRetryable(lastAssistant) /\ RetriesLeft
  /\ retryPending' = TRUE /\ retryAttempt' = retryAttempt + 1
  /\ transcript' = WithoutLastAssistant(transcript)
  /\ handler' = "sleeping" /\ handled' = lastAssistant /\ lastAssistant' = None
  /\ UNCHANGED <<runVars, events, connected, saved, overflowRecoveryAttempted, pendingBash,
                 compactionVars, timers, call, made, left, unheard, restarts, failed>>

AgentEnds ==
  /\ Waiting("agent_end") /\ lastAssistant # None
  /\ IF IsRetryable(lastAssistant)
       THEN ~RetriesLeft /\ retryAttempt' = 0
       ELSE UNCHANGED retryAttempt
  /\ ResolveRetry
  /\ FinishAgentEnd(lastAssistant, transcript)
  /\ lastAssistant' = None
  /\ UNCHANGED <<runVars, handled, connected, saved, pendingBash, manual, timers, made, left,
                 unheard, restarts, failed>>

(* The delay is over: the retry is a timeout of its own, and the promise   *)
(* stays until its run has ended.                                          *)
WakeUp ==
  /\ handler = "sleeping"
  /\ handler' = "ready" /\ handled' = None /\ Processed
  /\ timers' = Add(timers, "retry")
  /\ UNCHANGED <<runVars, transcript, connected, saved, retryVars, pendingBash, compactionVars,
                 call, made, left, unheard, restarts, failed>>

(* abortRetry has ended the sleep.                                         *)
RetryCancelled ==
  /\ handler = "cancelled"
  /\ retryAttempt' = 0
  /\ ResolveRetry
  /\ FinishAgentEnd(handled, transcript)
  /\ handled' = None
  /\ UNCHANGED <<runVars, connected, saved, lastAssistant, pendingBash, manual, timers, made, left,
                 unheard, restarts, failed>>

HandlerCompacts(ok) ==
  /\ handler = "compacting"
  /\ EndAutoCompaction("handler", ok)
  /\ handler' = "ready" /\ Processed
  /\ UNCHANGED <<runVars, handled, connected, retryVars, pendingBash, manual, call, made, left,
                 unheard, restarts, failed>>

(* agent.continue() of a timeout; what it throws is dropped.               *)
Continue(cause) ==
  /\ Settled
  /\ timers[cause] > 0 /\ timers' = [timers EXCEPT ![cause] = @ - 1]
  /\ LET waiting == transcript # <<>> /\ transcript[Len(transcript)].role = "assistant"
     IN  \/ /\ run # "idle" \/ transcript = <<>> \/ (waiting /\ steered = <<>>)
            /\ UNCHANGED <<runVars, transcript, events, unheard, restarts>>
         \/ /\ run = "idle" /\ waiting /\ steered # <<>>
            /\ StartRun(None, Polled, Unpolled)
         \/ /\ run = "idle" /\ transcript # <<>> /\ ~waiting
            /\ run' = "llm" /\ aborting' = FALSE /\ owner' = None /\ started' = Compactions
            /\ steered' = Unpolled
            /\ Emit(Polled, Starts(Polled) \o Ends(Polled))
            /\ restarts' = IF Polled = <<>> THEN Add(restarts, cause) ELSE Zero
  /\ UNCHANGED <<handlerVars, connected, saved, retryVars, pendingBash, compactionVars, call,
                 made, left, failed>>
-----------------------------------------------------------------------------
(* Callers.                                                                *)
NoCompaction == manual = "idle" /\ \A t \in Threads : compacting[t] = None
NothingDue == timers = Zero /\ handler = "ready"
NoPrompt == \A c \in Callers : call[c] # "ready"
MayAct == Settled /\ (overlap \/ (NoCompaction /\ NothingDue /\ NoPrompt))

(* prompt while the agent streams: _queueSteer.                            *)
Steer ==
  /\ Settled /\ run # "idle"
  /\ Spend("act")
  /\ steered' = Append(steered, Fresh("user", "ok")) /\ made' = made + 1
  /\ UNCHANGED <<run, aborting, owner, started, transcript, events, handlerVars, connected, saved,
                 retryVars, pendingBash, compactionVars, timers, call, unheard, restarts, failed>>

Assistants(s) == {i \in DOMAIN s : s[i].role = "assistant"}
LastAssistantOf(s) == s[CHOOSE i \in Assistants(s) : \A j \in Assistants(s) : j <= i]

(* Mutant: deferred shell results are saved, but not given to the agent. *)
FlushedToFile == transcript
Flushed == transcript \o pendingBash

(* prompt otherwise, up to its first long await: what the shell left goes  *)
(* to the agent and the session, and it may be time to compact.            *)
Prompt(c) ==
  /\ MayAct /\ run = "idle" /\ call[c] = "idle"
  /\ Spend("prompt")
  /\ saved' = saved \o pendingBash /\ pendingBash' = <<>>
  /\ LET tr == Flushed
         check(waits) == CheckCompaction(c, LastAssistantOf(tr), FALSE, tr, saved', waits)
     IN  \/ /\ Assistants(tr) # {} /\ check(TRUE)
            /\ call' = [call EXCEPT ![c] = "compacting"]
         \/ /\ IF Assistants(tr) # {} THEN check(FALSE)
               ELSE /\ transcript' = tr
                    /\ UNCHANGED <<overflowRecoveryAttempted, compacting, controller>>
            /\ call' = [call EXCEPT ![c] = "ready"]
  /\ UNCHANGED <<runVars, events, handlerVars, connected, lastAssistant, retryAttempt,
                 retryPending, manual, timers, made, unheard, restarts, failed>>

PromptCompacts(c, ok) ==
  /\ call[c] = "compacting"
  /\ EndAutoCompaction(c, ok)
  /\ call' = [call EXCEPT ![c] = "ready"]
  /\ UNCHANGED <<runVars, events, handlerVars, connected, retryVars, pendingBash, manual, made,
                 left, unheard, restarts, failed>>

(* agent.prompt, which refuses while a run is active.                      *)
PromptRuns(c) ==
  /\ call[c] = "ready"
  /\ IF run # "idle"
       THEN /\ call' = [call EXCEPT ![c] = "idle"]
            /\ UNCHANGED <<runVars, transcript, events, made, unheard, restarts>>
       ELSE /\ call' = [call EXCEPT ![c] = "running"]
            /\ StartRun(c, <<Fresh("user", "ok")>> \o Polled, Unpolled)
            /\ made' = made + 1
  /\ UNCHANGED <<handlerVars, connected, saved, retryVars, pendingBash, compactionVars, timers,
                 left, failed>>

(* waitForRetry.                                                           *)
AfterRun(c) ==
  /\ call[c] = "ended"
  /\ call' = [call EXCEPT ![c] = IF retryPending THEN "retrying" ELSE "idle"]
  /\ UNCHANGED <<runVars, transcript, events, handlerVars, connected, saved, retryVars,
                 pendingBash, compactionVars, timers, made, left, unheard, restarts, failed>>

BecomesIdle(c) ==
  /\ call[c] = "settling" /\ run = "idle"
  /\ call' = [call EXCEPT ![c] = "idle"]
  /\ UNCHANGED <<runVars, transcript, events, handlerVars, connected, saved, retryVars,
                 pendingBash, compactionVars, timers, made, left, unheard, restarts, failed>>

(* Mutant: a shell result is never deferred. *)
DeferredNever == FALSE
Deferred == run # "idle"

(* recordBashResult; a run keeps it waiting.                               *)
RecordBashResult ==
  /\ Settled
  /\ Spend("act")
  /\ made' = made + 1
  /\ IF Deferred
       THEN /\ pendingBash' = Append(pendingBash, Fresh("bash", "ok"))
            /\ UNCHANGED <<transcript, saved>>
       ELSE /\ transcript' = Append(transcript, Fresh("bash", "ok"))
            /\ saved' = Append(saved, Fresh("bash", "ok"))
            /\ UNCHANGED pendingBash
  /\ UNCHANGED <<runVars, events, handlerVars, connected, retryVars, compactionVars, timers,
                 call, unheard, restarts, failed>>

(* abortRetry and agent.abort.                                             *)
AbortAll ==
  /\ handler' = IF handler = "sleeping" THEN "cancelled" ELSE handler
  /\ ResolveRetry
  /\ aborting' = (run # "idle")

Abort ==
  /\ Settled
  /\ run # "idle" \/ handler = "sleeping" \/ timers # Zero
  /\ Spend("act")
  /\ AbortAll
  /\ UNCHANGED <<run, owner, started, steered, transcript, events, handled, connected, saved,
                 lastAssistant, retryAttempt, overflowRecoveryAttempted, pendingBash,
                 compactionVars, timers, made, unheard, restarts, failed>>

(* compact: the session stops listening before it aborts the run.          *)
Compact ==
  /\ MayAct /\ manual = "idle"
  /\ Spend("act")
  /\ connected' = FALSE /\ manual' = "aborting"
  /\ AbortAll
  /\ UNCHANGED <<run, owner, started, steered, transcript, events, handled, saved, lastAssistant,
                 retryAttempt, overflowRecoveryAttempted, pendingBash, compacting, controller,
                 timers, made, unheard, restarts, failed>>

CompactStarts ==
  /\ manual = "aborting" /\ run = "idle"
  /\ manual' = "summarising"
  /\ \E id \in FirstKept(saved) :
       compacting' = [compacting EXCEPT !["manual"] = [reason |-> "manual", kept |-> id]]
  /\ UNCHANGED <<runVars, transcript, events, handlerVars, connected, saved, retryVars,
                 pendingBash, controller, timers, call, made, left, unheard, restarts, failed>>

CompactEnds(ok) ==
  /\ manual = "summarising"
  /\ manual' = "idle" /\ connected' = TRUE
  /\ LET kept == compacting["manual"].kept
     IN  IF ok
           THEN /\ kept # 0
                /\ saved' = Compacted(kept)
                /\ transcript' = Context(Compacted(kept))
           ELSE UNCHANGED <<saved, transcript>>
  /\ compacting' = [compacting EXCEPT !["manual"] = None]
  /\ UNCHANGED <<runVars, events, handlerVars, retryVars, pendingBash, controller, timers, call,
                 made, left, unheard, restarts, failed>>

(* abortCompaction.                                                        *)
AbortCompaction ==
  /\ controller = "live" /\ Spend("act")
  /\ controller' = "aborted"
  /\ UNCHANGED <<runVars, transcript, events, handlerVars, connected, saved, retryVars,
                 pendingBash, compacting, manual, timers, call, made, unheard, restarts, failed>>
-----------------------------------------------------------------------------
RunStep ==
  \/ \E stop \in Stops, calls \in BOOLEAN : Answer(stop, calls)
  \/ ToolEnds \/ RunFails

HandlerStep ==
  \/ UserStarts \/ MessageEnds \/ NothingEnded \/ Retry \/ AgentEnds
  \/ WakeUp \/ RetryCancelled
  \/ \E ok \in BOOLEAN : HandlerCompacts(ok)

CallStep(c) ==
  \/ \E ok \in BOOLEAN : PromptCompacts(c, ok)
  \/ PromptRuns(c) \/ AfterRun(c) \/ BecomesIdle(c)

ManualStep ==
  \/ CompactStarts
  \/ \E ok \in BOOLEAN : CompactEnds(ok)

Step ==
  \/ RunStep \/ HandlerStep \/ ManualStep
  \/ \E cause \in Causes : Continue(cause)
  \/ \E c \in Callers : Prompt(c) \/ CallStep(c)
  \/ Steer \/ RecordBashResult \/ Abort \/ AbortCompaction \/ Compact

Next == Step /\ UNCHANGED surroundings

Spec == Init /\ [][Next]_vars

(* Answers, tools, summaries and sleeps end; continuations and timeouts    *)
(* run.                                                                    *)
Fairness ==
  /\ WF_progress(RunStep) /\ WF_progress(HandlerStep) /\ WF_progress(\E cause \in Causes : Continue(cause)) /\ WF_progress(ManualStep)
  /\ \A c \in Callers : WF_progress(CallStep(c))
FairSpec == Spec /\ Fairness
-----------------------------------------------------------------------------
MessagesUpTo(n) ==
  [id : 0..n, role : {"user", "assistant", "tool", "bash", "summary", "compaction"},
   stop : Stops, started : 0..Len(saved)]
AllIn(s, S) == \A i \in DOMAIN s : s[i] \in S

(* Every variable has the type its declaration names.                      *)
TypeOK ==
  /\ run \in {"idle", "llm", "tool"} /\ aborting \in BOOLEAN /\ owner \in Callers \cup {None}
  /\ started \in 0..Len(saved)
  /\ \A s \in {transcript, steered, saved, pendingBash} : AllIn(s, MessagesUpTo(made))
  /\ \A i \in DOMAIN events :
       /\ events[i].type \in {"message_start", "message_end", "agent_end"}
       /\ events[i].message \in MessagesUpTo(made)
  /\ handler \in {"ready", "sleeping", "cancelled", "compacting"}
  /\ \A m \in {handled, lastAssistant} : m = None \/ m.role = "assistant"
  /\ {connected, retryPending, overflowRecoveryAttempted, failed, overlap, slowHandlers} \subseteq BOOLEAN
  /\ retryAttempt \in 0..MaxRetries /\ made \in Nat
  /\ {timers, restarts} \subseteq [Causes -> Nat]
  /\ \A t \in Threads : compacting[t] = None \/ compacting[t].kept \in 0..made
  /\ controller \in {"none", "live", "aborted"}
  /\ call \in [Callers -> {"idle", "compacting", "ready", "running", "ended", "retrying", "settling"}]
  /\ manual \in {"idle", "aborting", "summarising"}
  /\ left \in [Kinds -> Nat] /\ unheard \subseteq 1..made

(* The messages of s but for errors, which the session takes back, and what*)
(* it did not hear of.                                                     *)
Kept(s) == SelectSeq(s, LAMBDA m : ~IsError(m) /\ m.id \notin unheard)

(* Callers wait for the session, and events are handled at once.          *)
Undisturbed == ~overlap /\ ~slowHandlers

AtRest == run = "idle" /\ events = <<>> /\ handler = "ready" /\ NoCompaction

(* When the session is at rest, loading its file gives the messages the    *)
(* agent has, in their order, whatever was retried, recovered, compacted   *)
(* or deferred (automatic session persistence in _processAgentEvent), in   *)
(* the sessions of ResultsFollowCalls.                                     *)
ReloadAgrees == AtRest /\ Undisturbed => Kept(transcript) = Kept(Context(saved))

(* "defer adding to avoid breaking tool_use/tool_result ordering": in the  *)
(* session no shell result, prompt or compaction stands between a call and *)
(* its result (recordBashResult, _processAgentEvent).                      *)
ResultsAlwaysFollowCalls ==
  \A i \in DOMAIN saved :
    saved[i].role = "tool" => i > 1 /\ saved[i - 1].role = "assistant"

(* The same of sessions whose callers wait and whose events are handled at *)
(* once (recordBashResult, _processAgentEvent).                            *)
ResultsFollowCalls == Undisturbed => ResultsAlwaysFollowCalls

(* A step takes messages from the agent that are neither errors to be made *)
(* up for nor covered by a compaction that has them on its branch.         *)
Dropped(m) ==
  /\ m.id \notin IdsOf(transcript') /\ m.role # "summary"
  /\ m.stop \notin {"retryable", "overflow"}
  /\ ~(Compactions' > Compactions /\ m.id \in IdsOf(saved))

(* The agent no longer has the answer the handler of agent_end is about.   *)
AnswerGone == \E m \in {lastAssistant, handled} : m # None /\ m.id \notin IdsOf(transcript)

(* Retries and recoveries find the error by its place (messages.slice(0,   *)
(* -1)) and a compaction replaces the whole transcript.  They drop nothing *)
(* the session has heard of while callers wait for them and events are     *)
(* handled at once; else only what the queue still holds, or an answer in  *)
(* place of one that was dropped before.                                   *)
NothingForgotten ==
  [][\A i \in DOMAIN transcript : Dropped(transcript[i]) =>
       \/ transcript[i].id \in unheard
       \/ ~Undisturbed /\ (transcript[i].id \in Queued(events) \/ AnswerGone)]_vars

(* "keep in session for history" of an error only: nothing else leaves the *)
(* agent but what a compaction covers.                                     *)
MessagesStay == [][\A i \in DOMAIN transcript : ~Dropped(transcript[i])]_vars

(* The types hold, and in the sessions of ResultsFollowCalls an erring     *)
(* agent is restarted at most maxRetries times for retries and once for an *)
(* overflow, then no more (_retryAttempt, _overflowRecoveryAttempted).     *)
RestartsBounded ==
  TypeOK /\ (Undisturbed => restarts.retry <= MaxRetries /\ restarts.overflow <= 1)

(* prompt returns: the retry it waits for ends or is given up.  Stated of  *)
(* undisturbed sessions none of whose runs a callback made fail.           *)
PromptReturns ==
  \A c \in Callers : call[c] # "idle" ~> call[c] = "idle" \/ failed \/ ~Undisturbed

(* "Wait for any in-progress retry to complete": prompt returns in every   *)
(* session (waitForRetry).                                                 *)
PromptAlwaysReturns == \A c \in Callers : call[c] # "idle" ~> call[c] = "idle"
=============================================================================
