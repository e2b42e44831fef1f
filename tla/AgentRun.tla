------------------------------ MODULE AgentRun ------------------------------
(***************************************************************************)
(* A run of the agent: class Agent (packages/agent/src/agent.ts) and the   *)
(* loop it drives (packages/agent/src/agent-loop.ts).                      *)
(*                                                                         *)
(* The loop is one async function; pc names the await it stands at, and    *)
(* between two awaits the callers of Agent may steer, queue a follow-up,   *)
(* abort or clear.  The loop works on its own copy of the transcript       *)
(* (context), and Agent rebuilds its own (transcript) from the events the  *)
(* loop emits.  A batch of tool calls runs one after another or in         *)
(* parallel.                                                               *)
(***************************************************************************)
EXTENDS Integers, Sequences, FiniteSets

CONSTANTS
  SteeringMode, FollowUpMode,  \* "all" or "one-at-a-time"
  ListenerThrows,  \* some subscriber of the events throws
  CallbackThrows,  \* transformContext, convertToLlm, getApiKey or streamFn throws
  ProviderFails,   \* the provider ends a stream with an error
  MaxMsgs,         \* bound: messages prompted, steered or queued in all
  MaxCalls,        \* bound: tool calls of an assistant message
  MaxBatches,      \* bound: assistant messages whose tool calls run
  MaxRuns          \* bound: runs started

QueueModes == {"all", "one-at-a-time"}

ASSUME Modes == SteeringMode \in QueueModes /\ FollowUpMode \in QueueModes
ASSUME Switches == {ListenerThrows, CallbackThrows, ProviderFails} \subseteq BOOLEAN
ASSUME Bounds == {MaxMsgs, MaxCalls, MaxBatches, MaxRuns} \subseteq Nat

VARIABLES
  activeRun,         \* a run is active (also state.isStreaming)
  aborted,           \* its abort signal has fired
  pc,                \* the await the loop stands at
  transcript,        \* _state.messages
  context,           \* currentContext.messages of the loop
  prompts,           \* prompts of the run not yet emitted
  pendingMessages,   \* drained from a queue, to inject before the next response
  skipInitialSteeringPoll,
  hasMoreToolCalls,
  steeringQueue, followUpQueue,
  batch,             \* the tool calls of the current assistant message
  pendingToolCalls,  \* _state.pendingToolCalls
  zombies,           \* tool calls still executing for a run that has failed
  turns, batches, runs,  \* counters: assistant messages, batches and runs so far
  sent, dropped      \* messages handed to the agent; those its caller cleared

conversation == <<transcript, context>>
queues == <<steeringQueue, followUpQueue>>
loopVars == <<prompts, pendingMessages, skipInitialSteeringPoll, hasMoreToolCalls>>
toolVars == <<batch, pendingToolCalls, zombies>>
counters == <<turns, batches, runs>>
ghosts == <<sent, dropped>>
vars == <<activeRun, aborted, pc, conversation, loopVars, queues, toolVars, counters, ghosts>>

Stops == {"partial", "stop", "error", "aborted"}
User(m, via) == [role |-> "user", id |-> m, via |-> via]
Assistant(stop, n) == [role |-> "assistant", turn |-> turns + 1, stop |-> stop, calls |-> n]
ToolResult(c) == [role |-> "toolResult", call |-> c]

CallIds == [turn : Nat, index : Nat]
Call(i) == [turn |-> turns, index |-> i]
UserMessages == [role : {"user"}, id : Nat, via : {"prompt", "steer", "followUp"}]
AssistantMessages == [role : {"assistant"}, turn : Nat, stop : Stops, calls : Nat]
ToolResults == [role : {"toolResult"}, call : CallIds]
Messages == UserMessages \cup AssistantMessages \cup ToolResults

CallStates == {"new", "prepared", "ended"}
NoBatch == [mode |-> "parallel", status |-> <<>>, terminate |-> <<>>, messages |-> <<>>]
Calls == DOMAIN batch.status

KeptNothing(queue, mode) == <<>>
\* What a poll of a queue takes from it, and what it leaves.
Drained(queue, mode) ==
  IF mode = "all" \/ queue = <<>> THEN queue ELSE <<Head(queue)>>
Kept(queue, mode) ==
  IF mode = "all" \/ queue = <<>> THEN <<>> ELSE Tail(queue)

Init ==
  /\ activeRun = FALSE /\ aborted = FALSE /\ pc = "idle"
  /\ transcript = <<>> /\ context = <<>>
  /\ prompts = <<>> /\ pendingMessages = <<>>
  /\ skipInitialSteeringPoll = FALSE /\ hasMoreToolCalls = FALSE
  /\ steeringQueue = <<>> /\ followUpQueue = <<>>
  /\ batch = NoBatch /\ pendingToolCalls = {} /\ zombies = {}
  /\ turns = 0 /\ batches = 0 /\ runs = 0
  /\ sent = 0 /\ dropped = {}

-----------------------------------------------------------------------------
(* What the callers of Agent do, at any of the awaits of a run.            *)

Send(n) == sent + n <= MaxMsgs /\ sent' = sent + n

SteerFirst ==
  /\ Send(1)
  /\ steeringQueue' = <<User(sent', "steer")>> \o steeringQueue
  /\ UNCHANGED <<activeRun, aborted, pc, conversation, loopVars, followUpQueue, toolVars,
                 counters, dropped>>

Steer ==
  /\ Send(1)
  /\ steeringQueue' = Append(steeringQueue, User(sent', "steer"))
  /\ UNCHANGED <<activeRun, aborted, pc, conversation, loopVars, followUpQueue, toolVars,
                 counters, dropped>>

FollowUp ==
  /\ Send(1)
  /\ followUpQueue' = Append(followUpQueue, User(sent', "followUp"))
  /\ UNCHANGED <<activeRun, aborted, pc, conversation, loopVars, steeringQueue, toolVars,
                 counters, dropped>>

IdsIn(s) == {s[i].id : i \in {j \in DOMAIN s : s[j].role = "user"}}

ClearAllQueues ==
  /\ queues # <<<<>>, <<>>>>
  /\ steeringQueue' = <<>> /\ followUpQueue' = <<>>
  /\ dropped' = dropped \cup IdsIn(steeringQueue) \cup IdsIn(followUpQueue)
  /\ UNCHANGED <<activeRun, aborted, pc, conversation, loopVars, toolVars, counters, sent>>

AbortRun ==
  /\ activeRun /\ ~aborted
  /\ aborted' = TRUE
  /\ UNCHANGED <<activeRun, pc, conversation, loopVars, queues, toolVars, counters, ghosts>>

Reset ==
  /\ transcript # <<>> \/ queues # <<<<>>, <<>>>>
  /\ transcript' = <<>> /\ pendingToolCalls' = {}
  /\ steeringQueue' = <<>> /\ followUpQueue' = <<>>
  /\ dropped' = dropped \cup IdsIn(transcript) \cup IdsIn(steeringQueue) \cup IdsIn(followUpQueue)
  /\ UNCHANGED <<activeRun, aborted, pc, context, loopVars, batch, zombies, counters, sent>>

\* runWithLifecycle: a run starts with the messages ps to emit.
StartRun(ps, skip) ==
  /\ ~activeRun /\ runs < MaxRuns
  /\ activeRun' = TRUE /\ aborted' = FALSE /\ runs' = runs + 1
  /\ context' = transcript \o ps /\ prompts' = ps
  /\ pc' = IF ps = <<>> THEN "poll" ELSE "prompts"
  /\ skipInitialSteeringPoll' = skip
  /\ pendingMessages' = <<>> /\ hasMoreToolCalls' = TRUE
  /\ UNCHANGED <<transcript, toolVars, turns, batches>>

Prompt(n) ==
  /\ Send(n)
  /\ StartRun([i \in 1..n |-> User(sent + i, "prompt")], FALSE)
  /\ UNCHANGED <<queues, dropped>>

Last(s) == s[Len(s)]
EndsWithAssistant(s) == s # <<>> /\ Last(s).role = "assistant"

\* Agent.continue: from an assistant message only with a queued message.
ContinueQueued ==
  /\ EndsWithAssistant(transcript)
  /\ IF steeringQueue # <<>>
        THEN /\ StartRun(Drained(steeringQueue, SteeringMode), TRUE)
             /\ steeringQueue' = Kept(steeringQueue, SteeringMode)
             /\ UNCHANGED followUpQueue
        ELSE /\ followUpQueue # <<>>
             /\ StartRun(Drained(followUpQueue, FollowUpMode), FALSE)
             /\ followUpQueue' = Kept(followUpQueue, FollowUpMode)
             /\ UNCHANGED steeringQueue
  /\ UNCHANGED ghosts

ContinueTranscript ==
  /\ transcript # <<>> /\ ~EndsWithAssistant(transcript)
  /\ StartRun(<<>>, FALSE)
  /\ UNCHANGED <<queues, ghosts>>

\* The session drops a failed answer before it retries (agent-session-impl).
DropFailedMessage ==
  /\ pc \in {"idle", "failed", "end"}
  /\ EndsWithAssistant(transcript) /\ Last(transcript).stop = "error"
  /\ transcript' = SubSeq(transcript, 1, Len(transcript) - 1)
  /\ UNCHANGED <<activeRun, aborted, pc, context, loopVars, queues, toolVars, counters, ghosts>>

-----------------------------------------------------------------------------
(* The loop up to the assistant message.                                   *)

EmitPrompt ==
  /\ pc = "prompts"
  /\ transcript' = Append(transcript, Head(prompts))
  /\ prompts' = Tail(prompts)
  /\ pc' = IF prompts' = <<>> THEN "poll" ELSE "prompts"
  /\ UNCHANGED <<activeRun, aborted, context, pendingMessages, skipInitialSteeringPoll,
                 hasMoreToolCalls, queues, toolVars, counters, ghosts>>

\* getSteeringMessages at the start of a run, then after every turn.
PollSteering(otherwise) ==
  /\ skipInitialSteeringPoll' = FALSE
  /\ IF skipInitialSteeringPoll
        THEN pendingMessages' = <<>> /\ UNCHANGED steeringQueue
        ELSE /\ pendingMessages' = Drained(steeringQueue, SteeringMode)
             /\ steeringQueue' = Kept(steeringQueue, SteeringMode)
  /\ pc' = IF pendingMessages' # <<>> THEN "inject" ELSE otherwise
  /\ UNCHANGED <<activeRun, aborted, conversation, prompts, hasMoreToolCalls, followUpQueue,
                 toolVars, counters, ghosts>>

InitialPoll == pc = "poll" /\ PollSteering("call")

InjectPending ==
  /\ pc = "inject"
  /\ transcript' = Append(transcript, Head(pendingMessages))
  /\ context' = Append(context, Head(pendingMessages))
  /\ pendingMessages' = Tail(pendingMessages)
  /\ pc' = IF pendingMessages' = <<>> THEN "call" ELSE "inject"
  /\ UNCHANGED <<activeRun, aborted, prompts, skipInitialSteeringPoll, hasMoreToolCalls,
                 queues, toolVars, counters, ghosts>>

\* streamAssistantResponse: the stream's first event, when it is "start".
StreamStart ==
  /\ pc = "call"
  /\ context' = Append(context, Assistant("partial", 0))
  /\ pc' = "partial"
  /\ UNCHANGED <<activeRun, aborted, transcript, loopVars, queues, toolVars, counters, ghosts>>

WithFinalAppended(a) == Append(context, a)
\* The final message takes the place of the partial one, if there was one.
WithFinal(a) ==
  IF pc = "partial" THEN [context EXCEPT ![Len(context)] = a] ELSE Append(context, a)

MayStop(stop) ==
  \/ stop = "stop"
  \/ stop = "error" /\ ProviderFails
  \/ stop = "aborted" /\ aborted

\* toolExecution, or a tool of the message that must run sequentially.
FinalMessage(stop, n, mode) ==
  /\ pc \in {"call", "partial"}
  /\ MayStop(stop)
  /\ context' = WithFinal(Assistant(stop, n))
  /\ transcript' = Append(transcript, Assistant(stop, n))
  /\ turns' = turns + 1
  /\ hasMoreToolCalls' = FALSE
  /\ IF stop = "stop" /\ n > 0
        THEN /\ batches < MaxBatches /\ batches' = batches + 1
             /\ pc' = "tools"
             /\ batch' = [mode |-> mode, status |-> [i \in 1..n |-> "new"],
                          terminate |-> [i \in 1..n |-> FALSE], messages |-> <<>>]
        ELSE /\ pc' = IF stop = "stop" THEN "turnEnd" ELSE "end"
             /\ mode = "parallel" /\ UNCHANGED <<batches, batch>>
  /\ UNCHANGED <<activeRun, aborted, prompts, pendingMessages, skipInitialSteeringPoll,
                 queues, pendingToolCalls, zombies, runs, ghosts>>

-----------------------------------------------------------------------------
(* The tool calls of an assistant message.                                 *)

Sequential == batch.mode = "sequential"
Executing(i) ==
  /\ batch.status[i] = "prepared"
  /\ Sequential \/ \A j \in Calls : batch.status[j] # "new"

\* Calls start in order; a call that is refused ends at once with an error result.
StartCall(i, refused) ==
  /\ pc = "tools" /\ batch.status[i] = "new"
  /\ \A j \in 1..(i - 1) : batch.status[j] # "new"
  /\ Sequential => Len(batch.messages) = i - 1
  /\ batch' = [batch EXCEPT !.status[i] = IF refused THEN "ended" ELSE "prepared"]
  /\ pendingToolCalls' = IF refused THEN pendingToolCalls ELSE pendingToolCalls \cup {Call(i)}
  /\ UNCHANGED <<activeRun, aborted, pc, conversation, loopVars, queues, zombies, counters, ghosts>>

FinishCall(i, terminate) ==
  /\ pc = "tools" /\ Executing(i)
  /\ batch' = [batch EXCEPT !.status[i] = "ended", !.terminate[i] = terminate]
  /\ pendingToolCalls' = pendingToolCalls \ {Call(i)}
  /\ UNCHANGED <<activeRun, aborted, pc, conversation, loopVars, queues, zombies, counters, ghosts>>

\* The call whose result message is emitted next.
DueOnCompletion(i) ==
  /\ batch.status[i] = "ended"
  /\ \A k \in DOMAIN batch.messages : batch.messages[k].call # Call(i)
Due(i) ==
  /\ i = Len(batch.messages) + 1
  /\ IF Sequential THEN batch.status[i] = "ended"
                   ELSE \A j \in Calls : batch.status[j] = "ended"

EmitResult(i) ==
  /\ pc = "tools" /\ Due(i)
  /\ transcript' = Append(transcript, ToolResult(Call(i)))
  /\ batch' = [batch EXCEPT !.messages = Append(@, ToolResult(Call(i)))]
  /\ UNCHANGED <<activeRun, aborted, pc, context, loopVars, queues, pendingToolCalls, zombies,
                 counters, ghosts>>

shouldTerminateToolBatch == \A i \in Calls : batch.terminate[i]

EndBatch ==
  /\ pc = "tools" /\ Len(batch.messages) = Len(batch.status)
  /\ context' = context \o batch.messages
  /\ hasMoreToolCalls' = ~shouldTerminateToolBatch
  /\ batch' = NoBatch
  /\ pc' = "turnEnd"
  /\ UNCHANGED <<activeRun, aborted, transcript, prompts, pendingMessages,
                 skipInitialSteeringPoll, queues, pendingToolCalls, zombies, counters, ghosts>>

-----------------------------------------------------------------------------
(* The end of a turn and of the run.                                       *)

TurnEnd == pc = "turnEnd" /\ PollSteering(IF hasMoreToolCalls THEN "call" ELSE "followUp")

FollowUpsWithoutContinue ==
  /\ pc = "followUp"
  /\ pendingMessages' = Drained(followUpQueue, FollowUpMode)
  /\ followUpQueue' = Kept(followUpQueue, FollowUpMode)
  /\ pc' = "end"
  /\ UNCHANGED <<activeRun, aborted, conversation, prompts, skipInitialSteeringPoll,
                 hasMoreToolCalls, steeringQueue, toolVars, counters, ghosts>>

FollowUps ==
  /\ pc = "followUp"
  /\ pendingMessages' = Drained(followUpQueue, FollowUpMode)
  /\ followUpQueue' = Kept(followUpQueue, FollowUpMode)
  /\ pc' = IF pendingMessages' # <<>> THEN "inject" ELSE "end"
  /\ UNCHANGED <<activeRun, aborted, conversation, prompts, skipInitialSteeringPoll,
                 hasMoreToolCalls, steeringQueue, toolVars, counters, ghosts>>

FinishRunKeepsActive ==
  /\ pc \in {"end", "failed"}
  /\ pc' = "idle" /\ pendingToolCalls' = {}
  /\ UNCHANGED <<activeRun, aborted, conversation, loopVars, queues, batch, zombies, counters,
                 ghosts>>

\* agent_end is emitted, its listeners return (or throw a second time), finishRun.
FinishRun ==
  /\ pc \in {"end", "failed"}
  /\ activeRun' = FALSE /\ pc' = "idle" /\ pendingToolCalls' = {}
  /\ UNCHANGED <<aborted, conversation, loopVars, queues, batch, zombies, counters, ghosts>>

\* handleRunFailure: t is the transcript the failed emit leaves, left the
\* calls of the batch that nobody awaits any more.
handleRunFailure(t, left) ==
  /\ transcript' = Append(t, Assistant(IF aborted THEN "aborted" ELSE "error", 0))
  /\ turns' = turns + 1
  /\ pc' = "failed"
  /\ zombies' = zombies \cup left
  /\ batch' = NoBatch /\ prompts' = <<>> /\ pendingMessages' = <<>>
  /\ UNCHANGED <<activeRun, aborted, context, skipInitialSteeringPoll, hasMoreToolCalls, queues,
                 batches, runs, ghosts>>

CallFails ==
  /\ CallbackThrows /\ pc = "call"
  /\ handleRunFailure(transcript, {})
  /\ UNCHANGED pendingToolCalls

\* The message whose message_end is about to be emitted.
BeingEmitted ==
  CASE pc = "prompts" -> {Head(prompts)}
    [] pc = "inject" -> {Head(pendingMessages)}
    [] pc \in {"call", "partial"} -> {Assistant("stop", n) : n \in 0..MaxCalls}
    [] pc = "tools" -> {ToolResult(Call(i)) : i \in {j \in Calls : Due(j)}}
    [] OTHER -> {}

\* A listener throws: processEvents has reduced the event already, or it was
\* one that adds no message.
EmitFails ==
  /\ ListenerThrows /\ pc \notin {"idle", "failed", "followUp"}
  /\ \A i \in Calls : ~Executing(i)
  /\ \E t \in {transcript} \cup {Append(transcript, m) : m \in BeingEmitted} :
       handleRunFailure(t, {})
  /\ UNCHANGED pendingToolCalls

\* A listener throws at an event of executing call i: Promise.all rejects and
\* the other calls of a parallel batch go on executing.
ToolEmitFails(i, ended) ==
  /\ ListenerThrows /\ pc = "tools" /\ Executing(i)
  /\ handleRunFailure(transcript, {Call(j) : j \in {k \in Calls \ {i} : Executing(k)}})
  /\ pendingToolCalls' = IF ended THEN pendingToolCalls \ {Call(i)} ELSE pendingToolCalls

\* Its tool_execution_end still reduces the state; the emit's failure is swallowed.
ZombieEnds(c) ==
  /\ c \in zombies
  /\ zombies' = zombies \ {c}
  /\ pendingToolCalls' = pendingToolCalls \ {c}
  /\ UNCHANGED <<activeRun, aborted, pc, conversation, loopVars, queues, batch, counters, ghosts>>

-----------------------------------------------------------------------------
Turn ==
  \/ EmitPrompt \/ InitialPoll \/ InjectPending \/ StreamStart
  \/ \E stop \in Stops, n \in 0..MaxCalls, mode \in {"sequential", "parallel"} :
       FinalMessage(stop, n, mode)

Tools ==
  \/ \E i \in Calls, refused \in BOOLEAN : StartCall(i, refused)
  \/ \E i \in Calls, terminate \in BOOLEAN : FinishCall(i, terminate)
  \/ \E i \in Calls : EmitResult(i)
  \/ EndBatch

Ending == TurnEnd \/ FollowUps \/ FinishRun

Failing ==
  \/ CallFails \/ EmitFails
  \/ \E i \in Calls, ended \in BOOLEAN : ToolEmitFails(i, ended)

Loop == Turn \/ Tools \/ Ending

\* Nothing in the repository resets an agent that is running.
Callers ==
  \/ Steer \/ FollowUp \/ ClearAllQueues \/ AbortRun \/ (~activeRun /\ Reset)
  \/ \E n \in 1..2 : Prompt(n)
  \/ ContinueQueued \/ ContinueTranscript \/ DropFailedMessage

Next == Callers \/ Loop \/ Failing \/ \E c \in zombies : ZombieEnds(c)

Spec == Init /\ [][Next]_vars

\* The loop runs, providers answer and tools return.
FairSpec == Spec /\ WF_vars(Loop) /\ WF_vars(\E c \in zombies : ZombieEnds(c))

-----------------------------------------------------------------------------
Control ==
  /\ activeRun \in BOOLEAN /\ aborted \in BOOLEAN
  /\ skipInitialSteeringPoll \in BOOLEAN /\ hasMoreToolCalls \in BOOLEAN
  /\ pc \in {"idle", "prompts", "poll", "inject", "call", "partial", "tools", "turnEnd",
             "followUp", "end", "failed"}
  /\ activeRun = FALSE <=> pc = "idle"
Conversations ==
  /\ transcript \in Seq(Messages) /\ context \in Seq(Messages)
  /\ prompts \in Seq(UserMessages) /\ pendingMessages \in Seq(UserMessages)
  /\ steeringQueue \in Seq(UserMessages) /\ followUpQueue \in Seq(UserMessages)
ToolCalls ==
  /\ batch \in [mode : {"sequential", "parallel"}, status : Seq(CallStates),
               terminate : Seq(BOOLEAN), messages : Seq(ToolResults)]
  /\ Len(batch.terminate) = Len(batch.status)
  /\ pendingToolCalls \subseteq CallIds /\ zombies \subseteq CallIds
Counters == {turns, batches, runs, sent} \subseteq Nat /\ dropped \subseteq Nat

\* Every variable has its type, and a run is active while the loop is at an await.
TypeOK == Control /\ Conversations /\ ToolCalls /\ Counters

\* When the model is called, the loop's own copy of the conversation is the
\* transcript Agent rebuilt from the events: neither has a message, or an
\* order of messages, the other lacks (runLoop, processEvents).
ContextIsTranscript == pc = "call" => context = transcript

\* The model is never called before every tool call of every answer it gave
\* has exactly one result, in the order of the calls, right after the answer,
\* in whatever order the calls of a parallel batch completed.
AnsweredInOrder ==
  pc = "call" =>
    \A k \in DOMAIN context :
      LET a == context[k] IN
        a.role = "assistant" /\ a.stop = "stop" =>
          /\ \A i \in 1..a.calls :
               k + i \in DOMAIN context
               /\ context[k + i] = ToolResult([turn |-> a.turn, index |-> i])
          /\ k + a.calls + 1 \in DOMAIN context =>
               context[k + a.calls + 1].role # "toolResult"

\* A message given to the agent is in exactly one place, once, until its
\* caller clears it: a queue, a poll's result not yet injected, or the
\* transcript.  No poll, abort, error or retry loses or repeats one.
\* (A listener that throws at its message_start does lose it: the property
\* is checked with listeners that do not.)
Places == <<transcript, prompts, pendingMessages, steeringQueue, followUpQueue>>
Holding(s, m) == {k \in DOMAIN s : s[k].role = "user" /\ s[k].id = m}
NothingLostOrRepeated ==
  \A m \in (1..sent) \ dropped :
    Cardinality(UNION {{p} \X Holding(Places[p], m) : p \in DOMAIN Places}) = 1

\* Steering messages are delivered in the order they were queued, and so are
\* follow-ups, across the polls, the runs and continue() that deliver them.
From(m, via) == m.role = "user" /\ m.via = via
InOrder(s, via) ==
  \A i, j \in DOMAIN s : i < j /\ From(s[i], via) /\ From(s[j], via) => s[i].id < s[j].id
QueuesAreFifo ==
  LET taken == transcript \o prompts \o pendingMessages
  IN  InOrder(taken \o steeringQueue, "steer") /\ InOrder(taken \o followUpQueue, "followUp")

\* waitForIdle: "Resolve when the current run and all awaited event listeners
\* have finished" (agent.ts:293): no tool of a run executes once it is over.
IdleMeansQuiet == ~activeRun => zombies = {} /\ pendingToolCalls = {}

\* A run that is not aborted and does not fail delivers what is queued before
\* the last poll of its queue: what steer() and followUp() queued by then gets
\* into the transcript unless it is cleared (runLoop's outer loop).
Failed == /\ pc \in {"end", "failed"}
          /\ EndsWithAssistant(transcript) /\ Last(transcript).stop # "stop"
QueuedWorkRuns ==
  \A m \in 1..MaxMsgs :
    /\ (m \in IdsIn(steeringQueue) /\ pc \notin {"idle", "followUp", "end", "failed"})
         ~> (m \in IdsIn(transcript) \cup dropped \/ aborted \/ Failed)
    /\ (m \in IdsIn(followUpQueue) /\ pc \notin {"idle", "end", "failed"})
         ~> (m \in IdsIn(transcript) \cup dropped \/ aborted \/ Failed)

\* Every run ends: prompt() and waitForIdle() resolve, after an abort, an
\* error, a failed callback or a tool batch in either mode.
RunSettles == activeRun ~> ~activeRun
=============================================================================
