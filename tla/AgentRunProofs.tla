--------------------------- MODULE AgentRunProofs ---------------------------
(* Proofs about AgentRun and ProviderContext, for any number of messages,  *)
(* runs, tool calls and batches: types, the loop's copy of the             *)
(* conversation, its queues, the answers to calls and what providers get.  *)
EXTENDS ProviderContext, TLAPS, SequenceTheorems, FiniteSetTheorems, WellFoundedInduction

(* Where the loop's copy stands against the transcript at each await.      *)
Sync ==
  /\ pc = "prompts" => prompts # <<>> /\ context = transcript \o prompts
  /\ pc \in {"poll", "inject", "call", "turnEnd", "followUp"} => context = transcript
  /\ pc = "inject" => pendingMessages # <<>>
  /\ pc = "partial" => \E a \in Messages : context = Append(transcript, a)
  /\ pc = "tools" => transcript = context \o batch.messages

IInv == TypeOK /\ Sync
-----------------------------------------------------------------------------
(* The head of t moves to the end of s.                                    *)
LEMMA MoveHead ==
  ASSUME NEW S, NEW s \in Seq(S), NEW t \in Seq(S), t # <<>>
  PROVE  Append(s, Head(t)) \o Tail(t) = s \o t
<1> DEFINE l == Append(s, Head(t)) \o Tail(t)
<1>1. /\ Head(t) \in S /\ Tail(t) \in Seq(S) /\ Len(Tail(t)) = Len(t) - 1
      /\ \A i \in 1..Len(Tail(t)) : Tail(t)[i] = t[i + 1]
  BY HeadTailProperties
<1>2. /\ Append(s, Head(t)) \in Seq(S) /\ Len(Append(s, Head(t))) = Len(s) + 1
      /\ \A i \in 1..Len(s) : Append(s, Head(t))[i] = s[i]
      /\ Append(s, Head(t))[Len(s) + 1] = Head(t)
  BY <1>1, AppendProperties
<1>3. /\ l \in Seq(S) /\ Len(l) = Len(s) + 1 + Len(Tail(t))
      /\ \A i \in 1..(Len(s) + 1 + Len(Tail(t))) :
           l[i] = IF i <= Len(s) + 1 THEN Append(s, Head(t))[i] ELSE Tail(t)[i - (Len(s) + 1)]
  BY <1>1, <1>2, ConcatProperties DEF l
<1>4. /\ s \o t \in Seq(S) /\ Len(s \o t) = Len(s) + Len(t)
      /\ \A i \in 1..(Len(s) + Len(t)) :
           (s \o t)[i] = IF i <= Len(s) THEN s[i] ELSE t[i - Len(s)]
  BY ConcatProperties
<1>5. Len(s) \in Nat /\ Len(t) \in Nat /\ Head(t) = t[1]
  OBVIOUS
<1> HIDE DEF l
<1>6. Len(l) = Len(s \o t)
  BY <1>1, <1>3, <1>4, <1>5
<1>7. ASSUME NEW i \in 1..Len(l) PROVE l[i] = (s \o t)[i]
  <2>1. CASE i <= Len(s)
    BY <1>1, <1>2, <1>3, <1>4, <1>5, <1>6, <2>1
  <2>2. CASE i = Len(s) + 1
    BY <1>1, <1>2, <1>3, <1>4, <1>5, <1>6, <2>2
  <2>3. CASE i > Len(s) + 1
    <3>1. i - (Len(s) + 1) \in 1..Len(Tail(t)) /\ i - Len(s) = i - (Len(s) + 1) + 1
      BY <1>1, <1>3, <1>5, <2>3
    <3>2. l[i] = Tail(t)[i - (Len(s) + 1)]
      BY <1>1, <1>3, <1>5, <2>3, <3>1
    <3>3. (s \o t)[i] = t[i - Len(s)]
      BY <1>1, <1>3, <1>4, <1>5, <2>3, <3>1
    <3> QED BY <1>1, <3>1, <3>2, <3>3
  <2> QED BY <1>1, <1>3, <1>5, <2>1, <2>2, <2>3
<1>8. l = s \o t
  BY <1>3, <1>4, <1>6, <1>7, SeqEqual
<1> QED BY <1>8 DEF l

(* The partial message gives way to the final one.                         *)
LEMMA ReplaceLast ==
  ASSUME NEW S, NEW s \in Seq(S), NEW a \in S, NEW b \in S
  PROVE  [Append(s, a) EXCEPT ![Len(Append(s, a))] = b] = Append(s, b)
<1> DEFINE l == [Append(s, a) EXCEPT ![Len(Append(s, a))] = b]
<1>1. /\ Append(s, a) \in Seq(S) /\ Len(Append(s, a)) = Len(s) + 1
      /\ \A i \in 1..Len(s) : Append(s, a)[i] = s[i]
  BY AppendProperties
<1>2. /\ Append(s, b) \in Seq(S) /\ Len(Append(s, b)) = Len(s) + 1
      /\ \A i \in 1..Len(s) : Append(s, b)[i] = s[i]
      /\ Append(s, b)[Len(s) + 1] = b
  BY AppendProperties
<1>3. Len(Append(s, a)) \in 1..Len(Append(s, a)) /\ Len(s) \in Nat
  BY <1>1
<1>4. /\ l \in Seq(S) /\ Len(l) = Len(s) + 1
      /\ \A j \in 1..(Len(s) + 1) : l[j] = IF j = Len(s) + 1 THEN b ELSE Append(s, a)[j]
  <2> DEFINE q == Append(s, a)
             n == Len(q)
  <2>1. q \in Seq(S) /\ n \in 1..Len(q) /\ n = Len(s) + 1
    BY <1>1, <1>3
  <2> HIDE DEF q, n
  <2>2. /\ [q EXCEPT ![n] = b] \in Seq(S) /\ Len([q EXCEPT ![n] = b]) = Len(q)
        /\ \A j \in 1..Len(q) : [q EXCEPT ![n] = b][j] = IF j = n THEN b ELSE q[j]
    BY <2>1, ExceptSeq
  <2>3. Len(q) = n
    BY DEF n
  <2> QED BY <2>1, <2>2, <2>3 DEF l, n, q
<1> HIDE DEF l
<1>5. \A j \in 1..Len(l) : l[j] = Append(s, b)[j]
  BY <1>1, <1>2, <1>3, <1>4
<1>6. l = Append(s, b)
  BY <1>2, <1>4, <1>5, SeqEqual
<1> QED BY <1>6 DEF l

-----------------------------------------------------------------------------
USE Modes, Switches, Bounds

(* What a poll takes and leaves are sequences of the queue's messages.     *)
LEMMA DrainTypes ==
  ASSUME NEW queue \in Seq(UserMessages), NEW mode
  PROVE  Drained(queue, mode) \in Seq(UserMessages) /\ Kept(queue, mode) \in Seq(UserMessages)
<1>1. CASE mode = "all" \/ queue = <<>>
  BY <1>1 DEF Drained, Kept
<1>2. CASE ~(mode = "all" \/ queue = <<>>)
  <2>1. Head(queue) \in UserMessages /\ Tail(queue) \in Seq(UserMessages)
    BY <1>2, HeadTailProperties
  <2> QED BY <1>2, <2>1 DEF Drained, Kept
<1> QED BY <1>1, <1>2

(* A function on an initial segment of the numbers is a sequence.          *)
LEMMA FunctionIsSeq ==
  ASSUME NEW S, NEW n \in Nat, NEW s \in [1..n -> S]
  PROVE  s \in Seq(S) /\ Len(s) = n
<1>1. s \in Seq(S)
  BY SeqDef
<1>2. DOMAIN s = 1..n /\ DOMAIN s = 1..Len(s) /\ Len(s) \in Nat
  BY <1>1, LenProperties
<1> QED BY <1>1, <1>2

(* A user's message and the assistant's are messages.                      *)
LEMMA NewMessages ==
  ASSUME TypeOK
  PROVE  /\ \A m \in Nat, via \in {"prompt", "steer", "followUp"} : User(m, via) \in UserMessages
         /\ \A stop \in Stops, n \in Nat : Assistant(stop, n) \in AssistantMessages
         /\ \A i \in Nat : Call(i) \in CallIds /\ ToolResult(Call(i)) \in ToolResults
  BY DEF TypeOK, Counters, User, Assistant, Call, ToolResult, UserMessages, AssistantMessages, ToolResults,
         CallIds

(* A message that is one of the kinds can join a conversation.             *)
LEMMA GrowConversation ==
  ASSUME NEW s \in Seq(Messages), NEW m \in Messages
  PROVE  Append(s, m) \in Seq(Messages)
  BY AppendProperties

(* Prompts, queues and batches hold messages.                              *)
LEMMA KindsAreMessages ==
  /\ Seq(UserMessages) \subseteq Seq(Messages)
  /\ Seq(ToolResults) \subseteq Seq(Messages)
  BY SeqMonotonic DEF Messages

(* The ids of the user messages of a conversation are numbers.             *)
LEMMA IdsAreNumbers == \A s \in Seq(Messages) : IdsIn(s) \subseteq Nat
<1> SUFFICES ASSUME NEW s \in Seq(Messages), NEW i \in DOMAIN s, s[i].role = "user"
             PROVE  s[i].id \in Nat
  BY DEF IdsIn
<1>1. s[i] \in Messages
  BY ElementOfSeq, LenProperties
<1>2. s[i] \in UserMessages
  BY <1>1 DEF Messages, AssistantMessages, ToolResults
<1> QED BY <1>2 DEF UserMessages

(* The empty batch has the type of a batch.                                *)
LEMMA NoBatchType ==
  /\ NoBatch \in [mode : {"sequential", "parallel"}, status : Seq(CallStates),
                terminate : Seq(BOOLEAN), messages : Seq(ToolResults)]
  /\ Len(NoBatch.terminate) = Len(NoBatch.status)
  BY EmptySeq DEF NoBatch

(* The inductive invariant holds at first.                                 *)
LEMMA InitIInv == Init => IInv
<1> SUFFICES ASSUME Init PROVE IInv
  OBVIOUS
<1>1. TypeOK
  <2>1. Conversations
    BY EmptySeq DEF Init, Conversations
  <2>2. ToolCalls
    BY NoBatchType DEF Init, ToolCalls
  <2>3. Control
    BY DEF Init, Control
  <2>4. Counters
    BY DEF Init, Counters
  <2> QED BY <2>1, <2>2, <2>3, <2>4 DEF TypeOK
<1>2. Sync
  BY DEF Init, Sync
<1> QED BY <1>1, <1>2 DEF IInv

(* Every step keeps the types.                                             *)
LEMMA TypeStep == IInv /\ [Next]_vars => TypeOK'
<1> SUFFICES ASSUME TypeOK, Sync, [Next]_vars PROVE TypeOK'
  BY DEF IInv
<1> USE DEF TypeOK
<1> USE DEF conversation, queues, loopVars, toolVars, counters, ghosts
<1>1. CASE UNCHANGED vars
  BY <1>1 DEF vars, Control, Conversations, ToolCalls, Counters
<1>2. ASSUME Steer PROVE TypeOK'
  <2>1. sent' \in Nat /\ User(sent', "steer") \in UserMessages
    BY <1>2 DEF Steer, Send, Counters, User, UserMessages
  <2>2. Conversations'
    BY <1>2, <2>1, AppendProperties DEF Steer, Conversations
  <2> QED BY <1>2, <2>1, <2>2 DEF Steer, Control, ToolCalls, Counters
<1>3. ASSUME FollowUp PROVE TypeOK'
  <2>1. sent' \in Nat /\ User(sent', "followUp") \in UserMessages
    BY <1>3 DEF FollowUp, Send, Counters, User, UserMessages
  <2>2. Conversations'
    BY <1>3, <2>1, AppendProperties DEF FollowUp, Conversations
  <2> QED BY <1>3, <2>1, <2>2 DEF FollowUp, Control, ToolCalls, Counters
<1>4. ASSUME ClearAllQueues PROVE TypeOK'
  <2>1. IdsIn(steeringQueue) \subseteq Nat /\ IdsIn(followUpQueue) \subseteq Nat
    BY IdsAreNumbers, KindsAreMessages DEF Conversations
  <2>2. Conversations'
    BY <1>4, EmptySeq DEF ClearAllQueues, Conversations
  <2> QED BY <1>4, <2>1, <2>2 DEF ClearAllQueues, Control, ToolCalls, Counters
<1>5. ASSUME AbortRun PROVE TypeOK'
  BY <1>5 DEF AbortRun, Control, Conversations, ToolCalls, Counters
<1>6. ASSUME Reset PROVE TypeOK'
  <2>1. /\ IdsIn(steeringQueue) \subseteq Nat /\ IdsIn(followUpQueue) \subseteq Nat
        /\ IdsIn(transcript) \subseteq Nat
    BY IdsAreNumbers, KindsAreMessages DEF Conversations
  <2>2. Conversations'
    BY <1>6, EmptySeq DEF Reset, Conversations
  <2> QED BY <1>6, <2>1, <2>2 DEF Reset, Control, ToolCalls, Counters
<1>7. ASSUME NEW ps \in Seq(UserMessages), NEW skip \in BOOLEAN, StartRun(ps, skip)
      PROVE  /\ Control' /\ ToolCalls' /\ {turns, batches, runs}' \subseteq Nat
             /\ transcript' \in Seq(Messages) /\ context' \in Seq(Messages)
             /\ prompts' \in Seq(UserMessages) /\ pendingMessages' \in Seq(UserMessages)
  <2>1. context' \in Seq(Messages)
    BY <1>7, KindsAreMessages, ConcatProperties DEF StartRun, Conversations
  <2>2. pendingMessages' \in Seq(UserMessages)
    BY <1>7, EmptySeq DEF StartRun
  <2>3. Control'
    BY <1>7 DEF StartRun, Control
  <2>4. ToolCalls'
    BY <1>7 DEF StartRun, ToolCalls
  <2>5. {turns, batches, runs}' \subseteq Nat
    BY <1>7 DEF StartRun, Counters
  <2>6. transcript' \in Seq(Messages) /\ prompts' \in Seq(UserMessages)
    BY <1>7 DEF StartRun, Conversations
  <2> QED BY <2>1, <2>2, <2>3, <2>4, <2>5, <2>6
<1>8. ASSUME NEW n \in 1..2, Prompt(n) PROVE TypeOK'
  <2> DEFINE ps == [i \in 1..n |-> User(sent + i, "prompt")]
  <2>1. ps \in Seq(UserMessages)
    <3>1. \A i \in 1..n : User(sent + i, "prompt") \in UserMessages
      BY DEF Counters, User, UserMessages
    <3>2. ps \in [1..n -> UserMessages] /\ n \in Nat
      BY <3>1
    <3> HIDE DEF ps
    <3> QED BY <3>2, FunctionIsSeq
  <2>2. StartRun(ps, FALSE) /\ Send(n) /\ UNCHANGED <<queues, dropped>>
    BY <1>8 DEF Prompt
  <2> HIDE DEF ps
  <2>3. /\ Control' /\ ToolCalls' /\ {turns, batches, runs}' \subseteq Nat
        /\ transcript' \in Seq(Messages) /\ context' \in Seq(Messages)
        /\ prompts' \in Seq(UserMessages) /\ pendingMessages' \in Seq(UserMessages)
    BY <1>7, <2>1, <2>2
  <2>4. sent' \in Nat /\ dropped' \subseteq Nat
    BY <2>2 DEF Send, Counters
  <2>5. Conversations'
    BY <2>2, <2>3 DEF Conversations
  <2> QED BY <2>3, <2>4, <2>5 DEF Counters
<1>9. ASSUME ContinueQueued PROVE TypeOK'
  <2>1. CASE steeringQueue # <<>>
    <3>1. StartRun(Drained(steeringQueue, SteeringMode), TRUE)
      BY <1>9, <2>1 DEF ContinueQueued
    <3>2. UNCHANGED <<ghosts, followUpQueue>> /\ steeringQueue' = Kept(steeringQueue, SteeringMode)
      BY <1>9, <2>1 DEF ContinueQueued
    <3> QED BY <1>7, <3>1, <3>2, DrainTypes DEF Conversations, Counters
  <2>2. CASE steeringQueue = <<>>
    <3>1. StartRun(Drained(followUpQueue, FollowUpMode), FALSE)
      BY <1>9, <2>2 DEF ContinueQueued
    <3>2. UNCHANGED <<ghosts, steeringQueue>> /\ followUpQueue' = Kept(followUpQueue, FollowUpMode)
      BY <1>9, <2>2 DEF ContinueQueued
    <3> QED BY <1>7, <3>1, <3>2, DrainTypes DEF Conversations, Counters
  <2> QED BY <2>1, <2>2
<1>10. ASSUME ContinueTranscript PROVE TypeOK'
  <2>1. StartRun(<<>>, FALSE) /\ <<>> \in Seq(UserMessages) /\ UNCHANGED <<queues, ghosts>>
    BY <1>10, EmptySeq DEF ContinueTranscript
  <2> QED BY <1>7, <2>1 DEF Conversations, Counters
<1>11. ASSUME DropFailedMessage PROVE TypeOK'
  <2>1. Len(transcript) \in Nat /\ \A i \in 1..(Len(transcript) - 1) : transcript[i] \in Messages
    BY ElementOfSeq DEF Conversations
  <2>2. transcript' \in Seq(Messages)
    BY <1>11, <2>1, SubSeqProperties DEF DropFailedMessage
  <2> QED BY <1>11, <2>2 DEF DropFailedMessage, Control, Conversations, ToolCalls, Counters
<1>12. ASSUME EmitPrompt PROVE TypeOK'
  <2>1. /\ Head(prompts) \in Messages /\ Tail(prompts) \in Seq(UserMessages)
    BY <1>12, HeadTailProperties DEF EmitPrompt, Sync, Conversations, Messages
  <2>2. Conversations'
    BY <1>12, <2>1, GrowConversation DEF EmitPrompt, Conversations
  <2> QED BY <1>12, <2>2 DEF EmitPrompt, Control, ToolCalls, Counters
<1>13. ASSUME NEW otherwise \in {"call", "followUp"}, pc # "idle", PollSteering(otherwise)
       PROVE  TypeOK'
  <2>1. Conversations'
    BY <1>13, DrainTypes, EmptySeq DEF PollSteering, Conversations
  <2> QED BY <1>13, <2>1 DEF PollSteering, Control, ToolCalls, Counters
<1>14. ASSUME InjectPending PROVE TypeOK'
  <2>1. /\ Head(pendingMessages) \in Messages /\ Tail(pendingMessages) \in Seq(UserMessages)
    BY <1>14, HeadTailProperties DEF InjectPending, Sync, Conversations, Messages
  <2>2. Conversations'
    BY <1>14, <2>1, GrowConversation DEF InjectPending, Conversations
  <2> QED BY <1>14, <2>2 DEF InjectPending, Control, ToolCalls, Counters
<1>15. ASSUME StreamStart PROVE TypeOK'
  <2>1. Assistant("partial", 0) \in Messages
    BY NewMessages DEF Messages, Stops
  <2>2. Conversations'
    BY <1>15, <2>1, GrowConversation DEF StreamStart, Conversations
  <2> QED BY <1>15, <2>2 DEF StreamStart, Control, ToolCalls, Counters
<1>16. ASSUME NEW stop \in Stops, NEW n \in 0..MaxCalls, NEW mode \in {"sequential", "parallel"},
              FinalMessage(stop, n, mode)
       PROVE  TypeOK'
  <2>1. n \in Nat /\ Assistant(stop, n) \in Messages
    BY NewMessages DEF Messages
  <2>2. WithFinal(Assistant(stop, n)) \in Seq(Messages)
    <3>1. CASE pc = "partial"
      <4>1. PICK a \in Messages : context = Append(transcript, a)
        BY <3>1 DEF Sync
      <4>2. WithFinal(Assistant(stop, n)) = Append(transcript, Assistant(stop, n))
        BY <3>1, <4>1, <2>1, ReplaceLast DEF WithFinal, Conversations
      <4> QED BY <4>2, <2>1, GrowConversation DEF Conversations
    <3>2. CASE pc # "partial"
      BY <3>2, <2>1, GrowConversation DEF WithFinal, Conversations
    <3> QED BY <3>1, <3>2
  <2>3. Conversations'
    BY <1>16, <2>1, <2>2, GrowConversation DEF FinalMessage, Conversations
  <2>4. ToolCalls'
    <3>1. CASE stop = "stop" /\ n > 0
      <4> DEFINE st == [i \in 1..n |-> "new"]
                 te == [i \in 1..n |-> FALSE]
      <4>1. st \in Seq(CallStates) /\ te \in Seq(BOOLEAN) /\ Len(st) = n /\ Len(te) = n
        <5>1. st \in [1..n -> CallStates] /\ te \in [1..n -> BOOLEAN]
          BY DEF CallStates, st, te
        <5> HIDE DEF st, te
        <5> QED BY <5>1, <2>1, FunctionIsSeq
      <4>2. batch' = [mode |-> mode, status |-> st, terminate |-> te, messages |-> <<>>]
        BY <1>16, <3>1 DEF FinalMessage
      <4>3. UNCHANGED <<pendingToolCalls, zombies>>
        BY <1>16 DEF FinalMessage
      <4> HIDE DEF st, te
      <4> QED BY <4>1, <4>2, <4>3, EmptySeq DEF ToolCalls
    <3>2. CASE ~(stop = "stop" /\ n > 0)
      BY <1>16, <3>2 DEF FinalMessage, ToolCalls
    <3> QED BY <3>1, <3>2
  <2>5. Control'
    BY <1>16 DEF FinalMessage, Control
  <2>6. Counters'
    BY <1>16 DEF FinalMessage, Counters
  <2> QED BY <2>3, <2>4, <2>5, <2>6
<1>17. ASSUME NEW i \in Calls, NEW refused \in BOOLEAN, StartCall(i, refused) PROVE TypeOK'
  <2>1. i \in 1..Len(batch.status) /\ i \in Nat
    BY LenProperties DEF Calls, ToolCalls
  <2>2. Call(i) \in CallIds
    BY <2>1, NewMessages
  <2>3. \A c \in CallStates : [batch.status EXCEPT ![i] = c] \in Seq(CallStates)
                             /\ Len([batch.status EXCEPT ![i] = c]) = Len(batch.status)
    BY <2>1, ExceptSeq DEF ToolCalls
  <2>4. ToolCalls'
    BY <1>17, <2>2, <2>3 DEF StartCall, ToolCalls, CallStates
  <2> QED BY <1>17, <2>4 DEF StartCall, Control, Conversations, Counters
<1>18. ASSUME NEW i \in Calls, NEW terminate \in BOOLEAN, FinishCall(i, terminate) PROVE TypeOK'
  <2>1. i \in 1..Len(batch.status) /\ i \in 1..Len(batch.terminate)
    BY LenProperties DEF Calls, ToolCalls
  <2>2. /\ [batch.status EXCEPT ![i] = "ended"] \in Seq(CallStates)
        /\ Len([batch.status EXCEPT ![i] = "ended"]) = Len(batch.status)
    BY <2>1, ExceptSeq DEF ToolCalls, CallStates
  <2>3. /\ [batch.terminate EXCEPT ![i] = terminate] \in Seq(BOOLEAN)
        /\ Len([batch.terminate EXCEPT ![i] = terminate]) = Len(batch.terminate)
    BY <2>1, ExceptSeq DEF ToolCalls
  <2>4. ToolCalls'
    BY <1>18, <2>2, <2>3 DEF FinishCall, ToolCalls
  <2> QED BY <1>18, <2>4 DEF FinishCall, Control, Conversations, Counters
<1>19. ASSUME NEW i \in Calls, EmitResult(i) PROVE TypeOK'
  <2>1. i \in Nat /\ ToolResult(Call(i)) \in ToolResults
    BY NewMessages, LenProperties DEF Calls, ToolCalls
  <2>2. Append(batch.messages, ToolResult(Call(i))) \in Seq(ToolResults)
    BY <2>1, AppendProperties DEF ToolCalls
  <2>3. ToolCalls'
    BY <1>19, <2>2 DEF EmitResult, ToolCalls
  <2>4. Conversations'
    BY <1>19, <2>1, GrowConversation DEF EmitResult, Conversations, Messages
  <2> QED BY <1>19, <2>3, <2>4 DEF EmitResult, Control, Counters
<1>20. ASSUME EndBatch PROVE TypeOK'
  <2>1. Conversations'
    BY <1>20, KindsAreMessages, ConcatProperties DEF EndBatch, Conversations, ToolCalls
  <2>2. ToolCalls'
    BY <1>20, NoBatchType DEF EndBatch, ToolCalls
  <2>3. hasMoreToolCalls' \in BOOLEAN
    BY <1>20, Zenon DEF EndBatch, shouldTerminateToolBatch
  <2> QED BY <1>20, <2>1, <2>2, <2>3 DEF EndBatch, Control, Counters
<1>21. ASSUME FollowUps PROVE TypeOK'
  <2>1. Conversations'
    BY <1>21, DrainTypes DEF FollowUps, Conversations
  <2> QED BY <1>21, <2>1 DEF FollowUps, Control, ToolCalls, Counters
<1>22. ASSUME FinishRun PROVE TypeOK'
  BY <1>22 DEF FinishRun, Control, Conversations, ToolCalls, Counters
<1>23. ASSUME NEW t \in Seq(Messages), NEW left \in SUBSET CallIds, pc # "idle",
              handleRunFailure(t, left), pendingToolCalls' \subseteq CallIds
       PROVE  TypeOK'
  <2>1. Assistant(IF aborted THEN "aborted" ELSE "error", 0) \in Messages
    BY NewMessages DEF Stops, Messages
  <2>2. Conversations'
    BY <1>23, <2>1, GrowConversation, EmptySeq DEF handleRunFailure, Conversations
  <2>3. ToolCalls'
    BY <1>23, NoBatchType DEF handleRunFailure, ToolCalls
  <2> QED BY <1>23, <2>2, <2>3 DEF handleRunFailure, Control, Counters
<1>24. ASSUME CallFails PROVE TypeOK'
  BY <1>23, <1>24 DEF CallFails, Conversations, ToolCalls
<1>25. ASSUME EmitFails PROVE TypeOK'
  <2>1. BeingEmitted \subseteq Messages
    <3>1. CASE pc = "prompts"
      BY <3>1, HeadTailProperties DEF BeingEmitted, Sync, Conversations, Messages
    <3>2. CASE pc = "inject"
      BY <3>2, HeadTailProperties DEF BeingEmitted, Sync, Conversations, Messages
    <3>3. CASE pc \in {"call", "partial"}
      BY <3>3, NewMessages DEF BeingEmitted, Stops, Messages
    <3>4. CASE pc = "tools"
      <4>1. BeingEmitted = {ToolResult(Call(i)) : i \in {j \in Calls : Due(j)}}
        BY <3>4 DEF BeingEmitted
      <4>2. ASSUME NEW i \in Calls PROVE ToolResult(Call(i)) \in ToolResults
        <5>1. i \in Nat
          BY LenProperties DEF Calls, ToolCalls
        <5> QED BY <5>1, NewMessages
      <4> QED BY <4>1, <4>2 DEF Messages
    <3>5. CASE pc \notin {"prompts", "inject", "call", "partial", "tools"}
      BY <3>5 DEF BeingEmitted
    <3> QED BY <3>1, <3>2, <3>3, <3>4, <3>5
  <2>2. PICK t \in {transcript} \cup {Append(transcript, m) : m \in BeingEmitted} :
          handleRunFailure(t, {})
    BY <1>25 DEF EmitFails
  <2>3. t \in Seq(Messages)
    BY <2>1, <2>2, GrowConversation DEF Conversations
  <2>4. pc # "idle" /\ pendingToolCalls' \subseteq CallIds
    BY <1>25 DEF EmitFails, ToolCalls
  <2> QED BY <1>23, <2>2, <2>3, <2>4
<1>26. ASSUME NEW i \in Calls, NEW ended \in BOOLEAN, ToolEmitFails(i, ended) PROVE TypeOK'
  <2> DEFINE left == {Call(j) : j \in {k \in Calls \ {i} : Executing(k)}}
  <2>1. left \subseteq CallIds
    BY NewMessages, LenProperties DEF Calls, ToolCalls
  <2>2. /\ handleRunFailure(transcript, left) /\ pc # "idle"
        /\ pendingToolCalls' \subseteq CallIds /\ transcript \in Seq(Messages)
    BY <1>26 DEF ToolEmitFails, ToolCalls, Conversations
  <2> HIDE DEF left
  <2> QED BY <1>23, <2>1, <2>2
<1>27. ASSUME NEW c \in zombies, ZombieEnds(c) PROVE TypeOK'
  BY <1>27 DEF ZombieEnds, Control, Conversations, ToolCalls, Counters
<1>28. ASSUME InitialPoll PROVE TypeOK'
  BY <1>13, <1>28 DEF InitialPoll
<1>29. ASSUME TurnEnd PROVE TypeOK'
  BY <1>13, <1>29 DEF TurnEnd
<1> QED
  BY <1>1, <1>2, <1>3, <1>4, <1>5, <1>6, <1>8, <1>9, <1>10, <1>11, <1>12, <1>14, <1>15, <1>16,
     <1>17, <1>18, <1>19, <1>20, <1>21, <1>22, <1>24, <1>25, <1>26, <1>27, <1>28, <1>29
     DEF Next, Callers, Loop, Turn, Tools, Ending, Failing

(* Every step keeps the loop's copy where Sync says it stands.             *)
LEMMA SyncStep == IInv /\ [Next]_vars => Sync'
<1> SUFFICES ASSUME TypeOK, Sync, [Next]_vars PROVE Sync'
  BY DEF IInv
<1> USE DEF TypeOK
<1> USE DEF conversation, queues, loopVars, toolVars, counters, ghosts
<1>1. CASE UNCHANGED vars
  BY <1>1 DEF vars, Sync
<1>2. ASSUME Steer \/ FollowUp \/ ClearAllQueues \/ AbortRun PROVE Sync'
  BY <1>2 DEF Steer, FollowUp, ClearAllQueues, AbortRun, Sync
<1>3. ASSUME ~activeRun, Reset PROVE Sync'
  BY <1>3 DEF Reset, Sync, Control
<1>4. ASSUME NEW ps \in Seq(UserMessages), NEW skip, StartRun(ps, skip) PROVE Sync'
  <2>1. CASE ps = <<>>
    <3>1. context' = transcript'
      BY <1>4, <2>1, ConcatEmptySeq DEF StartRun, Conversations
    <3> QED BY <1>4, <2>1, <3>1 DEF StartRun, Sync
  <2>2. CASE ps # <<>>
    BY <1>4, <2>2 DEF StartRun, Sync
  <2> QED BY <2>1, <2>2
<1>5. ASSUME NEW n \in 1..2, Prompt(n) PROVE Sync'
  <2> DEFINE ps == [i \in 1..n |-> User(sent + i, "prompt")]
  <2>1. ps \in [1..n -> UserMessages] /\ n \in Nat
    BY DEF Counters, User, UserMessages
  <2>2. StartRun(ps, FALSE)
    BY <1>5 DEF Prompt
  <2> HIDE DEF ps
  <2> QED BY <1>4, <2>1, <2>2, FunctionIsSeq
<1>6. ASSUME ContinueQueued PROVE Sync'
  <2>1. CASE steeringQueue # <<>>
    <3>1. StartRun(Drained(steeringQueue, SteeringMode), TRUE)
      BY <1>6, <2>1 DEF ContinueQueued
    <3> QED BY <1>4, <3>1, DrainTypes DEF Conversations
  <2>2. CASE steeringQueue = <<>>
    <3>1. StartRun(Drained(followUpQueue, FollowUpMode), FALSE)
      BY <1>6, <2>2 DEF ContinueQueued
    <3> QED BY <1>4, <3>1, DrainTypes DEF Conversations
  <2> QED BY <2>1, <2>2
<1>7. ASSUME ContinueTranscript PROVE Sync'
  BY <1>4, <1>7, EmptySeq DEF ContinueTranscript
<1>8. ASSUME DropFailedMessage PROVE Sync'
  BY <1>8 DEF DropFailedMessage, Sync
<1>9. ASSUME EmitPrompt PROVE Sync'
  <2>1. prompts # <<>> /\ context = transcript \o prompts
    BY <1>9 DEF EmitPrompt, Sync
  <2>2. transcript' \o Tail(prompts) = context
    BY <1>9, <2>1, MoveHead, KindsAreMessages DEF EmitPrompt, Conversations
  <2>3. CASE Tail(prompts) = <<>>
    <3>1. transcript' \in Seq(Messages)
      BY <1>9, <2>1, HeadTailProperties, GrowConversation DEF EmitPrompt, Conversations, Messages
    <3>2. context = transcript'
      BY <2>2, <2>3, <3>1, ConcatEmptySeq
    <3> QED BY <1>9, <2>3, <3>2 DEF EmitPrompt, Sync
  <2>4. CASE Tail(prompts) # <<>>
    BY <1>9, <2>2, <2>4 DEF EmitPrompt, Sync
  <2> QED BY <2>3, <2>4
<1>10. ASSUME InitialPoll PROVE Sync'
  BY <1>10 DEF InitialPoll, PollSteering, Sync
<1>11. ASSUME InjectPending PROVE Sync'
  BY <1>11 DEF InjectPending, Sync
<1>12. ASSUME StreamStart PROVE Sync'
  <2>1. Assistant("partial", 0) \in Messages
    BY NewMessages DEF Messages, Stops
  <2> QED BY <1>12, <2>1 DEF StreamStart, Sync
<1>13. ASSUME NEW stop \in Stops, NEW n \in 0..MaxCalls, NEW mode, FinalMessage(stop, n, mode)
       PROVE  Sync'
  <2>1. n \in Nat /\ Assistant(stop, n) \in Messages
    BY NewMessages DEF Messages
  <2>2. context' = transcript'
    <3>1. CASE pc = "partial"
      <4>1. PICK a \in Messages : context = Append(transcript, a)
        BY <3>1 DEF Sync
      <4>2. WithFinal(Assistant(stop, n)) = Append(transcript, Assistant(stop, n))
        BY <3>1, <4>1, <2>1, ReplaceLast DEF WithFinal, Conversations
      <4> QED BY <1>13, <4>2 DEF FinalMessage
    <3>2. CASE pc = "call"
      BY <1>13, <3>2 DEF FinalMessage, WithFinal, Sync
    <3> QED BY <1>13, <3>1, <3>2 DEF FinalMessage
  <2>3. CASE stop = "stop" /\ n > 0
    <3>1. pc' = "tools" /\ batch'.messages = <<>>
      BY <1>13, <2>3 DEF FinalMessage
    <3>2. context' \in Seq(Messages)
      BY <1>13, <2>1, <2>2, GrowConversation DEF FinalMessage, Conversations
    <3>3. transcript' = context' \o batch'.messages
      BY <2>2, <3>1, <3>2, ConcatEmptySeq
    <3> QED BY <3>1, <3>3 DEF Sync
  <2>4. CASE ~(stop = "stop" /\ n > 0)
    <3>1. pc' \in {"turnEnd", "end"}
      BY <1>13, <2>4 DEF FinalMessage
    <3> QED BY <2>2, <3>1 DEF Sync
  <2> QED BY <2>3, <2>4
<1>14. ASSUME NEW i \in Calls, NEW refused, StartCall(i, refused) PROVE Sync'
  <2>1. batch'.messages = batch.messages
    BY <1>14 DEF StartCall, ToolCalls
  <2> QED BY <1>14, <2>1 DEF StartCall, Sync
<1>15. ASSUME NEW i \in Calls, NEW terminate, FinishCall(i, terminate) PROVE Sync'
  <2>1. batch'.messages = batch.messages
    BY <1>15 DEF FinishCall, ToolCalls
  <2> QED BY <1>15, <2>1 DEF FinishCall, Sync
<1>16. ASSUME NEW i \in Calls, EmitResult(i) PROVE Sync'
  <2>1. i \in Nat /\ ToolResult(Call(i)) \in Messages
    BY NewMessages, LenProperties DEF Calls, ToolCalls, Messages
  <2>2. batch'.messages = Append(batch.messages, ToolResult(Call(i)))
    BY <1>16 DEF EmitResult, ToolCalls
  <2>3. transcript = context \o batch.messages /\ batch.messages \in Seq(Messages)
    BY <1>16, KindsAreMessages DEF EmitResult, Sync, ToolCalls
  <2>4. Append(context \o batch.messages, ToolResult(Call(i)))
          = context \o Append(batch.messages, ToolResult(Call(i)))
    <3> DEFINE ms == batch.messages
               r == ToolResult(Call(i))
    <3>1. ms \in Seq(Messages) /\ r \in Messages /\ context \in Seq(Messages)
      BY <2>1, <2>3 DEF Conversations
    <3> HIDE DEF ms, r
    <3>2. Append(context \o ms, r) = context \o Append(ms, r)
      <4>1. context \o ms \in Seq(Messages)
        BY <3>1, ConcatProperties
      <4>2. Append(context \o ms, r) = (context \o ms) \o <<r>>
        BY <3>1, <4>1, AppendIsConcat
      <4>3. Append(ms, r) = ms \o <<r>> /\ <<r>> \in Seq(Messages)
        BY <3>1, AppendIsConcat
      <4>4. (context \o ms) \o <<r>> = context \o (ms \o <<r>>)
        BY <3>1, <4>3, ConcatAssociative, SMTT(30)
      <4> QED BY <4>2, <4>3, <4>4
    <3> QED BY <3>2 DEF ms, r
  <2>5. transcript' = context' \o batch'.messages
    BY <1>16, <2>2, <2>3, <2>4 DEF EmitResult
  <2> QED BY <1>16, <2>5 DEF EmitResult, Sync
<1>17. ASSUME EndBatch PROVE Sync'
  BY <1>17 DEF EndBatch, Sync
<1>18. ASSUME TurnEnd PROVE Sync'
  BY <1>18 DEF TurnEnd, PollSteering, Sync
<1>19. ASSUME FollowUps PROVE Sync'
  BY <1>19 DEF FollowUps, Sync
<1>20. ASSUME FinishRun PROVE Sync'
  BY <1>20 DEF FinishRun, Sync
<1>21. ASSUME Failing PROVE Sync'
  BY <1>21 DEF Failing, CallFails, EmitFails, ToolEmitFails, handleRunFailure, Sync
<1>22. ASSUME NEW c \in zombies, ZombieEnds(c) PROVE Sync'
  BY <1>22 DEF ZombieEnds, Sync
<1> QED
  BY <1>1, <1>2, <1>3, <1>5, <1>6, <1>7, <1>8, <1>9, <1>10, <1>11, <1>12, <1>13, <1>14, <1>15,
     <1>16, <1>17, <1>18, <1>19, <1>20, <1>21, <1>22
     DEF Next, Callers, Loop, Turn, Tools, Ending
-----------------------------------------------------------------------------
(* IInv holds in every reachable state.                                    *)
THEOREM Invariance == Spec => []IInv
<1>1. IInv /\ [Next]_vars => IInv'
  BY TypeStep, SyncStep DEF IInv
<1> QED BY InitIInv, <1>1, PTL DEF Spec

(* Every variable of Agent and of the loop has its type.                   *)
THEOREM TypeCorrect == Spec => []TypeOK
<1>1. IInv => TypeOK
  BY DEF IInv
<1> QED BY Invariance, <1>1, PTL

(* Whatever is prompted, steered, queued, aborted or fails, and in whatever *)
(* order tools complete, the model is called with the transcript: runLoop's *)
(* own messages and the ones Agent rebuilt from its events are the same.    *)
THEOREM ModelSeesTranscript == Spec => []ContextIsTranscript
<1>1. IInv => ContextIsTranscript
  BY DEF IInv, Sync, ContextIsTranscript
<1> QED BY Invariance, <1>1, PTL
-----------------------------------------------------------------------------
(* What the loop has taken and not yet emitted is there only while it      *)
(* emits it, a queue has the messages of its own kind, and no message is   *)
(* newer than the last one sent.                                           *)
Emptied ==
  /\ pc # "prompts" => prompts = <<>>
  /\ pc # "inject" => pendingMessages = <<>>
OwnKind ==
  /\ \A i \in DOMAIN steeringQueue : From(steeringQueue[i], "steer")
  /\ \A i \in DOMAIN followUpQueue : From(followUpQueue[i], "followUp")
NoNewer ==
  /\ IdsIn(transcript) \subseteq 1..sent
  /\ IdsIn(prompts) \subseteq 1..sent /\ IdsIn(pendingMessages) \subseteq 1..sent
  /\ IdsIn(steeringQueue) \subseteq 1..sent /\ IdsIn(followUpQueue) \subseteq 1..sent

(* The places a message passes through on its way to the transcript t: a   *)
(* run's prompts p, the pending messages n, its queue q.                   *)
Before(s, t, via) ==
  \A i \in DOMAIN s, j \in DOMAIN t :
    From(s[i], via) /\ From(t[j], via) => s[i].id < t[j].id
Line(t, p, n, q, via) ==
  /\ InOrder(t, via) /\ InOrder(p, via) /\ InOrder(n, via) /\ InOrder(q, via)
  /\ Before(t, p, via) /\ Before(t, n, via) /\ Before(t, q, via)
  /\ Before(p, n, via) /\ Before(p, q, via) /\ Before(n, q, via)
InLine ==
  /\ Line(transcript, prompts, pendingMessages, steeringQueue, "steer")
  /\ Line(transcript, prompts, pendingMessages, followUpQueue, "followUp")

FifoInv == Emptied /\ OwnKind /\ NoNewer /\ InLine

-----------------------------------------------------------------------------
(* The order, the ids and the pairs of a sequence in two parts.            *)
LEMMA InOrderConcat ==
  ASSUME NEW s \in Seq(Messages), NEW t \in Seq(Messages), NEW via
  PROVE  InOrder(s \o t, via) <=> InOrder(s, via) /\ InOrder(t, via) /\ Before(s, t, via)
<1> DEFINE l == s \o t
<1>1. /\ Len(s) \in Nat /\ Len(t) \in Nat /\ Len(l) = Len(s) + Len(t)
      /\ DOMAIN s = 1..Len(s) /\ DOMAIN t = 1..Len(t) /\ DOMAIN l = 1..Len(l)
      /\ \A i \in 1..Len(s) : l[i] = s[i]
      /\ \A i \in 1..Len(t) : l[Len(s) + i] = t[i]
  BY ConcatProperties, LenProperties
<1> HIDE DEF l
<1>2. ASSUME InOrder(l, via) PROVE InOrder(s, via) /\ InOrder(t, via) /\ Before(s, t, via)
  <2>1. InOrder(s, via)
    BY <1>1, <1>2 DEF InOrder
  <2>2. ASSUME NEW i \in DOMAIN t, NEW j \in DOMAIN t, i < j, From(t[i], via), From(t[j], via)
        PROVE  t[i].id < t[j].id
    <3>1. Len(s) + i \in DOMAIN l /\ Len(s) + j \in DOMAIN l /\ Len(s) + i < Len(s) + j
      BY <1>1, <2>2
    <3> QED BY <1>1, <1>2, <2>2, <3>1 DEF InOrder
  <2>3. ASSUME NEW i \in DOMAIN s, NEW j \in DOMAIN t, From(s[i], via), From(t[j], via)
        PROVE  s[i].id < t[j].id
    <3>1. i \in DOMAIN l /\ Len(s) + j \in DOMAIN l /\ i < Len(s) + j
      BY <1>1, <2>3
    <3> QED BY <1>1, <1>2, <2>3, <3>1 DEF InOrder
  <2> QED BY <2>1, <2>2, <2>3 DEF InOrder, Before
<1>3. ASSUME InOrder(s, via), InOrder(t, via), Before(s, t, via),
             NEW i \in DOMAIN l, NEW j \in DOMAIN l, i < j, From(l[i], via), From(l[j], via)
      PROVE  l[i].id < l[j].id
  <2>1. CASE j <= Len(s)
    BY <1>1, <1>3, <2>1 DEF InOrder
  <2>2. CASE i <= Len(s) /\ j > Len(s)
    <3>1. i \in DOMAIN s /\ j - Len(s) \in DOMAIN t /\ l[j] = t[j - Len(s)] /\ l[i] = s[i]
      BY <1>1, <1>3, <2>2
    <3> QED BY <1>3, <3>1 DEF Before
  <2>3. CASE i > Len(s)
    <3>1. /\ i - Len(s) \in DOMAIN t /\ j - Len(s) \in DOMAIN t /\ i - Len(s) < j - Len(s)
          /\ l[j] = t[j - Len(s)] /\ l[i] = t[i - Len(s)]
      BY <1>1, <1>3, <2>3
    <3> QED BY <1>3, <3>1 DEF InOrder
  <2> QED BY <1>1, <2>1, <2>2, <2>3
<1> QED BY <1>2, <1>3 DEF InOrder, l

LEMMA BeforeConcat ==
  ASSUME NEW s \in Seq(Messages), NEW t \in Seq(Messages), NEW u \in Seq(Messages), NEW via
  PROVE  /\ Before(s \o t, u, via) <=> Before(s, u, via) /\ Before(t, u, via)
         /\ Before(u, s \o t, via) <=> Before(u, s, via) /\ Before(u, t, via)
<1> DEFINE l == s \o t
<1>1. /\ Len(s) \in Nat /\ Len(t) \in Nat /\ Len(l) = Len(s) + Len(t)
      /\ DOMAIN s = 1..Len(s) /\ DOMAIN t = 1..Len(t) /\ DOMAIN l = 1..Len(l)
      /\ \A i \in 1..Len(s) : l[i] = s[i]
      /\ \A i \in 1..Len(t) : l[Len(s) + i] = t[i]
  BY ConcatProperties, LenProperties
<1> HIDE DEF l
<1>2. \A i \in DOMAIN l : (\E j \in DOMAIN s : l[i] = s[j]) \/ (\E j \in DOMAIN t : l[i] = t[j])
  <2> SUFFICES ASSUME NEW i \in DOMAIN l, i > Len(s)
               PROVE  \E j \in DOMAIN t : l[i] = t[j]
    BY <1>1
  <2>1. i - Len(s) \in 1..Len(t) /\ Len(s) + (i - Len(s)) = i
    BY <1>1
  <2> QED BY <1>1, <2>1
<1>3. /\ \A j \in DOMAIN s : \E i \in DOMAIN l : l[i] = s[j]
      /\ \A j \in DOMAIN t : \E i \in DOMAIN l : l[i] = t[j]
  <2>1. ASSUME NEW j \in DOMAIN t PROVE \E i \in DOMAIN l : l[i] = t[j]
    <3>1. Len(s) + j \in DOMAIN l /\ l[Len(s) + j] = t[j]
      BY <1>1
    <3> QED BY <3>1
  <2> QED BY <1>1, <2>1
<1>4. Before(l, u, via) <=> Before(s, u, via) /\ Before(t, u, via)
  BY <1>2, <1>3 DEF Before
<1>5. Before(u, l, via) <=> Before(u, s, via) /\ Before(u, t, via)
  BY <1>2, <1>3 DEF Before
<1> QED BY <1>4, <1>5 DEF l

LEMMA IdsConcat ==
  ASSUME NEW s \in Seq(Messages), NEW t \in Seq(Messages)
  PROVE  IdsIn(s \o t) = IdsIn(s) \cup IdsIn(t)
<1> DEFINE l == s \o t
<1>1. /\ Len(s) \in Nat /\ Len(t) \in Nat /\ Len(l) = Len(s) + Len(t)
      /\ DOMAIN s = 1..Len(s) /\ DOMAIN t = 1..Len(t) /\ DOMAIN l = 1..Len(l)
      /\ \A i \in 1..Len(s) : l[i] = s[i]
      /\ \A i \in 1..Len(t) : l[Len(s) + i] = t[i]
  BY ConcatProperties, LenProperties
<1> HIDE DEF l
<1>2. ASSUME NEW i \in DOMAIN l, l[i].role = "user" PROVE l[i].id \in IdsIn(s) \cup IdsIn(t)
  <2>1. CASE i <= Len(s)
    BY <1>1, <1>2, <2>1 DEF IdsIn
  <2>2. CASE i > Len(s)
    <3>1. i - Len(s) \in DOMAIN t /\ l[i] = t[i - Len(s)]
      BY <1>1, <2>2
    <3> QED BY <1>2, <3>1 DEF IdsIn
  <2> QED BY <1>1, <2>1, <2>2
<1>3. ASSUME NEW j \in DOMAIN s, s[j].role = "user" PROVE s[j].id \in IdsIn(l)
  <2>1. j \in DOMAIN l /\ l[j] = s[j]
    BY <1>1
  <2> QED BY <1>3, <2>1 DEF IdsIn
<1>4. ASSUME NEW j \in DOMAIN t, t[j].role = "user" PROVE t[j].id \in IdsIn(l)
  <2>1. Len(s) + j \in DOMAIN l /\ l[Len(s) + j] = t[j]
    BY <1>1
  <2> QED BY <1>4, <2>1 DEF IdsIn
<1>5. IdsIn(l) \subseteq IdsIn(s) \cup IdsIn(t)
  BY <1>2 DEF IdsIn
<1>6. IdsIn(s) \subseteq IdsIn(l) /\ IdsIn(t) \subseteq IdsIn(l)
  BY <1>3, <1>4 DEF IdsIn
<1> QED BY <1>5, <1>6 DEF l

LEMMA NoMessages ==
  ASSUME NEW t, NEW via
  PROVE  /\ InOrder(<<>>, via) /\ Before(<<>>, t, via) /\ Before(t, <<>>, via)
         /\ IdsIn(<<>>) = {}
  BY DEF InOrder, Before, IdsIn

LEMMA OneMessage ==
  ASSUME NEW m \in Messages, NEW t, NEW via
  PROVE  /\ <<m>> \in Seq(Messages) /\ InOrder(<<m>>, via)
         /\ ~From(m, via) => Before(<<m>>, t, via) /\ Before(t, <<m>>, via)
         /\ IdsIn(<<m>>) = IF m.role = "user" THEN {m.id} ELSE {}
<1> DEFINE l == <<m>>
<1>1. l \in Seq(Messages) /\ DOMAIN l = {1} /\ l[1] = m
  OBVIOUS
<1> HIDE DEF l
<1>2. InOrder(l, via)
  BY <1>1 DEF InOrder
<1>3. ~From(m, via) => Before(l, t, via) /\ Before(t, l, via)
  BY <1>1 DEF Before
<1>4. IdsIn(l) = IF m.role = "user" THEN {m.id} ELSE {}
  BY <1>1 DEF IdsIn
<1> QED BY <1>1, <1>2, <1>3, <1>4 DEF l

(* A sequence that is not empty is its head and its tail.                  *)
LEMMA HeadFirst ==
  ASSUME NEW S, NEW t \in Seq(S), t # <<>>
  PROVE  Head(t) \in S /\ Tail(t) \in Seq(S) /\ t = <<Head(t)>> \o Tail(t)
<1>1. Head(t) \in S /\ Tail(t) \in Seq(S)
  BY HeadTailProperties
<1>2. <<>> \in Seq(S) /\ <<>> \o t = t /\ Append(<<>>, Head(t)) = <<Head(t)>>
  BY <1>1, ConcatEmptySeq, EmptySeq
<1>3. Append(<<>>, Head(t)) \o Tail(t) = <<>> \o t
  BY <1>2, MoveHead
<1> QED BY <1>1, <1>2, <1>3

(* A poll takes messages from the front of the queue.                      *)
LEMMA DrainSplits ==
  ASSUME NEW queue \in Seq(UserMessages), NEW mode
  PROVE  Drained(queue, mode) \o Kept(queue, mode) = queue
<1>1. CASE mode = "all" \/ queue = <<>>
  BY <1>1, ConcatEmptySeq DEF Drained, Kept
<1>2. CASE ~(mode = "all" \/ queue = <<>>)
  BY <1>2, HeadFirst DEF Drained, Kept
<1> QED BY <1>1, <1>2

-----------------------------------------------------------------------------
(* What the steps of a run do to a line.                                   *)
LEMMA LineGrows ==
  ASSUME NEW t \in Seq(Messages), NEW p \in Seq(Messages), NEW n \in Seq(Messages),
         NEW q \in Seq(Messages), NEW via, Line(t, p, n, q, via),
         NEW m \in Messages, ~From(m, via)
  PROVE  Line(Append(t, m), p, n, q, via)
<1>1. <<m>> \in Seq(Messages) /\ Append(t, m) = t \o <<m>>
  BY OneMessage, AppendIsConcat
<1>2. /\ InOrder(<<m>>, via) /\ Before(t, <<m>>, via) /\ Before(<<m>>, p, via)
      /\ Before(<<m>>, n, via) /\ Before(<<m>>, q, via)
  BY OneMessage
<1>3. InOrder(t \o <<m>>, via)
  BY <1>1, <1>2, InOrderConcat DEF Line
<1>4. Before(t \o <<m>>, p, via) /\ Before(t \o <<m>>, n, via) /\ Before(t \o <<m>>, q, via)
  BY <1>1, <1>2, BeforeConcat DEF Line
<1> QED BY <1>1, <1>3, <1>4 DEF Line

LEMMA LineEmits ==
  ASSUME NEW t \in Seq(Messages), NEW p \in Seq(Messages), NEW n \in Seq(Messages),
         NEW q \in Seq(Messages), NEW via, Line(t, p, n, q, via), p # <<>>
  PROVE  Line(Append(t, Head(p)), Tail(p), n, q, via)
<1> DEFINE h == <<Head(p)>>
           r == Tail(p)
<1>1. h \in Seq(Messages) /\ r \in Seq(Messages) /\ p = h \o r /\ Append(t, Head(p)) = t \o h
  BY HeadFirst, OneMessage, AppendIsConcat
<1> HIDE DEF h, r
<1>2. InOrder(h, via) /\ InOrder(r, via) /\ Before(h, r, via)
  BY <1>1, InOrderConcat DEF Line
<1>3. /\ Before(t, h, via) /\ Before(t, r, via) /\ Before(h, n, via) /\ Before(r, n, via)
      /\ Before(h, q, via) /\ Before(r, q, via)
  BY <1>1, BeforeConcat DEF Line
<1>4. InOrder(t \o h, via)
  BY <1>1, <1>2, <1>3, InOrderConcat DEF Line
<1>5. Before(t \o h, r, via) /\ Before(t \o h, n, via) /\ Before(t \o h, q, via)
  BY <1>1, <1>2, <1>3, BeforeConcat DEF Line
<1>6. Line(t \o h, r, n, q, via)
  BY <1>2, <1>3, <1>4, <1>5 DEF Line
<1> QED BY <1>1, <1>6 DEF r

(* A place can be emptied, and a place can be skipped.                     *)
LEMMA LineLoses ==
  ASSUME NEW t, NEW p, NEW n, NEW q, NEW via, Line(t, p, n, q, via)
  PROVE  /\ Line(t, <<>>, <<>>, q, via) /\ Line(t, p, <<>>, q, via) /\ Line(t, p, n, <<>>, via)
         /\ Line(<<>>, p, n, <<>>, via)
         /\ p = <<>> => Line(t, n, <<>>, q, via)
         /\ n = <<>> => Line(t, <<>>, p, q, via)
  BY NoMessages DEF Line

LEMMA LineDrains ==
  ASSUME NEW t \in Seq(Messages), NEW p \in Seq(Messages), NEW n \in Seq(Messages),
         NEW q \in Seq(UserMessages), NEW via, NEW mode, Line(t, p, n, q, via)
  PROVE  /\ Line(t, p, Drained(q, mode), Kept(q, mode), via)
         /\ Line(t, Drained(q, mode), <<>>, Kept(q, mode), via)
<1> DEFINE d == Drained(q, mode)
           k == Kept(q, mode)
<1>1. d \in Seq(Messages) /\ k \in Seq(Messages) /\ d \o k = q
  BY DrainTypes, DrainSplits, KindsAreMessages
<1> HIDE DEF d, k
<1>2. InOrder(d, via) /\ InOrder(k, via) /\ Before(d, k, via)
  BY <1>1, InOrderConcat DEF Line
<1>3. Before(t, d, via) /\ Before(t, k, via) /\ Before(p, d, via) /\ Before(p, k, via)
  BY <1>1, BeforeConcat DEF Line
<1>4. Line(t, p, d, k, via)
  BY <1>2, <1>3 DEF Line
<1>5. Line(t, d, <<>>, k, via)
  BY <1>2, <1>3, NoMessages DEF Line
<1> QED BY <1>4, <1>5 DEF d, k

(* Messages of another kind do not count.                                  *)
LEMMA LineIgnores ==
  ASSUME NEW t, NEW p, NEW n, NEW q, NEW via, Line(t, p, n, q, via),
         NEW o, \A i \in DOMAIN o : ~From(o[i], via)
  PROVE  Line(t, p, o, q, via) /\ Line(t, o, <<>>, q, via)
<1>1. InOrder(o, via) /\ \A s : Before(o, s, via) /\ Before(s, o, via)
  BY DEF InOrder, Before
<1> QED BY <1>1, NoMessages DEF Line

-----------------------------------------------------------------------------
(* The places hold messages, and the queues users' messages.               *)
LEMMA PlaceTypes ==
  ASSUME TypeOK
  PROVE  /\ transcript \in Seq(Messages) /\ prompts \in Seq(Messages)
         /\ pendingMessages \in Seq(Messages) /\ steeringQueue \in Seq(Messages)
         /\ followUpQueue \in Seq(Messages)
         /\ prompts \in Seq(UserMessages) /\ pendingMessages \in Seq(UserMessages)
         /\ steeringQueue \in Seq(UserMessages) /\ followUpQueue \in Seq(UserMessages)
         /\ sent \in Nat /\ <<>> \in Seq(Messages)
  BY KindsAreMessages, EmptySeq DEF TypeOK, Conversations, Counters

(* What a step does to a queue: nothing, empty it, poll it or append to it *)
(* the message sent last.                                                  *)
LEMMA QueueMoves ==
  ASSUME [Next]_vars
  PROVE  /\ \/ steeringQueue' = steeringQueue \/ steeringQueue' = <<>>
            \/ steeringQueue' = Kept(steeringQueue, SteeringMode)
            \/ sent' = sent + 1 /\ steeringQueue' = Append(steeringQueue, User(sent', "steer"))
         /\ \/ followUpQueue' = followUpQueue \/ followUpQueue' = <<>>
            \/ followUpQueue' = Kept(followUpQueue, FollowUpMode)
            \/ sent' = sent + 1 /\ followUpQueue' = Append(followUpQueue, User(sent', "followUp"))
<1> USE DEF queues
<1>1. CASE UNCHANGED vars
  BY <1>1 DEF vars
<1>2. CASE Callers
  BY <1>2 DEF Callers, Steer, FollowUp, Send, ClearAllQueues, AbortRun, Reset, Prompt, ContinueQueued,
              ContinueTranscript, DropFailedMessage
<1>3. CASE Loop
  BY <1>3 DEF Loop, Turn, Tools, Ending, EmitPrompt, InitialPoll, InjectPending, StreamStart, FinalMessage,
              StartCall, FinishCall, EmitResult, EndBatch, TurnEnd, FollowUps, FinishRun, PollSteering
<1>4. CASE Failing
  BY <1>4 DEF Failing, CallFails, EmitFails, ToolEmitFails, handleRunFailure
<1>5. CASE \E c \in zombies : ZombieEnds(c)
  BY <1>5 DEF ZombieEnds
<1> QED BY <1>1, <1>2, <1>3, <1>4, <1>5 DEF Next

(* The messages a poll takes or leaves were in the queue.                  *)
LEMMA PolledFrom ==
  ASSUME NEW queue \in Seq(UserMessages), NEW mode
  PROVE  /\ \A i \in DOMAIN Drained(queue, mode) : \E j \in DOMAIN queue : Drained(queue, mode)[i] = queue[j]
         /\ \A i \in DOMAIN Kept(queue, mode) : \E j \in DOMAIN queue : Kept(queue, mode)[i] = queue[j]
<1>1. CASE mode = "all" \/ queue = <<>>
  BY <1>1 DEF Drained, Kept
<1>2. CASE ~(mode = "all" \/ queue = <<>>)
  <2>1. /\ 1 \in DOMAIN queue /\ Head(queue) = queue[1] /\ Len(Tail(queue)) = Len(queue) - 1
        /\ \A i \in 1..Len(Tail(queue)) : Tail(queue)[i] = queue[i + 1]
        /\ DOMAIN Tail(queue) = 1..Len(Tail(queue)) /\ DOMAIN queue = 1..Len(queue)
    BY <1>2, HeadTailProperties, LenProperties
  <2>2. \A i \in DOMAIN Tail(queue) : i + 1 \in DOMAIN queue /\ Tail(queue)[i] = queue[i + 1]
    BY <2>1
  <2>3. Drained(queue, mode) = <<Head(queue)>> /\ Kept(queue, mode) = Tail(queue)
    BY <1>2 DEF Drained, Kept
  <2> QED BY <2>1, <2>2, <2>3
<1> QED BY <1>1, <1>2

LEMMA OwnKindStep == IInv /\ OwnKind /\ [Next]_vars => OwnKind'
<1> SUFFICES ASSUME IInv, OwnKind, [Next]_vars PROVE OwnKind'
  OBVIOUS
<1>1. ASSUME NEW queue \in Seq(UserMessages), NEW via \in {"steer", "followUp"},
             \A i \in DOMAIN queue : From(queue[i], via),
             NEW mode, NEW id \in Nat
      PROVE  /\ \A i \in DOMAIN Kept(queue, mode) : From(Kept(queue, mode)[i], via)
             /\ \A i \in DOMAIN Append(queue, User(id, via)) : From(Append(queue, User(id, via))[i], via)
  <2> DEFINE l == Append(queue, User(id, via))
  <2>1. User(id, via) \in UserMessages /\ From(User(id, via), via)
    BY DEF User, UserMessages, From
  <2>2. /\ l \in Seq(UserMessages) /\ Len(l) = Len(queue) + 1 /\ DOMAIN l = 1..Len(l)
        /\ \A i \in 1..Len(queue) : l[i] = queue[i]
        /\ l[Len(queue) + 1] = User(id, via) /\ DOMAIN queue = 1..Len(queue) /\ Len(queue) \in Nat
    BY <2>1, AppendProperties, LenProperties
  <2> HIDE DEF l
  <2>3. \A i \in DOMAIN l : From(l[i], via)
    BY <1>1, <2>1, <2>2
  <2> QED BY <1>1, <2>3, PolledFrom DEF l
<1>2. TypeOK /\ sent' \in Nat
  BY TypeStep DEF TypeOK, Counters, IInv
<1>3. \A i \in DOMAIN steeringQueue' : From(steeringQueue'[i], "steer")
  <2>1. steeringQueue \in Seq(UserMessages) /\ \A i \in DOMAIN steeringQueue : From(steeringQueue[i], "steer")
    BY <1>2, PlaceTypes DEF OwnKind
  <2>2. CASE steeringQueue' = steeringQueue \/ steeringQueue' = <<>>
    BY <2>1, <2>2
  <2>3. CASE steeringQueue' = Kept(steeringQueue, SteeringMode)
    BY <1>1, <2>1, <2>3
  <2>4. CASE steeringQueue' = Append(steeringQueue, User(sent', "steer"))
    BY <1>1, <1>2, <2>1, <2>4
  <2> QED BY <2>2, <2>3, <2>4, QueueMoves
<1>4. \A i \in DOMAIN followUpQueue' : From(followUpQueue'[i], "followUp")
  <2>1. followUpQueue \in Seq(UserMessages) /\ \A i \in DOMAIN followUpQueue : From(followUpQueue[i], "followUp")
    BY <1>2, PlaceTypes DEF OwnKind
  <2>2. CASE followUpQueue' = followUpQueue \/ followUpQueue' = <<>>
    BY <2>1, <2>2
  <2>3. CASE followUpQueue' = Kept(followUpQueue, FollowUpMode)
    BY <1>1, <2>1, <2>3
  <2>4. CASE followUpQueue' = Append(followUpQueue, User(sent', "followUp"))
    BY <1>1, <1>2, <2>1, <2>4
  <2> QED BY <2>2, <2>3, <2>4, QueueMoves
<1> QED BY <1>3, <1>4 DEF OwnKind

LEMMA EmptiedStep == IInv /\ Emptied /\ [Next]_vars => Emptied'
<1> SUFFICES ASSUME TypeOK, Emptied, [Next]_vars PROVE Emptied'
  BY DEF IInv
<1> USE DEF conversation, queues, loopVars, toolVars, counters, ghosts
<1>1. CASE UNCHANGED vars
  BY <1>1 DEF vars, Emptied
<1>2. ASSUME NEW ps, NEW skip, StartRun(ps, skip) PROVE Emptied'
  BY <1>2 DEF StartRun, Emptied
<1>3. CASE Callers
  BY <1>2, <1>3 DEF Callers, Steer, FollowUp, ClearAllQueues, AbortRun, Reset, Prompt, ContinueQueued,
                    ContinueTranscript, DropFailedMessage, Emptied
<1>4. CASE Turn
  BY <1>4 DEF Turn, EmitPrompt, InitialPoll, InjectPending, StreamStart, FinalMessage, PollSteering, Emptied
<1>5. CASE Tools
  BY <1>5 DEF Tools, StartCall, FinishCall, EmitResult, EndBatch, Emptied
<1>6. CASE Ending
  BY <1>6 DEF Ending, TurnEnd, FollowUps, FinishRun, PollSteering, Emptied
<1>7. CASE Failing
  BY <1>7 DEF Failing, CallFails, EmitFails, ToolEmitFails, handleRunFailure, Emptied
<1>8. CASE \E c \in zombies : ZombieEnds(c)
  BY <1>8 DEF ZombieEnds, Emptied
<1> QED BY <1>1, <1>3, <1>4, <1>5, <1>6, <1>7, <1>8 DEF Next, Loop

-----------------------------------------------------------------------------
(* The steps that move messages; any other only lets an assistant or a     *)
(* tool speak, or moves nothing.                                           *)
Moves ==
  \/ Steer \/ FollowUp \/ ClearAllQueues \/ (~activeRun /\ Reset)
  \/ \E n \in 1..2 : Prompt(n)
  \/ ContinueQueued \/ ContinueTranscript \/ DropFailedMessage
  \/ EmitPrompt \/ InjectPending \/ FollowUps
  \/ pc \in {"poll", "turnEnd"} /\ \E otherwise : PollSteering(otherwise)
Fails ==
  \/ CallFails
  \/ /\ ListenerThrows
     /\ \E left : \E t \in {transcript} \cup {Append(transcript, m) : m \in BeingEmitted} :
          handleRunFailure(t, left)
Speaks ==
  /\ \/ transcript' = transcript
     \/ \E m \in AssistantMessages \cup ToolResults : transcript' = Append(transcript, m)
  /\ UNCHANGED <<prompts, pendingMessages, steeringQueue, followUpQueue, sent, dropped>>

LEMMA StepKinds ==
  ASSUME TypeOK, [Next]_vars
  PROVE  Moves \/ Fails \/ Speaks
<1> USE DEF conversation, queues, loopVars, toolVars, counters, ghosts
<1>1. CASE UNCHANGED vars
  BY <1>1 DEF vars, Speaks
<1>2. CASE Callers
  BY <1>2, Zenon DEF Callers, Moves, AbortRun, Speaks
<1>3. ASSUME NEW stop \in Stops, NEW n \in 0..MaxCalls, NEW mode, FinalMessage(stop, n, mode)
      PROVE  Speaks
  <2>1. Assistant(stop, n) \in AssistantMessages
    BY NewMessages
  <2> QED BY <1>3, <2>1 DEF FinalMessage, Speaks
<1>4. CASE Turn
  BY <1>3, <1>4 DEF Turn, InitialPoll, StreamStart, Moves, Speaks
<1>5. ASSUME NEW i \in Calls, EmitResult(i) PROVE Speaks
  <2>1. ToolResult(Call(i)) \in ToolResults
    BY NewMessages, LenProperties DEF Calls, TypeOK, ToolCalls
  <2> QED BY <1>5, <2>1 DEF EmitResult, Speaks
<1>6. CASE Tools
  BY <1>5, <1>6 DEF Tools, StartCall, FinishCall, EndBatch, Speaks
<1>7. CASE Ending
  BY <1>7 DEF Ending, TurnEnd, FinishRun, Moves, Speaks
<1>8. CASE Failing
  <2>1. CASE EmitFails
    BY <2>1 DEF EmitFails, Fails
  <2>2. ASSUME NEW i \in Calls, NEW ended \in BOOLEAN, ToolEmitFails(i, ended) PROVE Fails
    BY <2>2 DEF ToolEmitFails, Fails
  <2> QED BY <1>8, <2>1, <2>2 DEF Failing, Fails
<1>9. CASE \E c \in zombies : ZombieEnds(c)
  BY <1>9 DEF ZombieEnds, Speaks
<1> QED BY <1>1, <1>2, <1>4, <1>6, <1>7, <1>8, <1>9 DEF Next, Loop

(* A conversation is the part before its last message, and that message.   *)
LEMMA LastApart ==
  ASSUME NEW S, NEW s \in Seq(S), s # <<>>
  PROVE  /\ SubSeq(s, 1, Len(s) - 1) \in Seq(S) /\ Last(s) \in S
         /\ s = Append(SubSeq(s, 1, Len(s) - 1), Last(s))
<1> DEFINE f == SubSeq(s, 1, Len(s) - 1)
<1>a. Len(s) \in Nat /\ Len(s) # 0
  BY EmptySeq
<1>1. Len(s) >= 1 /\ \A i \in 1..Len(s) : s[i] \in S
  BY <1>a, ElementOfSeq
<1>2. /\ f \in Seq(S) /\ Len(f) = Len(s) - 1 /\ \A i \in 1..Len(f) : f[i] = s[i]
  <2>1. \A i \in 1..(Len(s) - 1) : s[i] \in S
    BY <1>1
  <2>2. f \in Seq(S) /\ Len(f) = Len(s) - 1
    <3>1. CASE Len(s) = 1
      BY <2>1, <3>1, SubSeqEmpty, EmptySeq
    <3>2. CASE Len(s) > 1
      BY <1>1, <2>1, <3>2, SubSeqProperties
    <3>3. Len(s) = 1 \/ Len(s) > 1
      <4>1. \A l \in Nat : l # 0 => l = 1 \/ l > 1
        OBVIOUS
      <4> QED BY <1>a, <4>1, Zenon
    <3> QED BY <3>1, <3>2, <3>3
  <2>3. \A i \in 1..(Len(s) - 1) : f[i] = s[i]
    BY <1>1, <2>1, SubSeqProperties
  <2> HIDE DEF f
  <2> QED BY <2>2, <2>3
<1>3. Last(s) = s[Len(s)] /\ Last(s) \in S
  BY <1>1 DEF Last
<1> HIDE DEF f
<1>4. /\ Append(f, Last(s)) \in Seq(S) /\ Len(Append(f, Last(s))) = Len(f) + 1
      /\ \A i \in 1..Len(f) : Append(f, Last(s))[i] = f[i]
      /\ Append(f, Last(s))[Len(f) + 1] = Last(s)
  BY <1>2, <1>3, AppendProperties
<1>5. \A i \in 1..Len(s) : Append(f, Last(s))[i] = s[i]
  BY <1>1, <1>2, <1>3, <1>4
<1>6. s = Append(f, Last(s))
  BY <1>1, <1>2, <1>4, <1>5, SeqEqual
<1> QED BY <1>2, <1>3, <1>6 DEF f

LEMMA LineShrinks ==
  ASSUME NEW t \in Seq(Messages), NEW p \in Seq(Messages), NEW n \in Seq(Messages),
         NEW q \in Seq(Messages), NEW via, NEW m \in Messages, Line(Append(t, m), p, n, q, via)
  PROVE  Line(t, p, n, q, via)
<1>1. <<m>> \in Seq(Messages) /\ Append(t, m) = t \o <<m>>
  BY OneMessage, AppendIsConcat
<1>2. InOrder(t, via)
  BY <1>1, InOrderConcat DEF Line
<1>3. \A u \in Seq(Messages) : Before(t \o <<m>>, u, via) => Before(t, u, via)
  BY <1>1, BeforeConcat
<1>4. Before(t, p, via) /\ Before(t, n, via) /\ Before(t, q, via)
  BY <1>1, <1>3 DEF Line
<1> QED BY <1>2, <1>4 DEF Line

(* What an assistant or a tool says is no user's message.                  *)
LEMMA NotFromUser ==
  /\ \A m \in AssistantMessages \cup ToolResults : m.role # "user" /\ \A via : ~From(m, via)
  /\ AssistantMessages \cup ToolResults \subseteq Messages
  BY DEF AssistantMessages, ToolResults, Messages, From

(* The message that was being emitted when a listener threw.               *)
LEMMA LineFails ==
  ASSUME IInv, Emptied, NEW t \in {transcript} \cup {Append(transcript, m) : m \in BeingEmitted},
         NEW q \in Seq(Messages), NEW via, Line(transcript, prompts, pendingMessages, q, via)
  PROVE  t \in Seq(Messages) /\ Line(t, <<>>, <<>>, q, via)
<1>1. TypeOK /\ Sync
  BY DEF IInv
<1>2. /\ transcript \in Seq(Messages) /\ prompts \in Seq(Messages)
      /\ pendingMessages \in Seq(Messages) /\ <<>> \in Seq(Messages)
  BY <1>1, PlaceTypes
<1>3. CASE t = transcript
  BY <1>2, <1>3, LineLoses
<1>4. ASSUME NEW m \in BeingEmitted, t = Append(transcript, m) PROVE t \in Seq(Messages) /\ Line(t, <<>>, <<>>, q, via)
  <2>1. CASE pc = "prompts"
    <3>1. prompts # <<>> /\ m = Head(prompts)
      BY <1>1, <1>4, <2>1 DEF BeingEmitted, Sync
    <3>2. m \in Messages /\ Tail(prompts) \in Seq(Messages)
      BY <1>2, <3>1, HeadTailProperties
    <3>3. Line(t, Tail(prompts), pendingMessages, q, via)
      BY <1>2, <1>4, <3>1, LineEmits
    <3> QED BY <1>2, <1>4, <3>2, <3>3, GrowConversation, LineLoses
  <2>2. CASE pc = "inject"
    <3>1. pendingMessages # <<>> /\ m = Head(pendingMessages) /\ prompts = <<>>
      BY <1>1, <1>4, <2>2 DEF BeingEmitted, Sync, Emptied
    <3>2. m \in Messages /\ Tail(pendingMessages) \in Seq(Messages)
      BY <1>2, <3>1, HeadTailProperties
    <3>3. Line(transcript, pendingMessages, <<>>, q, via)
      BY <3>1, LineLoses
    <3>4. Line(t, Tail(pendingMessages), <<>>, q, via)
      BY <1>2, <1>4, <3>1, <3>3, LineEmits
    <3> QED BY <1>2, <1>4, <3>2, <3>4, GrowConversation, LineLoses
  <2>3. CASE pc \notin {"prompts", "inject"}
    <3>1. m \in AssistantMessages \cup ToolResults
      <4>1. CASE pc \in {"call", "partial"}
        BY <1>1, <1>4, <4>1, NewMessages DEF BeingEmitted, Stops
      <4>2. CASE pc = "tools"
        BY <1>1, <1>4, <4>2, NewMessages, LenProperties DEF BeingEmitted, Calls, TypeOK, ToolCalls
      <4>3. CASE pc \notin {"prompts", "inject", "call", "partial", "tools"}
        BY <1>4, <4>3 DEF BeingEmitted
      <4> QED BY <2>3, <4>1, <4>2, <4>3
    <3>2. m \in Messages /\ ~From(m, via)
      BY <3>1, NotFromUser
    <3>3. Line(t, prompts, pendingMessages, q, via)
      BY <1>2, <1>4, <3>2, LineGrows
    <3> QED BY <1>2, <1>4, <3>2, <3>3, GrowConversation, LineLoses
  <2> QED BY <2>1, <2>2, <2>3
<1> QED BY <1>3, <1>4

-----------------------------------------------------------------------------
(* A message newer than any in a line joins its queue.                     *)
LEMMA LineQueues ==
  ASSUME TypeOK, NoNewer, NEW q \in Seq(Messages), IdsIn(q) \subseteq 1..sent, NEW via,
         NEW m \in Messages, m.role = "user", m.id = sent + 1,
         Line(transcript, prompts, pendingMessages, q, via)
  PROVE  Line(transcript, prompts, pendingMessages, Append(q, m), via)
<1>1. /\ transcript \in Seq(Messages) /\ prompts \in Seq(Messages)
      /\ pendingMessages \in Seq(Messages) /\ sent \in Nat
      /\ <<m>> \in Seq(Messages) /\ Append(q, m) = q \o <<m>> /\ InOrder(<<m>>, via)
  BY PlaceTypes, OneMessage, AppendIsConcat
<1>2. ASSUME NEW s \in Seq(Messages), IdsIn(s) \subseteq 1..sent PROVE Before(s, <<m>>, via)
  <2> DEFINE l == <<m>>
  <2>1. DOMAIN l = {1} /\ l[1] = m
    OBVIOUS
  <2> HIDE DEF l
  <2>2. \A i \in DOMAIN s : From(s[i], via) => s[i].id \in 1..sent
    BY <1>2 DEF From, IdsIn
  <2>3. Before(s, l, via)
    BY <1>1, <2>1, <2>2 DEF Before
  <2> QED BY <2>3 DEF l
<1>3. /\ Before(transcript, <<m>>, via) /\ Before(prompts, <<m>>, via)
      /\ Before(pendingMessages, <<m>>, via) /\ Before(q, <<m>>, via)
  BY <1>1, <1>2 DEF NoNewer
<1>4. InOrder(q \o <<m>>, via)
  BY <1>1, <1>3, InOrderConcat DEF Line
<1>5. /\ Before(transcript, q \o <<m>>, via) /\ Before(prompts, q \o <<m>>, via)
      /\ Before(pendingMessages, q \o <<m>>, via)
  BY <1>1, <1>3, BeforeConcat DEF Line
<1> QED BY <1>1, <1>4, <1>5 DEF Line

(* The line of each queue stays in order.                                  *)
LEMMA InLineStep == IInv /\ FifoInv /\ [Next]_vars => InLine'
<1> SUFFICES ASSUME IInv, FifoInv, [Next]_vars PROVE InLine'
  OBVIOUS
<1>a. /\ TypeOK /\ Sync /\ Emptied /\ OwnKind /\ NoNewer
      /\ Line(transcript, prompts, pendingMessages, steeringQueue, "steer")
      /\ Line(transcript, prompts, pendingMessages, followUpQueue, "followUp")
  BY DEF IInv, FifoInv, InLine
<1>b. /\ transcript \in Seq(Messages) /\ prompts \in Seq(Messages)
      /\ pendingMessages \in Seq(Messages) /\ steeringQueue \in Seq(UserMessages)
      /\ followUpQueue \in Seq(UserMessages) /\ steeringQueue \in Seq(Messages)
      /\ followUpQueue \in Seq(Messages) /\ <<>> \in Seq(Messages) /\ sent \in Nat
  BY <1>a, PlaceTypes
<1>c. ASSUME NEW queue \in Seq(UserMessages), NEW kind, NEW via, kind # via, NEW mode,
             \A i \in DOMAIN queue : From(queue[i], kind)
      PROVE  \A i \in DOMAIN Drained(queue, mode) : ~From(Drained(queue, mode)[i], via)
  <2>1. \A i \in DOMAIN Drained(queue, mode) : From(Drained(queue, mode)[i], kind)
    BY <1>c, PolledFrom
  <2> QED BY <1>c, <2>1 DEF From
<1>1. CASE Steer
  <2>1. /\ UNCHANGED <<transcript, prompts, pendingMessages, followUpQueue>>
        /\ steeringQueue' = Append(steeringQueue, User(sent + 1, "steer"))
    BY <1>1 DEF Steer, Send, conversation, loopVars
  <2>2. /\ User(sent + 1, "steer") \in Messages /\ User(sent + 1, "steer").role = "user"
        /\ User(sent + 1, "steer").id = sent + 1
    BY <1>b DEF User, UserMessages, Messages
  <2>3. Line(transcript, prompts, pendingMessages, steeringQueue', "steer")
    BY <1>a, <1>b, <2>1, <2>2, LineQueues DEF NoNewer
  <2> QED BY <1>a, <2>1, <2>3 DEF InLine
<1>2. CASE FollowUp
  <2>1. /\ UNCHANGED <<transcript, prompts, pendingMessages, steeringQueue>>
        /\ followUpQueue' = Append(followUpQueue, User(sent + 1, "followUp"))
    BY <1>2 DEF FollowUp, Send, conversation, loopVars
  <2>2. /\ User(sent + 1, "followUp") \in Messages /\ User(sent + 1, "followUp").role = "user"
        /\ User(sent + 1, "followUp").id = sent + 1
    BY <1>b DEF User, UserMessages, Messages
  <2>3. Line(transcript, prompts, pendingMessages, followUpQueue', "followUp")
    BY <1>a, <1>b, <2>1, <2>2, LineQueues DEF NoNewer
  <2> QED BY <1>a, <2>1, <2>3 DEF InLine
<1>3. CASE ClearAllQueues
  <2>1. /\ UNCHANGED <<transcript, prompts, pendingMessages>>
        /\ steeringQueue' = <<>> /\ followUpQueue' = <<>>
    BY <1>3 DEF ClearAllQueues, conversation, loopVars
  <2> QED BY <1>a, <2>1, LineLoses DEF InLine
<1>4. CASE Reset
  <2>1. /\ UNCHANGED <<prompts, pendingMessages>> /\ transcript' = <<>>
        /\ steeringQueue' = <<>> /\ followUpQueue' = <<>>
    BY <1>4 DEF Reset, loopVars
  <2> QED BY <1>a, <2>1, LineLoses DEF InLine
<1>5. ASSUME NEW n \in 1..2, Prompt(n) PROVE InLine'
  <2> DEFINE ps == [i \in 1..n |-> User(sent + i, "prompt")]
  <2>1. /\ UNCHANGED <<transcript, steeringQueue, followUpQueue>>
        /\ prompts' = ps /\ pendingMessages' = <<>>
    BY <1>5 DEF Prompt, StartRun, queues
  <2>2. /\ \A i \in DOMAIN ps : ~From(ps[i], "steer")
        /\ \A i \in DOMAIN ps : ~From(ps[i], "followUp")
    BY DEF User, From
  <2> HIDE DEF ps
  <2>3. Line(transcript, ps, <<>>, steeringQueue, "steer")
    BY <1>a, <2>2, LineIgnores
  <2>4. Line(transcript, ps, <<>>, followUpQueue, "followUp")
    BY <1>a, <2>2, LineIgnores
  <2> QED BY <2>1, <2>3, <2>4 DEF InLine
<1>6. CASE ContinueQueued
  <2>1. CASE steeringQueue # <<>>
    <3>1. /\ UNCHANGED <<transcript, followUpQueue>> /\ pendingMessages' = <<>>
          /\ prompts' = Drained(steeringQueue, SteeringMode)
          /\ steeringQueue' = Kept(steeringQueue, SteeringMode)
      BY <1>6, <2>1 DEF ContinueQueued, StartRun
    <3>2. Line(transcript, prompts', <<>>, steeringQueue', "steer")
      BY <1>a, <1>b, <3>1, LineDrains
    <3>3. \A i \in DOMAIN prompts' : ~From(prompts'[i], "followUp")
      BY <1>a, <1>b, <1>c, <3>1 DEF OwnKind
    <3>4. Line(transcript, prompts', <<>>, followUpQueue, "followUp")
      BY <1>a, <3>3, LineIgnores
    <3> QED BY <3>1, <3>2, <3>4 DEF InLine
  <2>2. CASE steeringQueue = <<>>
    <3>1. /\ UNCHANGED <<transcript, steeringQueue>> /\ pendingMessages' = <<>>
          /\ prompts' = Drained(followUpQueue, FollowUpMode)
          /\ followUpQueue' = Kept(followUpQueue, FollowUpMode)
      BY <1>6, <2>2 DEF ContinueQueued, StartRun
    <3>2. Line(transcript, prompts', <<>>, followUpQueue', "followUp")
      BY <1>a, <1>b, <3>1, LineDrains
    <3>3. \A i \in DOMAIN prompts' : ~From(prompts'[i], "steer")
      BY <1>a, <1>b, <1>c, <3>1 DEF OwnKind
    <3>4. Line(transcript, prompts', <<>>, steeringQueue, "steer")
      BY <1>a, <3>3, LineIgnores
    <3> QED BY <3>1, <3>2, <3>4 DEF InLine
  <2> QED BY <2>1, <2>2
<1>7. CASE ContinueTranscript
  <2>1. /\ UNCHANGED <<transcript, steeringQueue, followUpQueue>>
        /\ prompts' = <<>> /\ pendingMessages' = <<>>
    BY <1>7 DEF ContinueTranscript, StartRun, queues
  <2> QED BY <1>a, <2>1, LineLoses DEF InLine
<1>8. CASE DropFailedMessage
  <2>1. /\ transcript # <<>> /\ transcript' = SubSeq(transcript, 1, Len(transcript) - 1)
        /\ UNCHANGED <<prompts, pendingMessages, steeringQueue, followUpQueue>>
    BY <1>8 DEF DropFailedMessage, EndsWithAssistant, loopVars, queues
  <2>2. /\ transcript' \in Seq(Messages) /\ Last(transcript) \in Messages
        /\ transcript = Append(transcript', Last(transcript))
    BY <1>b, <2>1, LastApart
  <2>3. /\ Line(transcript', prompts, pendingMessages, steeringQueue, "steer")
        /\ Line(transcript', prompts, pendingMessages, followUpQueue, "followUp")
    <3> DEFINE u == transcript'  m == Last(transcript)
    <3>1. /\ u \in Seq(Messages) /\ m \in Messages
          /\ Line(Append(u, m), prompts, pendingMessages, steeringQueue, "steer")
          /\ Line(Append(u, m), prompts, pendingMessages, followUpQueue, "followUp")
      BY <1>a, <2>2
    <3> HIDE DEF u, m
    <3>2. /\ Line(u, prompts, pendingMessages, steeringQueue, "steer")
          /\ Line(u, prompts, pendingMessages, followUpQueue, "followUp")
      BY <1>b, <3>1, LineShrinks
    <3> QED BY <3>2 DEF u
  <2> QED BY <2>1, <2>3 DEF InLine
<1>9. CASE EmitPrompt
  <2>1. /\ prompts # <<>> /\ transcript' = Append(transcript, Head(prompts))
        /\ prompts' = Tail(prompts) /\ UNCHANGED <<pendingMessages, steeringQueue, followUpQueue>>
    BY <1>a, <1>9 DEF EmitPrompt, Sync, queues
  <2>2. /\ Line(transcript', prompts', pendingMessages, steeringQueue, "steer")
        /\ Line(transcript', prompts', pendingMessages, followUpQueue, "followUp")
    BY <1>a, <1>b, <2>1, LineEmits
  <2> QED BY <2>1, <2>2 DEF InLine
<1>10. CASE InjectPending
  <2>1. /\ pendingMessages # <<>> /\ transcript' = Append(transcript, Head(pendingMessages))
        /\ pendingMessages' = Tail(pendingMessages) /\ prompts = <<>>
        /\ UNCHANGED <<prompts, steeringQueue, followUpQueue>>
    BY <1>a, <1>10 DEF InjectPending, Sync, Emptied, queues
  <2>2. /\ Line(transcript, pendingMessages, <<>>, steeringQueue, "steer")
        /\ Line(transcript, pendingMessages, <<>>, followUpQueue, "followUp")
    BY <1>a, <2>1, LineLoses
  <2>3. /\ Line(transcript', pendingMessages', <<>>, steeringQueue, "steer")
        /\ Line(transcript', pendingMessages', <<>>, followUpQueue, "followUp")
    BY <1>b, <2>1, <2>2, LineEmits
  <2>4. /\ Line(transcript', <<>>, pendingMessages', steeringQueue, "steer")
        /\ Line(transcript', <<>>, pendingMessages', followUpQueue, "followUp")
    BY <2>3, LineLoses
  <2> QED BY <2>1, <2>4 DEF InLine
<1>11. ASSUME NEW otherwise, PollSteering(otherwise) PROVE InLine'
  <2>1. UNCHANGED <<transcript, prompts, followUpQueue>>
    BY <1>11 DEF PollSteering, conversation
  <2>2. CASE skipInitialSteeringPoll
    <3>1. pendingMessages' = <<>> /\ steeringQueue' = steeringQueue
      BY <1>11, <2>2 DEF PollSteering
    <3> QED BY <1>a, <2>1, <3>1, LineLoses DEF InLine
  <2>3. CASE ~skipInitialSteeringPoll
    <3>1. /\ pendingMessages' = Drained(steeringQueue, SteeringMode)
          /\ steeringQueue' = Kept(steeringQueue, SteeringMode)
      BY <1>11, <2>3 DEF PollSteering
    <3>2. Line(transcript, prompts, pendingMessages', steeringQueue', "steer")
      BY <1>a, <1>b, <3>1, LineDrains
    <3>3. \A i \in DOMAIN pendingMessages' : ~From(pendingMessages'[i], "followUp")
      BY <1>a, <1>b, <1>c, <3>1 DEF OwnKind
    <3>4. Line(transcript, prompts, pendingMessages', followUpQueue, "followUp")
      BY <1>a, <3>3, LineIgnores
    <3> QED BY <2>1, <3>2, <3>4 DEF InLine
  <2> QED BY <2>2, <2>3
<1>12. CASE FollowUps
  <2>1. /\ UNCHANGED <<transcript, prompts, steeringQueue>>
        /\ pendingMessages' = Drained(followUpQueue, FollowUpMode)
        /\ followUpQueue' = Kept(followUpQueue, FollowUpMode)
    BY <1>12 DEF FollowUps, conversation
  <2>2. Line(transcript, prompts, pendingMessages', followUpQueue', "followUp")
    BY <1>a, <1>b, <2>1, LineDrains
  <2>3. \A i \in DOMAIN pendingMessages' : ~From(pendingMessages'[i], "steer")
    BY <1>a, <1>b, <1>c, <2>1 DEF OwnKind
  <2>4. Line(transcript, prompts, pendingMessages', steeringQueue, "steer")
    BY <1>a, <2>3, LineIgnores
  <2> QED BY <2>1, <2>2, <2>4 DEF InLine
<1>13. CASE Speaks
  <2>1. UNCHANGED <<prompts, pendingMessages, steeringQueue, followUpQueue>>
    BY <1>13 DEF Speaks
  <2>2. CASE transcript' = transcript
    BY <1>a, <2>1, <2>2 DEF InLine
  <2>3. ASSUME NEW m \in AssistantMessages \cup ToolResults, transcript' = Append(transcript, m)
        PROVE  InLine'
    <3>1. m \in Messages /\ ~From(m, "steer") /\ ~From(m, "followUp")
      BY NotFromUser
    <3>2. /\ Line(transcript', prompts, pendingMessages, steeringQueue, "steer")
          /\ Line(transcript', prompts, pendingMessages, followUpQueue, "followUp")
      BY <1>a, <1>b, <2>3, <3>1, LineGrows
    <3> QED BY <2>1, <3>2 DEF InLine
  <2> QED BY <1>13, <2>2, <2>3 DEF Speaks
<1>14. CASE Fails
  <2>0. PICK left : \E t \in {transcript} \cup {Append(transcript, m) : m \in BeingEmitted} :
                      handleRunFailure(t, left)
    BY <1>14 DEF Fails, CallFails
  <2>1. PICK t \in {transcript} \cup {Append(transcript, m) : m \in BeingEmitted} :
          handleRunFailure(t, left)
    BY <2>0
  <2> DEFINE a == Assistant(IF aborted THEN "aborted" ELSE "error", 0)
  <2>2. /\ transcript' = Append(t, a) /\ prompts' = <<>> /\ pendingMessages' = <<>>
        /\ UNCHANGED <<steeringQueue, followUpQueue>>
    BY <2>1 DEF handleRunFailure, queues
  <2>3. a \in AssistantMessages
    BY <1>a, NewMessages DEF Stops
  <2> HIDE DEF a
  <2>4. a \in Messages /\ ~From(a, "steer") /\ ~From(a, "followUp")
    BY <2>3, NotFromUser
  <2>5. /\ t \in Seq(Messages) /\ Line(t, <<>>, <<>>, steeringQueue, "steer")
        /\ Line(t, <<>>, <<>>, followUpQueue, "followUp")
    BY <1>a, <1>b, LineFails
  <2>6. /\ Line(transcript', <<>>, <<>>, steeringQueue, "steer")
        /\ Line(transcript', <<>>, <<>>, followUpQueue, "followUp")
    BY <1>b, <2>2, <2>4, <2>5, LineGrows
  <2> QED BY <2>2, <2>6 DEF InLine
<1> QED BY <1>a, <1>1, <1>2, <1>3, <1>4, <1>5, <1>6, <1>7, <1>8, <1>9, <1>10, <1>11, <1>12, <1>13,
           <1>14, StepKinds DEF Moves

-----------------------------------------------------------------------------
(* The ids of a conversation that grows, and of a queue that is polled.    *)
LEMMA IdsGrow ==
  ASSUME NEW s \in Seq(Messages), NEW m \in Messages
  PROVE  IdsIn(Append(s, m)) = IdsIn(s) \cup (IF m.role = "user" THEN {m.id} ELSE {})
<1>1. <<m>> \in Seq(Messages) /\ Append(s, m) = s \o <<m>>
  BY OneMessage, AppendIsConcat
<1>2. IdsIn(s \o <<m>>) = IdsIn(s) \cup IdsIn(<<m>>)
  BY <1>1, IdsConcat
<1>3. IdsIn(<<m>>) = IF m.role = "user" THEN {m.id} ELSE {}
  BY OneMessage
<1> QED BY <1>1, <1>2, <1>3

LEMMA IdsOfHead ==
  ASSUME NEW t \in Seq(UserMessages), t # <<>>
  PROVE  /\ Head(t) \in UserMessages /\ Head(t) \in Messages /\ Head(t).role = "user"
         /\ Tail(t) \in Seq(UserMessages) /\ Tail(t) \in Seq(Messages)
         /\ IdsIn(t) = {Head(t).id} \cup IdsIn(Tail(t))
<1>1. Head(t) \in UserMessages /\ Tail(t) \in Seq(UserMessages) /\ t = <<Head(t)>> \o Tail(t)
  BY HeadFirst
<1>2. Head(t) \in Messages /\ Head(t).role = "user" /\ Tail(t) \in Seq(Messages)
  BY <1>1, KindsAreMessages DEF Messages, UserMessages
<1>3. <<Head(t)>> \in Seq(Messages) /\ IdsIn(<<Head(t)>>) = {Head(t).id}
  BY <1>2, OneMessage
<1> QED BY <1>1, <1>2, <1>3, IdsConcat

LEMMA IdsOfPoll ==
  ASSUME NEW queue \in Seq(UserMessages), NEW mode
  PROVE  IdsIn(queue) = IdsIn(Drained(queue, mode)) \cup IdsIn(Kept(queue, mode))
  BY DrainTypes, DrainSplits, KindsAreMessages, IdsConcat

LEMMA IdsOfPrompts ==
  ASSUME NEW k \in Nat, NEW n \in Nat, NEW ps, ps = [i \in 1..n |-> User(k + i, "prompt")]
  PROVE  IdsIn(ps) = (k + 1)..(k + n)
<1>1. DOMAIN ps = 1..n /\ \A i \in 1..n : ps[i].role = "user" /\ ps[i].id = k + i
  BY DEF User
<1>2. IdsIn(ps) = {k + i : i \in 1..n}
  BY <1>1 DEF IdsIn
<1>3. ASSUME NEW j \in (k + 1)..(k + n) PROVE j \in IdsIn(ps)
  <2>1. j - k \in 1..n /\ j = k + (j - k)
    OBVIOUS
  <2> QED BY <1>2, <2>1
<1>4. \A i \in 1..n : k + i \in (k + 1)..(k + n)
  OBVIOUS
<1> QED BY <1>2, <1>3, <1>4

(* No message is newer than the last one sent.                             *)
LEMMA NoNewerStep == IInv /\ FifoInv /\ [Next]_vars => NoNewer'
<1> SUFFICES ASSUME IInv, FifoInv, [Next]_vars PROVE NoNewer'
  OBVIOUS
<1>a. TypeOK /\ Sync /\ Emptied /\ NoNewer
  BY DEF IInv, FifoInv
<1>b. /\ transcript \in Seq(Messages) /\ prompts \in Seq(Messages)
      /\ pendingMessages \in Seq(Messages) /\ steeringQueue \in Seq(UserMessages)
      /\ followUpQueue \in Seq(UserMessages) /\ steeringQueue \in Seq(Messages)
      /\ followUpQueue \in Seq(Messages) /\ <<>> \in Seq(Messages) /\ sent \in Nat
      /\ prompts \in Seq(UserMessages) /\ pendingMessages \in Seq(UserMessages)
  BY <1>a, PlaceTypes
<1>c. /\ IdsIn(transcript) \subseteq 1..sent
      /\ IdsIn(prompts) \subseteq 1..sent /\ IdsIn(pendingMessages) \subseteq 1..sent
      /\ IdsIn(steeringQueue) \subseteq 1..sent /\ IdsIn(followUpQueue) \subseteq 1..sent
  BY <1>a DEF NoNewer
<1>d. IdsIn(<<>>) = {}
  BY DEF IdsIn
<1>1. CASE Steer
  <2>1. /\ UNCHANGED <<transcript, prompts, pendingMessages, followUpQueue>>
        /\ steeringQueue' = Append(steeringQueue, User(sent + 1, "steer")) /\ sent' = sent + 1
    BY <1>1 DEF Steer, Send, conversation, loopVars
  <2>2. /\ User(sent + 1, "steer") \in Messages /\ User(sent + 1, "steer").role = "user"
        /\ User(sent + 1, "steer").id = sent + 1
    BY <1>b DEF User, UserMessages, Messages
  <2>3. IdsIn(steeringQueue') = IdsIn(steeringQueue) \cup {sent + 1}
    <3> DEFINE m == User(sent + 1, "steer")
    <3>1. m \in Messages /\ m.role = "user" /\ m.id = sent + 1
      BY <2>2
    <3> HIDE DEF m
    <3>2. IdsIn(Append(steeringQueue, m)) = IdsIn(steeringQueue) \cup {m.id}
      BY <1>b, <3>1, IdsGrow
    <3> QED BY <2>1, <3>1, <3>2 DEF m
  <2>4. 1..sent \subseteq 1..sent' /\ sent + 1 \in 1..sent'
    BY <1>b, <2>1
  <2> QED BY <1>c, <2>1, <2>3, <2>4 DEF NoNewer
<1>2. CASE FollowUp
  <2>1. /\ UNCHANGED <<transcript, prompts, pendingMessages, steeringQueue>>
        /\ followUpQueue' = Append(followUpQueue, User(sent + 1, "followUp")) /\ sent' = sent + 1
    BY <1>2 DEF FollowUp, Send, conversation, loopVars
  <2>2. /\ User(sent + 1, "followUp") \in Messages /\ User(sent + 1, "followUp").role = "user"
        /\ User(sent + 1, "followUp").id = sent + 1
    BY <1>b DEF User, UserMessages, Messages
  <2>3. IdsIn(followUpQueue') = IdsIn(followUpQueue) \cup {sent + 1}
    <3> DEFINE m == User(sent + 1, "followUp")
    <3>1. m \in Messages /\ m.role = "user" /\ m.id = sent + 1
      BY <2>2
    <3> HIDE DEF m
    <3>2. IdsIn(Append(followUpQueue, m)) = IdsIn(followUpQueue) \cup {m.id}
      BY <1>b, <3>1, IdsGrow
    <3> QED BY <2>1, <3>1, <3>2 DEF m
  <2>4. 1..sent \subseteq 1..sent' /\ sent + 1 \in 1..sent'
    BY <1>b, <2>1
  <2> QED BY <1>c, <2>1, <2>3, <2>4 DEF NoNewer
<1>3. CASE ClearAllQueues
  <2>1. /\ UNCHANGED <<transcript, prompts, pendingMessages, sent>>
        /\ steeringQueue' = <<>> /\ followUpQueue' = <<>>
    BY <1>3 DEF ClearAllQueues, conversation, loopVars
  <2> QED BY <1>c, <1>d, <2>1 DEF NoNewer
<1>4. CASE Reset
  <2>1. /\ UNCHANGED <<prompts, pendingMessages, sent>> /\ transcript' = <<>>
        /\ steeringQueue' = <<>> /\ followUpQueue' = <<>>
    BY <1>4 DEF Reset, loopVars
  <2> QED BY <1>c, <1>d, <2>1 DEF NoNewer
<1>5. ASSUME NEW n \in 1..2, Prompt(n) PROVE NoNewer'
  <2> DEFINE ps == [i \in 1..n |-> User(sent + i, "prompt")]
  <2>1. /\ UNCHANGED <<transcript, steeringQueue, followUpQueue>>
        /\ prompts' = ps /\ pendingMessages' = <<>> /\ sent' = sent + n
    BY <1>5 DEF Prompt, StartRun, Send, queues
  <2>2. IdsIn(ps) = (sent + 1)..(sent + n)
    BY <1>b, IdsOfPrompts
  <2> HIDE DEF ps
  <2> QED BY <1>b, <1>c, <1>d, <2>1, <2>2 DEF NoNewer
<1>6. CASE ContinueQueued
  <2>1. CASE steeringQueue # <<>>
    <3>1. /\ UNCHANGED <<transcript, followUpQueue, sent>> /\ pendingMessages' = <<>>
          /\ prompts' = Drained(steeringQueue, SteeringMode)
          /\ steeringQueue' = Kept(steeringQueue, SteeringMode)
      BY <1>6, <2>1 DEF ContinueQueued, StartRun, ghosts
    <3>2. IdsIn(steeringQueue) = IdsIn(prompts') \cup IdsIn(steeringQueue')
      BY <1>b, <3>1, IdsOfPoll
    <3> QED BY <1>c, <1>d, <3>1, <3>2 DEF NoNewer
  <2>2. CASE steeringQueue = <<>>
    <3>1. /\ UNCHANGED <<transcript, steeringQueue, sent>> /\ pendingMessages' = <<>>
          /\ prompts' = Drained(followUpQueue, FollowUpMode)
          /\ followUpQueue' = Kept(followUpQueue, FollowUpMode)
      BY <1>6, <2>2 DEF ContinueQueued, StartRun, ghosts
    <3>2. IdsIn(followUpQueue) = IdsIn(prompts') \cup IdsIn(followUpQueue')
      BY <1>b, <3>1, IdsOfPoll
    <3> QED BY <1>c, <1>d, <3>1, <3>2 DEF NoNewer
  <2> QED BY <2>1, <2>2
<1>7. CASE ContinueTranscript
  <2>1. /\ UNCHANGED <<transcript, steeringQueue, followUpQueue, sent>>
        /\ prompts' = <<>> /\ pendingMessages' = <<>>
    BY <1>7 DEF ContinueTranscript, StartRun, queues, ghosts
  <2> QED BY <1>c, <1>d, <2>1 DEF NoNewer
<1>8. CASE DropFailedMessage
  <2>1. /\ transcript # <<>> /\ transcript' = SubSeq(transcript, 1, Len(transcript) - 1)
        /\ UNCHANGED <<prompts, pendingMessages, steeringQueue, followUpQueue, sent>>
    BY <1>8 DEF DropFailedMessage, EndsWithAssistant, loopVars, queues, ghosts
  <2>2. /\ transcript' \in Seq(Messages) /\ Last(transcript) \in Messages
        /\ transcript = Append(transcript', Last(transcript))
    BY <1>b, <2>1, LastApart
  <2>3. IdsIn(transcript') \subseteq IdsIn(transcript)
    BY <2>2, IdsGrow
  <2> QED BY <1>c, <2>1, <2>3 DEF NoNewer
<1>9. CASE EmitPrompt
  <2>1. /\ prompts # <<>> /\ transcript' = Append(transcript, Head(prompts))
        /\ prompts' = Tail(prompts)
        /\ UNCHANGED <<pendingMessages, steeringQueue, followUpQueue, sent>>
    BY <1>a, <1>9 DEF EmitPrompt, Sync, queues, ghosts
  <2>2. /\ IdsIn(transcript') = IdsIn(transcript) \cup {Head(prompts).id}
        /\ IdsIn(prompts) = {Head(prompts).id} \cup IdsIn(prompts')
    BY <1>b, <2>1, IdsGrow, IdsOfHead
  <2> QED BY <1>c, <2>1, <2>2 DEF NoNewer
<1>10. CASE InjectPending
  <2>1. /\ pendingMessages # <<>> /\ transcript' = Append(transcript, Head(pendingMessages))
        /\ pendingMessages' = Tail(pendingMessages)
        /\ UNCHANGED <<prompts, steeringQueue, followUpQueue, sent>>
    BY <1>a, <1>10 DEF InjectPending, Sync, queues, ghosts
  <2>2. /\ IdsIn(transcript') = IdsIn(transcript) \cup {Head(pendingMessages).id}
        /\ IdsIn(pendingMessages) = {Head(pendingMessages).id} \cup IdsIn(pendingMessages')
    BY <1>b, <2>1, IdsGrow, IdsOfHead
  <2> QED BY <1>c, <2>1, <2>2 DEF NoNewer
<1>11. ASSUME NEW otherwise, PollSteering(otherwise) PROVE NoNewer'
  <2>1. UNCHANGED <<transcript, prompts, followUpQueue, sent>>
    BY <1>11 DEF PollSteering, conversation, ghosts
  <2>2. CASE skipInitialSteeringPoll
    <3>1. pendingMessages' = <<>> /\ steeringQueue' = steeringQueue
      BY <1>11, <2>2 DEF PollSteering
    <3> QED BY <1>c, <1>d, <2>1, <3>1 DEF NoNewer
  <2>3. CASE ~skipInitialSteeringPoll
    <3>1. /\ pendingMessages' = Drained(steeringQueue, SteeringMode)
          /\ steeringQueue' = Kept(steeringQueue, SteeringMode)
      BY <1>11, <2>3 DEF PollSteering
    <3>2. IdsIn(steeringQueue) = IdsIn(pendingMessages') \cup IdsIn(steeringQueue')
      BY <1>b, <3>1, IdsOfPoll
    <3> QED BY <1>c, <2>1, <3>2 DEF NoNewer
  <2> QED BY <2>2, <2>3
<1>12. CASE FollowUps
  <2>1. /\ UNCHANGED <<transcript, prompts, steeringQueue, sent>>
        /\ pendingMessages' = Drained(followUpQueue, FollowUpMode)
        /\ followUpQueue' = Kept(followUpQueue, FollowUpMode)
    BY <1>12 DEF FollowUps, conversation, ghosts
  <2>2. IdsIn(followUpQueue) = IdsIn(pendingMessages') \cup IdsIn(followUpQueue')
    BY <1>b, <2>1, IdsOfPoll
  <2> QED BY <1>c, <2>1, <2>2 DEF NoNewer
<1>13. CASE Speaks
  <2>1. UNCHANGED <<prompts, pendingMessages, steeringQueue, followUpQueue, sent>>
    BY <1>13 DEF Speaks
  <2>2. IdsIn(transcript') = IdsIn(transcript)
    <3>1. ASSUME NEW m \in AssistantMessages \cup ToolResults, transcript' = Append(transcript, m)
          PROVE  IdsIn(transcript') = IdsIn(transcript)
      <4>1. m \in Messages /\ m.role # "user"
        BY NotFromUser
      <4> QED BY <1>b, <3>1, <4>1, IdsGrow
    <3> QED BY <1>13, <3>1 DEF Speaks
  <2> QED BY <1>c, <2>1, <2>2 DEF NoNewer
<1>14. CASE Fails
  <2>0. PICK left : \E t \in {transcript} \cup {Append(transcript, m) : m \in BeingEmitted} :
                      handleRunFailure(t, left)
    BY <1>14 DEF Fails, CallFails
  <2>1. PICK t \in {transcript} \cup {Append(transcript, m) : m \in BeingEmitted} :
          handleRunFailure(t, left)
    BY <2>0
  <2> DEFINE a == Assistant(IF aborted THEN "aborted" ELSE "error", 0)
  <2>2. /\ transcript' = Append(t, a) /\ prompts' = <<>> /\ pendingMessages' = <<>>
        /\ UNCHANGED <<steeringQueue, followUpQueue, sent>>
    BY <2>1 DEF handleRunFailure, queues, ghosts
  <2>3. a \in AssistantMessages
    BY <1>a, NewMessages DEF Stops
  <2> HIDE DEF a
  <2>4. t \in Seq(Messages) /\ IdsIn(t) \subseteq 1..sent
    <3>1. ASSUME NEW m \in BeingEmitted
          PROVE  m \in Messages /\ (m.role = "user" => m.id \in 1..sent)
      <4>1. CASE pc = "prompts"
        BY <1>a, <1>b, <1>c, <4>1, IdsOfHead DEF BeingEmitted, Sync
      <4>2. CASE pc = "inject"
        BY <1>a, <1>b, <1>c, <4>2, IdsOfHead DEF BeingEmitted, Sync
      <4>3. CASE pc \in {"call", "partial"}
        <5>1. m \in AssistantMessages
          BY <1>a, <4>3, NewMessages DEF BeingEmitted, Stops
        <5> QED BY <5>1, NotFromUser
      <4>4. CASE pc = "tools"
        <5>1. m \in ToolResults
          BY <1>a, <4>4, NewMessages, LenProperties DEF BeingEmitted, Calls, TypeOK, ToolCalls
        <5> QED BY <5>1, NotFromUser
      <4>5. CASE pc \notin {"prompts", "inject", "call", "partial", "tools"}
        BY <4>5 DEF BeingEmitted
      <4> QED BY <4>1, <4>2, <4>3, <4>4, <4>5
    <3>2. CASE t = transcript
      BY <1>b, <1>c, <3>2
    <3>3. ASSUME NEW m \in BeingEmitted, t = Append(transcript, m)
          PROVE  t \in Seq(Messages) /\ IdsIn(t) \subseteq 1..sent
      <4>1. IdsIn(t) = IdsIn(transcript) \cup (IF m.role = "user" THEN {m.id} ELSE {})
        BY <1>b, <3>1, <3>3, IdsGrow
      <4> QED BY <1>b, <1>c, <3>1, <3>3, <4>1, GrowConversation
    <3> QED BY <3>2, <3>3
  <2>5. IdsIn(transcript') = IdsIn(t)
    <3>1. a \in Messages /\ a.role # "user"
      BY <2>3, NotFromUser
    <3> QED BY <2>2, <2>4, <3>1, IdsGrow
  <2> QED BY <1>c, <1>d, <2>2, <2>4, <2>5 DEF NoNewer
<1> QED BY <1>a, <1>1, <1>2, <1>3, <1>4, <1>5, <1>6, <1>7, <1>8, <1>9, <1>10, <1>11, <1>12, <1>13,
           <1>14, StepKinds DEF Moves

-----------------------------------------------------------------------------
LEMMA FifoInvariance == Spec => [](IInv /\ FifoInv)
<1>1. Init => FifoInv
  <2> SUFFICES ASSUME Init PROVE FifoInv
    OBVIOUS
  <2>1. Emptied /\ OwnKind
    BY DEF Init, Emptied, OwnKind
  <2>2. NoNewer
    BY NoMessages DEF Init, NoNewer
  <2>3. InLine
    BY NoMessages DEF Init, InLine, Line
  <2> QED BY <2>1, <2>2, <2>3 DEF FifoInv
<1>2. IInv /\ FifoInv /\ [Next]_vars => IInv' /\ FifoInv'
  BY TypeStep, SyncStep, EmptiedStep, OwnKindStep, NoNewerStep, InLineStep DEF IInv, FifoInv
<1> QED BY InitIInv, <1>1, <1>2, PTL DEF Spec

(* Steering messages reach the transcript in the order they were queued,   *)
(* and so do follow-ups, whatever the modes of the queues, the polls, the  *)
(* runs, the aborts and the failures on the way.                           *)
THEOREM QueuesStayFifo == Spec => []QueuesAreFifo
<1>1. IInv /\ FifoInv => QueuesAreFifo
  <2> SUFFICES ASSUME IInv, FifoInv PROVE QueuesAreFifo
    OBVIOUS
  <2>1. /\ transcript \in Seq(Messages) /\ prompts \in Seq(Messages)
        /\ pendingMessages \in Seq(Messages) /\ steeringQueue \in Seq(Messages)
        /\ followUpQueue \in Seq(Messages)
    BY PlaceTypes DEF IInv
  <2> DEFINE shown == transcript \o prompts
             taken == shown \o pendingMessages
  <2>2. shown \in Seq(Messages)
    BY <2>1, ConcatProperties
  <2>3. taken \in Seq(Messages)
    BY <2>1, <2>2, ConcatProperties
  <2>4. ASSUME NEW q \in Seq(Messages), NEW via, Line(transcript, prompts, pendingMessages, q, via)
        PROVE  InOrder(taken \o q, via)
    <3>1. InOrder(shown, via)
      BY <2>1, <2>4, InOrderConcat DEF Line
    <3>2. Before(shown, pendingMessages, via) /\ Before(shown, q, via)
      BY <2>1, <2>4, BeforeConcat DEF Line
    <3> HIDE DEF shown
    <3>3. InOrder(taken, via)
      BY <2>1, <2>2, <2>4, <3>1, <3>2, InOrderConcat DEF Line
    <3>4. Before(taken, q, via)
      BY <2>1, <2>2, <2>4, <3>2, BeforeConcat DEF Line
    <3> HIDE DEF taken
    <3> QED BY <2>3, <2>4, <3>3, <3>4, InOrderConcat DEF Line
  <2>5. InOrder(taken \o steeringQueue, "steer") /\ InOrder(taken \o followUpQueue, "followUp")
    BY <2>1, <2>4 DEF FifoInv, InLine
  <2> QED BY <2>5 DEF QueuesAreFifo
<1> QED BY FifoInvariance, <1>1, PTL

-----------------------------------------------------------------------------
(* No message is twice in a place or in two places, and every one that was *)
(* sent and not cleared is in one.                                         *)
Distinct(s) ==
  \A i, j \in DOMAIN s :
    s[i].role = "user" /\ s[j].role = "user" /\ s[i].id = s[j].id => i = j
Disjoint(s, t) == IdsIn(s) \cap IdsIn(t) = {}
Apart(t, p, n, s, f) ==
  /\ Distinct(t) /\ Distinct(p) /\ Distinct(n) /\ Distinct(s) /\ Distinct(f)
  /\ Disjoint(t, p) /\ Disjoint(t, n) /\ Disjoint(t, s) /\ Disjoint(t, f)
  /\ Disjoint(p, n) /\ Disjoint(p, s) /\ Disjoint(p, f)
  /\ Disjoint(n, s) /\ Disjoint(n, f) /\ Disjoint(s, f)
Held(t, p, n, s, f) == IdsIn(t) \cup IdsIn(p) \cup IdsIn(n) \cup IdsIn(s) \cup IdsIn(f)

OnceInv ==
  /\ Apart(transcript, prompts, pendingMessages, steeringQueue, followUpQueue)
  /\ (1..sent) \ dropped
       \subseteq Held(transcript, prompts, pendingMessages, steeringQueue, followUpQueue)

LEMMA DistinctConcat ==
  ASSUME NEW s \in Seq(Messages), NEW t \in Seq(Messages)
  PROVE  Distinct(s \o t) <=> Distinct(s) /\ Distinct(t) /\ Disjoint(s, t)
<1> DEFINE l == s \o t
<1>1. /\ Len(s) \in Nat /\ Len(t) \in Nat /\ Len(l) = Len(s) + Len(t)
      /\ DOMAIN s = 1..Len(s) /\ DOMAIN t = 1..Len(t) /\ DOMAIN l = 1..Len(l)
      /\ \A i \in 1..Len(s) : l[i] = s[i]
      /\ \A i \in 1..Len(t) : l[Len(s) + i] = t[i]
  BY ConcatProperties, LenProperties
<1> HIDE DEF l
<1>2. ASSUME Distinct(l) PROVE Distinct(s) /\ Distinct(t) /\ Disjoint(s, t)
  <2>1. Distinct(s)
    BY <1>1, <1>2 DEF Distinct
  <2>2. ASSUME NEW i \in DOMAIN t, NEW j \in DOMAIN t, t[i].role = "user", t[j].role = "user",
               t[i].id = t[j].id
        PROVE  i = j
    <3>1. Len(s) + i \in DOMAIN l /\ Len(s) + j \in DOMAIN l
      BY <1>1
    <3>2. Len(s) + i = Len(s) + j
      BY <1>1, <1>2, <2>2, <3>1 DEF Distinct
    <3> QED BY <1>1, <3>2
  <2>3. ASSUME NEW i \in DOMAIN s, NEW j \in DOMAIN t, s[i].role = "user", t[j].role = "user",
               s[i].id = t[j].id
        PROVE  FALSE
    <3>1. i \in DOMAIN l /\ Len(s) + j \in DOMAIN l /\ i # Len(s) + j
      BY <1>1
    <3> QED BY <1>1, <1>2, <2>3, <3>1 DEF Distinct
  <2>4. Disjoint(s, t)
    BY <2>3 DEF Disjoint, IdsIn
  <2> QED BY <2>1, <2>2, <2>4 DEF Distinct
<1>3. ASSUME Distinct(s), Distinct(t), Disjoint(s, t), NEW i \in DOMAIN l, NEW j \in DOMAIN l,
             l[i].role = "user", l[j].role = "user", l[i].id = l[j].id
      PROVE  i = j
  <2>1. ASSUME NEW a \in DOMAIN s, NEW b \in DOMAIN t, s[a].role = "user", t[b].role = "user"
        PROVE  s[a].id # t[b].id
    BY <1>3, <2>1 DEF Disjoint, IdsIn
  <2>2. CASE i <= Len(s) /\ j <= Len(s)
    BY <1>1, <1>3, <2>2 DEF Distinct
  <2>3. CASE i > Len(s) /\ j > Len(s)
    <3>1. /\ i - Len(s) \in DOMAIN t /\ j - Len(s) \in DOMAIN t
          /\ l[i] = t[i - Len(s)] /\ l[j] = t[j - Len(s)]
      BY <1>1, <2>3
    <3>2. i - Len(s) = j - Len(s)
      BY <1>3, <3>1 DEF Distinct
    <3> QED BY <1>1, <3>2
  <2>4. CASE i <= Len(s) /\ j > Len(s)
    <3>1. i \in DOMAIN s /\ j - Len(s) \in DOMAIN t /\ l[i] = s[i] /\ l[j] = t[j - Len(s)]
      BY <1>1, <2>4
    <3> QED BY <1>3, <2>1, <3>1
  <2>5. CASE i > Len(s) /\ j <= Len(s)
    <3>1. j \in DOMAIN s /\ i - Len(s) \in DOMAIN t /\ l[j] = s[j] /\ l[i] = t[i - Len(s)]
      BY <1>1, <2>5
    <3> QED BY <1>3, <2>1, <3>1
  <2> QED BY <1>1, <2>2, <2>3, <2>4, <2>5
<1> QED BY <1>2, <1>3 DEF Distinct, l

(* A message that is new to a conversation joins it.                       *)
LEMMA DistinctGrows ==
  ASSUME NEW s \in Seq(Messages), NEW m \in Messages
  PROVE  Distinct(Append(s, m)) <=> Distinct(s) /\ (m.role = "user" => m.id \notin IdsIn(s))
<1> DEFINE l == <<m>>
<1>1. l \in Seq(Messages) /\ Append(s, m) = s \o l
      /\ IdsIn(l) = IF m.role = "user" THEN {m.id} ELSE {}
  BY OneMessage, AppendIsConcat
<1>2. Distinct(l)
  BY DEF Distinct
<1> HIDE DEF l
<1>3. Disjoint(s, l) <=> (m.role = "user" => m.id \notin IdsIn(s))
  BY <1>1 DEF Disjoint
<1> QED BY <1>1, <1>2, <1>3, DistinctConcat

LEMMA DistinctHead ==
  ASSUME NEW t \in Seq(UserMessages), t # <<>>, Distinct(t)
  PROVE  Distinct(Tail(t)) /\ Head(t).id \notin IdsIn(Tail(t))
<1> DEFINE l == <<Head(t)>>
<1>1. Head(t) \in Messages /\ Head(t).role = "user" /\ Tail(t) \in Seq(Messages)
  BY IdsOfHead
<1>2. t = l \o Tail(t)
  BY HeadFirst
<1>3. l \in Seq(Messages) /\ IdsIn(l) = {Head(t).id}
  BY <1>1, OneMessage
<1> HIDE DEF l
<1>4. Distinct(Tail(t)) /\ Disjoint(l, Tail(t))
  BY <1>1, <1>2, <1>3, DistinctConcat
<1> QED BY <1>3, <1>4 DEF Disjoint

LEMMA DistinctPoll ==
  ASSUME NEW queue \in Seq(UserMessages), NEW mode, Distinct(queue)
  PROVE  /\ Distinct(Drained(queue, mode)) /\ Distinct(Kept(queue, mode))
         /\ Disjoint(Drained(queue, mode), Kept(queue, mode))
  BY DrainTypes, DrainSplits, KindsAreMessages, DistinctConcat

(* A message that is emitted leaves its place for the transcript, and a    *)
(* poll moves messages to a place that is empty.                           *)
LEMMA ApartEmits ==
  ASSUME NEW t \in Seq(Messages), NEW p \in Seq(UserMessages), p # <<>>, NEW n, NEW s, NEW f
  PROVE  /\ Apart(t, p, n, s, f) => Apart(Append(t, Head(p)), Tail(p), n, s, f)
         /\ Apart(t, n, p, s, f) => Apart(Append(t, Head(p)), n, Tail(p), s, f)
         /\ Held(Append(t, Head(p)), Tail(p), n, s, f) = Held(t, p, n, s, f)
         /\ Held(Append(t, Head(p)), n, Tail(p), s, f) = Held(t, n, p, s, f)
<1>1. /\ Head(p) \in Messages /\ Head(p).role = "user"
      /\ IdsIn(p) = {Head(p).id} \cup IdsIn(Tail(p))
  BY IdsOfHead
<1>2. /\ IdsIn(Append(t, Head(p))) = IdsIn(t) \cup {Head(p).id}
      /\ Distinct(Append(t, Head(p))) <=> Distinct(t) /\ Head(p).id \notin IdsIn(t)
  BY <1>1, IdsGrow, DistinctGrows
<1>3. Distinct(p) => Distinct(Tail(p)) /\ Head(p).id \notin IdsIn(Tail(p))
  BY DistinctHead
<1> QED BY <1>1, <1>2, <1>3 DEF Apart, Disjoint, Held

LEMMA ApartDrains ==
  ASSUME NEW t, NEW mode, NEW q \in Seq(UserMessages), NEW o
  PROVE  /\ Apart(t, <<>>, <<>>, q, o) =>
              /\ Apart(t, Drained(q, mode), <<>>, Kept(q, mode), o)
              /\ Apart(t, <<>>, Drained(q, mode), Kept(q, mode), o)
         /\ Apart(t, <<>>, <<>>, o, q) =>
              /\ Apart(t, Drained(q, mode), <<>>, o, Kept(q, mode))
              /\ Apart(t, <<>>, Drained(q, mode), o, Kept(q, mode))
         /\ Held(t, Drained(q, mode), <<>>, Kept(q, mode), o) = Held(t, <<>>, <<>>, q, o)
         /\ Held(t, <<>>, Drained(q, mode), Kept(q, mode), o) = Held(t, <<>>, <<>>, q, o)
         /\ Held(t, Drained(q, mode), <<>>, o, Kept(q, mode)) = Held(t, <<>>, <<>>, o, q)
         /\ Held(t, <<>>, Drained(q, mode), o, Kept(q, mode)) = Held(t, <<>>, <<>>, o, q)
<1> DEFINE d == Drained(q, mode)
           k == Kept(q, mode)
<1>1. IdsIn(q) = IdsIn(d) \cup IdsIn(k) /\ IdsIn(<<>>) = {}
  BY IdsOfPoll, NoMessages
<1>2. Distinct(q) => Distinct(d) /\ Distinct(k) /\ Disjoint(d, k)
  BY DistinctPoll
<1> HIDE DEF d, k
<1>3. Apart(t, <<>>, <<>>, q, o) => Apart(t, d, <<>>, k, o) /\ Apart(t, <<>>, d, k, o)
  BY <1>1, <1>2 DEF Apart, Disjoint
<1>4. Apart(t, <<>>, <<>>, o, q) => Apart(t, d, <<>>, o, k) /\ Apart(t, <<>>, d, o, k)
  BY <1>1, <1>2 DEF Apart, Disjoint
<1>5. /\ Held(t, d, <<>>, k, o) = Held(t, <<>>, <<>>, q, o)
      /\ Held(t, <<>>, d, k, o) = Held(t, <<>>, <<>>, q, o)
      /\ Held(t, d, <<>>, o, k) = Held(t, <<>>, <<>>, o, q)
      /\ Held(t, <<>>, d, o, k) = Held(t, <<>>, <<>>, o, q)
  BY <1>1 DEF Held
<1> QED BY <1>3, <1>4, <1>5 DEF d, k

(* The assistant and the tools add to the transcript no message of a user. *)
LEMMA ApartSpeaks ==
  ASSUME NEW t \in Seq(Messages), NEW m \in Messages, m.role # "user", NEW p, NEW n, NEW s, NEW f
  PROVE  /\ Apart(Append(t, m), p, n, s, f) <=> Apart(t, p, n, s, f)
         /\ Held(Append(t, m), p, n, s, f) = Held(t, p, n, s, f)
<1>1. IdsIn(Append(t, m)) = IdsIn(t) /\ (Distinct(Append(t, m)) <=> Distinct(t))
  BY IdsGrow, DistinctGrows
<1> QED BY <1>1 DEF Apart, Disjoint, Held

-----------------------------------------------------------------------------
(* Where no listener throws, no step loses or repeats a message.           *)
LEMMA OnceStep ==
  ASSUME ListenerThrows = FALSE, IInv, FifoInv, OnceInv, [Next]_vars
  PROVE  OnceInv'
<1> DEFINE T == transcript
           P == prompts
           N == pendingMessages
           S == steeringQueue
           F == followUpQueue
<1>a. TypeOK /\ Sync /\ Emptied /\ NoNewer /\ Apart(T, P, N, S, F) /\ (1..sent) \ dropped \subseteq Held(T, P, N, S, F)
  BY DEF IInv, FifoInv, OnceInv
<1>b. /\ T \in Seq(Messages) /\ P \in Seq(Messages) /\ N \in Seq(Messages)
      /\ S \in Seq(Messages) /\ F \in Seq(Messages) /\ <<>> \in Seq(Messages) /\ sent \in Nat
      /\ P \in Seq(UserMessages) /\ N \in Seq(UserMessages)
      /\ S \in Seq(UserMessages) /\ F \in Seq(UserMessages)
  BY <1>a, PlaceTypes
<1>c. /\ IdsIn(T) \subseteq 1..sent /\ IdsIn(P) \subseteq 1..sent /\ IdsIn(N) \subseteq 1..sent
      /\ IdsIn(S) \subseteq 1..sent /\ IdsIn(F) \subseteq 1..sent
  BY <1>a DEF NoNewer
<1>d. IdsIn(<<>>) = {} /\ Distinct(<<>>)
  BY DEF IdsIn, Distinct
<1>e. /\ pc \notin {"prompts", "inject"} => P = <<>> /\ N = <<>>
      /\ pc = "prompts" => N = <<>>
      /\ pc = "inject" => P = <<>>
      /\ ~activeRun => pc = "idle"
  BY <1>a DEF Emptied, TypeOK, Control
<1>f. /\ Apart(T', P', N', S', F') /\ (1..sent') \ dropped' \subseteq Held(T', P', N', S', F')
      => OnceInv'
  BY DEF OnceInv
<1> HIDE DEF T, P, N, S, F
<1>1. CASE Steer
  <2>1. /\ T' = T /\ P' = P /\ N' = N /\ F' = F /\ dropped' = dropped
        /\ S' = Append(S, User(sent + 1, "steer")) /\ sent' = sent + 1
    BY <1>1 DEF Steer, Send, conversation, loopVars, T, P, N, S, F
  <2>2. /\ User(sent + 1, "steer") \in Messages /\ User(sent + 1, "steer").role = "user"
        /\ User(sent + 1, "steer").id = sent + 1
    BY <1>b DEF User, UserMessages, Messages
  <2>3. sent + 1 \notin 1..sent /\ 1..(sent + 1) = 1..sent \cup {sent + 1}
    BY <1>b
  <2>4. IdsIn(S') = IdsIn(S) \cup {sent + 1} /\ (Distinct(S) => Distinct(S'))
    BY <1>b, <1>c, <2>1, <2>2, <2>3, IdsGrow, DistinctGrows
  <2>5. Apart(T', P', N', S', F')
    BY <1>a, <1>c, <2>1, <2>3, <2>4 DEF Apart, Disjoint
  <2>6. (1..sent') \ dropped' \subseteq Held(T', P', N', S', F')
    BY <1>a, <2>1, <2>3, <2>4 DEF Held
  <2> QED BY <1>f, <2>5, <2>6
<1>2. CASE FollowUp
  <2>1. /\ T' = T /\ P' = P /\ N' = N /\ S' = S /\ dropped' = dropped
        /\ F' = Append(F, User(sent + 1, "followUp")) /\ sent' = sent + 1
    BY <1>2 DEF FollowUp, Send, conversation, loopVars, T, P, N, S, F
  <2>2. /\ User(sent + 1, "followUp") \in Messages /\ User(sent + 1, "followUp").role = "user"
        /\ User(sent + 1, "followUp").id = sent + 1
    BY <1>b DEF User, UserMessages, Messages
  <2>3. sent + 1 \notin 1..sent /\ 1..(sent + 1) = 1..sent \cup {sent + 1}
    BY <1>b
  <2>4. IdsIn(F') = IdsIn(F) \cup {sent + 1} /\ (Distinct(F) => Distinct(F'))
    BY <1>b, <1>c, <2>1, <2>2, <2>3, IdsGrow, DistinctGrows
  <2>5. Apart(T', P', N', S', F')
    BY <1>a, <1>c, <2>1, <2>3, <2>4 DEF Apart, Disjoint
  <2>6. (1..sent') \ dropped' \subseteq Held(T', P', N', S', F')
    BY <1>a, <2>1, <2>3, <2>4 DEF Held
  <2> QED BY <1>f, <2>5, <2>6
<1>3. CASE ClearAllQueues
  <2>1. /\ T' = T /\ P' = P /\ N' = N /\ S' = <<>> /\ F' = <<>> /\ sent' = sent
        /\ dropped' = dropped \cup IdsIn(S) \cup IdsIn(F)
    BY <1>3 DEF ClearAllQueues, conversation, loopVars, T, P, N, S, F
  <2>2. Apart(T', P', N', S', F')
    BY <1>a, <1>d, <2>1 DEF Apart, Disjoint
  <2>3. (1..sent') \ dropped' \subseteq Held(T', P', N', S', F')
    BY <1>a, <2>1 DEF Held
  <2> QED BY <1>f, <2>2, <2>3
<1>4. CASE ~activeRun /\ Reset
  <2>1. /\ T' = <<>> /\ P' = P /\ N' = N /\ S' = <<>> /\ F' = <<>> /\ sent' = sent
        /\ dropped' = dropped \cup IdsIn(T) \cup IdsIn(S) \cup IdsIn(F)
    BY <1>4 DEF Reset, loopVars, T, P, N, S, F
  <2>2. Apart(T', P', N', S', F')
    BY <1>a, <1>d, <2>1 DEF Apart, Disjoint
  <2>3. (1..sent') \ dropped' \subseteq Held(T', P', N', S', F')
    BY <1>a, <2>1 DEF Held
  <2> QED BY <1>f, <2>2, <2>3
<1>5. ASSUME NEW n \in 1..2, Prompt(n) PROVE OnceInv'
  <2> DEFINE ps == [i \in 1..n |-> User(sent + i, "prompt")]
  <2>1. /\ T' = T /\ S' = S /\ F' = F /\ P' = ps /\ N' = <<>> /\ P = <<>> /\ N = <<>>
        /\ sent' = sent + n /\ dropped' = dropped
    BY <1>5, <1>e DEF Prompt, StartRun, Send, queues, T, P, N, S, F
  <2>2. IdsIn(ps) = (sent + 1)..(sent + n)
    BY <1>b, IdsOfPrompts
  <2>3. Distinct(ps)
    <3>1. DOMAIN ps = 1..n /\ \A i \in 1..n : ps[i].id = sent + i
      BY DEF User
    <3> HIDE DEF ps
    <3>2. ASSUME NEW i \in 1..n, NEW j \in 1..n, sent + i = sent + j PROVE i = j
      BY <1>b, <3>2
    <3> QED BY <3>1, <3>2 DEF Distinct
  <2> HIDE DEF ps
  <2>4. /\ (1..sent) \cap ((sent + 1)..(sent + n)) = {}
        /\ 1..(sent + n) = 1..sent \cup (sent + 1)..(sent + n)
    BY <1>b
  <2>5. Apart(T', P', N', S', F')
    BY <1>a, <1>c, <1>d, <2>1, <2>2, <2>3, <2>4 DEF Apart, Disjoint
  <2>6. (1..sent') \ dropped' \subseteq Held(T', P', N', S', F')
    BY <1>a, <1>d, <2>1, <2>2, <2>4 DEF Held
  <2> QED BY <1>f, <2>5, <2>6
<1>6. CASE ContinueQueued
  <2>1. CASE steeringQueue # <<>>
    <3>1. /\ T' = T /\ F' = F /\ N' = <<>> /\ P' = Drained(S, SteeringMode)
          /\ S' = Kept(S, SteeringMode) /\ P = <<>> /\ N = <<>>
          /\ sent' = sent /\ dropped' = dropped
      BY <1>6, <1>e, <2>1 DEF ContinueQueued, StartRun, ghosts, T, P, N, S, F
    <3>2. Apart(T', P', N', S', F') /\ Held(T', P', N', S', F') = Held(T, P, N, S, F)
      BY <1>a, <1>b, <3>1, ApartDrains
    <3> QED BY <1>a, <1>f, <3>1, <3>2
  <2>2. CASE steeringQueue = <<>>
    <3>1. /\ T' = T /\ S' = S /\ N' = <<>> /\ P' = Drained(F, FollowUpMode)
          /\ F' = Kept(F, FollowUpMode) /\ P = <<>> /\ N = <<>>
          /\ sent' = sent /\ dropped' = dropped
      BY <1>6, <1>e, <2>2 DEF ContinueQueued, StartRun, ghosts, T, P, N, S, F
    <3>2. Apart(T', P', N', S', F') /\ Held(T', P', N', S', F') = Held(T, P, N, S, F)
      BY <1>a, <1>b, <3>1, ApartDrains
    <3> QED BY <1>a, <1>f, <3>1, <3>2
  <2> QED BY <2>1, <2>2
<1>7. CASE ContinueTranscript
  <2>1. /\ T' = T /\ S' = S /\ F' = F /\ P' = P /\ N' = N /\ sent' = sent /\ dropped' = dropped
    BY <1>7, <1>e DEF ContinueTranscript, StartRun, queues, ghosts, T, P, N, S, F
  <2> QED BY <1>a, <1>f, <2>1
<1>8. CASE DropFailedMessage
  <2>1. /\ transcript # <<>> /\ T' = SubSeq(T, 1, Len(T) - 1) /\ Last(T).role = "assistant"
        /\ P' = P /\ N' = N /\ S' = S /\ F' = F /\ sent' = sent /\ dropped' = dropped
    BY <1>8 DEF DropFailedMessage, EndsWithAssistant, loopVars, queues, ghosts, T, P, N, S, F
  <2>2. T' \in Seq(Messages) /\ Last(T) \in Messages /\ T = Append(T', Last(T))
    BY <1>b, <2>1, LastApart DEF T
  <2>3. /\ Apart(Append(T', Last(T)), P, N, S, F) <=> Apart(T', P, N, S, F)
        /\ Held(Append(T', Last(T)), P, N, S, F) = Held(T', P, N, S, F)
    <3> DEFINE u == T'
               l == Last(T)
    <3>1. u \in Seq(Messages) /\ l \in Messages /\ l.role # "user"
      BY <2>1, <2>2
    <3> HIDE DEF u, l
    <3>2. /\ Apart(Append(u, l), P, N, S, F) <=> Apart(u, P, N, S, F)
          /\ Held(Append(u, l), P, N, S, F) = Held(u, P, N, S, F)
      BY <3>1, ApartSpeaks
    <3> QED BY <3>2 DEF u, l
  <2> QED BY <1>a, <1>f, <2>1, <2>2, <2>3
<1>9. CASE EmitPrompt
  <2>1. /\ P # <<>> /\ T' = Append(T, Head(P)) /\ P' = Tail(P)
        /\ N' = N /\ S' = S /\ F' = F /\ sent' = sent /\ dropped' = dropped
    BY <1>a, <1>9 DEF EmitPrompt, Sync, queues, ghosts, T, P, N, S, F
  <2>2. Apart(T', P', N', S', F') /\ Held(T', P', N', S', F') = Held(T, P, N, S, F)
    BY <1>a, <1>b, <2>1, ApartEmits
  <2> QED BY <1>a, <1>f, <2>1, <2>2
<1>10. CASE InjectPending
  <2>1. /\ N # <<>> /\ T' = Append(T, Head(N)) /\ N' = Tail(N)
        /\ P' = P /\ S' = S /\ F' = F /\ sent' = sent /\ dropped' = dropped
    BY <1>a, <1>10 DEF InjectPending, Sync, queues, ghosts, T, P, N, S, F
  <2>2. Apart(T', P', N', S', F') /\ Held(T', P', N', S', F') = Held(T, P, N, S, F)
    BY <1>a, <1>b, <2>1, ApartEmits
  <2> QED BY <1>a, <1>f, <2>1, <2>2
<1>11. ASSUME NEW otherwise, pc \in {"poll", "turnEnd"}, PollSteering(otherwise) PROVE OnceInv'
  <2>1. T' = T /\ P' = P /\ F' = F /\ P = <<>> /\ N = <<>> /\ sent' = sent /\ dropped' = dropped
    BY <1>11, <1>e DEF PollSteering, conversation, ghosts, T, P, N, S, F
  <2>2. CASE skipInitialSteeringPoll
    <3>1. N' = N /\ S' = S
      BY <1>11, <1>e, <2>2 DEF PollSteering, N, S
    <3> QED BY <1>a, <1>f, <2>1, <3>1
  <2>3. CASE ~skipInitialSteeringPoll
    <3>1. N' = Drained(S, SteeringMode) /\ S' = Kept(S, SteeringMode)
      BY <1>11, <2>3 DEF PollSteering, N, S
    <3>2. Apart(T', P', N', S', F') /\ Held(T', P', N', S', F') = Held(T, P, N, S, F)
      BY <1>a, <1>b, <2>1, <3>1, ApartDrains
    <3> QED BY <1>a, <1>f, <2>1, <3>2
  <2> QED BY <2>2, <2>3
<1>12. CASE FollowUps
  <2>1. /\ T' = T /\ P' = P /\ S' = S /\ P = <<>> /\ N = <<>> /\ sent' = sent /\ dropped' = dropped
        /\ N' = Drained(F, FollowUpMode) /\ F' = Kept(F, FollowUpMode)
    BY <1>12, <1>e DEF FollowUps, conversation, ghosts, T, P, N, S, F
  <2>2. Apart(T', P', N', S', F') /\ Held(T', P', N', S', F') = Held(T, P, N, S, F)
    BY <1>a, <1>b, <2>1, ApartDrains
  <2> QED BY <1>a, <1>f, <2>1, <2>2
<1>13. CASE Speaks
  <2>1. P' = P /\ N' = N /\ S' = S /\ F' = F /\ sent' = sent /\ dropped' = dropped
    BY <1>13 DEF Speaks, P, N, S, F
  <2>2. Apart(T', P, N, S, F) /\ Held(T', P, N, S, F) = Held(T, P, N, S, F)
    <3>1. CASE transcript' = transcript
      BY <1>a, <3>1 DEF T
    <3>2. ASSUME NEW m \in AssistantMessages \cup ToolResults, T' = Append(T, m)
          PROVE  Apart(T', P, N, S, F) /\ Held(T', P, N, S, F) = Held(T, P, N, S, F)
      <4>1. m \in Messages /\ m.role # "user"
        BY NotFromUser
      <4> QED BY <1>a, <1>b, <3>2, <4>1, ApartSpeaks
    <3> QED BY <1>13, <3>1, <3>2 DEF Speaks, T
  <2> QED BY <1>a, <1>f, <2>1, <2>2
<1>14. CASE Fails
  <2> DEFINE a == Assistant(IF aborted THEN "aborted" ELSE "error", 0)
  <2>1. /\ T' = Append(T, a) /\ P' = <<>> /\ N' = <<>> /\ S' = S /\ F' = F /\ P = <<>> /\ N = <<>>
        /\ sent' = sent /\ dropped' = dropped
    BY <1>14, <1>e DEF Fails, CallFails, handleRunFailure, queues, ghosts, T, P, N, S, F
  <2>2. a \in AssistantMessages
    BY <1>a, NewMessages DEF Stops
  <2> HIDE DEF a
  <2>3. a \in Messages /\ a.role # "user"
    BY <2>2, NotFromUser
  <2>4. Apart(T', P', N', S', F') /\ Held(T', P', N', S', F') = Held(T, P, N, S, F)
    BY <1>a, <1>b, <2>1, <2>3, ApartSpeaks
  <2> QED BY <1>a, <1>f, <2>1, <2>4
<1> QED BY <1>a, <1>1, <1>2, <1>3, <1>4, <1>5, <1>6, <1>7, <1>8, <1>9, <1>10, <1>11, <1>12, <1>13,
           <1>14, StepKinds DEF Moves

(* A conversation without repetition has a message in one position if it   *)
(* has it at all.                                                          *)
LEMMA OnePosition ==
  ASSUME NEW s \in Seq(Messages), NEW m, Distinct(s)
  PROVE  /\ m \notin IdsIn(s) => Holding(s, m) = {}
         /\ m \in IdsIn(s) => \E k : Holding(s, m) = {k}
<1>1. m \notin IdsIn(s) => Holding(s, m) = {}
  BY DEF IdsIn, Holding
<1>2. ASSUME m \in IdsIn(s) PROVE \E k : Holding(s, m) = {k}
  <2>1. PICK k \in DOMAIN s : s[k].role = "user" /\ s[k].id = m
    BY <1>2 DEF IdsIn
  <2>2. Holding(s, m) = {k}
    BY <2>1 DEF Holding, Distinct
  <2> QED BY <2>2
<1> QED BY <1>1, <1>2

(* A message given to the agent is in one place, once, until its caller    *)
(* clears it: no poll, abort, failed answer, failed callback or retry      *)
(* loses or repeats one.  The hypothesis is needed: a listener that throws *)
(* at a message_start loses the message, and what was pending behind it.   *)
THEOREM NothingIsLostOrRepeated ==
  ASSUME ListenerThrows = FALSE
  PROVE  Spec => []NothingLostOrRepeated
<1>1. Init => OnceInv
  <2> SUFFICES ASSUME Init PROVE OnceInv
    OBVIOUS
  <2>1. Distinct(<<>>) /\ IdsIn(<<>>) = {} /\ (1..0) \ dropped = {}
    BY DEF Distinct, IdsIn
  <2> QED BY <2>1 DEF Init, OnceInv, Apart, Disjoint, Held
<1>2. IInv /\ FifoInv /\ OnceInv /\ [Next]_vars => OnceInv'
  BY OnceStep
<1>3. IInv /\ FifoInv /\ OnceInv => NothingLostOrRepeated
  <2> SUFFICES ASSUME IInv, FifoInv, OnceInv, NEW m \in (1..sent) \ dropped
               PROVE  Cardinality(UNION {{p} \X Holding(Places[p], m) : p \in DOMAIN Places}) = 1
    BY DEF NothingLostOrRepeated
  <2> DEFINE Spots == UNION {{p} \X Holding(Places[p], m) : p \in DOMAIN Places}
  <2>1. /\ transcript \in Seq(Messages) /\ prompts \in Seq(Messages)
        /\ pendingMessages \in Seq(Messages) /\ steeringQueue \in Seq(Messages)
        /\ followUpQueue \in Seq(Messages)
    BY PlaceTypes DEF IInv
  <2>2. /\ DOMAIN Places = 1..5 /\ Places[1] = transcript /\ Places[2] = prompts
        /\ Places[3] = pendingMessages /\ Places[4] = steeringQueue /\ Places[5] = followUpQueue
    BY DEF Places
  <2>3. \E p \in 1..5 : m \in IdsIn(Places[p]) /\ \A q \in (1..5) \ {p} : m \notin IdsIn(Places[q])
    BY <2>2 DEF OnceInv, Apart, Disjoint, Held
  <2>4. \A p \in 1..5 : Places[p] \in Seq(Messages) /\ Distinct(Places[p])
    BY <2>1, <2>2 DEF OnceInv, Apart
  <2>5. PICK p \in 1..5 : m \in IdsIn(Places[p]) /\ \A q \in (1..5) \ {p} : m \notin IdsIn(Places[q])
    BY <2>3
  <2>6. PICK k : Holding(Places[p], m) = {k}
    BY <2>4, <2>5, OnePosition
  <2>7. \A q \in (1..5) \ {p} : Holding(Places[q], m) = {}
    BY <2>4, <2>5, OnePosition
  <2>8. Spots = {<<p, k>>}
    BY <2>2, <2>6, <2>7
  <2>9. Cardinality({<<p, k>>}) = 1
    BY FS_Singleton
  <2> QED BY <2>8, <2>9
<1> QED BY FifoInvariance, <1>1, <1>2, <1>3, PTL DEF Spec

-----------------------------------------------------------------------------
(* The answer at k of s has its results right behind it, and no more.      *)
Complete(s, k) ==
  s[k].role = "assistant" /\ s[k].stop = "stop" =>
    /\ \A i \in 1..s[k].calls :
         /\ k + i \in DOMAIN s
         /\ s[k + i] = ToolResult([turn |-> s[k].turn, index |-> i])
    /\ k + s[k].calls + 1 \in DOMAIN s => s[k + s[k].calls + 1].role # "toolResult"
AllComplete(s) == \A k \in DOMAIN s : Complete(s, k)

(* Every answer in the transcript is complete, but for the last one while  *)
(* its calls run: of that one the first results are there, in their order. *)
BatchAnswered ==
  /\ pc # "tools" => AllComplete(transcript)
  /\ pc = "tools" =>
       /\ context # <<>>
       /\ \A k \in 1..(Len(context) - 1) : Complete(context, k)
       /\ context[Len(context)] \in AssistantMessages
       /\ context[Len(context)].turn = turns /\ context[Len(context)].calls = Len(batch.status)
       /\ Len(batch.messages) <= Len(batch.status)
       /\ \A i \in DOMAIN batch.messages : batch.messages[i] = ToolResult(Call(i))
(* An answer that is complete stays so when anything but a result is added *)
(* to the conversation, or taken from it.                                  *)
LEMMA CompleteGrows ==
  ASSUME NEW s \in Seq(Messages), NEW m \in Messages, m.role # "toolResult", NEW k \in 1..Len(s)
  PROVE  Complete(Append(s, m), k) <=> Complete(s, k)
<1> DEFINE l == Append(s, m)
<1>1. /\ l \in Seq(Messages) /\ Len(l) = Len(s) + 1 /\ Len(s) \in Nat
      /\ DOMAIN l = 1..Len(l) /\ DOMAIN s = 1..Len(s)
      /\ \A i \in 1..Len(s) : l[i] = s[i]
      /\ l[Len(s) + 1] = m
  BY AppendProperties, LenProperties
<1> HIDE DEF l
<1>2. SUFFICES ASSUME s[k].role = "assistant", s[k].stop = "stop"
               PROVE  Complete(l, k) <=> Complete(s, k)
  BY <1>1 DEF Complete, l
<1>3. s[k].calls \in Nat /\ l[k] = s[k]
  <2>1. s[k] \in Messages
    BY ElementOfSeq
  <2> QED BY <1>1, <1>2, <2>1 DEF Messages, UserMessages, AssistantMessages, ToolResults
<1>4. ASSUME Complete(s, k) PROVE Complete(l, k)
  <2>1. \A i \in 1..s[k].calls :
          k + i \in DOMAIN l /\ l[k + i] = ToolResult([turn |-> s[k].turn, index |-> i])
    BY <1>1, <1>2, <1>4 DEF Complete
  <2>2. ASSUME k + s[k].calls + 1 \in DOMAIN l PROVE l[k + s[k].calls + 1].role # "toolResult"
    <3>1. CASE k + s[k].calls + 1 \in DOMAIN s
      BY <1>1, <1>2, <1>4, <3>1 DEF Complete
    <3>2. CASE k + s[k].calls + 1 \notin DOMAIN s
      BY <1>1, <1>3, <2>2, <3>2
    <3> QED BY <3>1, <3>2
  <2> QED BY <1>3, <2>1, <2>2 DEF Complete
<1>5. ASSUME Complete(l, k) PROVE Complete(s, k)
  <2>1. ASSUME NEW i \in 1..s[k].calls
        PROVE  k + i \in DOMAIN s /\ s[k + i] = ToolResult([turn |-> s[k].turn, index |-> i])
    <3>1. k + i \in DOMAIN l /\ l[k + i] = ToolResult([turn |-> s[k].turn, index |-> i])
      BY <1>2, <1>3, <1>5 DEF Complete
    <3>2. l[k + i].role = "toolResult"
      BY <3>1 DEF ToolResult
    <3>3. k + i # Len(s) + 1
      BY <1>1, <3>2
    <3>4. k + i \in 1..Len(s)
      BY <1>1, <1>3, <3>1, <3>3
    <3> QED BY <1>1, <3>1, <3>4
  <2>2. ASSUME k + s[k].calls + 1 \in DOMAIN s PROVE s[k + s[k].calls + 1].role # "toolResult"
    BY <1>1, <1>2, <1>3, <1>5, <2>2 DEF Complete
  <2> QED BY <2>1, <2>2 DEF Complete
<1> QED BY <1>4, <1>5 DEF l

(* A message that asks for no tool call is complete at once.               *)
LEMMA CompleteAlone ==
  ASSUME NEW s \in Seq(Messages), NEW m \in Messages,
         m.role = "assistant" /\ m.stop = "stop" => m.calls = 0
  PROVE  Complete(Append(s, m), Len(s) + 1)
<1> DEFINE l == Append(s, m)
<1>1. /\ l \in Seq(Messages) /\ Len(l) = Len(s) + 1 /\ Len(s) \in Nat /\ DOMAIN l = 1..Len(l)
      /\ l[Len(s) + 1] = m
  BY AppendProperties, LenProperties
<1> HIDE DEF l
<1>2. Complete(l, Len(s) + 1)
  BY <1>1 DEF Complete
<1> QED BY <1>2 DEF l

LEMMA AllCompleteGrows ==
  ASSUME NEW s \in Seq(Messages), NEW m \in Messages, m.role # "toolResult"
  PROVE  /\ AllComplete(s) /\ (m.role = "assistant" /\ m.stop = "stop" => m.calls = 0)
              => AllComplete(Append(s, m))
         /\ AllComplete(Append(s, m)) => AllComplete(s)
<1>1. /\ DOMAIN Append(s, m) = 1..(Len(s) + 1) /\ DOMAIN s = 1..Len(s) /\ Len(s) \in Nat
  BY AppendProperties, LenProperties
<1>2. \A k \in 1..Len(s) : Complete(Append(s, m), k) <=> Complete(s, k)
  BY CompleteGrows
<1>3. (m.role = "assistant" /\ m.stop = "stop" => m.calls = 0) => Complete(Append(s, m), Len(s) + 1)
  BY CompleteAlone
<1>4. \A k \in 1..(Len(s) + 1) : k \in 1..Len(s) \/ k = Len(s) + 1
  BY <1>1
<1>5. \A k \in 1..Len(s) : k \in 1..(Len(s) + 1)
  BY <1>1
<1> QED BY <1>1, <1>2, <1>3, <1>4, <1>5 DEF AllComplete

(* When the results of the last answer follow it, every answer is complete. *)
LEMMA CompleteBatch ==
  ASSUME NEW c \in Seq(Messages), c # <<>>, \A k \in 1..(Len(c) - 1) : Complete(c, k),
         NEW r \in Seq(Messages), NEW a, a = c[Len(c)], a \in AssistantMessages, Len(r) = a.calls,
         \A i \in DOMAIN r : r[i] = ToolResult([turn |-> a.turn, index |-> i])
  PROVE  AllComplete(c \o r)
<1> DEFINE l == c \o r
<1>1. /\ Len(c) \in Nat /\ Len(r) \in Nat /\ l \in Seq(Messages) /\ Len(l) = Len(c) + Len(r)
      /\ DOMAIN c = 1..Len(c) /\ DOMAIN r = 1..Len(r) /\ DOMAIN l = 1..Len(l)
      /\ \A i \in 1..Len(c) : l[i] = c[i]
      /\ \A i \in 1..Len(r) : l[Len(c) + i] = r[i]
  BY ConcatProperties, LenProperties
<1> HIDE DEF l
<1>2. a.role = "assistant" /\ a.calls \in Nat /\ Len(c) # 0
  BY EmptySeq DEF AssistantMessages
<1>3. ASSUME NEW k \in DOMAIN l, l[k].role = "assistant", l[k].stop = "stop" PROVE Complete(l, k)
  <2>1. CASE k < Len(c)
    <3>1. Complete(c, k) /\ l[k] = c[k] /\ k \in 1..Len(c)
      BY <1>1, <2>1
    <3>2. c[k].calls \in Nat
      <4>1. c[k] \in Messages
        BY <3>1, ElementOfSeq
      <4> QED BY <1>3, <3>1, <4>1 DEF Messages, UserMessages, AssistantMessages, ToolResults
    <3>3. \A i \in 1..c[k].calls :
            k + i \in DOMAIN c /\ c[k + i] = ToolResult([turn |-> c[k].turn, index |-> i])
      BY <1>3, <3>1 DEF Complete
    <3>4. \A i \in 1..c[k].calls : k + i # Len(c)
      <4> SUFFICES ASSUME NEW i \in 1..c[k].calls, k + i = Len(c) PROVE FALSE
        OBVIOUS
      <4>1. c[k + i] = ToolResult([turn |-> c[k].turn, index |-> i])
        BY <3>3
      <4>2. c[k + i].role = "toolResult"
        BY <4>1 DEF ToolResult
      <4> QED BY <1>2, <4>2
    <3>5. k + c[k].calls < Len(c)
      <4>1. SUFFICES ASSUME k + c[k].calls >= Len(c) PROVE FALSE
        BY <1>1, <3>2
      <4> DEFINE n == c[k].calls
      <4>2. k \in Nat /\ n \in Nat /\ k < Len(c) /\ k + n >= Len(c)
        BY <1>1, <2>1, <3>2, <4>1
      <4> HIDE DEF n
      <4>3. ASSUME NEW z \in Nat, NEW x \in Nat, NEW y \in Nat, x < z, x + y >= z
            PROVE  z - x \in 1..y /\ x + (z - x) = z
        BY <4>3
      <4>4. Len(c) - k \in 1..n /\ k + (Len(c) - k) = Len(c)
        BY <1>1, <4>2, <4>3
      <4> QED BY <3>4, <4>4 DEF n
    <3>6. /\ k + c[k].calls + 1 \in DOMAIN c
          /\ l[k + c[k].calls + 1] = c[k + c[k].calls + 1]
          /\ c[k + c[k].calls + 1].role # "toolResult"
      <4>1. k + c[k].calls + 1 \in 1..Len(c)
        BY <1>1, <3>1, <3>2, <3>5
      <4>2. c[k].role = "assistant" /\ c[k].stop = "stop"
        BY <1>3, <3>1
      <4>3. c[k + c[k].calls + 1].role # "toolResult"
        BY <1>1, <3>1, <4>1, <4>2 DEF Complete
      <4> QED BY <1>1, <4>1, <4>3
    <3>7. ASSUME NEW i \in 1..c[k].calls
          PROVE  k + i \in DOMAIN l /\ l[k + i] = ToolResult([turn |-> c[k].turn, index |-> i])
      <4>1. k + i \in 1..Len(c) /\ c[k + i] = ToolResult([turn |-> c[k].turn, index |-> i])
        BY <1>1, <3>3
      <4>2. k + i \in DOMAIN l /\ l[k + i] = c[k + i]
        BY <1>1, <4>1
      <4> QED BY <4>1, <4>2
    <3> QED BY <3>1, <3>6, <3>7 DEF Complete
  <2>2. CASE k = Len(c)
    <3>1. l[k] = a
      BY <1>1, <1>2, <2>2
    <3>2. ASSUME NEW i \in 1..a.calls
          PROVE  k + i \in DOMAIN l /\ l[k + i] = ToolResult([turn |-> a.turn, index |-> i])
      <4>1. i \in DOMAIN r
        BY <1>1, <1>2
      <4>2. k + i \in DOMAIN l /\ l[k + i] = r[i]
        BY <1>1, <2>2, <4>1
      <4> QED BY <4>1, <4>2
    <3>3. k + a.calls + 1 \notin DOMAIN l
      BY <1>1, <1>2, <2>2
    <3> QED BY <3>1, <3>2, <3>3 DEF Complete
  <2>3. CASE k > Len(c)
    <3>1. k - Len(c) \in DOMAIN r /\ l[k] = r[k - Len(c)]
      BY <1>1, <2>3
    <3>2. l[k].role = "toolResult"
      BY <3>1 DEF ToolResult
    <3> QED BY <1>3, <3>2
  <2> QED BY <1>1, <2>1, <2>2, <2>3
<1>4. AllComplete(l)
  BY <1>3 DEF AllComplete, Complete
<1> QED BY <1>4 DEF l

(* Where no listener throws, every answer keeps its results behind it.     *)
LEMMA AnsweredStep ==
  ASSUME ListenerThrows = FALSE, IInv, BatchAnswered, [Next]_vars
  PROVE  BatchAnswered'
<1> USE DEF conversation, queues, loopVars, toolVars, counters, ghosts
<1>a. TypeOK /\ Sync
  BY DEF IInv
<1>b. /\ transcript \in Seq(Messages) /\ context \in Seq(Messages)
      /\ prompts \in Seq(Messages) /\ pendingMessages \in Seq(Messages)
      /\ prompts \in Seq(UserMessages) /\ pendingMessages \in Seq(UserMessages)
      /\ pc \in {"idle", "prompts", "poll", "inject", "call", "partial", "tools", "turnEnd",
                 "followUp", "end", "failed"}
      /\ ~activeRun => pc = "idle"
  BY <1>a, PlaceTypes DEF TypeOK, Control, Conversations
<1>c. /\ batch.status \in Seq(CallStates) /\ Len(batch.status) \in Nat
      /\ batch.messages \in Seq(ToolResults) /\ batch.messages \in Seq(Messages)
      /\ Len(batch.messages) \in Nat /\ DOMAIN batch.messages = 1..Len(batch.messages)
      /\ turns \in Nat
  BY <1>a, KindsAreMessages, LenProperties DEF TypeOK, ToolCalls, Counters
<1>d. /\ pc # "tools" => AllComplete(transcript)
      /\ pc = "tools" =>
           /\ context # <<>> /\ \A k \in 1..(Len(context) - 1) : Complete(context, k)
           /\ context[Len(context)] \in AssistantMessages
           /\ context[Len(context)].turn = turns /\ context[Len(context)].calls = Len(batch.status)
           /\ Len(batch.messages) <= Len(batch.status)
           /\ \A i \in DOMAIN batch.messages : batch.messages[i] = ToolResult(Call(i))
  BY DEF BatchAnswered
<1>e. ASSUME pc' # "tools", AllComplete(transcript') PROVE BatchAnswered'
  BY <1>e DEF BatchAnswered
<1>f. ASSUME UNCHANGED <<transcript, context, batch, turns>>, pc = "tools" <=> pc' = "tools"
      PROVE  BatchAnswered'
  BY <1>d, <1>f DEF BatchAnswered, Call
<1>g. ASSUME NEW t \in Seq(UserMessages), t # <<>>, AllComplete(transcript)
      PROVE  AllComplete(Append(transcript, Head(t)))
  BY <1>b, <1>g, IdsOfHead, AllCompleteGrows
<1>1. CASE UNCHANGED vars
  BY <1>1, <1>f DEF vars
<1>2. ASSUME NEW ps, NEW skip, StartRun(ps, skip) PROVE BatchAnswered'
  <2>1. pc # "tools" /\ pc' # "tools" /\ transcript' = transcript
    BY <1>2, <1>b DEF StartRun
  <2> QED BY <1>d, <1>e, <2>1
<1>3. CASE Callers
  <2>1. CASE Steer \/ FollowUp \/ ClearAllQueues \/ AbortRun
    BY <1>f, <2>1 DEF Steer, FollowUp, ClearAllQueues, AbortRun
  <2>2. CASE ~activeRun /\ Reset
    <3>1. pc' # "tools" /\ transcript' = <<>>
      BY <1>b, <2>2 DEF Reset
    <3> QED BY <1>e, <3>1 DEF AllComplete
  <2>3. CASE DropFailedMessage
    <3>1. /\ pc # "tools" /\ pc' # "tools" /\ transcript # <<>>
          /\ transcript' = SubSeq(transcript, 1, Len(transcript) - 1)
          /\ Last(transcript).role = "assistant"
      BY <2>3 DEF DropFailedMessage, EndsWithAssistant
    <3> DEFINE u == transcript'
               l == Last(transcript)
    <3>2. u \in Seq(Messages) /\ l \in Messages /\ transcript = Append(u, l) /\ l.role = "assistant"
      BY <1>b, <3>1, LastApart
    <3> HIDE DEF u, l
    <3>3. AllComplete(Append(u, l)) => AllComplete(u)
      BY <3>2, AllCompleteGrows
    <3>4. AllComplete(u)
      BY <1>d, <3>1, <3>2, <3>3
    <3> QED BY <1>e, <3>1, <3>4 DEF u
  <2> QED BY <1>2, <1>3, <2>1, <2>2, <2>3 DEF Callers, Prompt, ContinueQueued, ContinueTranscript
<1>4. CASE EmitPrompt
  <2>1. /\ pc # "tools" /\ pc' # "tools" /\ prompts # <<>>
        /\ transcript' = Append(transcript, Head(prompts))
    BY <1>a, <1>4 DEF EmitPrompt, Sync
  <2> QED BY <1>b, <1>d, <1>e, <1>g, <2>1
<1>5. CASE InjectPending
  <2>1. /\ pc # "tools" /\ pc' # "tools" /\ pendingMessages # <<>>
        /\ transcript' = Append(transcript, Head(pendingMessages))
    BY <1>a, <1>5 DEF InjectPending, Sync
  <2> QED BY <1>b, <1>d, <1>e, <1>g, <2>1
<1>6. CASE InitialPoll \/ TurnEnd \/ FollowUps \/ FinishRun \/ StreamStart
  <2>1. pc # "tools" /\ pc' # "tools" /\ transcript' = transcript
    BY <1>6 DEF InitialPoll, TurnEnd, PollSteering, FollowUps, FinishRun, StreamStart
  <2> QED BY <1>d, <1>e, <2>1
<1>7. ASSUME NEW stop \in Stops, NEW n \in 0..MaxCalls, NEW mode \in {"sequential", "parallel"},
             FinalMessage(stop, n, mode)
      PROVE  BatchAnswered'
  <2> DEFINE a == Assistant(stop, n)
  <2>1. /\ a \in AssistantMessages /\ a.role = "assistant" /\ a.stop = stop /\ a.calls = n
        /\ a.turn = turns + 1 /\ n \in Nat
    BY <1>a, NewMessages DEF Assistant
  <2>2. pc # "tools" /\ transcript' = Append(transcript, a) /\ turns' = turns + 1
    BY <1>7 DEF FinalMessage
  <2>3. a \in Messages
    BY <2>1, NotFromUser
  <2> HIDE DEF a
  <2>4. CASE ~(stop = "stop" /\ n > 0)
    <3>1. pc' # "tools"
      BY <1>7, <2>4 DEF FinalMessage
    <3>2. a.stop = "stop" => a.calls = 0
      BY <2>1, <2>4
    <3>3. AllComplete(transcript')
      BY <1>b, <1>d, <2>1, <2>2, <2>3, <3>2, AllCompleteGrows
    <3> QED BY <1>e, <3>1, <3>3
  <2>5. CASE stop = "stop" /\ n > 0
    <3> DEFINE st == [i \in 1..n |-> "new"]
    <3>1. pc' = "tools" /\ batch'.status = st /\ batch'.messages = <<>>
      BY <1>7, <2>5 DEF FinalMessage
    <3>2. Len(st) = n
      <4>1. st \in [1..n -> CallStates]
        BY DEF CallStates
      <4> HIDE DEF st
      <4> QED BY <2>1, <4>1, FunctionIsSeq
    <3> HIDE DEF st
    <3>3. context' = transcript'
      <4>1. pc' = "tools" => transcript' = context' \o batch'.messages
        BY <1>a, SyncStep DEF IInv, Sync
      <4>2. context' \in Seq(Messages)
        BY <1>a, TypeStep DEF IInv, TypeOK, Conversations
      <4> QED BY <3>1, <4>1, <4>2, ConcatEmptySeq
    <3>4. /\ Len(context') = Len(transcript) + 1 /\ Len(transcript) \in Nat
          /\ context'[Len(transcript) + 1] = a /\ context' # <<>>
      <4> DEFINE l == Append(transcript, a)
      <4>1. Len(l) = Len(transcript) + 1 /\ Len(transcript) \in Nat /\ l[Len(transcript) + 1] = a
        BY <1>b, <2>3, AppendProperties
      <4>2. context' = l
        BY <2>2, <3>3
      <4> HIDE DEF l
      <4>3. l # <<>>
        BY <4>1, EmptySeq
      <4> QED BY <4>1, <4>2, <4>3
    <3>5. \A k \in 1..Len(transcript) : Complete(context', k)
      <4>1. \A k \in 1..Len(transcript) : Complete(transcript, k)
        BY <1>b, <1>d, <2>2, LenProperties DEF AllComplete
      <4>2. a.role # "toolResult"
        BY <2>1
      <4> QED BY <1>b, <2>2, <2>3, <3>3, <4>1, <4>2, CompleteGrows
    <3>6. DOMAIN batch'.messages = {} /\ Len(batch'.messages) = 0
      BY <3>1
    <3> QED BY <2>1, <2>2, <3>1, <3>2, <3>4, <3>5, <3>6 DEF BatchAnswered
  <2> QED BY <2>4, <2>5
<1>8. ASSUME NEW i \in Calls,
             (\E refused \in BOOLEAN : StartCall(i, refused))
               \/ (\E terminate \in BOOLEAN : FinishCall(i, terminate))
      PROVE  BatchAnswered'
  <2>1. /\ pc = "tools" /\ pc' = "tools" /\ UNCHANGED <<context, turns>>
        /\ batch'.messages = batch.messages
    BY <1>a, <1>8 DEF StartCall, FinishCall, TypeOK, ToolCalls
  <2>2. Len(batch'.status) = Len(batch.status)
    <3>1. i \in 1..Len(batch.status)
      BY <1>c, LenProperties DEF Calls
    <3>2. \A c \in CallStates : Len([batch.status EXCEPT ![i] = c]) = Len(batch.status)
      BY <1>c, <3>1, ExceptSeq
    <3>3. \E c \in CallStates : batch'.status = [batch.status EXCEPT ![i] = c]
      BY <1>a, <1>8 DEF StartCall, FinishCall, TypeOK, ToolCalls, CallStates
    <3> QED BY <3>2, <3>3
  <2> QED BY <1>d, <2>1, <2>2 DEF BatchAnswered, Call
<1>9. ASSUME NEW i \in Calls, EmitResult(i) PROVE BatchAnswered'
  <2>1. /\ pc = "tools" /\ pc' = "tools" /\ UNCHANGED <<context, turns>>
        /\ batch'.status = batch.status /\ i = Len(batch.messages) + 1
        /\ batch'.messages = Append(batch.messages, ToolResult(Call(i)))
    BY <1>a, <1>9 DEF EmitResult, Due, TypeOK, ToolCalls
  <2>2. i \in 1..Len(batch.status) /\ ToolResult(Call(i)) \in ToolResults
    BY <1>a, <1>c, NewMessages, LenProperties DEF Calls
  <2>3. /\ Len(batch'.messages) = Len(batch.messages) + 1
        /\ DOMAIN batch'.messages = 1..(Len(batch.messages) + 1)
        /\ \A k \in 1..Len(batch.messages) : batch'.messages[k] = batch.messages[k]
        /\ batch'.messages[Len(batch.messages) + 1] = ToolResult(Call(i))
    BY <1>c, <2>1, <2>2, AppendProperties, LenProperties
  <2>4. Len(batch'.messages) <= Len(batch'.status)
    BY <1>c, <2>1, <2>2, <2>3
  <2>5. \A k \in DOMAIN batch'.messages : batch'.messages[k] = ToolResult(Call(k))
    BY <1>c, <1>d, <2>1, <2>3
  <2>6. \A k \in DOMAIN batch'.messages : batch'.messages[k] = ToolResult(Call(k))'
    BY <2>1, <2>5 DEF Call, ToolResult
  <2> QED BY <1>d, <2>1, <2>4, <2>6 DEF BatchAnswered
<1>10. CASE EndBatch
  <2>1. /\ pc = "tools" /\ pc' # "tools" /\ Len(batch.messages) = Len(batch.status)
        /\ transcript' = transcript
    BY <1>10 DEF EndBatch
  <2>2. transcript = context \o batch.messages
    BY <1>a, <2>1 DEF Sync
  <2>3. \A i \in DOMAIN batch.messages :
          batch.messages[i] = ToolResult([turn |-> context[Len(context)].turn, index |-> i])
    BY <1>d, <2>1 DEF Call
  <2>4. AllComplete(context \o batch.messages)
    BY <1>b, <1>c, <1>d, <2>1, <2>3, CompleteBatch
  <2> QED BY <1>e, <2>1, <2>2, <2>4
<1>11. CASE Failing
  <2>1. CallFails
    BY <1>11 DEF Failing, EmitFails, ToolEmitFails
  <2> DEFINE a == Assistant(IF aborted THEN "aborted" ELSE "error", 0)
  <2>2. pc # "tools" /\ pc' # "tools" /\ transcript' = Append(transcript, a)
    BY <2>1 DEF CallFails, handleRunFailure
  <2>3. a \in AssistantMessages /\ a.calls = 0 /\ a.role # "toolResult"
    BY <1>a, NewMessages DEF Stops, Assistant
  <2>4. a \in Messages
    BY <2>3, NotFromUser
  <2> HIDE DEF a
  <2>5. AllComplete(transcript')
    BY <1>b, <1>d, <2>2, <2>3, <2>4, AllCompleteGrows
  <2> QED BY <1>e, <2>2, <2>5
<1>12. ASSUME NEW c \in zombies, ZombieEnds(c) PROVE BatchAnswered'
  BY <1>12, <1>f DEF ZombieEnds
<1> QED BY <1>1, <1>3, <1>4, <1>5, <1>6, <1>7, <1>8, <1>9, <1>10, <1>11, <1>12
           DEF Next, Loop, Turn, Tools, Ending

(* When the model is called, every answer it gave is followed by the       *)
(* results of its tool calls, one each and in the order of the calls, in   *)
(* whatever order the calls of a parallel batch completed, and through     *)
(* aborts, failed answers, dropped answers and restarts of the run.  A     *)
(* listener that throws in the middle of a batch does leave calls without  *)
(* a result, which is why the hypothesis is needed.                        *)
THEOREM CallsAreAnswered ==
  ASSUME ListenerThrows = FALSE
  PROVE  Spec => []AnsweredInOrder
<1>1. Init => BatchAnswered
  BY DEF Init, BatchAnswered, AllComplete
<1>2. IInv /\ BatchAnswered /\ [Next]_vars => BatchAnswered'
  BY AnsweredStep
<1>3. IInv /\ BatchAnswered => AnsweredInOrder
  BY DEF IInv, Sync, BatchAnswered, AllComplete, Complete, AnsweredInOrder
<1> QED BY Invariance, <1>1, <1>2, <1>3, PTL DEF Spec
-----------------------------------------------------------------------------
(* What transformMessages makes of a conversation.  A result at i stands   *)
(* behind its answer and the results of the calls before its own.          *)
IsAnswer(s, k, i) ==
  LET c == s[i].call IN
  /\ k + c.index = i
  /\ s[k] \in AssistantMessages /\ s[k].stop = "stop" /\ s[k].turn = c.turn
  /\ c.index \in 1..s[k].calls
  /\ \A j \in 1..c.index : s[k + j] = ToolResult([turn |-> c.turn, index |-> j])
Follows(s, i) == s[i].role = "toolResult" => \E k \in 1..Len(s) : IsAnswer(s, k, i)
AllFollow(s) == \A i \in 1..Len(s) : Follows(s, i)

(* Whatever throws, the results in the transcript follow their answers.    *)
ResultInv ==
  /\ AllFollow(transcript)
  /\ pc = "tools" =>
       /\ context # <<>>
       /\ LET a == context[Len(context)] IN
            a \in AssistantMessages /\ a.stop = "stop" /\ a.turn = turns /\ a.calls = Len(batch.status)
       /\ \A i \in DOMAIN batch.messages : batch.messages[i] = ToolResult(Call(i))

LEMMA Behind ==
  ASSUME NEW k \in Nat \ {0}, NEW x \in Nat, NEW n \in Nat, k + x <= n
  PROVE  \A j \in 1..x : k + j \in 1..n
OBVIOUS

LEMMA FollowsGrows ==
  ASSUME NEW s \in Seq(Messages), NEW m \in Messages, AllFollow(s),
         m.role = "toolResult" => Follows(Append(s, m), Len(s) + 1)
  PROVE  AllFollow(Append(s, m))
<1> DEFINE l == Append(s, m)
<1>1. /\ Len(l) = Len(s) + 1 /\ Len(s) \in Nat
      /\ \A i \in 1..Len(s) : l[i] = s[i]
      /\ l[Len(s) + 1] = m
  BY AppendProperties, LenProperties
<1>2. m.role = "toolResult" => Follows(l, Len(s) + 1)
  OBVIOUS
<1> HIDE DEF l
<1>3. ASSUME NEW i \in 1..Len(s) PROVE Follows(l, i)
  <2>1. SUFFICES ASSUME s[i].role = "toolResult" PROVE \E k \in 1..Len(l) : IsAnswer(l, k, i)
    BY <1>1 DEF Follows
  <2>2. PICK k \in 1..Len(s) : IsAnswer(s, k, i)
    BY <2>1 DEF AllFollow, Follows
  <2>3. s[i].call.index \in Nat /\ k + s[i].call.index = i
    BY <2>2 DEF IsAnswer, AssistantMessages
  <2>4. \A j \in 1..s[i].call.index : k + j \in 1..Len(s)
    <3>1. k \in Nat \ {0} /\ k + s[i].call.index <= Len(s)
      BY <1>1, <2>3
    <3> QED BY <1>1, <2>3, <3>1, Behind
  <2>5. l[i] = s[i] /\ l[k] = s[k] /\ k \in 1..Len(l)
    BY <1>1
  <2>6. IsAnswer(l, k, i)
    BY <1>1, <2>2, <2>4, <2>5 DEF IsAnswer
  <2> QED BY <2>5, <2>6
<1>4. Follows(l, Len(s) + 1)
  BY <1>1, <1>2 DEF Follows
<1>5. \A i \in 1..Len(l) : i \in 1..Len(s) \/ i = Len(s) + 1
  BY <1>1
<1>6. AllFollow(l)
  BY <1>3, <1>4, <1>5 DEF AllFollow
<1> QED BY <1>6 DEF l

LEMMA FollowsShrinks ==
  ASSUME NEW s \in Seq(Messages), NEW m \in Messages, AllFollow(Append(s, m))
  PROVE  AllFollow(s)
<1> DEFINE l == Append(s, m)
<1>1. /\ Len(l) = Len(s) + 1 /\ Len(s) \in Nat
      /\ \A i \in 1..Len(s) : l[i] = s[i]
  BY AppendProperties, LenProperties
<1>2. AllFollow(l)
  OBVIOUS
<1> HIDE DEF l
<1>3. ASSUME NEW i \in 1..Len(s) PROVE Follows(s, i)
  <2>1. SUFFICES ASSUME s[i].role = "toolResult" PROVE \E k \in 1..Len(s) : IsAnswer(s, k, i)
    BY DEF Follows
  <2>2. PICK k \in 1..Len(l) : IsAnswer(l, k, i)
    BY <1>1, <1>2, <2>1 DEF AllFollow, Follows
  <2>3. s[i].call.index \in Nat \ {0} /\ k + s[i].call.index = i
    BY <1>1, <2>2 DEF IsAnswer, AssistantMessages
  <2>4. k \in 1..Len(s) /\ \A j \in 1..s[i].call.index : k + j \in 1..Len(s)
    <3>1. k \in 1..Len(s) /\ k \in Nat \ {0} /\ k + s[i].call.index <= Len(s)
      BY <1>1, <2>3
    <3> QED BY <1>1, <2>3, <3>1, Behind
  <2>5. IsAnswer(s, k, i)
    BY <1>1, <2>2, <2>4 DEF IsAnswer
  <2> QED BY <2>4, <2>5
<1> QED BY <1>3 DEF AllFollow

(* The result that is due follows its answer.                              *)
LEMMA DueFollows ==
  ASSUME IInv, ResultInv, pc = "tools", NEW i \in Calls, Due(i)
  PROVE  AllFollow(Append(transcript, ToolResult(Call(i))))
<1> DEFINE r == ToolResult(Call(i))
           l == Append(transcript, r)
           a == context[Len(context)]
           n == Len(context)
<1>1. /\ transcript \in Seq(Messages) /\ context \in Seq(Messages) /\ turns \in Nat
      /\ batch.messages \in Seq(ToolResults) /\ batch.messages \in Seq(Messages)
      /\ Len(batch.messages) \in Nat /\ DOMAIN batch.messages = 1..Len(batch.messages)
      /\ batch.status \in Seq(CallStates) /\ Len(batch.status) \in Nat /\ n \in Nat
  BY KindsAreMessages, LenProperties DEF IInv, TypeOK, Conversations, ToolCalls, Counters
<1>2. i = Len(batch.messages) + 1 /\ i \in 1..Len(batch.status)
  BY <1>1, LenProperties DEF Due, Calls
<1>3. r \in Messages /\ r.role = "toolResult" /\ r.call = [turn |-> turns, index |-> i]
  <2>1. ToolResult(Call(i)) \in ToolResults
    BY <1>1, <1>2, NewMessages DEF IInv
  <2> QED BY <2>1 DEF Messages, ToolResult, Call
<1>4. transcript = context \o batch.messages
  BY DEF IInv, Sync
<1>5. /\ context # <<>> /\ a \in AssistantMessages /\ a.stop = "stop" /\ a.turn = turns /\ a.calls = Len(batch.status)
      /\ \A j \in DOMAIN batch.messages : batch.messages[j] = ToolResult(Call(j))
      /\ AllFollow(transcript)
  BY DEF ResultInv
<1>6. n # 0
  BY <1>1, <1>5, EmptySeq
<1>7. /\ Len(transcript) = n + Len(batch.messages)
      /\ \A j \in 1..n : transcript[j] = context[j]
      /\ \A j \in 1..Len(batch.messages) : transcript[n + j] = batch.messages[j]
  BY <1>1, <1>4, ConcatProperties
<1>8. /\ Len(l) = Len(transcript) + 1 /\ Len(transcript) \in Nat
      /\ \A j \in 1..Len(transcript) : l[j] = transcript[j]
      /\ l[Len(transcript) + 1] = r
  BY <1>1, <1>3, AppendProperties, LenProperties
<1>9. \A j \in Nat : ToolResult(Call(j)) = ToolResult([turn |-> turns, index |-> j])
  BY DEF Call
<1> HIDE DEF r, l, a, n
<1>10. n \in 1..Len(l) /\ n \in 1..Len(transcript) /\ n + i = Len(transcript) + 1
  <2>1. /\ i = Len(batch.messages) + 1 /\ n # 0 /\ Len(transcript) = n + Len(batch.messages)
        /\ Len(l) = Len(transcript) + 1 /\ n \in Nat /\ Len(batch.messages) \in Nat
    BY <1>1, <1>2, <1>6, <1>7, <1>8
  <2> QED BY <2>1
<1>11. l[n] = a
  BY <1>6, <1>1, <1>7, <1>8, <1>10 DEF a, n
<1>12. ASSUME NEW j \in 1..i PROVE l[n + j] = ToolResult([turn |-> turns, index |-> j])
  <2>1. CASE j = i
    <3>1. l[n + j] = r
      BY <1>8, <1>10, <2>1
    <3>2. j \in Nat
      OBVIOUS
    <3> QED BY <1>9, <2>1, <3>1, <3>2 DEF r
  <2>2. CASE j # i
    <3>1. j \in 1..Len(batch.messages) /\ j \in Nat /\ n + j \in 1..Len(transcript)
      <4>1. /\ i = Len(batch.messages) + 1 /\ Len(transcript) = n + Len(batch.messages)
            /\ n \in Nat /\ Len(batch.messages) \in Nat
        BY <1>1, <1>2, <1>7
      <4> QED BY <2>2, <4>1
    <3>2. l[n + j] = batch.messages[j]
      BY <1>7, <1>8, <3>1
    <3>3. batch.messages[j] = ToolResult(Call(j))
      BY <1>1, <1>5, <3>1
    <3> QED BY <1>9, <3>1, <3>2, <3>3
  <2> QED BY <2>1, <2>2
<1>13. IsAnswer(l, n, Len(transcript) + 1)
  <2>1. l[Len(transcript) + 1].call.turn = turns /\ l[Len(transcript) + 1].call.index = i
    BY <1>3, <1>8
  <2>2. i \in 1..a.calls
    BY <1>2, <1>5
  <2> QED BY <1>5, <1>10, <1>11, <1>12, <2>1, <2>2 DEF IsAnswer
<1>14. Follows(l, Len(transcript) + 1)
  BY <1>10, <1>13 DEF Follows
<1>15. AllFollow(l)
  BY <1>1, <1>3, <1>5, <1>14, FollowsGrows DEF l
<1> QED BY <1>15 DEF l, r

(* The message a failed run ends with.                                     *)
LEMMA FailureFollows ==
  ASSUME IInv, ResultInv, NEW t \in {transcript} \cup {Append(transcript, m) : m \in BeingEmitted},
         NEW left, handleRunFailure(t, left)
  PROVE  ResultInv'
<1> DEFINE a == Assistant(IF aborted THEN "aborted" ELSE "error", 0)
<1>1. /\ transcript \in Seq(Messages) /\ prompts \in Seq(UserMessages) /\ pendingMessages \in Seq(UserMessages)
      /\ AllFollow(transcript)
  BY DEF IInv, TypeOK, Conversations, ResultInv
<1>2. transcript' = Append(t, a) /\ pc' # "tools"
  BY DEF handleRunFailure
<1>3. a \in AssistantMessages /\ a \in Messages /\ a.role # "toolResult"
  <2>1. a \in AssistantMessages
    BY NewMessages DEF Stops, IInv
  <2> QED BY <2>1 DEF Messages, Assistant
<1>4. ASSUME NEW m \in BeingEmitted PROVE Append(transcript, m) \in Seq(Messages) /\ AllFollow(Append(transcript, m))
  <2>1. CASE pc = "tools"
    <3>1. PICK i \in Calls : Due(i) /\ m = ToolResult(Call(i))
      BY <1>4, <2>1 DEF BeingEmitted
    <3>2. m \in Messages
      <4>1. i \in Nat
        BY LenProperties DEF Calls, IInv, TypeOK, ToolCalls
      <4> QED BY <3>1, <4>1, NewMessages DEF Messages, IInv
    <3> QED BY <1>1, <2>1, <3>1, <3>2, GrowConversation, DueFollows
  <2>2. CASE pc # "tools"
    <3>1. m \in Messages /\ m.role # "toolResult"
      <4>1. CASE pc = "prompts"
        <5>1. prompts # <<>> /\ m = Head(prompts)
          BY <1>4, <4>1 DEF BeingEmitted, IInv, Sync
        <5>2. Head(prompts) \in UserMessages
          BY <1>1, <5>1, HeadTailProperties
        <5> QED BY <5>1, <5>2 DEF Messages, UserMessages
      <4>2. CASE pc = "inject"
        <5>1. pendingMessages # <<>> /\ m = Head(pendingMessages)
          BY <1>4, <4>2 DEF BeingEmitted, IInv, Sync
        <5>2. Head(pendingMessages) \in UserMessages
          BY <1>1, <5>1, HeadTailProperties
        <5> QED BY <5>1, <5>2 DEF Messages, UserMessages
      <4>3. CASE pc \in {"call", "partial"}
        <5>1. PICK n \in 0..MaxCalls : m = Assistant("stop", n)
          BY <1>4, <4>3 DEF BeingEmitted
        <5>2. Assistant("stop", n) \in AssistantMessages
          BY NewMessages DEF Stops, IInv
        <5> QED BY <5>1, <5>2 DEF Messages, AssistantMessages
      <4>4. pc \in {"prompts", "inject", "call", "partial"}
        BY <1>4, <2>2 DEF BeingEmitted
      <4> QED BY <4>1, <4>2, <4>3, <4>4
    <3> QED BY <1>1, <3>1, GrowConversation, FollowsGrows
  <2> QED BY <2>1, <2>2
<1>5. t \in Seq(Messages) /\ AllFollow(t)
  BY <1>1, <1>4
<1> HIDE DEF a
<1>6. AllFollow(Append(t, a))
  BY <1>3, <1>5, FollowsGrows
<1> QED BY <1>2, <1>6 DEF ResultInv

LEMMA ResultStep == IInv /\ ResultInv /\ [Next]_vars => ResultInv'
<1> SUFFICES ASSUME IInv, ResultInv, [Next]_vars PROVE ResultInv'
  OBVIOUS
<1> USE DEF conversation, queues, loopVars, toolVars, counters, ghosts
<1>a. TypeOK /\ Sync
  BY DEF IInv
<1>b. /\ transcript \in Seq(Messages) /\ context \in Seq(Messages)
      /\ prompts \in Seq(UserMessages) /\ pendingMessages \in Seq(UserMessages)
      /\ pc \in {"idle", "prompts", "poll", "inject", "call", "partial", "tools", "turnEnd",
                 "followUp", "end", "failed"}
      /\ ~activeRun => pc = "idle"
  BY <1>a, PlaceTypes DEF TypeOK, Control, Conversations
<1>c. /\ batch.status \in Seq(CallStates) /\ Len(batch.status) \in Nat
      /\ batch.messages \in Seq(ToolResults)
      /\ Len(batch.messages) \in Nat /\ DOMAIN batch.messages = 1..Len(batch.messages)
      /\ turns \in Nat
  BY <1>a, LenProperties DEF TypeOK, ToolCalls, Counters
<1>d. AllFollow(transcript)
  BY DEF ResultInv
<1>e. ASSUME pc' # "tools", AllFollow(transcript') PROVE ResultInv'
  BY <1>e DEF ResultInv
<1>f. ASSUME UNCHANGED <<transcript, context, batch, turns>>, pc = "tools" <=> pc' = "tools"
      PROVE  ResultInv'
  BY <1>f DEF ResultInv, Call
<1>g. ASSUME NEW t \in Seq(UserMessages), t # <<>> PROVE AllFollow(Append(transcript, Head(t)))
  <2>1. Head(t) \in UserMessages
    BY <1>g, HeadTailProperties
  <2>2. Head(t) \in Messages /\ Head(t).role # "toolResult"
    BY <2>1 DEF Messages, UserMessages
  <2> QED BY <1>b, <1>d, <2>2, FollowsGrows
<1>1. CASE UNCHANGED vars
  BY <1>1, <1>f DEF vars
<1>2. ASSUME NEW ps, NEW skip, StartRun(ps, skip) PROVE ResultInv'
  <2>1. pc' # "tools" /\ transcript' = transcript
    BY <1>2, <1>b DEF StartRun
  <2> QED BY <1>d, <1>e, <2>1
<1>3. CASE Callers
  <2>1. CASE Steer \/ FollowUp \/ ClearAllQueues \/ AbortRun
    BY <1>f, <2>1 DEF Steer, FollowUp, ClearAllQueues, AbortRun
  <2>2. CASE ~activeRun /\ Reset
    <3>1. pc' # "tools" /\ transcript' = <<>>
      BY <1>b, <2>2 DEF Reset
    <3>2. AllFollow(<<>>)
      BY DEF AllFollow
    <3> QED BY <1>e, <3>1, <3>2
  <2>3. CASE DropFailedMessage
    <3>1. /\ pc' # "tools" /\ transcript # <<>>
          /\ transcript' = SubSeq(transcript, 1, Len(transcript) - 1)
      BY <2>3 DEF DropFailedMessage, EndsWithAssistant
    <3> DEFINE u == transcript'
               l == Last(transcript)
    <3>2. u \in Seq(Messages) /\ l \in Messages /\ transcript = Append(u, l)
      BY <1>b, <3>1, LastApart
    <3> HIDE DEF u, l
    <3>3. AllFollow(u)
      BY <1>d, <3>2, FollowsShrinks
    <3> QED BY <1>e, <3>1, <3>3 DEF u
  <2> QED BY <1>2, <1>3, <2>1, <2>2, <2>3 DEF Callers, Prompt, ContinueQueued, ContinueTranscript
<1>4. CASE EmitPrompt
  <2>1. /\ pc' # "tools" /\ prompts # <<>> /\ transcript' = Append(transcript, Head(prompts))
    BY <1>a, <1>4 DEF EmitPrompt, Sync
  <2> QED BY <1>b, <1>e, <1>g, <2>1
<1>5. CASE InjectPending
  <2>1. /\ pc' # "tools" /\ pendingMessages # <<>>
        /\ transcript' = Append(transcript, Head(pendingMessages))
    BY <1>a, <1>5 DEF InjectPending, Sync
  <2> QED BY <1>b, <1>e, <1>g, <2>1
<1>6. CASE InitialPoll \/ TurnEnd \/ FollowUps \/ FinishRun \/ StreamStart \/ EndBatch
  <2>1. pc' # "tools" /\ transcript' = transcript
    BY <1>6 DEF InitialPoll, TurnEnd, PollSteering, FollowUps, FinishRun, StreamStart, EndBatch
  <2> QED BY <1>d, <1>e, <2>1
<1>7. ASSUME NEW stop \in Stops, NEW n \in 0..MaxCalls, NEW mode \in {"sequential", "parallel"},
             FinalMessage(stop, n, mode)
      PROVE  ResultInv'
  <2> DEFINE a == Assistant(stop, n)
  <2>1. /\ a \in AssistantMessages /\ a.role = "assistant" /\ a.stop = stop /\ a.calls = n
        /\ a.turn = turns + 1 /\ n \in Nat
    BY <1>a, NewMessages DEF Assistant
  <2>2. transcript' = Append(transcript, a) /\ turns' = turns + 1
    BY <1>7 DEF FinalMessage
  <2>3. a \in Messages
    BY <2>1 DEF Messages
  <2> HIDE DEF a
  <2>4. AllFollow(transcript')
    BY <1>b, <1>d, <2>1, <2>2, <2>3, FollowsGrows
  <2>5. CASE ~(stop = "stop" /\ n > 0)
    <3>1. pc' # "tools"
      BY <1>7, <2>5 DEF FinalMessage
    <3> QED BY <1>e, <2>4, <3>1
  <2>6. CASE stop = "stop" /\ n > 0
    <3> DEFINE st == [i \in 1..n |-> "new"]
    <3>1. pc' = "tools" /\ batch'.status = st /\ batch'.messages = <<>>
      BY <1>7, <2>6 DEF FinalMessage
    <3>2. Len(st) = n
      <4>1. st \in [1..n -> CallStates]
        BY DEF CallStates
      <4> HIDE DEF st
      <4> QED BY <2>1, <4>1, FunctionIsSeq
    <3> HIDE DEF st
    <3>3. context' = transcript'
      <4>1. pc' = "tools" => transcript' = context' \o batch'.messages
        BY <1>a, SyncStep DEF IInv, Sync
      <4>2. context' \in Seq(Messages)
        BY <1>a, TypeStep DEF IInv, TypeOK, Conversations
      <4> QED BY <3>1, <4>1, <4>2, ConcatEmptySeq
    <3>4. context'[Len(context')] = a /\ context' # <<>>
      <4> DEFINE l == Append(transcript, a)
      <4>1. Len(l) = Len(transcript) + 1 /\ Len(transcript) \in Nat /\ l[Len(transcript) + 1] = a
        BY <1>b, <2>3, AppendProperties
      <4>2. context' = l
        BY <2>2, <3>3
      <4> HIDE DEF l
      <4>3. l # <<>>
        BY <4>1, EmptySeq
      <4> QED BY <4>1, <4>2, <4>3
    <3>5. DOMAIN batch'.messages = {}
      BY <3>1
    <3> QED BY <2>1, <2>2, <2>4, <2>6, <3>1, <3>2, <3>4, <3>5 DEF ResultInv
  <2> QED BY <2>5, <2>6
<1>8. ASSUME NEW i \in Calls,
             (\E refused \in BOOLEAN : StartCall(i, refused))
               \/ (\E terminate \in BOOLEAN : FinishCall(i, terminate))
      PROVE  ResultInv'
  <2>1. /\ pc = "tools" /\ UNCHANGED <<transcript, context, turns>>
        /\ batch'.messages = batch.messages
    BY <1>a, <1>8 DEF StartCall, FinishCall, TypeOK, ToolCalls
  <2>2. Len(batch'.status) = Len(batch.status)
    <3>1. i \in 1..Len(batch.status)
      BY <1>c, LenProperties DEF Calls
    <3>2. \A c \in CallStates : Len([batch.status EXCEPT ![i] = c]) = Len(batch.status)
      BY <1>c, <3>1, ExceptSeq
    <3>3. \E c \in CallStates : batch'.status = [batch.status EXCEPT ![i] = c]
      BY <1>a, <1>8 DEF StartCall, FinishCall, TypeOK, ToolCalls, CallStates
    <3> QED BY <3>2, <3>3
  <2> QED BY <2>1, <2>2 DEF ResultInv, Call
<1>9. ASSUME NEW i \in Calls, EmitResult(i) PROVE ResultInv'
  <2>1. /\ pc = "tools" /\ Due(i) /\ UNCHANGED <<context, turns>>
        /\ transcript' = Append(transcript, ToolResult(Call(i)))
        /\ batch'.status = batch.status /\ i = Len(batch.messages) + 1
        /\ batch'.messages = Append(batch.messages, ToolResult(Call(i)))
    BY <1>a, <1>9 DEF EmitResult, Due, TypeOK, ToolCalls
  <2>2. i \in 1..Len(batch.status) /\ ToolResult(Call(i)) \in ToolResults
    BY <1>a, <1>c, NewMessages, LenProperties DEF Calls
  <2>3. /\ DOMAIN batch'.messages = 1..(Len(batch.messages) + 1)
        /\ \A k \in 1..Len(batch.messages) : batch'.messages[k] = batch.messages[k]
        /\ batch'.messages[Len(batch.messages) + 1] = ToolResult(Call(i))
    BY <1>c, <2>1, <2>2, AppendProperties, LenProperties
  <2>4. \A k \in DOMAIN batch.messages : batch.messages[k] = ToolResult(Call(k))
    BY <2>1 DEF ResultInv
  <2>5. \A k \in DOMAIN batch'.messages : batch'.messages[k] = ToolResult(Call(k))
    BY <1>c, <2>1, <2>3, <2>4
  <2>6. \A k \in DOMAIN batch'.messages : batch'.messages[k] = ToolResult(Call(k))'
    BY <2>1, <2>5 DEF Call, ToolResult
  <2>7. AllFollow(transcript')
    BY <2>1, DueFollows
  <2> QED BY <2>1, <2>6, <2>7 DEF ResultInv
<1>10. CASE Failing
  <2>1. \E left : \E t \in {transcript} \cup {Append(transcript, m) : m \in BeingEmitted} : handleRunFailure(t, left)
    BY <1>10 DEF Failing, CallFails, EmitFails, ToolEmitFails
  <2> QED BY <2>1, FailureFollows
<1>11. ASSUME NEW c \in zombies, ZombieEnds(c) PROVE ResultInv'
  BY <1>11, <1>f DEF ZombieEnds
<1> QED BY <1>1, <1>3, <1>4, <1>5, <1>6, <1>7, <1>8, <1>9, <1>10, <1>11
           DEF Next, Loop, Turn, Tools, Ending

(* The calls of an answer from the one after x on.                         *)
Rest(t, x, n) == [j \in 1..(n - x) |-> [turn |-> t, index |-> x + j]]

LEMMA RestIs ==
  ASSUME NEW t \in Nat, NEW x \in Nat, NEW n \in Nat, x <= n
  PROVE  /\ Rest(t, x, n) \in Seq(CallIds) /\ Len(Rest(t, x, n)) = n - x
         /\ \A j \in 1..(n - x) : Rest(t, x, n)[j] = [turn |-> t, index |-> x + j]
<1> DEFINE r == Rest(t, x, n)
<1>1. r \in [1..(n - x) -> CallIds] /\ n - x \in Nat /\ \A j \in 1..(n - x) : r[j] = [turn |-> t, index |-> x + j]
  BY DEF Rest, CallIds
<1> HIDE DEF r
<1>2. r \in Seq(CallIds) /\ Len(r) = n - x
  BY <1>1, FunctionIsSeq
<1> QED BY <1>1, <1>2 DEF r

(* The next result takes the first of the calls that have none.            *)
FirstTaken(t, x, n) ==
  LET r == Rest(t, x, n) IN
  /\ r # <<>> /\ Head(r) = [turn |-> t, index |-> x + 1]
  /\ Tail(r) = Rest(t, x + 1, n)
  /\ Ext!RemoveFirst(r, Head(r)) = Tail(r)

LEMMA RestNext ==
  ASSUME NEW t \in Nat, NEW x \in Nat, NEW n \in Nat, x < n
  PROVE  FirstTaken(t, x, n)
<1> DEFINE r == Rest(t, x, n)  q == Rest(t, x + 1, n)
<1>0. x <= n
  OBVIOUS
<1>1. /\ r \in Seq(CallIds) /\ Len(r) = n - x /\ \A j \in 1..(n - x) : r[j] = [turn |-> t, index |-> x + j]
  <2> HIDE DEF q
  <2> QED BY <1>0, RestIs
<1>2. /\ q \in Seq(CallIds) /\ Len(q) = n - (x + 1)
      /\ \A j \in 1..(n - (x + 1)) : q[j] = [turn |-> t, index |-> (x + 1) + j]
  <2>1. x + 1 \in Nat /\ x + 1 <= n
    OBVIOUS
  <2> QED BY <2>1, RestIs
<1> HIDE DEF r, q
<1>3. Len(r) \in Nat \ {0} /\ 1 \in 1..(n - x)
  BY <1>1
<1>4. r # <<>>
  BY <1>1, <1>3, EmptySeq
<1>5. /\ Tail(r) \in Seq(CallIds) /\ Len(Tail(r)) = Len(r) - 1
      /\ \A j \in 1..Len(Tail(r)) : Tail(r)[j] = r[j + 1]
  BY <1>1, <1>4, HeadTailProperties
<1>6. Head(r) = [turn |-> t, index |-> x + 1] /\ Head(r) = r[1]
  <2>1. Head(r) = r[1]
    BY <1>1, <1>4
  <2> QED BY <1>1, <1>3, <2>1
<1>7. Tail(r) = q
  <2>1. Len(Tail(r)) = Len(q) /\ Len(q) \in Nat
    BY <1>1, <1>2, <1>5
  <2>2. ASSUME NEW j \in 1..Len(q) PROVE Tail(r)[j] = q[j]
    <3>1. j + 1 \in 1..(n - x) /\ j \in 1..(n - (x + 1)) /\ x + (j + 1) = (x + 1) + j
      BY <1>1, <1>2
    <3> QED BY <1>1, <1>2, <1>5, <2>1, <3>1
  <2> QED BY <1>2, <1>5, <2>1, <2>2, SeqEqual
<1> DEFINE c == Head(r)
<1>8. Ext!SelectInSeq(r, LAMBDA v : v = c) = 1
  <2> DEFINE I == {i \in 1..Len(r) : r[i] = c}
  <2>1. Ext!SelectInSeq(r, LAMBDA v : v = c) = IF I # {} THEN Ext!Min(I) ELSE 0
    BY DEF Ext!SelectInSeq
  <2>2. 1 \in I /\ \A i \in I : 1 <= i
    BY <1>1, <1>3, <1>6
  <2>3. Ext!Min(I) = 1
    BY <2>2 DEF Ext!Min
  <2> QED BY <2>1, <2>2, <2>3
<1>9. Ext!RemoveAt(r, 1) = Tail(r)
  <2>1. SubSeq(r, 1, 0) = <<>> /\ SubSeq(r, 2, Len(r)) = Tail(r)
    BY <1>1, <1>4
  <2>2. SubSeq(r, 1, 1 - 1) \o SubSeq(r, 1 + 1, Len(r)) = Tail(r)
    BY <1>5, <2>1, ConcatEmptySeq
  <2> QED BY <2>2 DEF Ext!RemoveAt
<1>10. \E i \in 1..Len(r) : r[i] = c
  BY <1>1, <1>3, <1>6
<1>11. Ext!RemoveFirst(r, c) = Tail(r)
  BY <1>8, <1>9, <1>10 DEF Ext!RemoveFirst
<1> QED BY <1>4, <1>6, <1>7, <1>11 DEF FirstTaken, r, q

LEMMA SyntheticIs ==
  ASSUME NEW p \in Seq(CallIds)
  PROVE  /\ Synthetic(p) \in Seq(Messages) /\ Len(Synthetic(p)) = Len(p)
         /\ \A i \in 1..Len(p) : Synthetic(p)[i] = ToolResult(p[i])
<1>1. DOMAIN p = 1..Len(p) /\ Len(p) \in Nat /\ \A i \in 1..Len(p) : p[i] \in CallIds
  BY LenProperties, ElementOfSeq
<1>2. \A c \in CallIds : ToolResult(c) \in Messages
  BY DEF ToolResult, Messages, ToolResults
<1>3. Synthetic(p) \in [1..Len(p) -> Messages] /\ \A i \in 1..Len(p) : Synthetic(p)[i] = ToolResult(p[i])
  BY <1>1, <1>2 DEF Synthetic
<1> QED BY <1>1, <1>3, FunctionIsSeq

LEMMA JoinIs ==
  ASSUME NEW s \in Seq(Messages), NEW t \in Seq(Messages)
  PROVE  /\ s \o t \in Seq(Messages) /\ Len(s \o t) = Len(s) + Len(t)
         /\ \A i \in 1..(Len(s) + Len(t)) : (s \o t)[i] = IF i <= Len(s) THEN s[i] ELSE t[i - Len(s)]
BY ConcatProperties

(* A result that comes is the one that would have been made up.            *)
LEMMA ResultJoins ==
  ASSUME NEW out \in Seq(Messages), NEW p \in Seq(CallIds), p # <<>>
  PROVE  Append(out, ToolResult(Head(p))) \o Synthetic(Tail(p)) = out \o Synthetic(p)
<1> DEFINE m == ToolResult(Head(p))  l == Append(out, m) \o Synthetic(Tail(p))  g == out \o Synthetic(p)
<1>1. /\ Head(p) \in CallIds /\ Head(p) = p[1] /\ Tail(p) \in Seq(CallIds) /\ Len(Tail(p)) = Len(p) - 1
      /\ \A j \in 1..Len(Tail(p)) : Tail(p)[j] = p[j + 1]
      /\ Len(p) \in Nat \ {0} /\ Len(out) \in Nat
  BY HeadTailProperties, EmptySeq, LenProperties
<1>2. m \in Messages
  BY <1>1 DEF ToolResult, Messages, ToolResults
<1>3. /\ Append(out, m) \in Seq(Messages) /\ Len(Append(out, m)) = Len(out) + 1
      /\ \A i \in 1..Len(out) : Append(out, m)[i] = out[i]
      /\ Append(out, m)[Len(out) + 1] = m
  BY <1>2, AppendProperties
<1>4. /\ Synthetic(Tail(p)) \in Seq(Messages) /\ Len(Synthetic(Tail(p))) = Len(p) - 1
      /\ \A i \in 1..(Len(p) - 1) : Synthetic(Tail(p))[i] = ToolResult(p[i + 1])
  <2> DEFINE q == Tail(p)
  <2>1. q \in Seq(CallIds) /\ Len(q) = Len(p) - 1 /\ \A i \in 1..(Len(p) - 1) : q[i] = p[i + 1]
    BY <1>1
  <2> HIDE DEF q
  <2>2. Synthetic(q) \in Seq(Messages) /\ Len(Synthetic(q)) = Len(q) /\ \A i \in 1..Len(q) : Synthetic(q)[i] = ToolResult(q[i])
    BY <2>1, SyntheticIs
  <2> QED BY <2>1, <2>2 DEF q
<1>5. /\ Synthetic(p) \in Seq(Messages) /\ Len(Synthetic(p)) = Len(p)
      /\ \A i \in 1..Len(p) : Synthetic(p)[i] = ToolResult(p[i])
  BY SyntheticIs
<1>6. /\ l \in Seq(Messages) /\ Len(l) = Len(out) + 1 + (Len(p) - 1)
      /\ \A i \in 1..(Len(out) + 1 + (Len(p) - 1)) : l[i] = IF i <= Len(out) + 1 THEN Append(out, m)[i] ELSE Synthetic(Tail(p))[i - (Len(out) + 1)]
  <2> DEFINE u == Append(out, m)  v == Synthetic(Tail(p))
  <2>1. u \in Seq(Messages) /\ v \in Seq(Messages) /\ Len(u) = Len(out) + 1 /\ Len(v) = Len(p) - 1
    BY <1>3, <1>4
  <2> HIDE DEF u, v
  <2>2. /\ u \o v \in Seq(Messages) /\ Len(u \o v) = Len(u) + Len(v)
        /\ \A i \in 1..(Len(u) + Len(v)) : (u \o v)[i] = IF i <= Len(u) THEN u[i] ELSE v[i - Len(u)]
    BY <2>1, JoinIs
  <2> QED BY <2>1, <2>2 DEF u, v
<1>7. /\ g \in Seq(Messages) /\ Len(g) = Len(out) + Len(p)
      /\ \A i \in 1..(Len(out) + Len(p)) : g[i] = IF i <= Len(out) THEN out[i] ELSE Synthetic(p)[i - Len(out)]
  <2> DEFINE v == Synthetic(p)
  <2>1. v \in Seq(Messages) /\ Len(v) = Len(p)
    BY <1>5
  <2> HIDE DEF v
  <2>2. /\ out \o v \in Seq(Messages) /\ Len(out \o v) = Len(out) + Len(v)
        /\ \A i \in 1..(Len(out) + Len(v)) : (out \o v)[i] = IF i <= Len(out) THEN out[i] ELSE v[i - Len(out)]
    BY <2>1, JoinIs
  <2> QED BY <2>1, <2>2 DEF v
<1>a. m = ToolResult(p[1])
  BY <1>1
<1> HIDE DEF l, g, m
<1>8. ASSUME NEW i \in 1..Len(g) PROVE l[i] = g[i]
  <2>0. i \in 1..(Len(out) + 1 + (Len(p) - 1)) /\ i \in 1..(Len(out) + Len(p))
    BY <1>1, <1>6, <1>7
  <2>1. CASE i <= Len(out)
    <3>1. i \in 1..Len(out) /\ i <= Len(out) + 1
      BY <1>1, <2>0, <2>1
    <3>2. l[i] = Append(out, m)[i] /\ g[i] = out[i]
      BY <1>6, <1>7, <2>0, <2>1, <3>1
    <3> QED BY <1>3, <3>1, <3>2
  <2>2. CASE i = Len(out) + 1
    <3>1. l[i] = m
      <4>1. l[i] = Append(out, m)[i]
        BY <1>1, <1>6, <2>0, <2>2
      <4> QED BY <1>3, <2>2, <4>1
    <3>2. g[i] = Synthetic(p)[1] /\ 1 \in 1..Len(p)
      BY <1>1, <1>7, <2>0, <2>2
    <3> QED BY <1>5, <1>a, <3>1, <3>2
  <2>3. CASE i > Len(out) + 1
    <3>a. ~(i <= Len(out) + 1) /\ i - (Len(out) + 1) \in 1..(Len(p) - 1)
      BY <1>1, <2>0, <2>3
    <3>1. l[i] = Synthetic(Tail(p))[i - (Len(out) + 1)] /\ i - (Len(out) + 1) \in 1..(Len(p) - 1)
      BY <1>6, <2>0, <3>a
    <3>2. g[i] = Synthetic(p)[i - Len(out)] /\ i - Len(out) \in 1..Len(p) /\ i - (Len(out) + 1) + 1 = i - Len(out)
      BY <1>1, <1>7, <2>0, <2>3
    <3> QED BY <1>4, <1>5, <3>1, <3>2
  <2> QED BY <1>1, <1>7, <2>1, <2>2, <2>3
<1>9. l = g
  BY <1>1, <1>6, <1>7, <1>8, SeqEqual
<1> QED BY <1>9 DEF l, g, m

(* What is answered stays so when a user's message follows, or an answer   *)
(* with all its results.                                                   *)
LEMMA AnsweredGrows ==
  ASSUME NEW s \in Seq(Messages), Answered(s), NEW l \in Seq(Messages), NEW m \in Messages,
         NEW n \in Nat, Len(l) = Len(s) + 1 + n,
         \A i \in 1..Len(s) : l[i] = s[i], l[Len(s) + 1] = m,
         m.role = "assistant" \/ (m.role = "user" /\ n = 0), m.role = "assistant" => n = m.calls,
         \A c \in 1..n : l[Len(s) + 1 + c] = ToolResult([turn |-> m.turn, index |-> c])
  PROVE  Answered(l)
<1>1. Len(s) \in Nat /\ DOMAIN s = 1..Len(s) /\ DOMAIN l = 1..Len(l)
  BY LenProperties
<1>2. ASSUME NEW i \in 1..Len(l), l[i].role = "assistant"
      PROVE  /\ i + l[i].calls <= Len(l)
             /\ \A c \in 1..l[i].calls : \E k \in i + 1 .. i + l[i].calls : l[k] = ToolResult(CallsOf(l[i])[c])
  <2>1. CASE i \in 1..Len(s)
    <3>1. l[i] = s[i]
      BY <2>1
    <3>2. /\ i + s[i].calls <= Len(s)
          /\ \A c \in 1..s[i].calls : \E k \in i + 1 .. i + s[i].calls : s[k] = ToolResult(CallsOf(s[i])[c])
      <4>1. i \in DOMAIN s /\ s[i].role = "assistant"
        BY <1>1, <1>2, <2>1, <3>1
      <4> QED BY <4>1 DEF Answered
    <3>3. s[i].calls \in Nat
      <4>1. s[i] \in Messages
        BY <2>1, ElementOfSeq
      <4> QED BY <1>2, <3>1, <4>1 DEF Messages, UserMessages, AssistantMessages, ToolResults
    <3>4. \A k \in i + 1 .. i + s[i].calls : k \in 1..Len(s)
      BY <1>1, <2>1, <3>2, <3>3
    <3>5. \A k \in i + 1 .. i + s[i].calls : l[k] = s[k]
      BY <3>4
    <3>6. i + s[i].calls <= Len(l)
      BY <1>1, <2>1, <3>2, <3>3
    <3> QED BY <3>1, <3>2, <3>5, <3>6
  <2>2. CASE i = Len(s) + 1
    <3>1. l[i] = m /\ n = m.calls
      BY <1>2, <2>2
    <3>2. ASSUME NEW c \in 1..n PROVE \E k \in i + 1 .. i + n : l[k] = ToolResult(CallsOf(m)[c])
      <4>1. CallsOf(m)[c] = [turn |-> m.turn, index |-> c]
        BY <3>1 DEF CallsOf
      <4>2. i + c \in i + 1 .. i + n
        BY <1>1, <2>2
      <4> QED BY <2>2, <4>1, <4>2
    <3>3. i + n <= Len(l)
      BY <1>1, <2>2
    <3> QED BY <3>1, <3>2, <3>3
  <2>3. CASE i > Len(s) + 1
    <3>1. PICK c \in 1..n : Len(s) + 1 + c = i
      <4>1. i - (Len(s) + 1) \in 1..n /\ Len(s) + 1 + (i - (Len(s) + 1)) = i
        BY <1>1, <2>3
      <4> QED BY <4>1
    <3>2. l[i] = ToolResult([turn |-> m.turn, index |-> c])
      BY <3>1
    <3>3. l[i].role = "toolResult"
      BY <3>2 DEF ToolResult
    <3> QED BY <1>2, <3>3
  <2> QED BY <1>1, <2>1, <2>2, <2>3
<1>3. ASSUME NEW i \in 1..Len(l), l[i].role = "toolResult"
      PROVE  \E k \in 1..(i - 1) :
               l[k].role = "assistant" /\ l[i].call.turn = l[k].turn /\ i - k <= l[k].calls
  <2>1. CASE i \in 1..Len(s)
    <3>1. l[i] = s[i]
      BY <2>1
    <3>2. PICK k \in 1..(i - 1) :
                 s[k].role = "assistant" /\ s[i].call.turn = s[k].turn /\ i - k <= s[k].calls
      BY <1>1, <1>3, <2>1, <3>1 DEF Answered
    <3>3. k \in 1..Len(s)
      BY <1>1, <2>1
    <3> QED BY <3>1, <3>2, <3>3
  <2>2. CASE i = Len(s) + 1
    BY <1>3, <2>2
  <2>3. CASE i > Len(s) + 1
    <3>1. PICK c \in 1..n : Len(s) + 1 + c = i
      <4>1. i - (Len(s) + 1) \in 1..n /\ Len(s) + 1 + (i - (Len(s) + 1)) = i
        BY <1>1, <2>3
      <4> QED BY <4>1
    <3>a. l[i] = ToolResult([turn |-> m.turn, index |-> c])
      BY <3>1
    <3>2. l[i].call.turn = m.turn
      BY <3>a DEF ToolResult
    <3>3. m.role = "assistant" /\ n = m.calls
      BY <3>1
    <3>4. Len(s) + 1 \in 1..(i - 1) /\ i - (Len(s) + 1) <= n
      BY <1>1, <2>3, <3>1
    <3> QED BY <3>2, <3>3, <3>4
  <2> QED BY <1>1, <2>1, <2>2, <2>3
<1> QED BY <1>1, <1>2, <1>3 DEF Answered

LEMMA AnsweredUser ==
  ASSUME NEW s \in Seq(Messages), Answered(s), NEW m \in Messages, m.role = "user"
  PROVE  Answered(Append(s, m))
<1> DEFINE l == Append(s, m)
<1>1. /\ l \in Seq(Messages) /\ Len(l) = Len(s) + 1 /\ Len(s) \in Nat
      /\ \A i \in 1..Len(s) : l[i] = s[i]
      /\ l[Len(s) + 1] = m
  BY AppendProperties, LenProperties
<1> HIDE DEF l
<1>2. Len(l) = Len(s) + 1 + 0 /\ \A c \in 1..0 : l[Len(s) + 1 + c] = ToolResult([turn |-> m.turn, index |-> c])
  BY <1>1
<1>3. Answered(l)
  BY <1>1, <1>2, AnsweredGrows
<1> QED BY <1>3 DEF l

LEMMA AnsweredCalls ==
  ASSUME NEW s \in Seq(Messages), Answered(s), NEW m \in AssistantMessages
  PROVE  Answered(Append(s, m) \o Synthetic(CallsOf(m)))
<1> DEFINE p == CallsOf(m)  l == Append(s, m) \o Synthetic(p)
<1>1. m \in Messages /\ m.role = "assistant" /\ m.turn \in Nat /\ m.calls \in Nat
  BY DEF Messages, AssistantMessages
<1>2. p = Rest(m.turn, 0, m.calls)
  BY <1>1 DEF Rest, CallsOf
<1>3. p \in Seq(CallIds) /\ Len(p) = m.calls /\ \A j \in 1..m.calls : p[j] = [turn |-> m.turn, index |-> j]
  <2>0. m.turn \in Nat /\ 0 \in Nat /\ m.calls \in Nat /\ 0 <= m.calls
    BY <1>1
  <2>1. /\ Rest(m.turn, 0, m.calls) \in Seq(CallIds) /\ Len(Rest(m.turn, 0, m.calls)) = m.calls - 0
        /\ \A j \in 1..(m.calls - 0) : Rest(m.turn, 0, m.calls)[j] = [turn |-> m.turn, index |-> 0 + j]
    BY <2>0, RestIs
  <2>2. m.calls - 0 = m.calls /\ \A j \in 1..m.calls : 0 + j = j
    BY <1>1
  <2> QED BY <1>2, <2>1, <2>2
<1> HIDE DEF p
<1>4. /\ Synthetic(p) \in Seq(Messages) /\ Len(Synthetic(p)) = m.calls
      /\ \A i \in 1..m.calls : Synthetic(p)[i] = ToolResult([turn |-> m.turn, index |-> i])
  BY <1>3, SyntheticIs
<1>5. /\ Append(s, m) \in Seq(Messages) /\ Len(Append(s, m)) = Len(s) + 1 /\ Len(s) \in Nat
      /\ \A i \in 1..Len(s) : Append(s, m)[i] = s[i]
      /\ Append(s, m)[Len(s) + 1] = m
  BY <1>1, AppendProperties, LenProperties
<1>6. /\ l \in Seq(Messages) /\ Len(l) = Len(s) + 1 + m.calls
      /\ \A i \in 1..(Len(s) + 1 + m.calls) : l[i] = IF i <= Len(s) + 1 THEN Append(s, m)[i] ELSE Synthetic(p)[i - (Len(s) + 1)]
  <2> DEFINE u == Append(s, m)  v == Synthetic(p)
  <2>1. u \in Seq(Messages) /\ v \in Seq(Messages) /\ Len(u) = Len(s) + 1 /\ Len(v) = m.calls
    BY <1>4, <1>5
  <2> HIDE DEF u, v
  <2>2. /\ u \o v \in Seq(Messages) /\ Len(u \o v) = Len(u) + Len(v)
        /\ \A i \in 1..(Len(u) + Len(v)) : (u \o v)[i] = IF i <= Len(u) THEN u[i] ELSE v[i - Len(u)]
    BY <2>1, JoinIs
  <2> QED BY <2>1, <2>2 DEF u, v
<1> HIDE DEF l
<1>7. /\ \A i \in 1..Len(s) : l[i] = s[i]
      /\ l[Len(s) + 1] = m
  BY <1>1, <1>5, <1>6
<1>8. ASSUME NEW c \in 1..m.calls PROVE l[Len(s) + 1 + c] = ToolResult([turn |-> m.turn, index |-> c])
  <2>1. Len(s) + 1 + c \in 1..(Len(s) + 1 + m.calls) /\ ~(Len(s) + 1 + c <= Len(s) + 1) /\ Len(s) + 1 + c - (Len(s) + 1) = c
    BY <1>1, <1>5, <1>6
  <2>2. l[Len(s) + 1 + c] = Synthetic(p)[Len(s) + 1 + c - (Len(s) + 1)]
    BY <1>6, <2>1
  <2>3. l[Len(s) + 1 + c] = Synthetic(p)[c]
    BY <2>1, <2>2
  <2> QED BY <1>4, <2>3
<1>9. Answered(l)
  BY <1>1, <1>6, <1>7, <1>8, AnsweredGrows
<1> QED BY <1>9 DEF l, p

LEMMA Least ==
  ASSUME NEW T, T \subseteq Nat, T # {}
  PROVE  \E m \in T : \A n \in T : m <= n
<1>1. \E x \in T : \A y \in T : ~(<<y, x>> \in OpToRel(<, Nat))
  BY NatLessThanWellFounded, WFMin
<1>2. PICK x \in T : \A y \in T : ~(<<y, x>> \in OpToRel(<, Nat))
  BY <1>1
<1>3. \A y \in T : ~(y < x)
  BY <1>2 DEF OpToRel
<1> QED BY <1>3

(* f is the second pass over the first n messages of ms.                   *)
NoneYet == [out |-> <<>>, pending |-> <<>>]
IsPass(f, ms, n) == f = [i \in 0..n |-> IF i = 0 THEN NoneYet ELSE Transformed(f[i - 1], ms[i])]

LEMMA PassExists ==
  ASSUME NEW ms, NEW n \in Nat
  PROVE  \E f : IsPass(f, ms, n)
<1> DEFINE T == {h \in Nat : ~\E f : IsPass(f, ms, h)}
<1>1. SUFFICES ASSUME T # {} PROVE FALSE
  OBVIOUS
<1>2. PICK m \in T : \A l \in T : m <= l
  BY <1>1, Least
<1>3. CASE m = 0
  <2> DEFINE g == [i \in 0..0 |-> NoneYet]
  <2>1. g = [i \in 0..0 |-> IF i = 0 THEN NoneYet ELSE Transformed(g[i - 1], ms[i])]
    OBVIOUS
  <2> QED BY <1>2, <1>3, <2>1 DEF IsPass
<1>4. CASE m # 0
  <2>1. m - 1 \in Nat /\ m - 1 \notin T
    <3>1. m \in Nat /\ m - 1 \in Nat /\ ~(m <= m - 1)
      BY <1>2, <1>4
    <3> HIDE DEF T
    <3> QED BY <1>2, <3>1
  <2>2. PICK f : IsPass(f, ms, m - 1)
    BY <2>1
  <2> DEFINE g == [i \in 0..m |-> IF i = m THEN Transformed(f[m - 1], ms[m]) ELSE f[i]]
  <2>3. ASSUME NEW i \in 0..m PROVE g[i] = IF i = 0 THEN NoneYet ELSE Transformed(g[i - 1], ms[i])
    <3>1. CASE i = m
      <4>1. g[i] = Transformed(f[m - 1], ms[m]) /\ m - 1 \in 0..m /\ m - 1 # m
        BY <1>2, <1>4, <3>1
      <4>2. g[m - 1] = f[m - 1]
        BY <4>1
      <4> QED BY <1>4, <3>1, <4>1, <4>2
    <3>2. CASE i # m
      <4>1. g[i] = f[i] /\ i \in 0..(m - 1)
        BY <1>2, <3>2
      <4>2. f[i] = IF i = 0 THEN NoneYet ELSE Transformed(f[i - 1], ms[i])
        BY <2>2, <4>1 DEF IsPass
      <4>3. i # 0 => i - 1 \in 0..m /\ i - 1 # m
        BY <1>2
      <4>4. i # 0 => g[i - 1] = f[i - 1]
        BY <4>3
      <4> HIDE DEF g
      <4> QED BY <4>1, <4>2, <4>4
    <3> QED BY <3>1, <3>2
  <2>4. g = [i \in 0..m |-> g[i]]
    OBVIOUS
  <2> HIDE DEF g
  <2>5. IsPass(g, ms, m)
    BY <2>3, <2>4 DEF IsPass
  <2> QED BY <1>2, <2>5
<1> QED BY <1>3, <1>4

LEMMA PassIs ==
  ASSUME NEW ms \in Seq(Messages)
  PROVE  \E f : /\ f[0] = NoneYet
                /\ \A i \in 1..Len(ms) : f[i] = Transformed(f[i - 1], ms[i])
                /\ transformMessages(ms) = f[Len(ms)].out \o Synthetic(f[Len(ms)].pending)
<1>1. Len(ms) \in Nat
  BY LenProperties
<1>2. PICK h : IsPass(h, ms, Len(ms))
  BY <1>1, PassExists
<1> DEFINE f == CHOOSE g : g = [i \in 0..Len(ms) |-> IF i = 0 THEN [out |-> <<>>, pending |-> <<>>] ELSE Transformed(g[i - 1], ms[i])]
<1>3. h = [i \in 0..Len(ms) |-> IF i = 0 THEN [out |-> <<>>, pending |-> <<>>] ELSE Transformed(h[i - 1], ms[i])]
  BY <1>2 DEF IsPass, NoneYet
<1>4. f = [i \in 0..Len(ms) |-> IF i = 0 THEN [out |-> <<>>, pending |-> <<>>] ELSE Transformed(f[i - 1], ms[i])]
  BY <1>3
<1>5. transformMessages(ms) = f[Len(ms)].out \o Synthetic(f[Len(ms)].pending)
  BY DEF transformMessages
<1> HIDE DEF f
<1>6. 0 \in 0..Len(ms) /\ \A i \in 1..Len(ms) : i \in 0..Len(ms) /\ i # 0
  BY <1>1
<1>7. f[0] = NoneYet
  BY <1>4, <1>6 DEF NoneYet
<1>8. \A i \in 1..Len(ms) : f[i] = Transformed(f[i - 1], ms[i])
  BY <1>4, <1>6
<1> QED BY <1>5, <1>7, <1>8

(* After i messages: with results made up for the calls that have none,    *)
(* what has been put out is answered.                                      *)
Passed(f, ms, i) ==
  /\ f[i].out \in Seq(Messages) /\ f[i].pending \in Seq(CallIds)
  /\ Answered(f[i].out \o Synthetic(f[i].pending))
  /\ i > 0 /\ ms[i].role = "assistant" /\ ~Incomplete(ms[i]) => f[i].pending = Rest(ms[i].turn, 0, ms[i].calls)
  /\ i > 0 /\ ms[i].role = "toolResult" =>
       LET c == ms[i].call IN f[i].pending = Rest(c.turn, c.index, ms[i - c.index].calls)

LEMMA SyntheticNothing == Synthetic(<<>>) = <<>>
<1>0. <<>> \in Seq(CallIds) /\ Len(<<>>) = 0
  OBVIOUS
<1>1. Synthetic(<<>>) \in Seq(Messages) /\ Len(Synthetic(<<>>)) = 0
  BY <1>0, SyntheticIs
<1> QED BY <1>1, EmptySeq

LEMMA JoinNothing ==
  ASSUME NEW s \in Seq(Messages)
  PROVE  s \o Synthetic(<<>>) = s
BY SyntheticNothing, ConcatEmptySeq

LEMMA TransformedIs ==
  ASSUME NEW r, NEW m
  PROVE  LET out == r.out \o Synthetic(r.pending) IN
         /\ m.role = "assistant" /\ Incomplete(m) => Transformed(r, m) = [out |-> out, pending |-> <<>>]
         /\ m.role = "assistant" /\ ~Incomplete(m) =>
              Transformed(r, m) = [out |-> Append(out, m), pending |-> CallsOf(m)]
         /\ m.role = "user" => Transformed(r, m) = [out |-> Append(out, m), pending |-> <<>>]
         /\ m.role = "toolResult" =>
              Transformed(r, m) = [out |-> Append(r.out, m), pending |-> Ext!RemoveFirst(r.pending, m.call)]
<1> DEFINE out == r.out \o Synthetic(r.pending)
<1>1. CASE m.role = "assistant" /\ Incomplete(m)
  BY <1>1 DEF Transformed
<1>2. CASE m.role = "assistant" /\ ~Incomplete(m)
  BY <1>2 DEF Transformed
<1>3. CASE m.role = "user"
  BY <1>3 DEF Transformed
<1>4. CASE m.role = "toolResult"
  BY <1>4 DEF Transformed
<1> QED BY <1>1, <1>2, <1>3, <1>4

(* One message more: a failed answer is left out, a user's message and an  *)
(* answer come after the results made up, a result takes the place of one. *)
LEMMA PassStep ==
  ASSUME NEW ms \in Seq(Messages), AllFollow(ms), NEW f, NEW i \in 1..Len(ms),
         f[i] = Transformed(f[i - 1], ms[i]), Passed(f, ms, i - 1)
  PROVE  Passed(f, ms, i)
<1> DEFINE r == f[i - 1]  m == ms[i]  out == r.out \o Synthetic(r.pending)
<1>1. /\ r.out \in Seq(Messages) /\ r.pending \in Seq(CallIds) /\ Answered(out)
      /\ i \in Nat /\ i > 0 /\ Len(ms) \in Nat
  BY LenProperties DEF Passed
<1>2. m \in Messages
  BY ElementOfSeq
<1>3. out \in Seq(Messages)
  <2> DEFINE v == Synthetic(r.pending)  u == r.out
  <2>1. v \in Seq(Messages) /\ u \in Seq(Messages)
    BY <1>1, SyntheticIs
  <2> HIDE DEF u, v
  <2>2. u \o v \in Seq(Messages)
    BY <2>1, JoinIs
  <2> QED BY <2>2 DEF u, v
<1>4. f[i] = Transformed(r, m)
  OBVIOUS
<1> HIDE DEF r, m
<1>5. CASE m.role = "assistant" /\ Incomplete(m)
  <2>1. f[i].out = out /\ f[i].pending = <<>>
    <3>1. Transformed(r, m) = [out |-> out, pending |-> <<>>]
      BY <1>5, TransformedIs
    <3> HIDE DEF out
    <3> QED BY <1>4, <3>1
  <2>2. f[i].out \o Synthetic(f[i].pending) = out
    <3> HIDE DEF out
    <3>1. out \o Synthetic(<<>>) = out
      BY <1>3, JoinNothing
    <3> QED BY <2>1, <3>1
  <2>3. <<>> \in Seq(CallIds)
    OBVIOUS
  <2> QED BY <1>1, <1>3, <1>5, <2>1, <2>2, <2>3 DEF Passed, m
<1>6. CASE m.role = "assistant" /\ ~Incomplete(m)
  <2>1. f[i].out = Append(out, m) /\ f[i].pending = CallsOf(m)
    <3>1. Transformed(r, m) = [out |-> Append(out, m), pending |-> CallsOf(m)]
      BY <1>6, TransformedIs
    <3> HIDE DEF out
    <3> QED BY <1>4, <3>1
  <2>2. m \in AssistantMessages
    BY <1>2, <1>6 DEF Messages, UserMessages, ToolResults
  <2>3. CallsOf(m) = Rest(m.turn, 0, m.calls) /\ m.turn \in Nat /\ m.calls \in Nat
    BY <2>2 DEF Rest, CallsOf, AssistantMessages
  <2>4. CallsOf(m) \in Seq(CallIds)
    <3>1. 0 \in Nat /\ 0 <= m.calls
      BY <2>3
    <3>2. Rest(m.turn, 0, m.calls) \in Seq(CallIds)
      BY <2>3, <3>1, RestIs
    <3> QED BY <2>3, <3>2
  <2> HIDE DEF out
  <2>5. Append(out, m) \in Seq(Messages)
    BY <1>2, <1>3, AppendProperties
  <2>6. Answered(Append(out, m) \o Synthetic(CallsOf(m)))
    BY <1>1, <1>3, <2>2, AnsweredCalls
  <2> QED BY <1>6, <2>1, <2>3, <2>4, <2>5, <2>6 DEF Passed, m
<1>7. CASE m.role = "user"
  <2>1. f[i].out = Append(out, m) /\ f[i].pending = <<>>
    <3>1. Transformed(r, m) = [out |-> Append(out, m), pending |-> <<>>]
      BY <1>7, TransformedIs
    <3> HIDE DEF out
    <3> QED BY <1>4, <3>1
  <2> HIDE DEF out
  <2>2. Append(out, m) \in Seq(Messages)
    BY <1>2, <1>3, AppendProperties
  <2>3. Answered(Append(out, m))
    BY <1>1, <1>2, <1>3, <1>7, AnsweredUser
  <2>4. Append(out, m) \o Synthetic(<<>>) = Append(out, m)
    <3> DEFINE l == Append(out, m)
    <3>1. l \in Seq(Messages)
      BY <2>2
    <3> HIDE DEF l
    <3>2. l \o Synthetic(<<>>) = l
      BY <3>1, JoinNothing
    <3> QED BY <3>2 DEF l
  <2>5. <<>> \in Seq(CallIds)
    OBVIOUS
  <2> QED BY <1>7, <2>1, <2>2, <2>3, <2>4, <2>5 DEF Passed, m
<1>8. CASE m.role = "toolResult"
  <2> DEFINE c == m.call  x == c.index
  <2>1. PICK k \in 1..Len(ms) : IsAnswer(ms, k, i)
    BY <1>8 DEF AllFollow, Follows, m
  <2> DEFINE n == ms[k].calls
  <2>2. /\ c \in CallIds /\ m = ToolResult(c) /\ c.turn \in Nat /\ x \in Nat /\ n \in Nat
        /\ k + x = i /\ x \in 1..n /\ ms[k].role = "assistant" /\ ~Incomplete(ms[k]) /\ ms[k].turn = c.turn
    <3>1. c \in CallIds /\ m = ToolResult(c)
      BY <1>2, <1>8 DEF Messages, UserMessages, AssistantMessages, ToolResults, ToolResult
    <3>2. /\ k + x = i /\ ms[k] \in AssistantMessages /\ ms[k].stop = "stop" /\ ms[k].turn = c.turn
          /\ x \in 1..n
      BY <2>1 DEF IsAnswer, m
    <3> QED BY <3>1, <3>2 DEF CallIds, AssistantMessages, Incomplete
  <2>3. m = ToolResult([turn |-> c.turn, index |-> x])
    <3>1. ms[k + x] = ToolResult([turn |-> c.turn, index |-> x])
      BY <2>1, <2>2 DEF IsAnswer, m
    <3> QED BY <2>2, <3>1 DEF m
  <2>4. c = [turn |-> c.turn, index |-> x]
    <3>1. ToolResult([turn |-> c.turn, index |-> x]).call = [turn |-> c.turn, index |-> x]
      BY DEF ToolResult
    <3> QED BY <2>3, <3>1
  <2>5. r.pending = Rest(c.turn, x - 1, n)
    <3>1. CASE x = 1
      <4>1. i - 1 = k /\ k > 0 /\ x - 1 = 0
        BY <2>2, <3>1
      <4> QED BY <2>2, <4>1 DEF Passed, r
    <3>2. CASE x # 1
      <4>1. x - 1 \in 1..x /\ k + (x - 1) = i - 1 /\ i - 1 > 0 /\ (i - 1) - (x - 1) = k
        <5> DEFINE y == x
        <5>1. y \in Nat /\ y # 1 /\ y # 0 /\ k \in Nat \ {0} /\ k + y = i
          BY <2>2, <3>2
        <5> HIDE DEF y
        <5>2. y - 1 \in 1..y /\ k + (y - 1) = i - 1 /\ i - 1 > 0 /\ (i - 1) - (y - 1) = k
          BY <5>1
        <5> QED BY <5>2 DEF y
      <4>2. ms[i - 1] = ToolResult([turn |-> c.turn, index |-> x - 1])
        BY <2>1, <4>1 DEF IsAnswer, m
      <4>3. ms[i - 1].role = "toolResult" /\ ms[i - 1].call.turn = c.turn /\ ms[i - 1].call.index = x - 1
        BY <4>2 DEF ToolResult
      <4> QED BY <4>1, <4>3 DEF Passed, r
    <3> QED BY <3>1, <3>2
  <2> DEFINE p == r.pending
  <2>6. x - 1 \in Nat /\ x - 1 < n /\ (x - 1) + 1 = x
    <3> DEFINE y == x  e == n
    <3>1. y \in 1..e /\ e \in Nat
      BY <2>2
    <3> HIDE DEF y, e
    <3>2. y - 1 \in Nat /\ y - 1 < e /\ (y - 1) + 1 = y
      BY <3>1
    <3> QED BY <3>2 DEF y, e
  <2>7. /\ p # <<>> /\ Head(p) = c /\ Tail(p) = Rest(c.turn, x, n)
        /\ Ext!RemoveFirst(p, c) = Tail(p)
    <3> DEFINE t == c.turn  y == x - 1  e == n
    <3>1. t \in Nat /\ y \in Nat /\ e \in Nat /\ y < e
      BY <2>2, <2>6
    <3> HIDE DEF t, y, e
    <3>2. FirstTaken(t, y, e)
      BY <3>1, RestNext
    <3>3. p = Rest(t, y, e) /\ y + 1 = x
      BY <2>5, <2>6 DEF t, y, e
    <3>4. [turn |-> t, index |-> y + 1] = c
      BY <2>4, <3>3 DEF t
    <3> QED BY <3>2, <3>3, <3>4 DEF FirstTaken, t, e
  <2>8. f[i].out = Append(r.out, m) /\ f[i].pending = Tail(p)
    <3>1. Transformed(r, m) = [out |-> Append(r.out, m), pending |-> Ext!RemoveFirst(r.pending, m.call)]
      BY <1>8, TransformedIs
    <3> QED BY <1>4, <2>7, <3>1
  <2>9. /\ Append(r.out, m) \in Seq(Messages) /\ Tail(p) \in Seq(CallIds)
    <3>1. Append(r.out, m) \in Seq(Messages)
      BY <1>1, <1>2, AppendProperties
    <3> QED BY <1>1, <2>7, <3>1, HeadTailProperties
  <2>10. Append(r.out, m) \o Synthetic(Tail(p)) = out
    <3> DEFINE q == p  o == r.out
    <3>1. q \in Seq(CallIds) /\ q # <<>> /\ o \in Seq(Messages)
      BY <1>1, <2>7
    <3> HIDE DEF q, o
    <3>2. Append(o, ToolResult(Head(q))) \o Synthetic(Tail(q)) = o \o Synthetic(q)
      BY <3>1, ResultJoins
    <3>3. ToolResult(Head(q)) = m
      BY <2>2, <2>7 DEF q
    <3> QED BY <3>2, <3>3 DEF q, o
  <2>11. f[i].pending = Rest(ms[i].call.turn, ms[i].call.index, ms[i - ms[i].call.index].calls)
    <3>1. i - x = k
      BY <2>2
    <3> QED BY <2>7, <2>8, <3>1 DEF m
  <2> QED BY <1>1, <1>8, <2>8, <2>9, <2>10, <2>11 DEF Passed, m
<1> QED BY <1>2, <1>5, <1>6, <1>7, <1>8 DEF Messages, UserMessages, AssistantMessages, ToolResults

LEMMA AnsweredNothing == Answered(<<>>)
BY DEF Answered

LEMMA AnsweredWhole ==
  ASSUME NEW ms \in Seq(Messages), AllFollow(ms)
  PROVE  Answered(transformMessages(ms))
<1>1. PICK f : /\ f[0] = NoneYet
               /\ \A i \in 1..Len(ms) : f[i] = Transformed(f[i - 1], ms[i])
               /\ transformMessages(ms) = f[Len(ms)].out \o Synthetic(f[Len(ms)].pending)
  BY PassIs
<1> DEFINE T == {i \in Nat : i <= Len(ms) /\ ~Passed(f, ms, i)}
<1>2. Len(ms) \in Nat
  BY LenProperties
<1>3. T = {}
  <2>1. SUFFICES ASSUME T # {} PROVE FALSE
    OBVIOUS
  <2>2. PICK i \in T : \A j \in T : i <= j
    BY <2>1, Least
  <2>3. Passed(f, ms, 0)
    <3>1. f[0].out = <<>> /\ f[0].pending = <<>>
      BY <1>1 DEF NoneYet
    <3>2. <<>> \o Synthetic(<<>>) = <<>>
      BY JoinNothing
    <3>3. <<>> \in Seq(Messages) /\ <<>> \in Seq(CallIds)
      OBVIOUS
    <3>4. Answered(f[0].out \o Synthetic(f[0].pending))
      BY <3>1, <3>2, AnsweredNothing
    <3> QED BY <3>1, <3>3, <3>4 DEF Passed
  <2>4. i \in 1..Len(ms) /\ i - 1 \in Nat /\ i - 1 <= Len(ms) /\ ~(i <= i - 1)
    <3>1. i # 0
      BY <2>2, <2>3
    <3> QED BY <1>2, <2>2, <3>1
  <2>5. Passed(f, ms, i - 1)
    <3>1. i - 1 \notin T
      <4> HIDE DEF T
      <4> QED BY <2>2, <2>4
    <3> QED BY <2>4, <3>1
  <2>6. Passed(f, ms, i)
    BY <1>1, <2>4, <2>5, PassStep
  <2> QED BY <2>2, <2>6
<1>4. Passed(f, ms, Len(ms))
  BY <1>2, <1>3
<1> QED BY <1>1, <1>4 DEF Passed

(* However the runs before a call of the model ended (an error, an abort, a *)
(* listener or a hook that threw between two results of a batch), each tool *)
(* call in what transformMessages sends has its result next to it, and no   *)
(* result stands alone: insertSyntheticToolResults fills every gap.         *)
THEOREM ProviderGetsAnsweredCalls == Spec => []ProviderSeesAnsweredCalls
<1>1. Init => ResultInv
  BY DEF Init, ResultInv, AllFollow
<1>2. IInv /\ ResultInv /\ [Next]_vars => ResultInv'
  BY ResultStep
<1>3. IInv /\ ResultInv => ProviderSeesAnsweredCalls
  <2> SUFFICES ASSUME IInv, ResultInv, pc = "call" PROVE Answered(transformMessages(context))
    BY DEF ProviderSeesAnsweredCalls
  <2>1. context \in Seq(Messages) /\ AllFollow(context)
    BY DEF IInv, Sync, TypeOK, Conversations, ResultInv
  <2> QED BY <2>1, AnsweredWhole
<1> QED BY Invariance, <1>1, <1>2, <1>3, PTL DEF Spec
=============================================================================
