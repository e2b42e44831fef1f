--------------------------- MODULE ProviderContext ---------------------------
(***************************************************************************)
(* What a provider is sent of a conversation: transformMessages            *)
(* (ai/src/providers/transform-messages.ts) leaves out failed answers and  *)
(* adds a result for every tool call that has none.  It is composed with   *)
(* AgentRun, whose runs end in the middle of a batch when something throws.*)
(* Images, thinking blocks and the ids of other models are not modelled.   *)
(***************************************************************************)
EXTENDS AgentRun

Ext == INSTANCE SequencesExt

CallsOf(m) == [i \in 1..m.calls |-> [turn |-> m.turn, index |-> i]]

(* Mutant: no result is made up. *)
SyntheticNone(pending) == <<>>

(* insertSyntheticToolResults for the calls that still have no result.     *)
Synthetic(pending) == [i \in DOMAIN pending |-> ToolResult(pending[i])]

Incomplete(m) == m.stop \in {"error", "aborted"}

(* One message of the second pass; pending are the calls of the last       *)
(* answer that have no result yet.                                         *)
Transformed(r, m) ==
  LET out == r.out \o Synthetic(r.pending)
  IN  CASE m.role = "assistant" /\ Incomplete(m) -> [out |-> out, pending |-> <<>>]
        [] m.role = "assistant" /\ ~Incomplete(m) -> [out |-> Append(out, m), pending |-> CallsOf(m)]
        [] m.role = "user" -> [out |-> Append(out, m), pending |-> <<>>]
        [] m.role = "toolResult" ->
             [out |-> Append(r.out, m), pending |-> Ext!RemoveFirst(r.pending, m.call)]

transformMessages(messages) ==
  LET pass[i \in 0..Len(messages)] ==
        IF i = 0 THEN [out |-> <<>>, pending |-> <<>>] ELSE Transformed(pass[i - 1], messages[i])
      last == pass[Len(messages)]
  IN  last.out \o Synthetic(last.pending)
-----------------------------------------------------------------------------
(* Each answer with tool calls is followed by a result of each of them,    *)
(* and there are no other results: what the providers' APIs demand.        *)
Answered(messages) ==
  \A i \in DOMAIN messages :
    /\ messages[i].role = "assistant" =>
         /\ i + messages[i].calls <= Len(messages)
         /\ \A c \in 1..messages[i].calls : \E k \in i + 1 .. i + messages[i].calls :
              messages[k] = ToolResult(CallsOf(messages[i])[c])
    /\ messages[i].role = "toolResult" => \E k \in 1..(i - 1) :
         /\ messages[k].role = "assistant"
         /\ messages[i].call.turn = messages[k].turn /\ i - k <= messages[k].calls

(* However the runs before it ended (an error, an abort, something thrown  *)
(* between two results of a batch), what a call of the provider sends has  *)
(* one result for each tool call, next to it (transformMessages, "Insert   *)
(* synthetic empty tool results for orphaned tool calls").                 *)
ProviderSeesAnsweredCalls == pc = "call" => Answered(transformMessages(context))
=============================================================================
