------------------------------ MODULE Compaction ------------------------------
(***************************************************************************)
(* Compaction of a session (agent-host/src/compaction/compaction.ts), with *)
(* the steps of AgentSession around it (agent-session-impl.ts) and the     *)
(* context buildSessionContext rebuilds (session-manager.ts).              *)
(*                                                                         *)
(* The state is the path from the root to the leaf.  A compaction reads    *)
(* the path, waits for the summary while the path may change, and appends  *)
(* its entry at whatever the leaf then is.  A summary is the set of        *)
(* messages it accounts for: what the summariser was shown, and what the   *)
(* previous summary accounted for when it was passed along.                *)
(***************************************************************************)
EXTENDS Naturals, Sequences, FiniteSets, FiniteSetsExt

CONSTANTS
  KeepRecentTokens, \* settings.keepRecentTokens
  Sizes,            \* what estimateTokens may say of a message
  MaxCalls,         \* bound: tool calls of an assistant message
  MaxEntries        \* bound: entries ever appended

ASSUME TokenAssumption == KeepRecentTokens \in Nat /\ Sizes \subseteq Nat
ASSUME BoundAssumption == MaxCalls \in Nat /\ MaxEntries \in Nat

VARIABLES
  path,        \* the entries from the root to the leaf
  appended,    \* how many entries have been appended; their ids are 1..appended
  owed,        \* results the tool calls of the last assistant message still owe
  preparation, \* what the running compaction prepared
  misplaced    \* history: compactions appended where they were not prepared

vars == <<path, appended, owed, preparation, misplaced>>

(* "note" stands for custom_message and branch_summary, "setting" for the  *)
(* entries that are no part of the context (label, model_change, ...).     *)
(* ref is the call a tool result answers (its assistant message) or the    *)
(* firstKeptEntryId of a compaction.                                       *)
MessageKinds == {"user", "assistant", "toolResult", "bash"}
Kinds == MessageKinds \cup {"note", "setting", "compaction"}
Entry == [id : Nat, kind : Kinds, tokens : Nat, ref : Nat, summary : SUBSET Nat]

IsMessage(e) == e.kind \in MessageKinds
HasContent(e) == IsMessage(e) \/ e.kind = "note"
StartsTurn(e) == e.kind \in {"user", "bash", "note"}

(* leaf is not part of the code's preparation: the leaf it was made at.    *)
NothingPrepared ==
  [first |-> 0, messages |-> {}, prefix |-> {}, split |-> FALSE, previous |-> {}, leaf |-> 0]
Preparation == [first : Nat, messages : SUBSET Nat, prefix : SUBSET Nat, split : BOOLEAN,
                previous : SUBSET Nat, leaf : Nat]
Compacting == preparation # NothingPrepared

MinOr(S, default) == IF S = {} THEN default ELSE Min(S)
MaxOr(S, default) == IF S = {} THEN default ELSE Max(S)
IdsAt(p, I) == {p[i].id : i \in I}
IndexOf(p, id) == {i \in DOMAIN p : p[i].id = id}
LastCompaction(p) == MaxOr({i \in DOMAIN p : p[i].kind = "compaction"}, 0)
-----------------------------------------------------------------------------
(* buildSessionContext: the entries of the path whose message the model is *)
(* sent, after the summary of the last compaction.                         *)
InContext(p) ==
  LET c == LastCompaction(p) IN
  {i \in DOMAIN p :
     /\ HasContent(p[i])
     /\ c = 0 \/ i > c \/ \E k \in IndexOf(p, p[c].ref) : k <= i}

(* Mutant: a cut point at any message. *)
CutPointsAtResults(p, start) == {i \in start..Len(p) : IsMessage(p[i]) \/ p[i].kind = "note"}
findValidCutPoints(p, start) ==
  {i \in start..Len(p) : p[i].kind \in {"user", "assistant", "bash", "note"}}

findTurnStartIndex(p, i, start) == MaxOr({j \in start..i : StartsTurn(p[j])}, 0)

(* Counted from the end, as findCutPoint does.                             *)
TokensFrom(p, i) ==
  LET sum[j \in 1..(Len(p) + 1)] ==
        IF j > Len(p) THEN 0 ELSE sum[j + 1] + (IF IsMessage(p[j]) THEN p[j].tokens ELSE 0)
  IN  sum[i]

(* Mutant: the last cut point before the message that fills the budget. *)
CutAtOrBefore(p, start) ==
  LET cuts == findValidCutPoints(p, start)
      full == {i \in start..Len(p) : IsMessage(p[i]) /\ TokensFrom(p, i) >= KeepRecentTokens}
  IN IF full = {} THEN Min(cuts) ELSE MaxOr({i \in cuts : i <= Max(full)}, Min(cuts))

(* The first cut point at or after the message that fills the budget,      *)
(* counting from the end; the first of all when there is none.             *)
CutAtOrAfter(p, start) ==
  LET cuts == findValidCutPoints(p, start)
      full == {i \in start..Len(p) : IsMessage(p[i]) /\ TokensFrom(p, i) >= KeepRecentTokens}
  IN IF full = {} THEN Min(cuts) ELSE MinOr({i \in cuts : i >= Max(full)}, Min(cuts))

(* findCutPoint: the cut is moved back over entries that are no messages.  *)
CutIndex(p, start) ==
  IF findValidCutPoints(p, start) = {} THEN start
  ELSE LET cut == CutAtOrAfter(p, start) IN
       Min({j \in start..cut : \A k \in j..(cut - 1) :
              ~IsMessage(p[k]) /\ p[k].kind # "compaction"})

TurnStart(p, start) ==
  IF findValidCutPoints(p, start) = {} \/ p[CutIndex(p, start)].kind = "user" THEN 0
  ELSE findTurnStartIndex(p, CutIndex(p, start), start)

(* Where the span to summarise starts: the boundary the last compaction    *)
(* left, or the entry after it if that boundary is not on the path.        *)
BoundaryStart(p) ==
  LET c == LastCompaction(p) IN
  IF c = 0 THEN 1 ELSE MinOr(IndexOf(p, p[c].ref), c + 1)

WithContent(p, from, to) == IdsAt(p, {i \in from..to : HasContent(p[i])})

(* prepareCompaction, for a path that does not end with a compaction.      *)
Prepared(p) ==
  LET start == BoundaryStart(p)
      cut == CutIndex(p, start)
      turn == TurnStart(p, start)
      c == LastCompaction(p)
  IN [first |-> p[cut].id,
      messages |-> WithContent(p, start, IF turn # 0 THEN turn - 1 ELSE cut - 1),
      prefix |-> IF turn # 0 THEN WithContent(p, turn, cut - 1) ELSE {},
      split |-> turn # 0,
      previous |-> IF c = 0 THEN {} ELSE p[c].summary,
      leaf |-> p[Len(p)].id]

(* Mutant: the prefix of a split turn is summarised by nobody. *)
SummaryWithoutPrefix(prep) == prep.messages \cup prep.previous

(* compact: what the text accounts for.  A split turn without complete     *)
(* turns before it has the literal "No prior history." for its history.    *)
Summary(prep) ==
  IF ~prep.split \/ prep.prefix = {} THEN prep.messages \cup prep.previous
  ELSE IF prep.messages = {} THEN prep.prefix
  ELSE prep.messages \cup prep.previous \cup prep.prefix
-----------------------------------------------------------------------------
Init ==
  /\ path = <<>> /\ appended = 0 /\ owed = 0
  /\ preparation = NothingPrepared /\ misplaced = {}

NewEntry(kind, tokens, ref, summary) ==
  [id |-> appended + 1, kind |-> kind, tokens |-> tokens, ref |-> ref, summary |-> summary]

Push(p, e) ==
  /\ appended < MaxEntries
  /\ path' = Append(p, e)
  /\ appended' = appended + 1

(* The user's prompt or a steering message, and the assistant's answer with *)
(* its tool calls.                                                          *)
UserMessage(tokens) ==
  /\ owed = 0 /\ ~Compacting
  /\ Push(path, NewEntry("user", tokens, 0, {}))
  /\ UNCHANGED <<owed, preparation, misplaced>>

AssistantMessage(tokens, n) ==
  /\ owed = 0 /\ ~Compacting
  /\ \E i \in DOMAIN path : HasContent(path[i])
  /\ Push(path, NewEntry("assistant", tokens, 0, {}))
  /\ owed' = n
  /\ UNCHANGED <<preparation, misplaced>>

ToolResultMessage(tokens) ==
  /\ owed > 0
  /\ LET a == Max({i \in DOMAIN path : path[i].kind = "assistant"}) IN
       Push(path, NewEntry("toolResult", tokens, path[a].id, {}))
  /\ owed' = owed - 1
  /\ UNCHANGED <<preparation, misplaced>>

(* Appended at once by an idle session, also while it compacts: a bash     *)
(* execution (recordBashResult) or a custom message (sendCustomMessage).   *)
IdleMessage(kind, tokens) ==
  /\ kind \in {"bash", "note"}
  /\ owed = 0
  /\ Push(path, NewEntry(kind, IF kind = "bash" THEN tokens ELSE 0, 0, {}))
  /\ UNCHANGED <<owed, preparation, misplaced>>

(* A label, a model or thinking level change, an extension's entry.        *)
Setting ==
  /\ Push(path, NewEntry("setting", 0, 0, {}))
  /\ UNCHANGED <<owed, preparation, misplaced>>

(* The process is killed before every tool has answered.                   *)
Interrupted ==
  /\ owed > 0
  /\ owed' = 0
  /\ UNCHANGED <<path, appended, preparation, misplaced>>

(* navigateTree to the entry t of the path, with or without a summary of   *)
(* what is left: to the parent of a user message or custom message, to     *)
(* the entry itself otherwise.                                             *)
Navigate(t, summarised) ==
  /\ owed = 0 /\ t # Len(path)
  /\ \E leaf \in {t - 1, t} :
       /\ path[t].kind = "user" => leaf = t - 1
       /\ leaf # t => path[t].kind \in {"user", "note"}
       /\ IF summarised
            THEN Push(SubSeq(path, 1, leaf), NewEntry("note", 0, 0, {}))
            ELSE path' = SubSeq(path, 1, leaf) /\ UNCHANGED appended
  /\ UNCHANGED <<owed, preparation, misplaced>>

(* compact or _runAutoCompaction up to the request for the summary.        *)
StartCompaction ==
  /\ owed = 0 /\ ~Compacting
  /\ path # <<>> /\ path[Len(path)].kind # "compaction"
  /\ preparation' = Prepared(path)
  /\ UNCHANGED <<path, appended, owed, misplaced>>

(* The summary is there: appendCompaction at the current leaf.             *)
FinishCompaction ==
  /\ Compacting
  /\ Push(path, NewEntry("compaction", 0, preparation.first, Summary(preparation)))
  /\ preparation' = NothingPrepared
  /\ misplaced' = IF IndexOf(path, preparation.leaf) = {}
                    THEN misplaced \cup {appended'} ELSE misplaced
  /\ UNCHANGED owed

(* abortCompaction, or the summariser fails.                               *)
CancelCompaction ==
  /\ Compacting
  /\ preparation' = NothingPrepared
  /\ UNCHANGED <<path, appended, owed, misplaced>>

Next ==
  \/ \E tokens \in Sizes :
       \/ UserMessage(tokens)
       \/ \E n \in 0..MaxCalls : AssistantMessage(tokens, n)
       \/ ToolResultMessage(tokens)
       \/ \E kind \in {"bash", "note"} : IdleMessage(kind, tokens)
  \/ Setting \/ Interrupted
  \/ \E t \in DOMAIN path, summarised \in BOOLEAN : Navigate(t, summarised)
  \/ StartCompaction \/ FinishCompaction \/ CancelCompaction

Spec == Init /\ [][Next]_vars
-----------------------------------------------------------------------------
(* Every variable has the type its declaration names.                      *)
TypeOK ==
  /\ path \in Seq(Entry)
  /\ appended \in Nat /\ owed \in Nat
  /\ preparation \in Preparation /\ misplaced \subseteq Nat

Summarised(p) == UNION {p[i].summary : i \in DOMAIN p}

(* The types hold, and however often a session is compacted, and whatever is appended or       *)
(* navigated to while a summary is made, every message of the path is sent *)
(* to the model or was shown to a summariser (prepareCompaction's          *)
(* boundaries, the walk of buildSessionContext), and none is both.  The    *)
(* exception is a path with a compaction made for another path.            *)
EveryMessageAccounted ==
  /\ TypeOK
  /\ (\A i \in DOMAIN path : path[i].id \notin misplaced) =>
       \A i \in DOMAIN path :
         HasContent(path[i]) => (i \in InContext(path) <=> path[i].id \notin Summarised(path))

(* No tool result reaches the model without the assistant message it       *)
(* answers: providers refuse such a request (findValidCutPoints, "Never    *)
(* cut at tool results").                                                  *)
ResultsFollowTheirCall ==
  \A i \in InContext(path) :
    path[i].kind = "toolResult" =>
      \E k \in InContext(path) : k < i /\ path[k].id = path[i].ref

(* A compaction keeps no more than it was asked to: behind the first       *)
(* message it keeps there are less than keepRecentTokens.  The exception   *)
(* is a path whose last tool results fill the budget on their own, where   *)
(* every cut point keeps more (findCutPoint).                              *)
KeepsNoMoreThanAsked ==
  [][~Compacting /\ Compacting' =>
       \/ \A j \in findValidCutPoints(path, BoundaryStart(path)) :
            TokensFrom(path, j) >= KeepRecentTokens
       \/ \A f \in IndexOf(path, preparation'.first) : \A m \in f..Len(path) :
            IsMessage(path[m]) /\ (\A k \in f..(m - 1) : ~IsMessage(path[k])) =>
              TokensFrom(path, m + 1) < KeepRecentTokens]_vars

(* "History summary: Previous context (if any)" (docs/compaction.md): the  *)
(* summary the model is sent accounts for everything it is not sent.       *)
SummaryIsCumulative ==
  LET c == LastCompaction(path) IN
  (c # 0 => path[c].id \notin misplaced) =>
    \A i \in DOMAIN path :
      HasContent(path[i]) /\ i \notin InContext(path) => path[i].id \in path[c].summary

(* "Session reloads, using summary + messages from firstKeptEntryId        *)
(* onwards" (docs/compaction.md): the first kept entry of the compaction   *)
(* the context is built from is on the path.                               *)
FirstKeptIsOnPath ==
  LET c == LastCompaction(path) IN c # 0 => IndexOf(path, path[c].ref) # {}
=============================================================================
