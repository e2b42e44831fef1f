-------------------------- MODULE OutputAccumulator --------------------------
(***************************************************************************)
(* The output of a command (coding-agent/src/core/tools): chunks of bytes, *)
(* cut anywhere, are decoded as they come, only a tail of the text is kept *)
(* for display, and the bytes go to a temporary file once there are too    *)
(* many of them.  The reference is truncateTail of the whole output.       *)
(*                                                                         *)
(* The bytes are "a", a character of its own, "n", a newline, and "h" and  *)
(* "t", the head and the tail of a character "e" of two bytes.  The output *)
(* is UTF-8, but may end within a character, which is decoded as U+FFFD,   *)
(* "r".                                                                    *)
(***************************************************************************)
EXTENDS Naturals, Sequences, SequencesExt

CONSTANTS
  maxLines,
  maxBytes,
  MaxRaw,   \* bound: bytes of output
  MaxPlain, \* bound: bytes "a" of output
  MaxChunk  \* bound: bytes of a chunk

ASSUME LimitAssumption ==
  /\ {maxLines, MaxRaw, MaxChunk} \subseteq Nat \ {0} /\ MaxPlain \in Nat
  /\ maxBytes \in Nat /\ maxBytes > 1  \* no less than the wider character

VARIABLES
  head,      \* the decoder holds the head of a character
  tailText,  \* the end of the decoded text
  tailStartsAtLineBoundary,
  totalDecodedBytes, totalLines, currentLineBytes,
  rawChunks, \* the bytes kept while there is no temporary file
  file,      \* the bytes written to the temporary file
  tempFile,  \* the file has been made
  finished,
  all        \* history: the bytes appended

outputVars == <<head, tailText, tailStartsAtLineBoundary, totalDecodedBytes, totalLines, currentLineBytes,
          rawChunks, file, tempFile, finished, all>>

Bytes == {"a", "n", "h", "t"}
Width == [a |-> 1, n |-> 1, e |-> 2, r |-> 3]
Text == Seq(DOMAIN Width)

byteLength(t) == LET sum[i \in 0..Len(t)] == IF i = 0 THEN 0 ELSE sum[i - 1] + Width[t[i]] IN sum[Len(t)]

Newlines(t) == {i \in DOMAIN t : t[i] = "n"}
From(t, i) == SubSeq(t, i, Len(t))

(* The text from the last newline on.                                      *)
LastLine(t) == IF Newlines(t) = {} THEN t ELSE From(t, Max(Newlines(t)) + 1)
-----------------------------------------------------------------------------
(* The longest end of t that fits: the first byte of the cut that starts a *)
(* character.                                                              *)
FromEnd(t, limit) ==
  From(t, Min({i \in 1..(Len(t) + 1) : byteLength(From(t, i)) <= limit}))

(* The last k lines of t.                                                  *)
LastLines(t, k) ==
  From(t, Min({i \in 1..(Len(t) + 1) : Cardinality(Newlines(From(t, i))) < k /\ (i > 1 => t[i - 1] = "n")}))

LineCount(t) == Cardinality(Newlines(t)) + 1
Fits(t) == LineCount(t) <= maxLines /\ byteLength(t) <= maxBytes

(* As many lines from the end as fit; of a last line that does not fit,    *)
(* its end.                                                                *)
truncateTail(t) ==
  LET fitting == {k \in 1..LineCount(t) : Fits(LastLines(t, k))}
  IN  IF Fits(t) THEN [content |-> t, lines |-> LineCount(t), lastLinePartial |-> FALSE]
      ELSE IF fitting # {} THEN [content |-> LastLines(t, Max(fitting)), lines |-> Max(fitting), lastLinePartial |-> FALSE]
      ELSE [content |-> FromEnd(LastLine(t), maxBytes), lines |-> 1, lastLinePartial |-> TRUE]
-----------------------------------------------------------------------------
(* TextDecoder.decode with stream: a head is held back until its tail      *)
(* comes.                                                                  *)
decode(bytes) ==
  LET chars == SelectSeq(bytes, LAMBDA b : b # "h")
  IN  [i \in DOMAIN chars |-> IF chars[i] = "t" THEN "e" ELSE chars[i]]

Cut(bytes) == bytes # <<>> /\ Last(bytes) = "h"
IsUtf8(bytes) == \A i \in 2..Len(bytes) : bytes[i] = "t" <=> bytes[i - 1] = "h"

OutputInit ==
  /\ head = FALSE /\ tailText = <<>> /\ tailStartsAtLineBoundary = TRUE
  /\ totalDecodedBytes = 0 /\ totalLines = 1 /\ currentLineBytes = 0
  /\ rawChunks = <<>> /\ file = <<>> /\ tempFile = FALSE
  /\ finished = FALSE
  /\ all = <<>>

(* Mutant: no more is kept than is shown. *)
maxRollingBytesAsShown == maxBytes

maxRollingBytes == maxBytes * 2

TailTooLong(t) == byteLength(t) > maxRollingBytes * 2

LineBytes(text) ==
  IF Newlines(text) = {} THEN currentLineBytes + byteLength(text) ELSE byteLength(LastLine(text))

(* appendDecodedText and trimTail.                                         *)
AppendDecoded(text) ==
  LET grown == tailText \o text
      cut == FromEnd(grown, maxRollingBytes)
      before == Len(grown) - Len(cut)
  IN  /\ totalDecodedBytes' = totalDecodedBytes + byteLength(text)
      /\ IF TailTooLong(grown)
           THEN /\ tailText' = cut
                /\ tailStartsAtLineBoundary' = (grown[before] = "n")
           ELSE /\ tailText' = grown
                /\ UNCHANGED tailStartsAtLineBoundary
      /\ totalLines' = totalLines + Cardinality(Newlines(text))
      /\ currentLineBytes' = LineBytes(text)

(* With the totals after the chunk.                                        *)
shouldUseTempFile == Len(all') > maxBytes \/ totalDecodedBytes' > maxBytes \/ totalLines' > maxLines

(* Mutant: the file starts with the chunk that made it necessary. *)
FileStartEmpty == <<>>

(* ensureTempFile writes what was kept.                                    *)
FileStart == IF tempFile THEN file ELSE rawChunks

append(chunk) ==
  /\ ~finished
  /\ Len(all) + Len(chunk) <= MaxRaw
  /\ all' = all \o chunk
  /\ Cardinality({i \in DOMAIN all' : all'[i] = "a"}) <= MaxPlain
  /\ Head(chunk) = "t" <=> head
  /\ IsUtf8(chunk)
  /\ AppendDecoded(decode(chunk))
  /\ head' = Cut(chunk)
  /\ IF tempFile \/ shouldUseTempFile
       THEN tempFile' = TRUE /\ file' = FileStart \o chunk /\ rawChunks' = <<>>
       ELSE rawChunks' = rawChunks \o chunk /\ UNCHANGED <<file, tempFile>>
  /\ UNCHANGED finished

(* The decoder is flushed.                                                 *)
finish ==
  /\ ~finished /\ finished' = TRUE
  /\ AppendDecoded(IF head THEN <<"r">> ELSE <<>>)
  /\ head' = FALSE
  /\ UNCHANGED all
  /\ IF shouldUseTempFile
       THEN tempFile' = TRUE /\ file' = FileStart /\ rawChunks' = <<>>
       ELSE UNCHANGED <<tempFile, file, rawChunks>>

OutputNext ==
  \/ \E n \in 1..MaxChunk : \E chunk \in [1..n -> Bytes] : append(chunk)
  \/ finish

OutputSpec == OutputInit /\ [][OutputNext]_outputVars
-----------------------------------------------------------------------------
(* getSnapshotText leaves out the part of a line the tail begins with,     *)
(* unless there is nothing else.                                           *)
SnapshotText ==
  IF tailStartsAtLineBoundary \/ Newlines(tailText) = {} THEN tailText
  ELSE From(tailText, Min(Newlines(tailText)) + 1)

truncated == totalLines > maxLines \/ totalDecodedBytes > maxBytes

(* The whole output, decoded at once.                                      *)
Output == decode(all) \o (IF finished /\ Cut(all) THEN <<"r">> ELSE <<>>)

(* The types, and the tail and the bytes kept have their limits however    *)
(* long the output is ("bounded memory").                                  *)
OutputTypes ==
  /\ {head, tailStartsAtLineBoundary, tempFile, finished} \subseteq BOOLEAN
  /\ tailText \in Text /\ {rawChunks, file, all} \subseteq Seq(Bytes)
  /\ {totalDecodedBytes, totalLines, currentLineBytes} \subseteq Nat
  /\ byteLength(tailText) <= maxRollingBytes * 2
  /\ Len(rawChunks) <= maxBytes

(* What is shown of the tail is what truncateTail would show of the whole  *)
(* output, with the same line numbers, wherever the chunks were cut and    *)
(* the tail was trimmed (snapshot); and the types hold.                    *)
SnapshotIsTail ==
  /\ OutputTypes
  /\ truncateTail(SnapshotText) = truncateTail(Output)
  /\ truncated <=> ~Fits(Output)
  /\ totalLines = LineCount(Output)
  /\ currentLineBytes = byteLength(LastLine(Output))

(* Memory is bounded, yet no byte of the output is lost: what is shown in  *)
(* part only is in the temporary file as a whole (ensureTempFile).         *)
FullOutputKept ==
  /\ all = IF tempFile THEN file ELSE rawChunks
  /\ truncated => tempFile
=============================================================================
