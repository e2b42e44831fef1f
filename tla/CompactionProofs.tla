--------------------------- MODULE CompactionProofs ---------------------------
(* Proofs about Compaction, for any sizes of messages, budgets and numbers *)
(* of entries, tool calls and compactions.                                 *)
EXTENDS Compaction, WellFoundedInduction, TLAPS

(* The ids of a path grow, a are used; a summary knows of earlier entries. *)
Numbered(p, a) ==
  /\ p \in Seq(Entry) /\ a \in Nat
  /\ \A i \in 1..Len(p) : p[i].id \in 1..a
  /\ \A i, j \in 1..Len(p) : i < j => p[i].id < p[j].id

Earlier(e) ==
  IF e.kind = "compaction" THEN e.ref \in 1..(e.id - 1) /\ e.summary \subseteq 1..(e.id - 1)
  ELSE e.summary = {}
Summaries(p) == \A i \in 1..Len(p) : Earlier(p[i])

(* Between a call and its results stand results and settings only.         *)
OnlyBetween(p, from, to) == \A j \in from..to : p[j].kind \in {"toolResult", "setting"}
Calls(p, k, ref) ==
  p[k].id = ref /\ p[k].kind = "assistant" /\ OnlyBetween(p, k + 1, Len(p))
Results(p) ==
  \A i \in 1..Len(p) : p[i].kind = "toolResult" =>
    \E k \in 1..(i - 1) :
      p[k].id = p[i].ref /\ p[k].kind = "assistant" /\ OnlyBetween(p, k + 1, i - 1)

(* No result from r on answers a call before r; every compaction cut the   *)
(* path at such a place.                                                   *)
Clean(p, r) ==
  \A i, k \in 1..Len(p) : p[i].kind = "toolResult" /\ p[k].id = p[i].ref /\ r <= i => r <= k
CleanAt(p, id) == \A r \in 1..Len(p) : p[r].id = id => Clean(p, r)
Cuts(p) == \A c \in 1..Len(p) : p[c].kind = "compaction" => CleanAt(p, p[c].ref)

(* Up to n, the messages before the entry with the id first are those that *)
(* the summaries or S know of, unless m has a compaction up to n.          *)
Known(p, n, S) == S \cup UNION {p[i].summary : i \in 1..n}
Covers(p, n, first, S) ==
  \E r \in 1..n : p[r].id = first /\ \A j \in 1..n : HasContent(p[j]) => (j < r <=> p[j].id \in Known(p, n, S))
InPlace(p, n, m) == \A j \in 1..n : p[j].id \notin m
Counts(p, m) ==
  \A c \in 1..Len(p) : p[c].kind = "compaction" /\ InPlace(p, c, m) => Covers(p, c, p[c].ref, {})

GoodPath(p, a, m) ==
  Numbered(p, a) /\ Summaries(p) /\ Results(p) /\ Cuts(p) /\ Counts(p, m) /\ m \subseteq 1..a

(* What a compaction prepared at the entry prep.leaf stays right for every *)
(* path that still has this entry.                                         *)
Prepares(p, a, prep, m) ==
  /\ prep.leaf \in 1..a /\ prep.first \in 1..prep.leaf
  /\ Summary(prep) \subseteq 1..prep.leaf
  /\ CleanAt(p, prep.first)
  /\ \A n \in 1..Len(p) : p[n].id = prep.leaf =>
       /\ \A j \in (n + 1)..Len(p) : p[j].kind \in {"bash", "note", "setting"}
       /\ InPlace(p, n, m) => Covers(p, n, prep.first, Summary(prep))

Owes == owed > 0 => ~Compacting /\ \E k \in 1..Len(path) : Calls(path, k, path[k].id)

IInv ==
  /\ GoodPath(path, appended, misplaced)
  /\ owed \in Nat /\ Owes
  /\ preparation \in Preparation
  /\ Compacting => Prepares(path, appended, preparation, misplaced)
-----------------------------------------------------------------------------
(* Arguments by induction are put as arguments about a least counterexample.*)
LEMMA Least ==
  ASSUME NEW T, T \subseteq Nat, T # {}
  PROVE  \E m \in T : \A n \in T : m <= n
<1>1. \E x \in T : \A y \in T : ~(<<y, x>> \in OpToRel(<, Nat))
  BY NatLessThanWellFounded, WFMin
<1>2. PICK x \in T : \A y \in T : ~(<<y, x>> \in OpToRel(<, Nat))
  BY <1>1
<1>3. \A y \in T : ~(y < x)
  BY <1>2 DEF OpToRel
<1> QED BY <1>3

LEMMA Greatest ==
  ASSUME NEW b \in Nat, NEW T, T \subseteq 0..b, T # {}
  PROVE  \E m \in T : \A n \in T : m >= n
<1> DEFINE U == {n \in Nat : \A t \in T : t <= n}
<1>1. U \subseteq Nat /\ b \in U
  OBVIOUS
<1>2. PICK m \in U : \A n \in U : m <= n
  BY <1>1, Least
<1>3. m \in T
  <2>1. SUFFICES ASSUME m \notin T PROVE FALSE
    OBVIOUS
  <2>2. m # 0
    <3>1. PICK t \in T : TRUE
      OBVIOUS
    <3>2. t \in Nat /\ t <= m
      BY <1>2, <3>1
    <3> QED BY <2>1, <3>1, <3>2
  <2>3. m - 1 \in U
    BY <1>2, <2>1, <2>2
  <2> QED BY <1>1, <1>2, <2>3
<1> QED BY <1>2, <1>3

(* The least and the greatest of a set of indices.                         *)
LEMMA MinIs ==
  ASSUME NEW S, S \subseteq Nat, S # {}
  PROVE  Min(S) \in S /\ \A i \in S : Min(S) <= i
BY Least DEF Min

LEMMA MaxIs ==
  ASSUME NEW b \in Nat, NEW S, S \subseteq 0..b, S # {}
  PROVE  Max(S) \in S /\ \A i \in S : Max(S) >= i
BY Greatest DEF Max

LEMMA LastCompactionIs ==
  ASSUME NEW p \in Seq(Entry)
  PROVE  LET c == LastCompaction(p) IN
         /\ c \in 0..Len(p) /\ (c # 0 => p[c].kind = "compaction")
         /\ \A i \in (c + 1)..Len(p) : p[i].kind # "compaction"
<1> DEFINE S == {i \in DOMAIN p : p[i].kind = "compaction"}
<1>1. Len(p) \in Nat /\ DOMAIN p = 1..Len(p)
  OBVIOUS
<1>2. LastCompaction(p) = IF S = {} THEN 0 ELSE Max(S)
  BY DEF LastCompaction, MaxOr
<1>3. CASE S = {}
  BY <1>1, <1>2, <1>3
<1>4. CASE S # {}
  <2>1. S \subseteq 0..Len(p) /\ \A i \in 1..Len(p) : p[i].kind = "compaction" <=> i \in S
    BY <1>1
  <2>2. \A i \in S : p[i].kind = "compaction"
    OBVIOUS
  <2> HIDE DEF S
  <2>3. Max(S) \in S /\ \A i \in S : Max(S) >= i
    BY <1>1, <1>4, <2>1, MaxIs
  <2>4. PICK c \in 0..Len(p) : c = LastCompaction(p) /\ c \in S /\ \A i \in S : c >= i
    BY <1>2, <1>4, <2>1, <2>3
  <2>5. \A i \in (c + 1)..Len(p) : i \in 1..Len(p) /\ i \notin S
    BY <1>1, <2>4
  <2> QED BY <2>1, <2>2, <2>4, <2>5
<1> QED BY <1>3, <1>4

LEMMA Pushed ==
  ASSUME NEW p \in Seq(Entry), NEW e \in Entry
  PROVE  LET q == Append(p, e) IN
         /\ q \in Seq(Entry) /\ Len(q) = Len(p) + 1 /\ q[Len(p) + 1] = e
         /\ \A i \in 1..Len(p) : q[i] = p[i]
OBVIOUS

LEMMA Truncated ==
  ASSUME NEW p \in Seq(Entry), NEW n \in 0..Len(p)
  PROVE  LET q == SubSeq(p, 1, n) IN
         q \in Seq(Entry) /\ Len(q) = n /\ \A i \in 1..n : q[i] = p[i]
OBVIOUS

-----------------------------------------------------------------------------
(* What holds of a path holds of its beginnings.                           *)
LEMMA CoversBefore ==
  ASSUME NEW p, NEW q, NEW n \in Nat, \A i \in 1..n : q[i] = p[i], NEW first, NEW S,
         Covers(p, n, first, S)
  PROVE  Covers(q, n, first, S)
<1>1. Known(q, n, S) = Known(p, n, S)
  <2>1. \A i \in 1..n : q[i].summary = p[i].summary
    OBVIOUS
  <2> QED BY <2>1 DEF Known
<1>2. PICK r \in 1..n : p[r].id = first /\ \A j \in 1..n : HasContent(p[j]) => (j < r <=> p[j].id \in Known(p, n, S))
  BY DEF Covers
<1>3. q[r].id = first /\ \A j \in 1..n : HasContent(q[j]) => (j < r <=> q[j].id \in Known(q, n, S))
  BY <1>1, <1>2
<1> QED BY <1>3 DEF Covers

LEMMA CleanBefore ==
  ASSUME NEW p \in Seq(Entry), NEW n \in 0..Len(p), NEW q \in Seq(Entry), Len(q) = n,
         \A i \in 1..n : q[i] = p[i], NEW id, CleanAt(p, id)
  PROVE  CleanAt(q, id)
<1>1. \A i \in 1..n : i \in 1..Len(p)
  OBVIOUS
<1>2. ASSUME NEW r \in 1..n, q[r].id = id PROVE Clean(q, r)
  <2>1. Clean(p, r)
    BY <1>1, <1>2 DEF CleanAt
  <2> QED BY <1>1, <2>1 DEF Clean
<1> QED BY <1>2 DEF CleanAt

LEMMA TruncateGood ==
  ASSUME NEW p, NEW a, NEW m, GoodPath(p, a, m), NEW n \in 0..Len(p)
  PROVE  GoodPath(SubSeq(p, 1, n), a, m)
<1> DEFINE q == SubSeq(p, 1, n)
<1>1. p \in Seq(Entry) /\ a \in Nat /\ Len(p) \in Nat
  BY DEF GoodPath, Numbered
<1>2. q \in Seq(Entry) /\ Len(q) = n /\ \A i \in 1..n : q[i] = p[i]
  BY <1>1, Truncated
<1> HIDE DEF q
<1>3. \A i \in 1..n : i \in 1..Len(p)
  BY <1>1
<1>4. Numbered(q, a)
  BY <1>1, <1>2, <1>3 DEF GoodPath, Numbered
<1>5. Summaries(q)
  BY <1>1, <1>2, <1>3 DEF GoodPath, Summaries
<1>6. Results(q)
  <2>1. SUFFICES ASSUME NEW i \in 1..n, q[i].kind = "toolResult"
        PROVE  \E k \in 1..(i - 1) :
                 q[k].id = q[i].ref /\ q[k].kind = "assistant" /\ OnlyBetween(q, k + 1, i - 1)
    BY <1>2 DEF Results
  <2>2. PICK k \in 1..(i - 1) :
               p[k].id = p[i].ref /\ p[k].kind = "assistant" /\ OnlyBetween(p, k + 1, i - 1)
    BY <1>2, <1>3, <2>1 DEF GoodPath, Results
  <2>3. \A j \in k..(i - 1) : j \in 1..n
    BY <1>1
  <2>4. OnlyBetween(q, k + 1, i - 1)
    BY <1>2, <2>2, <2>3 DEF OnlyBetween
  <2> QED BY <1>2, <2>2, <2>3, <2>4
<1>7. Cuts(q)
  BY <1>1, <1>2, <1>3, CleanBefore DEF GoodPath, Cuts
<1>8. Counts(q, m)
  <2>1. SUFFICES ASSUME NEW c \in 1..n, q[c].kind = "compaction", InPlace(q, c, m)
        PROVE  Covers(q, c, q[c].ref, {})
    BY <1>2 DEF Counts
  <2>2. \A j \in 1..c : j \in 1..n
    BY <1>1
  <2>3. InPlace(p, c, m)
    BY <1>2, <2>1, <2>2 DEF InPlace
  <2>4. Covers(p, c, p[c].ref, {})
    BY <1>2, <1>3, <2>1, <2>3 DEF GoodPath, Counts
  <2> QED BY <1>2, <2>2, <2>4, CoversBefore
<1> QED BY <1>4, <1>5, <1>6, <1>7, <1>8 DEF GoodPath, q

LEMMA TruncatePrepares ==
  ASSUME NEW p, NEW a, NEW m, GoodPath(p, a, m), NEW n \in 0..Len(p), NEW prep, Prepares(p, a, prep, m)
  PROVE  Prepares(SubSeq(p, 1, n), a, prep, m)
<1> DEFINE q == SubSeq(p, 1, n)
<1>1. p \in Seq(Entry) /\ a \in Nat /\ Len(p) \in Nat
  BY DEF GoodPath, Numbered
<1>2. q \in Seq(Entry) /\ Len(q) = n /\ \A i \in 1..n : q[i] = p[i]
  BY <1>1, Truncated
<1> HIDE DEF q
<1>3. CleanAt(q, prep.first)
  BY <1>1, <1>2, CleanBefore DEF Prepares
<1>4. ASSUME NEW l \in 1..n, q[l].id = prep.leaf
      PROVE  /\ \A j \in (l + 1)..n : q[j].kind \in {"bash", "note", "setting"}
             /\ InPlace(q, l, m) => Covers(q, l, prep.first, Summary(prep))
  <2>1. /\ \A j \in 1..l : j \in 1..n
        /\ \A j \in (l + 1)..n : j \in 1..n /\ j \in (l + 1)..Len(p)
        /\ l \in 1..Len(p) /\ p[l].id = prep.leaf
    BY <1>1, <1>2, <1>4
  <2>2. \A j \in (l + 1)..n : q[j].kind \in {"bash", "note", "setting"}
    BY <1>2, <2>1 DEF Prepares
  <2>3. ASSUME InPlace(q, l, m) PROVE Covers(q, l, prep.first, Summary(prep))
    <3>1. InPlace(p, l, m)
      BY <1>2, <2>1, <2>3 DEF InPlace
    <3>2. Covers(p, l, prep.first, Summary(prep))
      BY <2>1, <3>1 DEF Prepares
    <3>3. l \in Nat /\ \A i \in 1..l : q[i] = p[i]
      BY <1>2, <2>1
    <3> QED BY <3>2, <3>3, CoversBefore
  <2> QED BY <2>2, <2>3
<1> QED BY <1>2, <1>3, <1>4 DEF Prepares, q
-----------------------------------------------------------------------------
(* What an entry keeps that is appended to a path.                         *)
LEMMA PushGood ==
  ASSUME NEW p, NEW a, NEW m, GoodPath(p, a, m), NEW e \in Entry, e.id = a + 1, Earlier(e),
         e.kind = "toolResult" => \E k \in 1..Len(p) : Calls(p, k, e.ref),
         e.kind = "compaction" => CleanAt(p, e.ref),
         NEW l, m \subseteq l, l \subseteq m \cup {a + 1},
         e.kind = "compaction" /\ InPlace(Append(p, e), Len(p) + 1, l) =>
           Covers(Append(p, e), Len(p) + 1, e.ref, {})
  PROVE  GoodPath(Append(p, e), a + 1, l)
<1> DEFINE q == Append(p, e)  n == Len(p)
<1>1. p \in Seq(Entry) /\ a \in Nat /\ n \in Nat /\ m \subseteq 1..a
  BY DEF GoodPath, Numbered
<1>2. q \in Seq(Entry) /\ Len(q) = n + 1 /\ q[n + 1] = e /\ \A i \in 1..n : q[i] = p[i]
  BY <1>1, Pushed
<1>a. e.kind = "compaction" /\ InPlace(q, n + 1, l) => Covers(q, n + 1, e.ref, {})
  OBVIOUS
<1>b. e.kind = "compaction" => CleanAt(p, e.ref)
  OBVIOUS
<1>c. e.kind = "toolResult" => \E k \in 1..n : Calls(p, k, e.ref)
  OBVIOUS
<1> HIDE DEF q, n
<1>3. \A i \in 1..(n + 1) : i \in 1..n \/ i = n + 1
  BY <1>1
<1>4. \A i \in 1..n : p[i].id \in 1..a
  BY DEF GoodPath, Numbered, n
<1>5. Numbered(q, a + 1)
  <2>1. \A i \in 1..(n + 1) : q[i].id \in 1..(a + 1)
    BY <1>1, <1>2, <1>3, <1>4
  <2>2. ASSUME NEW i \in 1..(n + 1), NEW j \in 1..(n + 1), i < j PROVE q[i].id < q[j].id
    <3>1. i \in 1..n /\ q[i].id \in 1..a
      BY <1>1, <1>2, <1>4, <2>2
    <3>2. CASE j = n + 1
      BY <1>1, <1>2, <3>1, <3>2
    <3>3. CASE j \in 1..n
      BY <1>2, <2>2, <3>1, <3>3 DEF GoodPath, Numbered, n
    <3> QED BY <1>3, <3>2, <3>3
  <2> QED BY <1>1, <1>2, <2>1, <2>2 DEF Numbered
<1>6. Summaries(q)
  BY <1>2, <1>3 DEF GoodPath, Summaries, n
<1>7. \A i \in 1..n : \A k \in 1..n : p[i].id = p[k].id => i = k
  BY <1>1 DEF GoodPath, Numbered, n
<1>8. Results(q)
  <2>1. SUFFICES ASSUME NEW i \in 1..(n + 1), q[i].kind = "toolResult"
        PROVE  \E k \in 1..(i - 1) :
                 q[k].id = q[i].ref /\ q[k].kind = "assistant" /\ OnlyBetween(q, k + 1, i - 1)
    BY <1>2 DEF Results
  <2>2. PICK k \in 1..(i - 1) :
               p[k].id = q[i].ref /\ p[k].kind = "assistant" /\ OnlyBetween(p, k + 1, i - 1)
    <3>1. CASE i = n + 1
      BY <1>1, <1>2, <1>c, <2>1, <3>1 DEF Calls, n
    <3>2. CASE i \in 1..n
      BY <1>2, <2>1, <3>2 DEF GoodPath, Results, n
    <3> QED BY <1>3, <3>1, <3>2
  <2>3. \A j \in k..(i - 1) : j \in 1..n
    BY <1>1
  <2>4. OnlyBetween(q, k + 1, i - 1)
    BY <1>2, <2>2, <2>3 DEF OnlyBetween
  <2> QED BY <1>2, <2>2, <2>3, <2>4
<1>9. Cuts(q)
  <2>1. SUFFICES ASSUME NEW c \in 1..(n + 1), q[c].kind = "compaction",
                        NEW r \in 1..(n + 1), q[r].id = q[c].ref,
                        NEW i \in 1..(n + 1), NEW k \in 1..(n + 1),
                        q[i].kind = "toolResult", q[k].id = q[i].ref, r <= i
        PROVE  r <= k
    BY <1>2 DEF Cuts, CleanAt, Clean
  <2>2. q[c].id \in 1..(a + 1) /\ q[c].ref \in 1..(q[c].id - 1)
    BY <1>1, <1>2, <1>5, <1>6, <2>1 DEF Summaries, Numbered, Earlier
  <2>3. r \in 1..n /\ p[r].id = q[c].ref
    BY <1>1, <1>2, <1>3, <2>1, <2>2
  <2>4. k \in 1..n
    <3>1. PICK h \in 1..(i - 1) : q[h].id = q[i].ref
      BY <1>2, <1>8, <2>1 DEF Results
    <3>2. h \in 1..n /\ h = k
      BY <1>1, <1>2, <1>5, <2>1, <3>1 DEF Numbered
    <3> QED BY <3>2
  <2>5. CASE i \in 1..n
    <3>1. CleanAt(p, q[c].ref)
      BY <1>2, <1>3, <1>b, <2>1 DEF GoodPath, Cuts, n
    <3>2. Clean(p, r)
      BY <2>3, <3>1 DEF CleanAt, n
    <3> QED BY <1>2, <2>1, <2>4, <2>5, <3>2 DEF Clean, n
  <2>6. CASE i = n + 1
    <3>1. PICK h \in 1..n : Calls(p, h, e.ref)
      BY <1>2, <1>c, <2>1, <2>6
    <3>2. h = k
      BY <1>2, <1>7, <2>1, <2>4, <2>6, <3>1 DEF Calls
    <3>3. c \in 1..n
      BY <1>2, <1>3, <2>1, <2>6
    <3>4. c <= h
      <4>1. CASE c > h
        BY <1>1, <1>2, <2>1, <3>1, <3>3, <4>1 DEF Calls, OnlyBetween, n
      <4> QED BY <1>1, <3>3, <4>1
    <3>5. r < c
      <4>1. CASE r >= c
        <5>1. p[c].id <= p[r].id
          BY <1>1, <2>3, <3>3, <4>1 DEF GoodPath, Numbered, n
        <5> QED BY <1>1, <1>2, <1>4, <2>2, <2>3, <3>3, <5>1
      <4> QED BY <1>1, <2>3, <3>3, <4>1
    <3> QED BY <1>1, <2>3, <3>2, <3>3, <3>4, <3>5
  <2> QED BY <1>3, <2>5, <2>6
<1>10. Counts(q, l)
  <2>1. SUFFICES ASSUME NEW c \in 1..(n + 1), q[c].kind = "compaction", InPlace(q, c, l)
        PROVE  Covers(q, c, q[c].ref, {})
    BY <1>2 DEF Counts
  <2>2. CASE c = n + 1
    BY <1>2, <1>a, <2>1, <2>2
  <2>3. CASE c \in 1..n
    <3>1. c \in Nat /\ \A j \in 1..c : j \in 1..n /\ q[j] = p[j]
      BY <1>1, <1>2, <2>3
    <3>2. InPlace(p, c, m)
      BY <2>1, <3>1 DEF InPlace
    <3>3. Covers(p, c, p[c].ref, {})
      BY <1>2, <2>1, <2>3, <3>2 DEF GoodPath, Counts, n
    <3> QED BY <1>2, <2>3, <3>1, <3>3, CoversBefore
  <2> QED BY <1>3, <2>2, <2>3
<1>11. l \subseteq 1..(a + 1)
  BY <1>1
<1> QED BY <1>5, <1>6, <1>8, <1>9, <1>10, <1>11 DEF GoodPath, q

LEMMA PushPrepares ==
  ASSUME NEW p, NEW a, NEW m, GoodPath(p, a, m), NEW prep, Prepares(p, a, prep, m),
         NEW e \in Entry, e.id = a + 1, e.kind \in {"bash", "note", "setting"}
  PROVE  Prepares(Append(p, e), a + 1, prep, m)
<1> DEFINE q == Append(p, e)  n == Len(p)
<1>1. p \in Seq(Entry) /\ a \in Nat /\ n \in Nat
  BY DEF GoodPath, Numbered
<1>2. q \in Seq(Entry) /\ Len(q) = n + 1 /\ q[n + 1] = e /\ \A i \in 1..n : q[i] = p[i]
  BY <1>1, Pushed
<1> HIDE DEF q, n
<1>3. \A i \in 1..(n + 1) : i \in 1..n \/ i = n + 1
  BY <1>1
<1>4. prep.leaf \in 1..a /\ prep.first \in 1..prep.leaf /\ prep.first \in 1..a
  BY <1>1 DEF Prepares
<1>5. CleanAt(q, prep.first)
  <2>1. SUFFICES ASSUME NEW r \in 1..(n + 1), q[r].id = prep.first,
                        NEW i \in 1..(n + 1), NEW k \in 1..(n + 1),
                        q[i].kind = "toolResult", q[k].id = q[i].ref, r <= i
        PROVE  r <= k
    BY <1>2 DEF CleanAt, Clean
  <2>2. r \in 1..n /\ i \in 1..n
    BY <1>1, <1>2, <1>3, <1>4, <2>1
  <2>3. Clean(p, r)
    BY <1>2, <2>1, <2>2 DEF Prepares, CleanAt, n
  <2> QED BY <1>1, <1>2, <1>3, <2>1, <2>2, <2>3 DEF Clean, n
<1>6. ASSUME NEW h \in 1..(n + 1), q[h].id = prep.leaf
      PROVE  /\ \A j \in (h + 1)..(n + 1) : q[j].kind \in {"bash", "note", "setting"}
             /\ InPlace(q, h, m) => Covers(q, h, prep.first, Summary(prep))
  <2>1. h \in 1..n /\ p[h].id = prep.leaf
    BY <1>1, <1>2, <1>3, <1>4, <1>6
  <2>2. \A j \in (h + 1)..(n + 1) : q[j].kind \in {"bash", "note", "setting"}
    <3>1. \A j \in (h + 1)..(n + 1) : j = n + 1 \/ (j \in 1..n /\ j \in (h + 1)..n)
      BY <1>1, <2>1
    <3> QED BY <1>2, <2>1, <3>1 DEF Prepares, n
  <2>3. ASSUME InPlace(q, h, m) PROVE Covers(q, h, prep.first, Summary(prep))
    <3>1. h \in Nat /\ \A j \in 1..h : j \in 1..n /\ q[j] = p[j]
      BY <1>1, <1>2, <2>1
    <3>2. InPlace(p, h, m)
      BY <2>3, <3>1 DEF InPlace
    <3>3. Covers(p, h, prep.first, Summary(prep))
      BY <2>1, <3>2 DEF Prepares, n
    <3> QED BY <3>1, <3>3, CoversBefore
  <2> QED BY <2>2, <2>3
<1>7. prep.leaf \in 1..(a + 1) /\ Summary(prep) \subseteq 1..prep.leaf
  BY <1>1, <1>4 DEF Prepares
<1> QED BY <1>2, <1>4, <1>5, <1>6, <1>7 DEF Prepares, q
-----------------------------------------------------------------------------
(* Where a compaction cuts.                                                *)
LEMMA CutIs ==
  ASSUME NEW p \in Seq(Entry), NEW start \in 1..Len(p)
  PROVE  LET cut == CutIndex(p, start)
             cuts == findValidCutPoints(p, start)
             after == CutAtOrAfter(p, start)
         IN  /\ cut \in start..Len(p)
             /\ cuts = {} => cut = start
             /\ cuts # {} => /\ after \in cuts /\ cut <= after
                             /\ \A k \in cut..(after - 1) : ~IsMessage(p[k]) /\ p[k].kind # "compaction"
<1> DEFINE cuts == findValidCutPoints(p, start)
           full == {i \in start..Len(p) : IsMessage(p[i]) /\ TokensFrom(p, i) >= KeepRecentTokens}
           late == {i \in cuts : i >= Max(full)}
           after == CutAtOrAfter(p, start)
           back == {j \in start..after : \A k \in j..(after - 1) : ~IsMessage(p[k]) /\ p[k].kind # "compaction"}
           cut == CutIndex(p, start)
<1>1. Len(p) \in Nat /\ start \in Nat /\ cuts \subseteq start..Len(p) /\ cuts \subseteq Nat
  BY DEF findValidCutPoints
<1>2. after = IF full = {} THEN Min(cuts) ELSE IF late = {} THEN Min(cuts) ELSE Min(late)
  BY DEF CutAtOrAfter, MinOr
<1>3. late \subseteq cuts
  OBVIOUS
<1>4. cut = IF cuts = {} THEN start ELSE Min(back)
  BY DEF CutIndex
<1>5. back \subseteq start..after /\ \A j \in back : \A k \in j..(after - 1) : ~IsMessage(p[k]) /\ p[k].kind # "compaction"
  OBVIOUS
<1>6. ASSUME after \in start..Len(p) PROVE after \in back
  <2>1. after \in start..after /\ \A k \in after..(after - 1) : FALSE
    BY <1>1, <1>6
  <2> HIDE DEF after
  <2> QED BY <2>1
<1> HIDE DEF cuts, full, late, after, back, cut
<1>7. ASSUME cuts # {} PROVE after \in cuts
  <2>1. Min(cuts) \in cuts
    BY <1>1, <1>7, MinIs
  <2>2. late # {} => Min(late) \in late
    BY <1>1, <1>3, MinIs
  <2> QED BY <1>2, <1>3, <2>1, <2>2
<1>8. ASSUME cuts # {} PROVE cut \in back
  <2>1. after \in start..Len(p)
    BY <1>1, <1>7, <1>8
  <2>2. back # {}
    BY <1>6, <2>1
  <2>3. back \subseteq Nat
    BY <1>1, <1>5, <2>1
  <2> QED BY <1>4, <1>8, <2>2, <2>3, MinIs
<1>b. ASSUME cuts # {} PROVE after \in start..Len(p) /\ cut \in start..after
  <2>1. after \in start..Len(p)
    BY <1>1, <1>7, <1>b
  <2> QED BY <1>5, <1>8, <1>b, <2>1
<1>9. cut \in start..Len(p)
  <2>1. CASE cuts = {}
    BY <1>1, <1>4, <2>1
  <2>2. CASE cuts # {}
    <3>1. after \in start..Len(p) /\ cut \in start..after
      BY <1>b, <2>2
    <3> QED BY <1>1, <3>1
  <2> QED BY <2>1, <2>2
<1>10. cuts # {} => cut <= after
  BY <1>1, <1>b
<1> QED BY <1>4, <1>5, <1>7, <1>8, <1>9, <1>10 DEF cuts, after, cut

LEMMA TurnIs ==
  ASSUME NEW p \in Seq(Entry), NEW start \in 1..Len(p)
  PROVE  TurnStart(p, start) \in {0} \cup start..CutIndex(p, start)
<1> DEFINE cut == CutIndex(p, start)
           S == {j \in start..cut : StartsTurn(p[j])}
<1>1. cut \in start..Len(p)
  BY CutIs
<1>2. findTurnStartIndex(p, cut, start) = IF S = {} THEN 0 ELSE Max(S)
  BY DEF findTurnStartIndex, MaxOr
<1>3. S \subseteq start..cut
  OBVIOUS
<1>4. TurnStart(p, start) = 0 \/ TurnStart(p, start) = findTurnStartIndex(p, cut, start)
  BY DEF TurnStart
<1> HIDE DEF cut, S
<1>5. S # {} => Max(S) \in S
  <2>1. cut \in Nat /\ S \subseteq 0..cut
    BY <1>1, <1>3
  <2> QED BY <2>1, MaxIs
<1>6. TurnStart(p, start) \in {0} \cup start..cut
  BY <1>2, <1>3, <1>4, <1>5
<1> QED BY <1>6 DEF cut

LEMMA BoundaryIs ==
  ASSUME NEW p, NEW a, Numbered(p, a), Summaries(p), p # <<>>, p[Len(p)].kind # "compaction"
  PROVE  LET c == LastCompaction(p)
             s == BoundaryStart(p)
         IN  /\ s \in 1..Len(p) /\ c \in 0..Len(p)
             /\ c = 0 => s = 1
             /\ c # 0 => \/ s < c /\ p[s].id = p[c].ref
                         \/ s = c + 1 /\ \A r \in 1..Len(p) : p[r].id # p[c].ref
<1> DEFINE c == LastCompaction(p)
           s == BoundaryStart(p)
           S == IndexOf(p, p[c].ref)
<1>1. p \in Seq(Entry) /\ Len(p) \in Nat /\ Len(p) # 0 /\ DOMAIN p = 1..Len(p)
  BY DEF Numbered
<1>2. c \in 0..Len(p) /\ (c # 0 => p[c].kind = "compaction")
  BY <1>1, LastCompactionIs
<1>3. s = IF c = 0 THEN 1 ELSE IF S = {} THEN c + 1 ELSE Min(S)
  BY DEF BoundaryStart, MinOr
<1>4. S \subseteq 1..Len(p) /\ \A r \in 1..Len(p) : r \in S <=> p[r].id = p[c].ref
  BY <1>1 DEF IndexOf
<1> HIDE DEF c, s, S
<1>5. CASE c = 0
  BY <1>1, <1>2, <1>3, <1>5 DEF c, s
<1>6. CASE c # 0 /\ S = {}
  <2>1. c # Len(p)
    BY <1>2, <1>6
  <2> QED BY <1>1, <1>2, <1>3, <1>4, <1>6, <2>1 DEF c, s
<1>7. CASE c # 0 /\ S # {}
  <2>1. s \in S
    <3>1. S \subseteq Nat
      BY <1>4
    <3> QED BY <1>3, <1>7, <3>1, MinIs
  <2>2. s \in 1..Len(p) /\ p[s].id = p[c].ref
    BY <1>4, <2>1
  <2>3. p[c].id \in 1..a /\ p[c].ref \in 1..(p[c].id - 1) /\ a \in Nat
    BY <1>2, <1>7 DEF Numbered, Summaries, Earlier
  <2>4. s < c
    <3>1. CASE s = c
      BY <2>2, <2>3, <3>1
    <3>2. CASE s > c
      <4>1. p[c].id < p[s].id
        BY <1>2, <1>7, <2>2, <3>2 DEF Numbered
      <4> QED BY <2>2, <2>3, <4>1
    <3> QED BY <1>2, <2>2, <3>1, <3>2
  <2> QED BY <1>2, <1>7, <2>2, <2>4 DEF c, s
<1> QED BY <1>5, <1>6, <1>7

(* Wherever a path is cut, no result is cut off from its call.             *)
LEMMA CutClean ==
  ASSUME NEW p, NEW a, NEW m, GoodPath(p, a, m), p # <<>>, p[Len(p)].kind # "compaction"
  PROVE  CleanAt(p, p[CutIndex(p, BoundaryStart(p))].id)
<1> DEFINE s == BoundaryStart(p)  cut == CutIndex(p, s)  c == LastCompaction(p)  after == CutAtOrAfter(p, s)
           cuts == findValidCutPoints(p, s)
<1>1. p \in Seq(Entry) /\ a \in Nat /\ Len(p) \in Nat /\ Numbered(p, a) /\ Summaries(p)
  BY DEF GoodPath, Numbered
<1>2. /\ s \in 1..Len(p) /\ c \in 0..Len(p) /\ (c = 0 => s = 1)
      /\ c # 0 => \/ s < c /\ p[s].id = p[c].ref
                  \/ s = c + 1 /\ \A r \in 1..Len(p) : p[r].id # p[c].ref
  BY <1>1, BoundaryIs
<1>3. /\ cut \in s..Len(p) /\ (cuts = {} => cut = s)
      /\ cuts # {} => after \in cuts /\ cut <= after /\ \A k \in cut..(after - 1) : ~IsMessage(p[k])
  BY <1>1, <1>2, CutIs
<1>4. after \in cuts => after \in 1..Len(p) /\ p[after].kind \in {"user", "assistant", "bash", "note"}
  BY <1>1, <1>2 DEF findValidCutPoints
<1>5. c # 0 => p[c].kind = "compaction"
  BY <1>1, LastCompactionIs
<1> HIDE DEF s, cut, c, after, cuts
<1>6. ASSUME NEW r \in 1..Len(p), p[r].id = p[cut].id,
             NEW i \in 1..Len(p), NEW k \in 1..Len(p),
             p[i].kind = "toolResult", p[k].id = p[i].ref, r <= i
      PROVE  r <= k
  <2>1. \A h, l \in 1..Len(p) : p[h].id = p[l].id => h = l
    BY <1>1 DEF Numbered
  <2>2. r = cut /\ cut \in 1..Len(p)
    BY <1>2, <1>3, <1>6, <2>1
  <2>3. k \in 1..(i - 1) /\ p[k].kind = "assistant" /\ OnlyBetween(p, k + 1, i - 1)
    <3>1. PICK h \in 1..(i - 1) : p[h].id = p[i].ref /\ p[h].kind = "assistant" /\ OnlyBetween(p, h + 1, i - 1)
      BY <1>6 DEF GoodPath, Results
    <3>2. h = k
      BY <1>1, <1>6, <2>1, <3>1
    <3> QED BY <3>1, <3>2
  <2>4. SUFFICES ASSUME k < cut PROVE FALSE
    BY <1>1, <2>2
  <2>5. CASE cuts # {}
    <3>1. i > after
      <4>1. i \notin cut..(after - 1)
        BY <1>3, <1>6, <2>5 DEF IsMessage, MessageKinds
      <4>2. i # after
        BY <1>3, <1>4, <1>6, <2>5
      <4> QED BY <1>1, <1>3, <1>4, <1>6, <2>2, <2>5, <4>1, <4>2
    <3>2. after \in (k + 1)..(i - 1)
      BY <1>1, <1>3, <1>4, <2>2, <2>4, <2>5, <3>1
    <3> QED BY <1>3, <1>4, <2>3, <2>5, <3>2 DEF OnlyBetween
  <2>6. CASE cuts = {} /\ c # 0 /\ s < c /\ p[s].id = p[c].ref
    <3>1. CleanAt(p, p[c].ref)
      BY <1>1, <1>2, <1>5, <2>6 DEF GoodPath, Cuts
    <3>2. Clean(p, s)
      BY <1>2, <2>6, <3>1 DEF CleanAt
    <3> QED BY <1>1, <1>2, <1>3, <1>6, <2>2, <2>4, <2>6, <3>2 DEF Clean
  <2>7. CASE cuts = {} /\ c # 0 /\ s = c + 1
    <3>1. k # c
      BY <1>5, <2>3, <2>7
    <3>2. c \in (k + 1)..(i - 1)
      BY <1>1, <1>2, <1>3, <1>6, <2>2, <2>4, <2>7, <3>1
    <3> QED BY <1>5, <2>3, <2>7, <3>2 DEF OnlyBetween
  <2>8. CASE cuts = {} /\ c = 0
    BY <1>1, <1>2, <1>3, <2>4, <2>8
  <2> QED BY <1>2, <2>5, <2>6, <2>7, <2>8
<1> QED BY <1>6 DEF CleanAt, Clean, s, cut

(* What a preparation holds, however a turn is split: of the entries from  *)
(* the boundary to the cut everything, and nothing else but what the       *)
(* previous summary knows.                                                 *)
LEMMA PreparedIs ==
  ASSUME NEW p, NEW a, NEW m, GoodPath(p, a, m), p # <<>>, p[Len(p)].kind # "compaction"
  PROVE  LET prep == Prepared(p)
             s == BoundaryStart(p)
             cut == CutIndex(p, s)
             c == LastCompaction(p)
         IN  /\ prep \in Preparation
             /\ prep.first = p[cut].id /\ prep.leaf = p[Len(p)].id
             /\ WithContent(p, s, cut - 1) \subseteq Summary(prep)
             /\ Summary(prep) \subseteq WithContent(p, s, cut - 1) \cup (IF c = 0 THEN {} ELSE p[c].summary)
             /\ prep.leaf \in 1..a /\ prep.first \in 1..prep.leaf /\ Summary(prep) \subseteq 1..prep.leaf
<1> DEFINE prep == Prepared(p)
           s == BoundaryStart(p)
           cut == CutIndex(p, s)
           c == LastCompaction(p)
           t == TurnStart(p, s)
           W == WithContent(p, s, cut - 1)
           last == IF c = 0 THEN {} ELSE p[c].summary
           head == WithContent(p, s, IF t # 0 THEN t - 1 ELSE cut - 1)
           tail == IF t # 0 THEN WithContent(p, t, cut - 1) ELSE {}
<1>1. p \in Seq(Entry) /\ a \in Nat /\ Len(p) \in Nat /\ Len(p) # 0 /\ Numbered(p, a) /\ Summaries(p)
  BY DEF GoodPath, Numbered
<1>2. s \in 1..Len(p) /\ c \in 0..Len(p)
  BY <1>1, BoundaryIs
<1>3. cut \in s..Len(p)
  BY <1>1, <1>2, CutIs
<1>4. t \in {0} \cup s..cut
  BY <1>1, <1>2, TurnIs
<1>5. prep = [first |-> p[cut].id, messages |-> head, prefix |-> tail, split |-> t # 0,
              previous |-> last, leaf |-> p[Len(p)].id]
  BY DEF Prepared
<1>6. \A from, to : WithContent(p, from, to) = {p[i].id : i \in {h \in from..to : HasContent(p[h])}}
  BY DEF WithContent, IdsAt
<1>7. c # 0 => p[c].kind = "compaction"
  BY <1>1, LastCompactionIs
<1> HIDE DEF prep, s, cut, c, t
<1>8. head \cup tail = W
  <2>1. CASE t = 0
    BY <2>1
  <2>2. CASE t # 0
    <3>1. \A i : i \in s..(cut - 1) <=> i \in s..(t - 1) \/ i \in t..(cut - 1)
      BY <1>2, <1>3, <1>4, <2>2
    <3> QED BY <1>6, <2>2, <3>1
  <2> QED BY <2>1, <2>2
<1>9. \A i \in 1..Len(p) : p[i].id \in 1..a /\ p[i].id <= p[Len(p)].id
  <2>1. SUFFICES ASSUME NEW i \in 1..Len(p) PROVE p[i].id \in 1..a /\ p[i].id <= p[Len(p)].id
    OBVIOUS
  <2>2. Len(p) \in 1..Len(p) /\ p[i].id \in 1..a /\ p[Len(p)].id \in 1..a
    BY <1>1 DEF Numbered
  <2>3. CASE i = Len(p)
    BY <1>1, <2>2, <2>3
  <2>4. CASE i < Len(p)
    BY <1>1, <2>2, <2>4 DEF Numbered
  <2> QED BY <1>1, <2>3, <2>4
<1>10. W \subseteq 1..p[Len(p)].id /\ W \subseteq Nat
  <2>1. SUFFICES ASSUME NEW i \in s..(cut - 1) PROVE p[i].id \in 1..p[Len(p)].id
    BY <1>6
  <2>2. i \in 1..Len(p) /\ Len(p) \in 1..Len(p)
    BY <1>1, <1>2, <1>3
  <2> QED BY <1>1, <1>9, <2>2
<1>11. last \subseteq 1..p[Len(p)].id
  <2>1. CASE c = 0
    BY <2>1
  <2>2. CASE c # 0
    <3>1. c \in 1..Len(p)
      BY <1>2, <2>2
    <3>2. p[c].summary \subseteq 1..(p[c].id - 1)
      BY <1>1, <1>7, <2>2, <3>1 DEF Summaries, Earlier
    <3>3. p[c].id \in 1..a /\ p[c].id <= p[Len(p)].id /\ p[Len(p)].id \in 1..a
      BY <1>1, <1>9, <3>1
    <3> QED BY <1>1, <2>2, <3>2, <3>3
  <2> QED BY <2>1, <2>2
<1> HIDE DEF W, last, head, tail
<1>12. W \subseteq Summary(prep) /\ Summary(prep) \subseteq W \cup last
  <2>1. /\ prep.messages = head /\ prep.prefix = tail /\ prep.previous = last /\ prep.split = (t # 0)
    BY <1>5
  <2>2. Summary(prep) = IF ~(t # 0) \/ tail = {} THEN head \cup last
                        ELSE IF head = {} THEN tail ELSE head \cup last \cup tail
    BY <2>1 DEF Summary
  <2>3. t = 0 => tail = {}
    BY DEF tail
  <2> QED BY <1>8, <2>2, <2>3
<1>14. p[cut].id \in 1..p[Len(p)].id /\ p[Len(p)].id \in 1..a
  <2>1. cut \in 1..Len(p) /\ Len(p) \in 1..Len(p)
    BY <1>1, <1>2, <1>3
  <2> QED BY <1>1, <1>9, <2>1
<1>13. head \subseteq Nat /\ tail \subseteq Nat /\ last \subseteq Nat
  <2>1. p[Len(p)].id \in Nat
    BY <1>14
  <2>2. last \subseteq Nat
    BY <1>11, <2>1
  <2> QED BY <1>8, <1>10, <2>2
<1>15. prep \in Preparation
  BY <1>5, <1>13, <1>14 DEF Preparation
<1>16. prep.first = p[cut].id /\ prep.leaf = p[Len(p)].id
  BY <1>5
<1>17. Summary(prep) \subseteq 1..prep.leaf
  BY <1>10, <1>11, <1>12, <1>16
<1> QED BY <1>12, <1>14, <1>15, <1>16, <1>17 DEF prep, s, cut, c, W, last

LEMMA PreparedCovers ==
  ASSUME NEW p, NEW a, NEW m, GoodPath(p, a, m), p # <<>>, p[Len(p)].kind # "compaction",
         InPlace(p, Len(p), m)
  PROVE  Covers(p, Len(p), Prepared(p).first, Summary(Prepared(p)))
<1> DEFINE s == BoundaryStart(p)
           cut == CutIndex(p, s)
           c == LastCompaction(p)
           n == Len(p)
           W == WithContent(p, s, cut - 1)
           S == Summary(Prepared(p))
           Before == Known(p, c, {})
<1>1. p \in Seq(Entry) /\ a \in Nat /\ n \in Nat /\ Numbered(p, a) /\ Summaries(p)
  BY DEF GoodPath, Numbered
<1>2. /\ s \in 1..n /\ c \in 0..n /\ (c = 0 => s = 1)
      /\ c # 0 => \/ s < c /\ p[s].id = p[c].ref
                  \/ s = c + 1 /\ \A r \in 1..n : p[r].id # p[c].ref
  BY <1>1, BoundaryIs
<1>3. cut \in s..n
  BY <1>1, <1>2, CutIs
<1>4. /\ Prepared(p).first = p[cut].id
      /\ W \subseteq S /\ S \subseteq W \cup (IF c = 0 THEN {} ELSE p[c].summary)
  BY PreparedIs
<1>5. \A i \in (c + 1)..n : p[i].kind # "compaction"
  BY <1>1, LastCompactionIs
<1>6. c # 0 => p[c].kind = "compaction"
  BY <1>1, LastCompactionIs
<1>7. \A x : x \in W <=> \E i \in s..(cut - 1) : HasContent(p[i]) /\ p[i].id = x
  BY DEF WithContent, IdsAt
<1>8. \A x : x \in Before <=> \E i \in 1..c : x \in p[i].summary
  BY DEF Known
<1> HIDE DEF s, cut, c, n, W, S, Before
<1>9. \A h, l \in 1..n : p[h].id = p[l].id => h = l
  BY <1>1 DEF Numbered, n
<1>10. Known(p, n, S) = W \cup Before
  <2>1. \A i \in 1..n : i \in 1..c \/ p[i].summary = {}
    <3>1. SUFFICES ASSUME NEW i \in 1..n, i > c PROVE p[i].summary = {}
      BY <1>1, <1>2
    <3>2. p[i].kind # "compaction"
      BY <1>1, <1>2, <1>5, <3>1
    <3> QED BY <1>1, <3>2 DEF Summaries, Earlier, n
  <2>2. \A i \in 1..c : i \in 1..n
    BY <1>1, <1>2
  <2>3. c # 0 => c \in 1..c
    BY <1>1, <1>2
  <2>4. UNION {p[i].summary : i \in 1..n} = Before
    BY <1>8, <2>1, <2>2
  <2>5. S \subseteq W \cup Before
    BY <1>4, <1>8, <2>3
  <2> QED BY <1>4, <2>4, <2>5 DEF Known
<1>11. ASSUME c # 0 PROVE s < c /\ \A j \in 1..c : HasContent(p[j]) => (j < s <=> p[j].id \in Before)
  <2>1. c \in 1..n /\ \A j \in 1..c : j \in 1..n
    BY <1>1, <1>2, <1>11
  <2>2. InPlace(p, c, m)
    BY <2>1 DEF InPlace, n
  <2>3. Covers(p, c, p[c].ref, {})
    BY <1>6, <1>11, <2>1, <2>2 DEF GoodPath, Counts, n
  <2>4. PICK r \in 1..c : p[r].id = p[c].ref /\ \A j \in 1..c : HasContent(p[j]) => (j < r <=> p[j].id \in Before)
    BY <2>3 DEF Covers, Before
  <2>5. r = s /\ s < c
    BY <1>2, <1>9, <1>11, <2>1, <2>4
  <2> QED BY <2>4, <2>5
<1>12. ASSUME NEW j \in 1..n, p[j].id \in Before PROVE j < c
  <2>1. PICK i \in 1..c : p[j].id \in p[i].summary
    BY <1>8, <1>12
  <2>2. i \in 1..n /\ i \in Nat /\ i <= c
    BY <1>1, <1>2, <2>1
  <2>3. p[j].id \in 1..(p[i].id - 1) /\ p[i].id \in 1..a
    BY <1>1, <2>1, <2>2 DEF Summaries, Earlier, Numbered, n
  <2>4. j < i
    <3>1. SUFFICES ASSUME i <= j PROVE FALSE
      BY <2>2
    <3>2. p[i].id <= p[j].id
      BY <1>1, <2>2, <3>1 DEF Numbered, n
    <3> QED BY <1>1, <2>3, <3>2
  <2> QED BY <1>2, <2>2, <2>4
<1>13. ASSUME NEW j \in 1..n, HasContent(p[j]) PROVE j < cut <=> p[j].id \in W \cup Before
  <2>1. ASSUME j < s PROVE p[j].id \in Before
    <3>1. c # 0 /\ j \in 1..c
      BY <1>1, <1>2, <1>11, <2>1
    <3> QED BY <1>11, <1>13, <2>1, <3>1
  <2>2. ASSUME s <= j, j < cut PROVE p[j].id \in W
    <3>1. j \in s..(cut - 1)
      BY <1>1, <1>2, <1>3, <2>2
    <3> QED BY <1>7, <1>13, <3>1
  <2>3. ASSUME p[j].id \in W PROVE j < cut
    <3>1. PICK i \in s..(cut - 1) : p[i].id = p[j].id
      BY <1>7, <2>3
    <3>2. i \in 1..n /\ i < cut
      BY <1>1, <1>2, <1>3
    <3> QED BY <1>9, <3>1, <3>2
  <2>4. ASSUME p[j].id \in Before PROVE j < cut
    <3>1. j < c
      BY <1>12, <2>4
    <3>2. c # 0 /\ j \in 1..c
      BY <1>1, <1>2, <3>1
    <3>3. j < s
      BY <1>11, <1>13, <2>4, <3>2
    <3> QED BY <1>1, <1>2, <1>3, <3>3
  <2>5. j < s \/ s <= j
    BY <1>1, <1>2
  <2> QED BY <2>1, <2>2, <2>3, <2>4, <2>5
<1>14. cut \in 1..n
  BY <1>1, <1>2, <1>3
<1>15. Covers(p, n, p[cut].id, S)
  BY <1>10, <1>13, <1>14 DEF Covers
<1> QED BY <1>4, <1>15 DEF n, S
-----------------------------------------------------------------------------
(* The steps.                                                              *)
LEMMA NewEntryIs ==
  ASSUME appended \in Nat, NEW kind \in Kinds, NEW tokens \in Nat, NEW ref \in Nat,
         NEW summary \in SUBSET Nat
  PROVE  LET e == NewEntry(kind, tokens, ref, summary) IN
         /\ e \in Entry /\ e.id = appended + 1 /\ e.kind = kind /\ e.ref = ref /\ e.summary = summary
BY DEF NewEntry, Entry

LEMMA CallsPushed ==
  ASSUME NEW p \in Seq(Entry), NEW k \in 1..Len(p), NEW ref, Calls(p, k, ref),
         NEW e \in Entry, e.kind \in {"toolResult", "setting"}
  PROVE  Calls(Append(p, e), k, ref)
<1> DEFINE q == Append(p, e)  n == Len(p)
<1>1. n \in Nat /\ Len(q) = n + 1 /\ q[n + 1] = e /\ \A i \in 1..n : q[i] = p[i]
  BY Pushed
<1> HIDE DEF q, n
<1>2. \A j \in (k + 1)..(n + 1) : j = n + 1 \/ (j \in 1..n /\ j \in (k + 1)..n)
  BY <1>1 DEF n
<1>3. OnlyBetween(q, k + 1, Len(q))
  BY <1>1, <1>2 DEF Calls, OnlyBetween, n
<1> QED BY <1>1, <1>3 DEF Calls, q, n

LEMMA LastAssistantIs ==
  ASSUME NEW p \in Seq(Entry), NEW k \in 1..Len(p), NEW ref, Calls(p, k, ref)
  PROVE  Max({i \in DOMAIN p : p[i].kind = "assistant"}) = k
<1> DEFINE S == {i \in DOMAIN p : p[i].kind = "assistant"}
<1>1. Len(p) \in Nat /\ S \subseteq 0..Len(p) /\ k \in S
  BY DEF Calls
<1>2. \A i \in S : ~(i \in (k + 1)..Len(p))
  BY DEF Calls, OnlyBetween
<1>3. \A i \in S : i <= k
  BY <1>1, <1>2
<1> HIDE DEF S
<1>4. Max(S) \in S /\ \A i \in S : Max(S) >= i
  BY <1>1, MaxIs
<1>5. Max(S) = k
  <2>1. PICK x \in 0..Len(p) : x = Max(S) /\ x <= k /\ x >= k
    BY <1>1, <1>3, <1>4
  <2> QED BY <2>1
<1> QED BY <1>5 DEF S

(* A step that appends an entry that is neither result nor compaction to a *)
(* good path q, that has what the path has of the prepared span.           *)
LEMMA PlainStep ==
  ASSUME IInv, NEW q, GoodPath(q, appended, misplaced),
         Compacting => Prepares(q, appended, preparation, misplaced),
         NEW kind \in Kinds \ {"toolResult", "compaction"}, NEW tokens \in Nat,
         Compacting => kind \in {"bash", "note", "setting"},
         Push(q, NewEntry(kind, tokens, 0, {})), preparation' = preparation, misplaced' = misplaced
  PROVE  /\ GoodPath(path', appended', misplaced')
         /\ preparation' \in Preparation
         /\ Compacting' => Prepares(path', appended', preparation', misplaced')
<1> DEFINE e == NewEntry(kind, tokens, 0, {})
<1>1. appended \in Nat /\ preparation \in Preparation
  BY DEF IInv, GoodPath, Numbered
<1>2. /\ e \in Entry /\ e.id = appended + 1 /\ e.kind = kind /\ e.summary = {}
  BY <1>1, NewEntryIs
<1>3. path' = Append(q, e) /\ appended' = appended + 1
  BY DEF Push
<1> HIDE DEF e
<1>4. e.kind # "compaction" /\ e.kind # "toolResult" /\ Earlier(e)
  BY <1>2 DEF Earlier
<1>5. GoodPath(path', appended', misplaced)
  BY <1>2, <1>3, <1>4, PushGood
<1>6. ASSUME Compacting PROVE Prepares(path', appended', preparation, misplaced)
  BY <1>2, <1>3, <1>6, PushPrepares
<1> QED BY <1>1, <1>5, <1>6 DEF Compacting

LEMMA UserMessageStep ==
  ASSUME IInv, NEW tokens \in Sizes, UserMessage(tokens)
  PROVE  IInv'
<1>1. tokens \in Nat
  BY TokenAssumption
<1>2. ~Compacting /\ Push(path, NewEntry("user", tokens, 0, {})) /\ "user" \in Kinds \ {"toolResult", "compaction"}
  BY DEF UserMessage, Kinds, MessageKinds
<1>3. owed' = 0 /\ preparation' = preparation /\ misplaced' = misplaced
  BY DEF UserMessage
<1>4. /\ GoodPath(path', appended', misplaced')
      /\ preparation' \in Preparation
      /\ Compacting' => Prepares(path', appended', preparation', misplaced')
  BY <1>1, <1>2, <1>3, PlainStep DEF IInv
<1>5. Owes'
  BY <1>3 DEF Owes
<1> QED BY <1>3, <1>4, <1>5 DEF IInv

LEMMA AssistantMessageStep ==
  ASSUME IInv, NEW tokens \in Sizes, NEW n \in 0..MaxCalls, AssistantMessage(tokens, n)
  PROVE  IInv'
<1> DEFINE e == NewEntry("assistant", tokens, 0, {})
<1>1. tokens \in Nat /\ n \in Nat
  BY TokenAssumption, BoundAssumption
<1>2. ~Compacting /\ Push(path, e) /\ "assistant" \in Kinds \ {"toolResult", "compaction"}
  BY DEF AssistantMessage, Kinds, MessageKinds
<1>3. owed' = n /\ preparation' = preparation /\ misplaced' = misplaced
  BY DEF AssistantMessage
<1>4. /\ GoodPath(path', appended', misplaced')
      /\ preparation' \in Preparation
      /\ Compacting' => Prepares(path', appended', preparation', misplaced')
  BY <1>1, <1>2, <1>3, PlainStep DEF IInv
<1>5. ~Compacting'
  BY <1>2, <1>3 DEF Compacting
<1>6. path \in Seq(Entry) /\ appended \in Nat
  BY DEF IInv, GoodPath, Numbered
<1>7. e \in Entry /\ e.kind = "assistant" /\ path' = Append(path, e)
  <2>1. "assistant" \in Kinds
    BY DEF Kinds, MessageKinds
  <2> QED BY <1>1, <1>2, <1>6, <2>1, NewEntryIs DEF Push
<1> HIDE DEF e
<1>8. Len(path') = Len(path) + 1 /\ path'[Len(path) + 1] = e /\ Len(path) \in Nat
  BY <1>6, <1>7, Pushed
<1>9. Len(path') \in 1..Len(path') /\ Calls(path', Len(path'), path'[Len(path')].id)
  BY <1>7, <1>8 DEF Calls, OnlyBetween
<1>10. Owes'
  BY <1>5, <1>9 DEF Owes
<1> QED BY <1>1, <1>3, <1>4, <1>10 DEF IInv

LEMMA ToolResultMessageStep ==
  ASSUME IInv, NEW tokens \in Sizes, ToolResultMessage(tokens)
  PROVE  IInv'
<1> DEFINE a == Max({i \in DOMAIN path : path[i].kind = "assistant"})
           e == NewEntry("toolResult", tokens, path[a].id, {})
<1>1. tokens \in Nat /\ path \in Seq(Entry) /\ appended \in Nat /\ owed \in Nat
  BY TokenAssumption DEF IInv, GoodPath, Numbered
<1>2. owed > 0 /\ Push(path, e) /\ owed' = owed - 1 /\ preparation' = preparation /\ misplaced' = misplaced
  BY DEF ToolResultMessage
<1>3. ~Compacting
  BY <1>2 DEF IInv, Owes
<1>4. PICK k \in 1..Len(path) : Calls(path, k, path[k].id)
  BY <1>2 DEF IInv, Owes
<1>5. a = k
  BY <1>1, <1>4, LastAssistantIs
<1>6. path[k].id \in Nat
  BY <1>1 DEF IInv, GoodPath, Numbered
<1>7. /\ e \in Entry /\ e.id = appended + 1 /\ e.kind = "toolResult" /\ e.ref = path[k].id /\ e.summary = {}
      /\ path' = Append(path, e) /\ appended' = appended + 1
  <2>1. "toolResult" \in Kinds
    BY DEF Kinds, MessageKinds
  <2>2. e = NewEntry("toolResult", tokens, path[k].id, {}) /\ {} \in SUBSET Nat
    BY <1>5
  <2>3. path' = Append(path, e) /\ appended' = appended + 1
    BY <1>2 DEF Push
  <2> HIDE DEF e
  <2> QED BY <1>1, <1>6, <2>1, <2>2, <2>3, NewEntryIs
<1> HIDE DEF a, e
<1>8. Earlier(e)
  BY <1>7 DEF Earlier
<1>9. GoodPath(path', appended', misplaced)
  <2>1. GoodPath(path, appended, misplaced) /\ \E h \in 1..Len(path) : Calls(path, h, e.ref)
    BY <1>4, <1>7 DEF IInv
  <2> QED BY <1>7, <1>8, <2>1, PushGood
<1>10. k \in 1..Len(path') /\ Calls(path', k, path'[k].id)
  <2>1. k \in 1..Len(path') /\ path'[k] = path[k]
    BY <1>1, <1>7, Pushed
  <2> QED BY <1>1, <1>4, <1>7, <2>1, CallsPushed
<1>11. ~Compacting'
  BY <1>2, <1>3 DEF Compacting
<1>12. Owes'
  BY <1>10, <1>11 DEF Owes
<1>13. owed' \in Nat
  BY <1>1, <1>2
<1> QED BY <1>2, <1>9, <1>11, <1>12, <1>13 DEF IInv

LEMMA IdleMessageStep ==
  ASSUME IInv, NEW tokens \in Sizes, NEW kind \in {"bash", "note"}, IdleMessage(kind, tokens)
  PROVE  IInv'
<1> DEFINE size == IF kind = "bash" THEN tokens ELSE 0
<1>1. size \in Nat
  BY TokenAssumption
<1>2. Push(path, NewEntry(kind, size, 0, {})) /\ kind \in Kinds \ {"toolResult", "compaction"}
  BY DEF IdleMessage, Kinds, MessageKinds
<1>3. owed' = 0 /\ preparation' = preparation /\ misplaced' = misplaced
  BY DEF IdleMessage
<1> HIDE DEF size
<1>4. /\ GoodPath(path', appended', misplaced')
      /\ preparation' \in Preparation
      /\ Compacting' => Prepares(path', appended', preparation', misplaced')
  BY <1>1, <1>2, <1>3, PlainStep DEF IInv
<1>5. Owes'
  BY <1>3 DEF Owes
<1> QED BY <1>3, <1>4, <1>5 DEF IInv

LEMMA SettingStep ==
  ASSUME IInv, Setting
  PROVE  IInv'
<1> DEFINE e == NewEntry("setting", 0, 0, {})
<1>1. Push(path, e) /\ "setting" \in Kinds \ {"toolResult", "compaction"}
  BY DEF Setting, Kinds, MessageKinds
<1>2. owed' = owed /\ preparation' = preparation /\ misplaced' = misplaced
  BY DEF Setting
<1>3. /\ GoodPath(path', appended', misplaced')
      /\ preparation' \in Preparation
      /\ Compacting' => Prepares(path', appended', preparation', misplaced')
  BY <1>1, <1>2, PlainStep DEF IInv
<1>4. path \in Seq(Entry) /\ appended \in Nat
  BY DEF IInv, GoodPath, Numbered
<1>5. e \in Entry /\ e.kind = "setting" /\ path' = Append(path, e)
  BY <1>1, <1>4, NewEntryIs DEF Push
<1> HIDE DEF e
<1>6. ASSUME owed' > 0 PROVE ~Compacting' /\ \E k \in 1..Len(path') : Calls(path', k, path'[k].id)
  <2>1. ~Compacting /\ \E k \in 1..Len(path) : Calls(path, k, path[k].id)
    BY <1>2, <1>6 DEF IInv, Owes
  <2>2. PICK k \in 1..Len(path) : Calls(path, k, path[k].id)
    BY <2>1
  <2>3. k \in 1..Len(path') /\ path'[k] = path[k]
    BY <1>4, <1>5, Pushed
  <2>4. Calls(path', k, path'[k].id)
    BY <1>4, <1>5, <2>2, <2>3, CallsPushed
  <2> QED BY <1>2, <2>1, <2>3, <2>4 DEF Compacting
<1>7. Owes'
  BY <1>6 DEF Owes
<1> QED BY <1>2, <1>3, <1>7 DEF IInv

LEMMA NavigateStep ==
  ASSUME IInv, NEW t \in DOMAIN path, NEW summarised \in BOOLEAN, Navigate(t, summarised)
  PROVE  IInv'
<1>1. path \in Seq(Entry) /\ appended \in Nat /\ Len(path) \in Nat /\ t \in 1..Len(path)
  BY DEF IInv, GoodPath, Numbered
<1>2. owed' = 0 /\ preparation' = preparation /\ misplaced' = misplaced
  BY DEF Navigate
<1>3. PICK leaf \in {t - 1, t} :
             IF summarised
               THEN Push(SubSeq(path, 1, leaf), NewEntry("note", 0, 0, {}))
               ELSE path' = SubSeq(path, 1, leaf) /\ UNCHANGED appended
  BY DEF Navigate
<1>4. leaf \in 0..Len(path)
  BY <1>1
<1> DEFINE q == SubSeq(path, 1, leaf)
<1>5. GoodPath(q, appended, misplaced)
  BY <1>4, TruncateGood DEF IInv
<1>6. Compacting => Prepares(q, appended, preparation, misplaced)
  BY <1>4, TruncatePrepares DEF IInv
<1> HIDE DEF q
<1>7. /\ GoodPath(path', appended', misplaced')
      /\ preparation' \in Preparation
      /\ Compacting' => Prepares(path', appended', preparation', misplaced')
  <2>1. CASE summarised
    <3>1. Push(q, NewEntry("note", 0, 0, {})) /\ "note" \in Kinds \ {"toolResult", "compaction"}
      BY <1>3, <2>1 DEF q, Kinds, MessageKinds
    <3> QED BY <1>2, <1>5, <1>6, <3>1, PlainStep
  <2>2. CASE ~summarised
    <3>1. path' = q /\ appended' = appended
      BY <1>3, <2>2 DEF q
    <3> QED BY <1>2, <1>5, <1>6, <3>1 DEF IInv, Compacting
  <2> QED BY <2>1, <2>2
<1>8. Owes'
  BY <1>2 DEF Owes
<1> QED BY <1>2, <1>7, <1>8 DEF IInv

LEMMA StartCompactionStep ==
  ASSUME IInv, StartCompaction
  PROVE  IInv'
<1> DEFINE p == path  prep == Prepared(path)
<1>1. /\ owed' = 0 /\ path' = path /\ appended' = appended /\ misplaced' = misplaced /\ preparation' = prep
      /\ path # <<>> /\ path[Len(path)].kind # "compaction"
  BY DEF StartCompaction
<1>2. GoodPath(path, appended, misplaced) /\ path \in Seq(Entry) /\ Len(path) \in Nat
  BY DEF IInv, GoodPath, Numbered
<1>3. /\ prep \in Preparation
      /\ prep.first = path[CutIndex(path, BoundaryStart(path))].id /\ prep.leaf = path[Len(path)].id
      /\ prep.leaf \in 1..appended /\ prep.first \in 1..prep.leaf /\ Summary(prep) \subseteq 1..prep.leaf
  BY <1>1, <1>2, PreparedIs
<1>4. CleanAt(path, prep.first)
  BY <1>1, <1>2, <1>3, CutClean
<1>5. InPlace(path, Len(path), misplaced) => Covers(path, Len(path), prep.first, Summary(prep))
  BY <1>1, <1>2, PreparedCovers
<1> HIDE DEF prep
<1>6. ASSUME NEW n \in 1..Len(path), path[n].id = prep.leaf PROVE n = Len(path)
  <2>1. CASE n < Len(path)
    <3>1. path[n].id < path[Len(path)].id /\ path[n].id \in Nat
      BY <1>2, <2>1 DEF GoodPath, Numbered
    <3> QED BY <1>3, <1>6, <3>1
  <2> QED BY <1>2, <2>1
<1>7. \A n \in 1..Len(path) : path[n].id = prep.leaf =>
        /\ \A j \in (n + 1)..Len(path) : path[j].kind \in {"bash", "note", "setting"}
        /\ InPlace(path, n, misplaced) => Covers(path, n, prep.first, Summary(prep))
  <2>1. SUFFICES ASSUME NEW n \in 1..Len(path), path[n].id = prep.leaf
        PROVE /\ \A j \in (n + 1)..Len(path) : path[j].kind \in {"bash", "note", "setting"}
              /\ InPlace(path, n, misplaced) => Covers(path, n, prep.first, Summary(prep))
    OBVIOUS
  <2>2. n = Len(path)
    BY <1>6, <2>1
  <2>3. \A j \in (Len(path) + 1)..Len(path) : FALSE
    BY <1>2
  <2> QED BY <1>5, <2>2, <2>3
<1>8. Prepares(path, appended, prep, misplaced)
  BY <1>3, <1>4, <1>7 DEF Prepares
<1>9. Owes'
  BY <1>1 DEF Owes
<1> QED BY <1>1, <1>2, <1>3, <1>8, <1>9 DEF IInv

(* The compaction whose preparation still holds of the path.               *)
LEMMA FinishedCovers ==
  ASSUME NEW p, NEW a, NEW m, GoodPath(p, a, m), NEW prep, Prepares(p, a, prep, m),
         NEW e \in Entry, e.kind = "compaction", e.summary = Summary(prep),
         NEW h \in 1..Len(p), p[h].id = prep.leaf, InPlace(p, h, m)
  PROVE  Covers(Append(p, e), Len(p) + 1, prep.first, {})
<1> DEFINE q == Append(p, e)  n == Len(p)  S == Summary(prep)  Before == Known(p, h, S)
<1>1. p \in Seq(Entry) /\ a \in Nat /\ n \in Nat /\ Summaries(p) /\ Numbered(p, a)
  BY DEF GoodPath, Numbered
<1>2. Len(q) = n + 1 /\ q[n + 1] = e /\ \A i \in 1..n : q[i] = p[i]
  BY <1>1, Pushed
<1>3. Covers(p, h, prep.first, S) /\ \A j \in (h + 1)..n : p[j].kind \in {"bash", "note", "setting"}
  BY DEF Prepares
<1>4. S \subseteq 1..prep.leaf /\ prep.leaf \in 1..a
  BY DEF Prepares
<1>5. e.summary = S
  OBVIOUS
<1>6. \A x : x \in Before <=> x \in S \/ \E i \in 1..h : x \in p[i].summary
  BY DEF Known
<1>7. ~HasContent(e)
  BY DEF HasContent, IsMessage, MessageKinds
<1> HIDE DEF q, n, S, Before
<1>8. \A i \in 1..n : i \in 1..h \/ i \in (h + 1)..n
  BY <1>1
<1>9. \A i \in 1..n : i \in 1..h \/ p[i].summary = {}
  BY <1>3, <1>8, <1>1 DEF Summaries, Earlier, n
<1>10. Known(q, n + 1, {}) = Before
  <2>1. \A i \in 1..(n + 1) : i \in 1..n \/ i = n + 1
    BY <1>1
  <2>2. \A i \in 1..n : i \in 1..(n + 1)
    BY <1>1
  <2>3. n + 1 \in 1..(n + 1)
    BY <1>1
  <2>4. ASSUME NEW x PROVE x \in UNION {q[i].summary : i \in 1..(n + 1)} <=> x \in Before
    <3>1. ASSUME x \in Before PROVE \E i \in 1..(n + 1) : x \in q[i].summary
      <4>1. CASE x \in S
        BY <1>2, <1>5, <2>3, <4>1
      <4>2. CASE x \notin S
        <5>1. PICK i \in 1..h : x \in p[i].summary
          BY <1>6, <3>1, <4>2
        <5>2. i \in 1..n
          BY <1>1 DEF n
        <5> QED BY <1>2, <2>2, <5>1, <5>2
      <4> QED BY <4>1, <4>2
    <3>2. ASSUME NEW i \in 1..(n + 1), x \in q[i].summary PROVE x \in Before
      <4>1. CASE i = n + 1
        BY <1>2, <1>5, <1>6, <3>2, <4>1
      <4>2. CASE i \in 1..n
        BY <1>2, <1>6, <1>9, <3>2, <4>2
      <4> QED BY <2>1, <4>1, <4>2
    <3> QED BY <3>1, <3>2
  <2> QED BY <2>4 DEF Known
<1>11. PICK r \in 1..h : p[r].id = prep.first /\ \A j \in 1..h : HasContent(p[j]) => (j < r <=> p[j].id \in Before)
  BY <1>3 DEF Covers, Before
<1>12. ASSUME NEW j \in (h + 1)..n PROVE p[j].id \notin Before /\ ~(j < r)
  <2>1. j \in 1..n /\ h \in 1..n /\ h < j
    BY <1>1 DEF n
  <2>2. p[h].id < p[j].id /\ p[h].id \in 1..a /\ p[j].id \in 1..a
    BY <1>1, <2>1 DEF Numbered, n
  <2>3. p[j].id \notin S
    BY <1>1, <1>4, <2>2
  <2>4. ASSUME NEW i \in 1..h, p[j].id \in p[i].summary PROVE FALSE
    <3>1. i \in 1..n /\ i <= h
      BY <1>1, <2>1
    <3>2. p[j].id < p[i].id /\ p[i].id \in 1..a
      <4>1. p[i].id \in 1..a
        BY <1>1, <3>1 DEF Numbered, n
      <4> QED BY <1>1, <2>2, <2>4, <3>1, <4>1 DEF Summaries, Earlier, n
    <3>3. p[i].id <= p[h].id
      BY <1>1, <2>1, <3>1 DEF Numbered, n
    <3> QED BY <1>1, <2>2, <3>2, <3>3
  <2> QED BY <1>6, <2>1, <2>3, <2>4
<1>13. ASSUME NEW j \in 1..(n + 1), HasContent(q[j]) PROVE j < r <=> q[j].id \in Before
  <2>1. j \in 1..n
    BY <1>1, <1>2, <1>7, <1>13
  <2>2. q[j] = p[j]
    BY <1>2, <2>1
  <2> QED BY <1>8, <1>11, <1>12, <1>13, <2>1, <2>2
<1>14. r \in 1..(n + 1) /\ q[r].id = prep.first
  <2>1. r \in 1..n
    BY <1>1 DEF n
  <2> QED BY <1>1, <1>2, <1>11, <2>1
<1> QED BY <1>10, <1>13, <1>14 DEF Covers, q, n

LEMMA FinishCompactionStep ==
  ASSUME IInv, FinishCompaction
  PROVE  IInv'
<1> DEFINE e == NewEntry("compaction", 0, preparation.first, Summary(preparation))
           q == Append(path, e)
           n == Len(path)
<1>1. /\ Compacting /\ path' = q /\ appended' = appended + 1
      /\ preparation' = NothingPrepared /\ owed' = owed
      /\ misplaced' = IF IndexOf(path, preparation.leaf) = {} THEN misplaced \cup {appended'} ELSE misplaced
  BY DEF FinishCompaction, Push
<1>2. /\ GoodPath(path, appended, misplaced) /\ appended \in Nat /\ path \in Seq(Entry) /\ n \in Nat
      /\ Prepares(path, appended, preparation, misplaced)
  BY <1>1 DEF IInv, GoodPath, Numbered
<1>3. /\ preparation.leaf \in 1..appended /\ preparation.first \in 1..preparation.leaf
      /\ Summary(preparation) \subseteq 1..preparation.leaf /\ CleanAt(path, preparation.first)
  BY <1>2 DEF Prepares
<1>4. preparation.first \in 1..appended /\ Summary(preparation) \subseteq 1..appended
  BY <1>2, <1>3
<1>5. /\ e \in Entry /\ e.id = appended + 1 /\ e.kind = "compaction"
      /\ e.ref = preparation.first /\ e.summary = Summary(preparation)
  <2>1. "compaction" \in Kinds /\ 0 \in Nat /\ preparation.first \in Nat /\ Summary(preparation) \in SUBSET Nat
    BY <1>2, <1>4 DEF Kinds
  <2> QED BY <1>2, <2>1, NewEntryIs
<1>6. n + 1 \in 1..(n + 1) /\ q[n + 1] = e /\ \A i \in 1..n : q[i] = path[i] /\ i \in 1..(n + 1)
  BY <1>2, <1>5, Pushed
<1>7. \A i \in 1..n : i \in IndexOf(path, preparation.leaf) <=> path[i].id = preparation.leaf
  BY <1>2 DEF IndexOf
<1> HIDE DEF e, q, n
<1>8. Earlier(e)
  BY <1>2, <1>4, <1>5 DEF Earlier
<1>9. ASSUME InPlace(q, n + 1, misplaced') PROVE Covers(q, n + 1, e.ref, {})
  <2>1. appended + 1 \notin misplaced'
    BY <1>5, <1>6, <1>9 DEF InPlace
  <2>2. PICK h \in 1..n : path[h].id = preparation.leaf
    <3>1. IndexOf(path, preparation.leaf) # {}
      BY <1>1, <2>1
    <3> QED BY <3>1 DEF IndexOf, n
  <2>3. InPlace(path, h, misplaced)
    <3>1. \A j \in 1..h : j \in 1..n
      BY <1>2, <2>2
    <3> QED BY <1>1, <1>6, <1>9, <3>1 DEF InPlace
  <2> QED BY <1>2, <1>5, <2>2, <2>3, FinishedCovers DEF q, n
<1>10. misplaced \subseteq misplaced' /\ misplaced' \subseteq misplaced \cup {appended + 1}
  BY <1>1
<1>11. GoodPath(path', appended', misplaced')
  <2>1. e.kind = "toolResult" => \E k \in 1..Len(path) : Calls(path, k, e.ref)
    BY <1>5
  <2>2. e.kind = "compaction" => CleanAt(path, e.ref)
    BY <1>3, <1>5
  <2>3. InPlace(Append(path, e), Len(path) + 1, misplaced') => Covers(Append(path, e), Len(path) + 1, e.ref, {})
    BY <1>9 DEF q, n
  <2>4. GoodPath(Append(path, e), appended + 1, misplaced')
    BY <1>2, <1>5, <1>8, <1>10, <2>1, <2>2, <2>3, PushGood
  <2> QED BY <1>1, <2>4 DEF q
<1>12. preparation' \in Preparation /\ ~Compacting'
  BY <1>1 DEF Compacting, NothingPrepared, Preparation
<1>13. owed = 0
  BY <1>1 DEF IInv, Owes
<1>14. Owes'
  BY <1>1, <1>13 DEF Owes
<1> QED BY <1>1, <1>11, <1>12, <1>13, <1>14 DEF IInv

LEMMA OtherSteps ==
  ASSUME IInv, Interrupted \/ CancelCompaction \/ UNCHANGED vars
  PROVE  IInv'
<1>1. CASE Interrupted
  BY <1>1 DEF Interrupted, IInv, Owes, Compacting
<1>2. CASE CancelCompaction
  <2>1. /\ path' = path /\ appended' = appended /\ owed' = owed /\ misplaced' = misplaced
        /\ preparation' = NothingPrepared /\ Compacting
    BY <1>2 DEF CancelCompaction
  <2>2. preparation' \in Preparation /\ ~Compacting'
    BY <2>1 DEF Compacting, NothingPrepared, Preparation
  <2> QED BY <2>1, <2>2 DEF IInv, Owes
<1>3. CASE UNCHANGED vars
  BY <1>3 DEF vars, IInv, Owes, Compacting
<1> QED BY <1>1, <1>2, <1>3

LEMMA InitStep == Init => IInv
<1>1. SUFFICES ASSUME Init PROVE IInv
  OBVIOUS
<1>2. path = <<>> /\ appended = 0 /\ owed = 0 /\ preparation = NothingPrepared /\ misplaced = {}
  BY <1>1 DEF Init
<1>3. path \in Seq(Entry) /\ Len(path) = 0 /\ \A i \in 1..Len(path) : FALSE
  BY <1>2
<1>4. GoodPath(path, appended, misplaced)
  BY <1>2, <1>3 DEF GoodPath, Numbered, Summaries, Results, Cuts, Counts
<1>5. preparation \in Preparation /\ ~Compacting
  BY <1>2 DEF Compacting, NothingPrepared, Preparation
<1> QED BY <1>2, <1>4, <1>5 DEF IInv, Owes

LEMMA NextStep == IInv /\ [Next]_vars => IInv'
<1>1. SUFFICES ASSUME IInv, [Next]_vars PROVE IInv'
  OBVIOUS
<1>2. \A tokens \in Sizes :
        \/ UserMessage(tokens)
        \/ \E n \in 0..MaxCalls : AssistantMessage(tokens, n)
        \/ ToolResultMessage(tokens)
        \/ \E kind \in {"bash", "note"} : IdleMessage(kind, tokens)
        => IInv'
  BY <1>1, UserMessageStep, AssistantMessageStep, ToolResultMessageStep, IdleMessageStep
<1>3. \A t \in DOMAIN path, summarised \in BOOLEAN : Navigate(t, summarised) => IInv'
  BY <1>1, NavigateStep
<1> QED BY <1>1, <1>2, <1>3, SettingStep, StartCompactionStep, FinishCompactionStep, OtherSteps DEF Next

(* The inductive invariant holds in every state.                           *)
THEOREM Invariance == Spec => []IInv
<1>1. Init => IInv
  BY InitStep
<1>2. IInv /\ [Next]_vars => IInv'
  BY NextStep
<1> QED BY <1>1, <1>2, PTL DEF Spec
-----------------------------------------------------------------------------
(* The properties.                                                         *)
LEMMA IsWellTyped == IInv => TypeOK
<1>1. SUFFICES ASSUME IInv PROVE TypeOK
  OBVIOUS
<1>2. appended \in Nat /\ misplaced \subseteq 1..appended
  BY <1>1 DEF IInv, GoodPath, Numbered
<1>3. misplaced \subseteq Nat
  BY <1>2
<1> QED BY <1>1, <1>2, <1>3 DEF IInv, GoodPath, Numbered, TypeOK

(* What the last compaction says of the whole path.                        *)
LEMMA LastCompactionCovers ==
  ASSUME NEW p, NEW a, NEW m, GoodPath(p, a, m), LastCompaction(p) # 0,
         InPlace(p, LastCompaction(p), m)
  PROVE  \A i \in 1..Len(p) : HasContent(p[i]) => (i \in InContext(p) <=> p[i].id \notin Summarised(p))
<1> DEFINE c == LastCompaction(p)  n == Len(p)  Before == Known(p, c, {})
<1>1. p \in Seq(Entry) /\ a \in Nat /\ n \in Nat /\ Summaries(p) /\ Numbered(p, a) /\ DOMAIN p = 1..n
  BY DEF GoodPath, Numbered
<1>2. c \in 1..n /\ p[c].kind = "compaction" /\ \A i \in (c + 1)..n : p[i].kind # "compaction"
  <2>1. c \in 0..n /\ c # 0
    BY <1>1, LastCompactionIs
  <2> QED BY <1>1, <2>1, LastCompactionIs
<1>3. \A x : x \in Before <=> \E i \in 1..c : x \in p[i].summary
  BY DEF Known
<1>4. \A x : x \in Summarised(p) <=> \E i \in 1..n : x \in p[i].summary
  BY <1>1 DEF Summarised
<1>5. \A i \in 1..n : i \in InContext(p) <=>
        HasContent(p[i]) /\ (c = 0 \/ i > c \/ \E k \in IndexOf(p, p[c].ref) : k <= i)
  BY <1>1 DEF InContext
<1>6. \A k : k \in IndexOf(p, p[c].ref) <=> k \in 1..n /\ p[k].id = p[c].ref
  BY <1>1 DEF IndexOf
<1>7. Covers(p, c, p[c].ref, {})
  BY <1>2 DEF GoodPath, Counts
<1>8. PICK r \in 1..c : p[r].id = p[c].ref /\ \A j \in 1..c : HasContent(p[j]) => (j < r <=> p[j].id \in Before)
  BY <1>7 DEF Covers, Before
<1> HIDE DEF c, n, Before
<1>9. r \in 1..n /\ r <= c /\ \A k \in 1..n : p[k].id = p[r].id => k = r
  BY <1>1, <1>2, <1>8 DEF Numbered, n
<1>10. \A i \in 1..n : i \in InContext(p) <=> HasContent(p[i]) /\ (i > c \/ r <= i)
  <2>1. \A k : k \in IndexOf(p, p[c].ref) <=> k = r
    BY <1>6, <1>8, <1>9
  <2> QED BY <1>2, <1>5, <2>1
<1>11. \A x : x \in Summarised(p) <=> x \in Before
  <2>1. \A i \in 1..c : i \in 1..n
    BY <1>1, <1>2
  <2>2. ASSUME NEW i \in 1..n, ~(i \in 1..c) PROVE p[i].summary = {}
    <3>1. i \in (c + 1)..n
      BY <1>1, <1>2, <2>2
    <3> QED BY <1>1, <1>2, <3>1 DEF Summaries, Earlier, n
  <2> QED BY <1>3, <1>4, <2>1, <2>2
<1>12. ASSUME NEW i \in 1..n, i > c PROVE p[i].id \notin Before
  <2>1. SUFFICES ASSUME NEW j \in 1..c, p[i].id \in p[j].summary PROVE FALSE
    BY <1>3
  <2>2. j \in 1..n /\ j < i
    BY <1>1, <1>2, <1>12
  <2>3. p[j].id \in 1..a /\ p[i].id \in 1..a /\ p[j].id < p[i].id
    BY <1>1, <2>2 DEF Numbered, n
  <2>4. p[i].id \in 1..(p[j].id - 1)
    BY <1>1, <2>1, <2>2 DEF Summaries, Earlier, n
  <2> QED BY <1>1, <2>3, <2>4
<1>13. ASSUME NEW i \in 1..n, HasContent(p[i]) PROVE i \in InContext(p) <=> p[i].id \notin Summarised(p)
  <2>1. CASE i > c
    BY <1>10, <1>11, <1>12, <1>13, <2>1
  <2>2. CASE i <= c
    <3>1. i \in 1..c
      BY <1>1, <1>2, <2>2
    <3>2. i < r <=> p[i].id \in Before
      BY <1>8, <1>13, <3>1
    <3>3. i < r <=> ~(i > c \/ r <= i)
      BY <1>2, <1>9, <2>2
    <3> QED BY <1>10, <1>11, <1>13, <3>2, <3>3
  <2> QED BY <1>2, <2>1, <2>2
<1> QED BY <1>13 DEF n

LEMMA AllAccounted == IInv => EveryMessageAccounted
<1>1. SUFFICES ASSUME IInv, \A i \in DOMAIN path : path[i].id \notin misplaced,
                      NEW i \in DOMAIN path, HasContent(path[i])
      PROVE  i \in InContext(path) <=> path[i].id \notin Summarised(path)
  BY IsWellTyped DEF EveryMessageAccounted
<1>2. GoodPath(path, appended, misplaced) /\ path \in Seq(Entry) /\ Len(path) \in Nat /\ DOMAIN path = 1..Len(path)
  BY <1>1 DEF IInv, GoodPath, Numbered
<1>3. LastCompaction(path) \in 0..Len(path)
  BY <1>2, LastCompactionIs
<1>4. CASE LastCompaction(path) = 0
  <2>1. \A j \in 1..Len(path) : path[j].kind # "compaction"
    BY <1>2, <1>4, LastCompactionIs
  <2>2. \A j \in 1..Len(path) : path[j].summary = {}
    BY <1>2, <2>1 DEF GoodPath, Summaries, Earlier
  <2>3. path[i].id \notin Summarised(path)
    BY <1>2, <2>2 DEF Summarised
  <2>4. i \in InContext(path)
    BY <1>1, <1>4 DEF InContext
  <2> QED BY <2>3, <2>4
<1>5. CASE LastCompaction(path) # 0
  <2>1. InPlace(path, LastCompaction(path), misplaced)
    <3>1. \A j \in 1..LastCompaction(path) : j \in 1..Len(path)
      BY <1>2, <1>3
    <3> QED BY <1>1, <1>2, <3>1 DEF InPlace
  <2> QED BY <1>1, <1>2, <1>5, <2>1, LastCompactionCovers
<1> QED BY <1>4, <1>5

(* However often a session is compacted, and whatever is appended or       *)
(* navigated to while a summary is made (prepareCompaction,                *)
(* appendCompaction, buildSessionContext), every message of the path is    *)
(* sent to the model or accounted for in a summary, and none is both.      *)
THEOREM Accounted == Spec => []EveryMessageAccounted
<1> QED BY AllAccounted, Invariance, PTL

LEMMA CallsAreSent == IInv => ResultsFollowTheirCall
<1>1. SUFFICES ASSUME IInv, NEW i \in InContext(path), path[i].kind = "toolResult"
      PROVE  \E k \in InContext(path) : k < i /\ path[k].id = path[i].ref
  BY DEF ResultsFollowTheirCall
<1> DEFINE c == LastCompaction(path)
<1>2. /\ GoodPath(path, appended, misplaced) /\ path \in Seq(Entry)
      /\ Len(path) \in Nat /\ DOMAIN path = 1..Len(path)
  BY <1>1 DEF IInv, GoodPath, Numbered
<1>3. c \in 0..Len(path) /\ (c # 0 => path[c].kind = "compaction")
  BY <1>2, LastCompactionIs
<1>4. \A k \in 1..Len(path) : k \in InContext(path) <=>
        HasContent(path[k]) /\ (c = 0 \/ k > c \/ \E r \in IndexOf(path, path[c].ref) : r <= k)
  BY <1>2 DEF InContext
<1>5. i \in 1..Len(path)
  BY <1>1, <1>2 DEF InContext
<1>6. PICK k \in 1..(i - 1) :
             path[k].id = path[i].ref /\ path[k].kind = "assistant" /\ OnlyBetween(path, k + 1, i - 1)
  BY <1>1, <1>2, <1>5 DEF GoodPath, Results
<1>7. k \in 1..Len(path) /\ k < i /\ HasContent(path[k])
  BY <1>2, <1>5, <1>6 DEF HasContent, IsMessage, MessageKinds
<1> HIDE DEF c
<1>8. ASSUME c # 0, i > c PROVE k > c
  <2>1. k # c
    BY <1>3, <1>6, <1>8
  <2>2. ~(c \in (k + 1)..(i - 1))
    BY <1>3, <1>6, <1>8 DEF OnlyBetween
  <2> QED BY <1>2, <1>3, <1>5, <1>7, <1>8, <2>1, <2>2
<1>9. ASSUME c # 0, NEW r \in IndexOf(path, path[c].ref), r <= i PROVE r <= k
  <2>1. r \in 1..Len(path) /\ path[r].id = path[c].ref
    BY <1>2 DEF IndexOf
  <2>2. Clean(path, r)
    BY <1>2, <1>3, <1>9, <2>1 DEF GoodPath, Cuts, CleanAt
  <2> QED BY <1>1, <1>5, <1>6, <1>7, <1>9, <2>1, <2>2 DEF Clean
<1>10. k \in InContext(path)
  BY <1>1, <1>4, <1>5, <1>7, <1>8, <1>9
<1> QED BY <1>6, <1>7, <1>10

(* No tool result reaches the model without the assistant message it       *)
(* answers, wherever a compaction cuts and whatever it is appended behind  *)
(* (findValidCutPoints, "Never cut at tool results").                      *)
THEOREM CallsKept == Spec => []ResultsFollowTheirCall
<1> QED BY CallsAreSent, Invariance, PTL
-----------------------------------------------------------------------------
(* The tokens from an entry to the end.  The recursive function exists:    *)
(* its ends do.                                                            *)
Size(e) == IF IsMessage(e) THEN e.tokens ELSE 0
IsSum(f, p, from) ==
  f = [j \in from..(Len(p) + 1) |-> IF j > Len(p) THEN 0 ELSE f[j + 1] + Size(p[j])]

LEMMA SumExists ==
  ASSUME NEW p \in Seq(Entry), NEW d \in Nat, d <= Len(p)
  PROVE  \E f : IsSum(f, p, Len(p) + 1 - d)
<1> DEFINE n == Len(p)  T == {h \in Nat : h <= n /\ ~\E f : IsSum(f, p, n + 1 - h)}
<1>0. n \in Nat
  OBVIOUS
<1>1. SUFFICES ASSUME T # {} PROVE FALSE
  OBVIOUS
<1>2. PICK m \in T : \A l \in T : m <= l
  BY <1>1, Least
<1> DEFINE from == n + 1 - m
<1>3. from \in 1..(n + 1) /\ m \in Nat
  BY <1>0, <1>2
<1> HIDE DEF n
<1>4. CASE m = 0
  <2> DEFINE g == [l \in (n + 1)..(n + 1) |-> 0]
  <2>1. \A l \in (n + 1)..(n + 1) : l > n
    BY <1>0
  <2>2. g = [l \in (n + 1)..(n + 1) |-> IF l > n THEN 0 ELSE g[l + 1] + Size(p[l])]
    BY <2>1
  <2>3. IsSum(g, p, n + 1 - m)
    BY <1>0, <1>4, <2>2 DEF IsSum, n
  <2> QED BY <1>2, <2>3
<1>5. CASE m # 0
  <2>0. m - 1 \in Nat /\ m - 1 < m /\ m - 1 <= n /\ n + 1 - (m - 1) = from + 1
    BY <1>0, <1>2, <1>3, <1>5
  <2>1. m - 1 \in Nat /\ m - 1 \notin T /\ m - 1 <= n /\ n + 1 - (m - 1) = from + 1
    <3>1. \A l \in T : m <= l
      BY <1>2
    <3> HIDE DEF T
    <3>2. m - 1 \notin T
      BY <1>3, <2>0, <3>1
    <3> QED BY <2>0, <3>2
  <2>2. PICK h : IsSum(h, p, from + 1)
    BY <2>1
  <2> DEFINE g == [l \in from..(n + 1) |-> IF l = from THEN h[from + 1] + Size(p[from]) ELSE h[l]]
  <2>3. \A l \in (from + 1)..(n + 1) : h[l] = IF l > n THEN 0 ELSE h[l + 1] + Size(p[l])
    BY <2>2 DEF IsSum, n
  <2>4. ASSUME NEW l \in from..(n + 1) PROVE g[l] = IF l > n THEN 0 ELSE g[l + 1] + Size(p[l])
    <3>1. CASE l = from
      <4>1. l + 1 \in from..(n + 1) /\ l + 1 # from /\ ~(l > n)
        BY <1>0, <1>2, <1>5, <3>1
      <4>2. g[l + 1] = h[from + 1] /\ g[l] = h[from + 1] + Size(p[from])
        BY <3>1, <4>1
      <4> QED BY <3>1, <4>1, <4>2
    <3>2. CASE l # from
      <4>1. l \in (from + 1)..(n + 1) /\ (~(l > n) => l + 1 \in from..(n + 1) /\ l + 1 # from)
        BY <1>0, <1>3, <3>2
      <4>2. g[l] = h[l] /\ (~(l > n) => g[l + 1] = h[l + 1])
        BY <3>2, <4>1
      <4> QED BY <2>3, <4>1, <4>2
    <3> QED BY <3>1, <3>2
  <2>5. g = [l \in from..(n + 1) |-> g[l]]
    OBVIOUS
  <2> HIDE DEF g
  <2>6. IsSum(g, p, from)
    BY <2>4, <2>5 DEF IsSum, n
  <2> QED BY <1>2, <2>6
<1> QED BY <1>4, <1>5

LEMMA TokensAre ==
  ASSUME NEW p \in Seq(Entry)
  PROVE  /\ TokensFrom(p, Len(p) + 1) = 0
         /\ \A j \in 1..Len(p) : TokensFrom(p, j) = TokensFrom(p, j + 1) + Size(p[j])
<1> DEFINE n == Len(p)
<1>1. n \in Nat
  OBVIOUS
<1>2. PICK f : IsSum(f, p, 1)
  <2>1. \E f : IsSum(f, p, n + 1 - n)
    BY <1>1, SumExists
  <2>2. n + 1 - n = 1
    BY <1>1
  <2> QED BY <2>1, <2>2
<1>3. PICK g : IsSum(g, p, 1) /\ \A j : TokensFrom(p, j) = g[j]
  <2> DEFINE G == CHOOSE g : g = [j \in 1..(n + 1) |-> IF j > n THEN 0 ELSE g[j + 1] + (IF IsMessage(p[j]) THEN p[j].tokens ELSE 0)]
  <2>1. f = [j \in 1..(n + 1) |-> IF j > n THEN 0 ELSE f[j + 1] + (IF IsMessage(p[j]) THEN p[j].tokens ELSE 0)]
    BY <1>2 DEF IsSum, Size
  <2>2. G = [j \in 1..(n + 1) |-> IF j > n THEN 0 ELSE G[j + 1] + (IF IsMessage(p[j]) THEN p[j].tokens ELSE 0)]
    BY <2>1
  <2>3. \A j : TokensFrom(p, j) = G[j]
    BY DEF TokensFrom
  <2> HIDE DEF G
  <2>4. IsSum(G, p, 1)
    BY <2>2 DEF IsSum, Size
  <2> QED BY <2>3, <2>4
<1> HIDE DEF n
<1>4. \A j \in 1..(n + 1) : g[j] = IF j > n THEN 0 ELSE g[j + 1] + Size(p[j])
  BY <1>3 DEF IsSum, n
<1>5. n + 1 \in 1..(n + 1) /\ n + 1 > n /\ \A j \in 1..n : j \in 1..(n + 1) /\ ~(j > n)
  BY <1>1
<1>6. g[n + 1] = 0 /\ \A j \in 1..n : g[j] = g[j + 1] + Size(p[j])
  BY <1>4, <1>5
<1> QED BY <1>3, <1>6 DEF n

LEMMA TokensAreNat ==
  ASSUME NEW p \in Seq(Entry)
  PROVE  \A j \in 1..(Len(p) + 1) : TokensFrom(p, j) \in Nat
<1> DEFINE n == Len(p)  T == {d \in Nat : d <= n /\ TokensFrom(p, n + 1 - d) \notin Nat}
<1>1. n \in Nat
  OBVIOUS
<1>2. TokensFrom(p, n + 1) = 0 /\ \A j \in 1..n : TokensFrom(p, j) = TokensFrom(p, j + 1) + Size(p[j])
  BY TokensAre
<1>3. \A j \in 1..n : Size(p[j]) \in Nat
  <2>1. \A j \in 1..n : p[j] \in Entry
    OBVIOUS
  <2> QED BY <2>1 DEF Size, Entry
<1> HIDE DEF n
<1>4. T = {}
  <2>1. SUFFICES ASSUME T # {} PROVE FALSE
    OBVIOUS
  <2>2. PICK d \in T : \A l \in T : d <= l
    BY <2>1, Least
  <2>3. d # 0
    BY <1>1, <1>2, <2>2
  <2>4. d - 1 \in Nat /\ d - 1 <= n /\ d - 1 \notin T /\ n + 1 - d \in 1..n /\ n + 1 - (d - 1) = (n + 1 - d) + 1
    BY <1>1, <2>2, <2>3
  <2>5. TokensFrom(p, (n + 1 - d) + 1) \in Nat
    BY <2>4
  <2>6. TokensFrom(p, n + 1 - d) = TokensFrom(p, (n + 1 - d) + 1) + Size(p[n + 1 - d]) /\ Size(p[n + 1 - d]) \in Nat
    BY <1>2, <1>3, <2>4
  <2> QED BY <2>2, <2>5, <2>6
<1>5. ASSUME NEW j \in 1..(n + 1) PROVE TokensFrom(p, j) \in Nat
  <2>1. n + 1 - j \in Nat /\ n + 1 - j <= n /\ n + 1 - (n + 1 - j) = j
    BY <1>1
  <2>2. n + 1 - j \notin T
    BY <1>4
  <2> QED BY <2>1, <2>2
<1> QED BY <1>5 DEF n

(* Fewer entries, fewer tokens.                                            *)
LEMMA TokensFall ==
  ASSUME NEW p \in Seq(Entry), NEW i \in 1..(Len(p) + 1), NEW j \in 1..(Len(p) + 1), i <= j
  PROVE  TokensFrom(p, j) <= TokensFrom(p, i)
<1> DEFINE n == Len(p)  T == {d \in Nat : d < j /\ ~(TokensFrom(p, j) <= TokensFrom(p, j - d))}
<1>1. n \in Nat /\ i \in Nat /\ j \in Nat
  OBVIOUS
<1>2. \A k \in 1..(n + 1) : TokensFrom(p, k) \in Nat
  BY TokensAreNat
<1>3. \A k \in 1..n : TokensFrom(p, k) = TokensFrom(p, k + 1) + Size(p[k]) /\ Size(p[k]) \in Nat
  <2>1. \A k \in 1..n : p[k] \in Entry
    OBVIOUS
  <2> QED BY <2>1, TokensAre DEF Size, Entry
<1>4. j <= n + 1
  OBVIOUS
<1> HIDE DEF n
<1>5. T = {}
  <2>1. SUFFICES ASSUME T # {} PROVE FALSE
    OBVIOUS
  <2>2. PICK d \in T : \A l \in T : d <= l
    BY <2>1, Least
  <2>3. j \in 1..(n + 1)
    BY <1>1, <1>4
  <2>4. d # 0
    BY <1>1, <1>2, <2>2, <2>3
  <2>5. d - 1 \in Nat /\ d - 1 < j /\ d - 1 \notin T /\ j - d \in 1..n /\ j - (d - 1) = (j - d) + 1
    BY <1>1, <1>4, <2>2, <2>4
  <2>6. TokensFrom(p, j) <= TokensFrom(p, (j - d) + 1)
    BY <2>5
  <2>7. /\ TokensFrom(p, j - d) = TokensFrom(p, (j - d) + 1) + Size(p[j - d]) /\ Size(p[j - d]) \in Nat
        /\ TokensFrom(p, (j - d) + 1) \in Nat /\ TokensFrom(p, j) \in Nat
    <3>1. (j - d) + 1 \in 1..(n + 1)
      BY <1>1, <2>5
    <3> QED BY <1>2, <1>3, <2>3, <2>5, <3>1
  <2>8. TokensFrom(p, j) <= TokensFrom(p, j - d)
    BY <2>6, <2>7
  <2> QED BY <2>2, <2>8
<1>6. j - i \in Nat /\ j - i < j /\ j - (j - i) = i
  BY <1>1
<1>7. j - i \notin T
  BY <1>5
<1> QED BY <1>6, <1>7

(* Where there are tokens, there is a message from which they all count.   *)
LEMMA TokensAreMessages ==
  ASSUME NEW p \in Seq(Entry), NEW i \in 1..(Len(p) + 1), TokensFrom(p, i) > 0
  PROVE  \E y \in i..Len(p) : IsMessage(p[y]) /\ TokensFrom(p, y) = TokensFrom(p, i)
<1> DEFINE n == Len(p)
           T == {k \in Nat : k \in i..(n + 1) /\ TokensFrom(p, k) # TokensFrom(p, i)}
<1>1. n \in Nat /\ i \in Nat /\ i <= n + 1 /\ 1 <= i
  OBVIOUS
<1>2. TokensFrom(p, n + 1) = 0 /\ \A k \in 1..n : TokensFrom(p, k) = TokensFrom(p, k + 1) + Size(p[k])
  BY TokensAre
<1>3. \A k \in 1..(n + 1) : TokensFrom(p, k) \in Nat
  BY TokensAreNat
<1> HIDE DEF n
<1>4. n + 1 \in T
  BY <1>1, <1>2
<1>5. PICK k \in T : \A l \in T : k <= l
  BY <1>4, Least
<1>6. k # i /\ k \in i..(n + 1)
  BY <1>5
<1>7. k - 1 \in i..n /\ k - 1 \in i..(n + 1) /\ k - 1 \in Nat /\ k - 1 \notin T /\ k - 1 \in 1..n /\ (k - 1) + 1 = k
  BY <1>1, <1>5, <1>6
<1>8. TokensFrom(p, k - 1) = TokensFrom(p, i) /\ TokensFrom(p, k - 1) = TokensFrom(p, k) + Size(p[k - 1])
  BY <1>2, <1>7
<1>9. IsMessage(p[k - 1])
  <2>1. SUFFICES ASSUME ~IsMessage(p[k - 1]) PROVE FALSE
    OBVIOUS
  <2>2. Size(p[k - 1]) = 0
    BY <2>1 DEF Size
  <2>3. TokensFrom(p, k) \in Nat
    BY <1>1, <1>3, <1>6
  <2> QED BY <1>5, <1>8, <2>2, <2>3
<1> QED BY <1>7, <1>8, <1>9 DEF n

(* A cut keeps no more than it was asked to.                               *)
LEMMA CutKeepsLittle ==
  ASSUME NEW p \in Seq(Entry), NEW start \in 1..Len(p),
         NEW j \in findValidCutPoints(p, start), TokensFrom(p, j) < KeepRecentTokens,
         NEW m \in CutIndex(p, start)..Len(p), IsMessage(p[m]),
         \A k \in CutIndex(p, start)..(m - 1) : ~IsMessage(p[k])
  PROVE  TokensFrom(p, m + 1) < KeepRecentTokens
<1> DEFINE cuts == findValidCutPoints(p, start)
           full == {i \in start..Len(p) : IsMessage(p[i]) /\ TokensFrom(p, i) >= KeepRecentTokens}
           late == {i \in cuts : i >= Max(full)}
           after == CutAtOrAfter(p, start)
           cut == CutIndex(p, start)
<1>1. Len(p) \in Nat /\ start \in Nat /\ cuts \subseteq start..Len(p) /\ j \in cuts
  BY DEF findValidCutPoints
<1>2. /\ after = IF full = {} THEN Min(cuts) ELSE IF late = {} THEN Min(cuts) ELSE Min(late)
      /\ late \subseteq cuts /\ \A i \in cuts : i \in late <=> i >= Max(full)
  BY DEF CutAtOrAfter, MinOr
<1>3. \A i : i \in full <=> i \in start..Len(p) /\ IsMessage(p[i]) /\ TokensFrom(p, i) >= KeepRecentTokens
  OBVIOUS
<1>4. cut \in start..Len(p) /\ after \in cuts /\ cut <= after /\ \A k \in cut..(after - 1) : ~IsMessage(p[k])
  BY <1>1, CutIs
<1>5. \A i \in 1..(Len(p) + 1) : TokensFrom(p, i) \in Nat
  BY TokensAreNat
<1>6. m \in start..Len(p) /\ m \in cut..Len(p) /\ KeepRecentTokens \in Nat
  BY <1>1, <1>4, TokenAssumption
<1> HIDE DEF cuts, full, late, after, cut
<1>7. SUFFICES ASSUME TokensFrom(p, m + 1) >= KeepRecentTokens PROVE FALSE
  BY <1>1, <1>5, <1>6
<1>8. j \in 1..Len(p) /\ m \in 1..Len(p) /\ m \in 1..(Len(p) + 1) /\ m + 1 \in 1..(Len(p) + 1) /\ j \in 1..(Len(p) + 1)
  BY <1>1, <1>6
<1>9. KeepRecentTokens > 0
  BY <1>5, <1>6, <1>8
<1>10. m \in full
  <2>1. TokensFrom(p, m + 1) <= TokensFrom(p, m)
    BY <1>8, TokensFall
  <2> QED BY <1>3, <1>5, <1>6, <1>7, <1>8, <2>1
<1>11. PICK y \in (m + 1)..Len(p) : IsMessage(p[y]) /\ TokensFrom(p, y) = TokensFrom(p, m + 1)
  BY <1>5, <1>6, <1>7, <1>8, <1>9, TokensAreMessages
<1>12. y \in full
  BY <1>1, <1>3, <1>6, <1>7, <1>11
<1>13. Max(full) \in full /\ \A i \in full : Max(full) >= i
  <2>1. full \subseteq 0..Len(p)
    BY <1>1, <1>3
  <2> QED BY <1>1, <1>10, <2>1, MaxIs
<1>14. PICK F \in start..Len(p) : F = Max(full) /\ F \in full /\ y <= F
  BY <1>3, <1>12, <1>13
<1>15. j > F
  <2>1. SUFFICES ASSUME j <= F PROVE FALSE
    BY <1>1, <1>14
  <2>2. F \in 1..(Len(p) + 1)
    BY <1>1, <1>14
  <2>3. TokensFrom(p, F) <= TokensFrom(p, j)
    BY <1>8, <2>1, <2>2, TokensFall
  <2> QED BY <1>3, <1>5, <1>6, <1>8, <1>14, <2>2, <2>3
<1>16. late # {} /\ full # {}
  BY <1>1, <1>2, <1>10, <1>14, <1>15
<1>17. after \in late
  <2>1. late \subseteq Nat
    BY <1>1, <1>2
  <2> QED BY <1>2, <1>16, <2>1, MinIs
<1>18. after >= F
  BY <1>2, <1>14, <1>17
<1>19. after \in start..Len(p)
  BY <1>1, <1>4
<1>20. m >= after
  <2>1. ~(m \in cut..(after - 1))
    BY <1>4
  <2> QED BY <1>1, <1>4, <1>6, <1>19, <2>1
<1> QED BY <1>1, <1>6, <1>11, <1>14, <1>18, <1>19, <1>20

(* A compaction keeps no more than it was asked to (findCutPoint), unless  *)
(* every place it may cut at keeps more.                                   *)
THEOREM KeepsLittle == Spec => KeepsNoMoreThanAsked
<1> DEFINE A == ~Compacting /\ Compacting' =>
       \/ \A j \in findValidCutPoints(path, BoundaryStart(path)) :
            TokensFrom(path, j) >= KeepRecentTokens
       \/ \A f \in IndexOf(path, preparation'.first) : \A m \in f..Len(path) :
            IsMessage(path[m]) /\ (\A k \in f..(m - 1) : ~IsMessage(path[k])) =>
              TokensFrom(path, m + 1) < KeepRecentTokens
<1>1. IInv /\ [Next]_vars => [A]_vars
  <2>1. SUFFICES ASSUME IInv, [Next]_vars, ~Compacting, Compacting',
                        NEW j \in findValidCutPoints(path, BoundaryStart(path)),
                        ~(TokensFrom(path, j) >= KeepRecentTokens),
                        NEW f \in IndexOf(path, preparation'.first), NEW m \in f..Len(path),
                        IsMessage(path[m]), \A k \in f..(m - 1) : ~IsMessage(path[k])
        PROVE  TokensFrom(path, m + 1) < KeepRecentTokens
    OBVIOUS
  <2>2. preparation' # preparation
    BY <2>1 DEF Compacting
  <2>3. StartCompaction
    BY <2>1, <2>2 DEF Next, vars, UserMessage, AssistantMessage, ToolResultMessage, IdleMessage,
      Setting, Interrupted, Navigate, FinishCompaction, CancelCompaction, Compacting
  <2> DEFINE s == BoundaryStart(path)  cut == CutIndex(path, s)
  <2>4. preparation' = Prepared(path) /\ path # <<>> /\ path[Len(path)].kind # "compaction"
    BY <2>3 DEF StartCompaction
  <2>5. /\ GoodPath(path, appended, misplaced) /\ Numbered(path, appended) /\ Summaries(path)
        /\ path \in Seq(Entry) /\ Len(path) \in Nat /\ DOMAIN path = 1..Len(path)
    BY <2>1 DEF IInv, GoodPath, Numbered
  <2>6. s \in 1..Len(path)
    BY <2>4, <2>5, BoundaryIs
  <2>7. cut \in s..Len(path)
    BY <2>5, <2>6, CutIs
  <2>8. preparation'.first = path[cut].id
    BY <2>4, <2>5, PreparedIs
  <2>9. f \in 1..Len(path) /\ path[f].id = path[cut].id
    BY <2>5, <2>8 DEF IndexOf
  <2>10. f = cut
    BY <2>5, <2>6, <2>7, <2>9 DEF Numbered
  <2>11. TokensFrom(path, j) < KeepRecentTokens
    <3>1. j \in 1..Len(path) /\ j \in 1..(Len(path) + 1)
      BY <2>5, <2>6 DEF findValidCutPoints
    <3> QED BY <2>1, <2>5, <3>1, TokensAreNat, TokenAssumption
  <2> QED BY <2>1, <2>5, <2>6, <2>10, <2>11, CutKeepsLittle
<1>2. Spec => [][A]_vars
  BY <1>1, Invariance, PTL DEF Spec
<1> QED BY <1>2 DEF KeepsNoMoreThanAsked
=============================================================================
