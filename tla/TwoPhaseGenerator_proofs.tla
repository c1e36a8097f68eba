---------------------- MODULE TwoPhaseGenerator_proofs ----------------------
(***************************************************************************)
(* The generator keeps its tensors in step, for every size of the batch    *)
(* and the beam and whichever candidates the searches find: a hypothesis   *)
(* is made of the numbers of its own sentence, there are beam_size         *)
(* different ones of every sentence, nothing follows an end of sentence,   *)
(* and no assertion fails.                                                 *)
(***************************************************************************)
EXTENDS TwoPhaseGenerator, FiniteSetTheorems, SequenceTheorems, TLAPS

IsSequence(s) == \E S : s \in Seq(S)

Searching == phase \in {"aux", "tgt", "single"}

\* The sentences that are not finished, in the order of the batch, and their rows.
Unfinished == {s \in Sentences : ~ finished[s]}
Places     == 1 .. Cardinality(Unfinished)
Place(i)   == Ascending(Unfinished)[i]
Rows       == 1 .. Cardinality(Unfinished) * beam_size

Transcripts == IF size.two_phase /\ phase \in {"tgt", "done"} THEN 1 .. beam_size ELSE {0}

\* What a decoder can have seen before it continues the given tokens.
Sources(s, aux) == {Encoder(s)} \cup (IF aux = 0 THEN {} ELSE {Transcript(s, aux)})
Known(s, aux, tokens) == [of |-> Sources(s, aux), toks |-> tokens]
Numbers(s, aux, tokens, l) == [n \in 1 .. l |-> Known(s, aux, SubSeq(tokens, 1, n))]

HypothesisRight(s, h) ==
  /\ h.aux \in Transcripts /\ h.toks \in Seq(Nat)
  /\ Own(s, h.aux, h.toks, h.tags) /\ Own(s, h.aux, h.toks, h.scores)
  /\ phase \in {"aux", "nbest"} => Own(s, 0, h.toks, h.outs)

\* The hypotheses found so far; those of a search in progress are as short as its steps.
HypothesesInv ==
  /\ finalized = [s \in Sentences |-> finalized[s]]
  /\ \A s \in Sentences :
       /\ IsSequence(finalized[s]) /\ Len(finalized[s]) <= beam_size
       /\ \A n \in 1 .. Len(finalized[s]) :
            /\ HypothesisRight(s, finalized[s][n])
            /\ Searching => Len(finalized[s][n].toks) <= step
  /\ HypothesesDiffer

\* The models' row r and the row b of the buffers belong to sentence s after l steps.
Right(r, b, s, l, transcripts) ==
  /\ b.tokens \in Seq(Nat) /\ Len(b.tokens) = l + 1
  /\ b.tokens[1] = Eos /\ \A n \in 2 .. l + 1 : b.tokens[n] # Eos
  /\ r.enc = s /\ r.aux \in transcripts
  /\ r.cache.of \subseteq Sources(s, r.aux)
  /\ r.cache.toks = SubSeq(b.tokens, 1, l)
  /\ b.scores = Numbers(s, r.aux, b.tokens, l)
  /\ b.tags   = Numbers(s, r.aux, b.tokens, l)
  /\ r.outs   = Numbers(s, r.aux, b.tokens, l)

RowRight(row) == Right(Reordered[row], buf[row], Place(SentOf(row)), step, Transcripts)

\* The beams of a sentence differ: by their transcripts from the start, otherwise by their
\* tokens after the first step, at which FirstBeam looks at one of them only.
RowsDiffer ==
  step > 0 \/ phase = "tgt" =>
    \A p, q \in Rows : p # q /\ SentOf(p) = SentOf(q) =>
      Reordered[p].aux # Reordered[q].aux \/ buf[p].tokens # buf[q].tokens

SearchInv ==
  /\ finished \in [Sentences -> BOOLEAN] /\ Unfinished # {}
  /\ \A s \in Sentences :
       IF finished[s] THEN Len(finalized[s]) = beam_size ELSE Len(finalized[s]) < beam_size
  /\ IsSequence(buf) /\ Len(buf) = Cardinality(Unfinished) * beam_size
  /\ IsSequence(ignorelist) /\ Len(ignorelist) = Cardinality(Unfinished)
  /\ \A i \in Places : \A b \in 1 .. beam_size : ~ ignorelist[i][b]
  /\ reorder_state = << >> \/ (IsSequence(reorder_state) /\ Len(reorder_state) = Len(buf))
  /\ batch_idxs = << >> \/ (IsSequence(batch_idxs) /\ Len(batch_idxs) = Cardinality(Unfinished))
  /\ \A row \in DOMAIN reorder_state : Corrected(row) \in DOMAIN net
  /\ \A row \in Rows : RowRight(row)
  /\ RowsDiffer

GeneratorInv ==
  /\ size \in Sizes /\ phase \in {"aux", "nbest", "tgt", "single", "done"}
  /\ phase \in {"aux", "nbest", "tgt"} => size.two_phase
  /\ phase = "single" => ~ size.two_phase
  /\ step \in 0 .. max_len
  /\ HypothesesInv
  /\ Searching => SearchInv
  /\ ~ Searching => /\ EnoughHypotheses
                    /\ buf = << >> /\ reorder_state = << >> /\ batch_idxs = << >> /\ ignorelist = << >>

-----------------------------------------------------------------------------
(***************************************************************************)
(* Ascending lists the numbers of a finite set.                            *)
(***************************************************************************)

Below(S, i) == {j \in S : j < i}

\* As many numbers come before another one as its place says, and no two have one place.
LEMMA Ranks ==
  ASSUME NEW S, S \subseteq Int, IsFiniteSet(S)
  PROVE  /\ Cardinality(S) \in Nat
         /\ \A i \in S : Cardinality(Below(S, i)) \in 0 .. Cardinality(S) - 1
         /\ \A i, k \in S : i < k => Cardinality(Below(S, i)) < Cardinality(Below(S, k))
<1>1. Cardinality(S) \in Nat
  BY FS_CardinalityType
<1>2. ASSUME NEW i \in S
      PROVE  /\ IsFiniteSet(Below(S, i)) /\ Cardinality(Below(S, i)) \in Nat
             /\ Cardinality(Below(S, i)) < Cardinality(S)
  <2>1. Below(S, i) \in SUBSET S /\ i \notin Below(S, i)
    BY DEF Below
  <2>2. /\ IsFiniteSet(Below(S, i)) /\ Cardinality(Below(S, i)) <= Cardinality(S)
        /\ Cardinality(S) = Cardinality(Below(S, i)) => S = Below(S, i)
    BY <2>1, FS_Subset
  <2>3. Cardinality(Below(S, i)) \in Nat
    BY <2>2, FS_CardinalityType
  <2>. QED
    BY <1>1, <2>1, <2>2, <2>3
<1>3. ASSUME NEW i \in S, NEW k \in S, i < k
      PROVE  Cardinality(Below(S, i)) < Cardinality(Below(S, k))
  <2>1. Below(S, i) \in SUBSET Below(S, k) /\ i \in Below(S, k) /\ i \notin Below(S, i)
    <3>1. \A j \in S : j < i => j < k
      BY <1>3
    <3>2. ~ (i < i)
      OBVIOUS
    <3>. QED
      BY <1>3, <3>1, <3>2 DEF Below
  <2>2. /\ Cardinality(Below(S, i)) <= Cardinality(Below(S, k))
        /\ Cardinality(Below(S, k)) = Cardinality(Below(S, i)) => Below(S, k) = Below(S, i)
    BY <1>2, <2>1, FS_Subset
  <2>. QED
    BY <1>2, <2>1, <2>2
<1>. QED
  BY <1>1, <1>2, <1>3

\* The list has all numbers of the set, in ascending order.
LEMMA AscendingProperties ==
  ASSUME NEW S, S \subseteq Int, IsFiniteSet(S)
  PROVE  LET a == Ascending(S) IN
         /\ Cardinality(S) \in Nat
         /\ a \in [1 .. Cardinality(S) -> S] /\ a \in Seq(S) /\ Len(a) = Cardinality(S)
         /\ \A n \in 1 .. Cardinality(S) : Cardinality(Below(S, a[n])) = n - 1
         /\ \A i \in S : \E n \in 1 .. Cardinality(S) : a[n] = i
         /\ \A m, n \in 1 .. Cardinality(S) : m < n => a[m] < a[n]
<1>. DEFINE c == Cardinality(S)
            a == Ascending(S)
            rank == [i \in S |-> Cardinality(Below(S, i)) + 1]
<1>1. /\ c \in Nat
      /\ \A i \in S : Cardinality(Below(S, i)) \in 0 .. c - 1
      /\ \A i, k \in S : i < k => Cardinality(Below(S, i)) < Cardinality(Below(S, k))
  BY Ranks
<1>2. rank \in [S -> 1 .. c] /\ \A i \in S : rank[i] = Cardinality(Below(S, i)) + 1
  BY <1>1
<1>3. \A i, k \in S : rank[i] = rank[k] => i = k
  BY <1>1, <1>2
<1>4. rank \in Injection(S, 1 .. c)
  BY <1>2, <1>3, Zenon DEF Injection, IsInjective
<1>5. IsFiniteSet(1 .. c) /\ Cardinality(1 .. c) = c
  <2>1. 1 \in Int /\ c \in Int
    BY <1>1
  <2>2. /\ IsFiniteSet(1 .. c)
        /\ Cardinality(1 .. c) = IF 1 > c THEN 0 ELSE c - 1 + 1
    BY <2>1, FS_Interval
  <2>. QED
    BY <1>1, <2>2
<1>6. rank \in Surjection(S, 1 .. c)
  BY <1>4, <1>5, FS_Injection
<1>7. \A n \in 1 .. c : \E i \in S : rank[i] = n
  BY <1>6 DEF Surjection
<1>8. a = [n \in 1 .. c |-> CHOOSE i \in S : Cardinality(Below(S, i)) = n - 1]
  BY DEF Ascending, Below
<1>9. ASSUME NEW n \in 1 .. c PROVE a[n] \in S /\ Cardinality(Below(S, a[n])) = n - 1
  <2>1. PICK i \in S : rank[i] = n
    BY <1>7
  <2>2. Cardinality(Below(S, i)) = n - 1
    BY <1>1, <1>2, <2>1
  <2>3. a[n] = CHOOSE k \in S : Cardinality(Below(S, k)) = n - 1
    BY <1>8
  <2>. QED
    BY <2>2, <2>3
<1>10. a \in [1 .. c -> S]
  BY <1>8, <1>9
<1>11. a \in Seq(S) /\ Len(a) = c
  <2>. HIDE DEF a, c
  <2>. QED
    BY <1>1, <1>10
<1>12. ASSUME NEW i \in S PROVE \E n \in 1 .. c : a[n] = i
  <2>1. rank[i] \in 1 .. c /\ rank[i] = Cardinality(Below(S, i)) + 1
    BY <1>2
  <2>2. a[rank[i]] \in S /\ Cardinality(Below(S, a[rank[i]])) = rank[i] - 1
    BY <1>9, <2>1
  <2>3. rank[a[rank[i]]] = rank[i]
    BY <1>1, <1>2, <2>1, <2>2
  <2>. QED
    BY <1>3, <2>1, <2>2, <2>3
<1>13. ASSUME NEW m \in 1 .. c, NEW n \in 1 .. c, m < n PROVE a[m] < a[n]
  <2>1. a[m] \in S /\ a[n] \in S /\ a[m] \in Int /\ a[n] \in Int
    BY <1>9
  <2>2. Cardinality(Below(S, a[m])) < Cardinality(Below(S, a[n]))
    BY <1>1, <1>9, <1>13
  <2>3. CASE a[n] < a[m]
    BY <1>1, <1>9, <2>1, <2>2, <2>3
  <2>4. CASE a[n] = a[m]
    BY <1>1, <1>9, <2>1, <2>2, <2>4
  <2>. QED
    BY <2>1, <2>3, <2>4
<1>. HIDE DEF a, c
<1>. QED
  BY <1>1, <1>9, <1>10, <1>11, <1>12, <1>13 DEF a, c

\* It is the only ascending list of them.
LEMMA AscendingUnique ==
  ASSUME NEW S, S \subseteq Int, IsFiniteSet(S), NEW n \in Nat, NEW f \in [1 .. n -> S],
         \A i \in S : \E m \in 1 .. n : f[m] = i,
         \A k, m \in 1 .. n : k < m => f[k] < f[m]
  PROVE  n = Cardinality(S) /\ Ascending(S) = f
<1>1. ASSUME NEW m \in 0 .. n, NEW T, T = {f[k] : k \in 1 .. m}
      PROVE  Cardinality(T) = m
  <2>. DEFINE g == [k \in 1 .. m |-> f[k]]
  <2>1. g \in [1 .. m -> T] /\ \A k \in 1 .. m : g[k] = f[k]
    BY <1>1
  <2>2. \A k, l \in 1 .. m : g[k] = g[l] => k = l
    <3>1. \A k, l \in 1 .. m : k # l => f[k] \in Int /\ f[l] \in Int /\ f[k] # f[l]
      <4>1. SUFFICES ASSUME NEW k \in 1 .. m, NEW l \in 1 .. m, k # l
                     PROVE  f[k] \in Int /\ f[l] \in Int /\ f[k] # f[l]
        OBVIOUS
      <4>2. k \in 1 .. n /\ l \in 1 .. n /\ f[k] \in Int /\ f[l] \in Int
        <5>1. k \in 1 .. n /\ l \in 1 .. n
          OBVIOUS
        <5>2. f[k] \in S /\ f[l] \in S
          BY <5>1
        <5>. QED
          BY <5>1, <5>2
      <4>3. CASE k < l
        <5>1. f[k] < f[l]
          BY <4>2, <4>3
        <5>. QED
          BY <4>2, <5>1
      <4>4. CASE l < k
        <5>1. f[l] < f[k]
          BY <4>2, <4>4
        <5>. QED
          BY <4>2, <5>1
      <4>. QED
        BY <4>1, <4>2, <4>3, <4>4
    <3>. QED
      BY <2>1, <3>1
  <2>3. \A t \in T : \E k \in 1 .. m : g[k] = t
    BY <1>1, <2>1
  <2>4. g \in Bijection(1 .. m, T)
    BY <2>1, <2>2, <2>3, Zenon DEF Bijection, Injection, IsInjective, Surjection
  <2>5. ExistsBijection(1 .. m, T) /\ m \in Nat
    BY <2>4 DEF ExistsBijection
  <2>. QED
    BY <2>5, FS_CountingElements
<1>2. n = Cardinality(S)
  <2>1. S = {f[k] : k \in 1 .. n}
    OBVIOUS
  <2>. QED
    BY <1>1, <2>1
<1>. DEFINE a == Ascending(S)
<1>3. /\ a \in [1 .. n -> S]
      /\ \A m \in 1 .. n : Cardinality(Below(S, a[m])) = m - 1
      /\ \A i \in S : \E m \in 1 .. n : a[m] = i
      /\ \A k, m \in 1 .. n : k < m => a[k] < a[m]
  BY <1>2, AscendingProperties
<1>. HIDE DEF a
<1>4. ASSUME NEW m \in 1 .. n PROVE a[m] = f[m]
  <2>1. Below(S, f[m]) = {f[k] : k \in 1 .. m - 1}
    <3>1. ASSUME NEW k \in 1 .. n, f[k] < f[m] PROVE k \in 1 .. m - 1
      <4>1. f[k] \in Int /\ f[m] \in Int
        OBVIOUS
      <4>. QED
        BY <3>1, <4>1
    <3>2. \A k \in 1 .. m - 1 : f[k] \in S /\ f[k] < f[m]
      OBVIOUS
    <3>. QED
      BY <3>1, <3>2 DEF Below
  <2>2. m - 1 \in 0 .. n
    OBVIOUS
  <2>3. Cardinality(Below(S, f[m])) = m - 1
    BY <1>1, <2>1, <2>2
  <2>4. PICK k \in 1 .. n : a[k] = f[m]
    BY <1>3
  <2>. QED
    BY <1>3, <2>3, <2>4
<1>. QED
  BY <1>2, <1>3, <1>4 DEF a

\* The numbers up to n are listed as they are.
LEMMA AscendingInterval ==
  ASSUME NEW n \in Nat
  PROVE  Ascending(1 .. n) = [i \in 1 .. n |-> i]
<1>1. 1 \in Int /\ n \in Int
  OBVIOUS
<1>2. IsFiniteSet(1 .. n)
  BY <1>1, FS_Interval
<1>. DEFINE f == [i \in 1 .. n |-> i]
<1>3. f \in [1 .. n -> 1 .. n] /\ \A i \in 1 .. n : f[i] = i
  OBVIOUS
<1>. HIDE DEF f
<1>4. 1 .. n \subseteq Int /\ \A i \in 1 .. n : \E m \in 1 .. n : f[m] = i
  BY <1>3
<1>5. \A k, m \in 1 .. n : k < m => f[k] < f[m]
  BY <1>3
<1>. QED
  BY <1>2, <1>3, <1>4, <1>5, AscendingUnique DEF f
-----------------------------------------------------------------------------
(***************************************************************************)
(* Rows are numbered by sentence and beam.                                 *)
(***************************************************************************)

LEMMA Division ==
  ASSUME NEW B \in Nat \ {0}, NEW x \in Nat
  PROVE  /\ x \div B \in Nat /\ x % B \in 0 .. B - 1 /\ x = (x \div B) * B + (x % B)
         /\ \A q \in Nat, r \in 0 .. B - 1 : x = q * B + r => x \div B = q /\ x % B = r
<1>1. x \div B \in Nat /\ x % B \in 0 .. B - 1 /\ x = (x \div B) * B + (x % B)
  BY Z3T(30)
<1>2. ASSUME NEW q \in Nat, NEW r \in 0 .. B - 1, x = q * B + r
      PROVE  x \div B = q /\ x % B = r
  BY <1>2, Z3T(30)
<1>. QED
  BY <1>1, <1>2

\* The places and the beams of n sentences have the rows up to n * beam_size.
LEMMA RowNumbers ==
  ASSUME beam_size \in Nat \ {0}, NEW n \in Nat
  PROVE  /\ n * beam_size \in Nat /\ (n * beam_size) \div beam_size = n
         /\ \A row \in 1 .. n * beam_size :
              /\ SentOf(row) \in 1 .. n /\ BeamOf(row) \in 1 .. beam_size
              /\ RowOf(SentOf(row), BeamOf(row)) = row
         /\ \A i \in 1 .. n, b \in 1 .. beam_size :
              /\ RowOf(i, b) \in 1 .. n * beam_size
              /\ SentOf(RowOf(i, b)) = i /\ BeamOf(RowOf(i, b)) = b
<1>. DEFINE B == beam_size
<1>1. B \in Nat \ {0}
  OBVIOUS
<1>. HIDE DEF B
<1>2. n * B \in Nat /\ (n * B) \div B = n
  <2>1. n * B \in Nat /\ 0 \in 0 .. B - 1 /\ n * B = n * B + 0
    BY <1>1
  <2>. QED
    BY <1>1, <2>1, Division
<1>3. ASSUME NEW row \in 1 .. n * B
      PROVE  /\ ((row - 1) \div B) + 1 \in 1 .. n /\ ((row - 1) % B) + 1 \in 1 .. B
             /\ ((((row - 1) \div B) + 1) - 1) * B + (((row - 1) % B) + 1) = row
  <2>. DEFINE q == (row - 1) \div B
              r == (row - 1) % B
  <2>1. row - 1 \in Nat /\ row - 1 < n * B
    BY <1>2, <1>3
  <2>2. q \in Nat /\ r \in 0 .. B - 1 /\ row - 1 = q * B + r
    BY <1>1, <2>1, Division
  <2>. HIDE DEF q, r
  <2>3. q < n
    <3>1. SUFFICES ASSUME q >= n PROVE FALSE
      BY <2>2
    <3>2. q * B >= n * B
      BY <1>1, <2>2, <3>1, Z3T(30)
    <3>. QED
      BY <1>1, <1>2, <2>1, <2>2, <3>2
  <2>4. q + 1 \in 1 .. n /\ r + 1 \in 1 .. B
    BY <1>1, <2>2, <2>3
  <2>5. ((q + 1) - 1) * B + (r + 1) = row
    <3>1. (q + 1) - 1 = q
      BY <2>2
    <3>2. q * B \in Nat
      BY <1>1, <2>2
    <3>. QED
      BY <1>1, <2>2, <3>1, <3>2
  <2>. QED
    BY <2>4, <2>5 DEF q, r
<1>4. ASSUME NEW i \in 1 .. n, NEW b \in 1 .. B
      PROVE  /\ (i - 1) * B + b \in 1 .. n * B
             /\ (((i - 1) * B + b - 1) \div B) + 1 = i /\ (((i - 1) * B + b - 1) % B) + 1 = b
  <2>1. i - 1 \in Nat /\ b - 1 \in 0 .. B - 1 /\ (i - 1) * B \in Nat
    BY <1>1, <1>4
  <2>2. (i - 1) * B + B <= n * B
    BY <1>1, <1>4, Z3T(30)
  <2>3. (i - 1) * B + b \in 1 .. n * B
    BY <1>1, <1>2, <1>4, <2>1, <2>2
  <2>4. (i - 1) * B + b - 1 \in Nat /\ (i - 1) * B + b - 1 = (i - 1) * B + (b - 1)
    BY <1>1, <1>4, <2>1
  <2>5. ((i - 1) * B + b - 1) \div B = i - 1 /\ ((i - 1) * B + b - 1) % B = b - 1
    <3>. DEFINE x == (i - 1) * B + b - 1
                q == i - 1
                r == b - 1
    <3>1. x \in Nat /\ q \in Nat /\ r \in 0 .. B - 1 /\ x = q * B + r
      BY <2>1, <2>4
    <3>. HIDE DEF x, q, r
    <3>2. x \div B = q /\ x % B = r
      BY <1>1, <3>1, Division
    <3>. QED
      BY <3>2 DEF x, q, r
  <2>. QED
    BY <1>1, <1>4, <2>3, <2>5
<1>. QED
  BY <1>2, <1>3, <1>4 DEF B, SentOf, BeamOf, RowOf

-----------------------------------------------------------------------------
(***************************************************************************)
(* Sequences.                                                              *)
(***************************************************************************)

LEMMA SequenceFacts ==
  ASSUME NEW s, IsSequence(s)
  PROVE  /\ Len(s) \in Nat /\ DOMAIN s = 1 .. Len(s) /\ s = [i \in 1 .. Len(s) |-> s[i]]
         /\ s = << >> <=> Len(s) = 0
<1>1. PICK S : s \in Seq(S)
  BY DEF IsSequence
<1>. QED
  BY <1>1

LEMMA EmptySequence == IsSequence(<< >>) /\ Len(<< >>) = 0
<1>1. << >> \in Seq({})
  OBVIOUS
<1>. QED
  BY <1>1 DEF IsSequence

LEMMA FunctionSequence ==
  ASSUME NEW n \in Nat, NEW f, f = [i \in 1 .. n |-> f[i]]
  PROVE  IsSequence(f) /\ Len(f) = n
<1>. DEFINE S == {f[i] : i \in 1 .. n}
<1>1. f \in [1 .. n -> S]
  OBVIOUS
<1>. HIDE DEF S
<1>2. f \in Seq(S) /\ Len(f) = n
  BY <1>1
<1>. QED
  BY <1>2 DEF IsSequence

LEMMA SameSequence ==
  ASSUME NEW s, NEW t, IsSequence(s), IsSequence(t), Len(s) = Len(t),
         \A i \in 1 .. Len(s) : s[i] = t[i]
  PROVE  s = t
<1>1. s = [i \in 1 .. Len(s) |-> s[i]] /\ t = [i \in 1 .. Len(t) |-> t[i]]
  BY SequenceFacts
<1>. QED
  BY <1>1

LEMMA AppendedSequence ==
  ASSUME NEW s, IsSequence(s), NEW e
  PROVE  /\ IsSequence(Append(s, e)) /\ Len(Append(s, e)) = Len(s) + 1
         /\ \A i \in 1 .. Len(s) : Append(s, e)[i] = s[i]
         /\ Append(s, e)[Len(s) + 1] = e
<1>1. PICK S : s \in Seq(S)
  BY DEF IsSequence
<1>2. s \in Seq(S \cup {e}) /\ e \in S \cup {e}
  BY <1>1
<1>. DEFINE T == S \cup {e}
<1>. HIDE DEF T
<1>3. s \in Seq(T) /\ e \in T
  BY <1>2 DEF T
<1>. QED
  BY <1>3, AppendProperties DEF IsSequence

LEMMA JoinedSequence ==
  ASSUME NEW s, NEW t, IsSequence(s), IsSequence(t)
  PROVE  /\ IsSequence(s \o t) /\ Len(s \o t) = Len(s) + Len(t)
         /\ \A i \in 1 .. Len(s) + Len(t) :
              (s \o t)[i] = IF i <= Len(s) THEN s[i] ELSE t[i - Len(s)]
<1>1. PICK S : s \in Seq(S)
  BY DEF IsSequence
<1>2. PICK T : t \in Seq(T)
  BY DEF IsSequence
<1>3. s \in Seq(S \cup T) /\ t \in Seq(S \cup T)
  BY <1>1, <1>2
<1>. DEFINE U == S \cup T
<1>. HIDE DEF U
<1>4. s \in Seq(U) /\ t \in Seq(U)
  BY <1>3 DEF U
<1>. QED
  BY <1>4, ConcatProperties DEF IsSequence

LEMMA CutSequence ==
  ASSUME NEW s, IsSequence(s), NEW n \in 0 .. Len(s)
  PROVE  /\ IsSequence(SubSeq(s, 1, n)) /\ Len(SubSeq(s, 1, n)) = n
         /\ \A i \in 1 .. n : SubSeq(s, 1, n)[i] = s[i]
<1>1. PICK S : s \in Seq(S)
  BY DEF IsSequence
<1>2. Len(s) \in Nat /\ DOMAIN s = 1 .. Len(s) /\ \A i \in 1 .. Len(s) : s[i] \in S
  BY <1>1
<1>3. 1 \in Int /\ n \in Int /\ n - 1 + 1 = n /\ \A i \in 1 .. n : s[i] \in S /\ 1 + i - 1 = i
  BY <1>2
<1>4. /\ SubSeq(s, 1, n) \in Seq(S)
      /\ Len(SubSeq(s, 1, n)) = IF 1 <= n THEN n - 1 + 1 ELSE 0
      /\ \A i \in 1 .. n - 1 + 1 : SubSeq(s, 1, n)[i] = s[1 + i - 1]
  BY <1>3, SubSeqProperties
<1>5. Len(SubSeq(s, 1, n)) = n
  BY <1>2, <1>3, <1>4
<1>. QED
  BY <1>3, <1>4, <1>5 DEF IsSequence
-----------------------------------------------------------------------------
(***************************************************************************)
(* The sentences that have a place.                                        *)
(***************************************************************************)

LEMMA SizeFacts ==
  ASSUME size \in Sizes
  PROVE  /\ beam_size \in Nat \ {0} /\ size.bsz \in Nat \ {0} /\ max_len \in Nat
         /\ Shapes[beam_size] \subseteq Lists(beam_size)
         /\ size.two_phase \in BOOLEAN
BY SizesAssumption DEF beam_size, max_len

LEMMA PlaceFacts ==
  ASSUME size \in Sizes
  PROVE  /\ Cardinality(Unfinished) \in Nat
         /\ IsFiniteSet(Unfinished) /\ Unfinished \subseteq Int
         /\ Cardinality(Unfinished) = 0 => Unfinished = {}
         /\ \A i \in Places : Place(i) \in Unfinished
         /\ \A s \in Unfinished : \E i \in Places : Place(i) = s
         /\ \A i, j \in Places : i < j => Place(i) < Place(j)
         /\ \A i, j \in Places : Place(i) = Place(j) => i = j
<1>1. size.bsz \in Int /\ 1 \in Int
  BY SizeFacts
<1>2. Unfinished \in SUBSET (1 .. size.bsz) /\ IsFiniteSet(1 .. size.bsz)
  BY <1>1, FS_Interval DEF Unfinished, Sentences
<1>3. IsFiniteSet(Unfinished) /\ Unfinished \subseteq Int
  <2>1. 1 .. size.bsz \subseteq Int
    BY <1>1
  <2>2. IsFiniteSet(Unfinished)
    BY <1>2, FS_Subset
  <2>. QED
    BY <1>2, <2>1, <2>2
<1>. DEFINE a == Ascending(Unfinished)
<1>4. /\ Cardinality(Unfinished) \in Nat
      /\ a \in [Places -> Unfinished]
      /\ \A s \in Unfinished : \E i \in Places : a[i] = s
      /\ \A i, j \in Places : i < j => a[i] < a[j]
  BY <1>3, AscendingProperties DEF Places
<1>5. \A i \in Places : Place(i) = a[i]
  BY DEF Place
<1>. HIDE DEF a
<1>6. ASSUME NEW i \in Places, NEW j \in Places, Place(i) = Place(j) PROVE i = j
  <2>1. a[i] \in Int /\ a[j] \in Int /\ a[i] = a[j]
    BY <1>3, <1>4, <1>5, <1>6
  <2>2. ~ (i < j) /\ ~ (j < i)
    BY <1>4, <2>1
  <2>. QED
    BY <1>4, <2>2 DEF Places
<1>7. Cardinality(Unfinished) = 0 => Unfinished = {}
  BY <1>3, FS_EmptySet
<1>. QED
  BY <1>3, <1>4, <1>5, <1>6, <1>7

\* The place of a sentence is its number without the finished ones before it.
LEMMA SentIsPlace ==
  ASSUME size \in Sizes, finished \in [Sentences -> BOOLEAN], NEW i \in Places
  PROVE  sent(i) = Place(i)
<1>. DEFINE u == Place(i)
            F == {s \in 1 .. u : finished[s]}
            V == {j \in Unfinished : j < u}
<1>1. /\ IsFiniteSet(Unfinished) /\ Unfinished \subseteq Int /\ u \in Unfinished
      /\ Cardinality(Below(Unfinished, u)) = i - 1
  BY PlaceFacts, AscendingProperties DEF Places, Place
<1>2. u \in 1 .. size.bsz /\ size.bsz \in Nat /\ Sentences = 1 .. size.bsz
  BY <1>1, SizeFacts DEF Unfinished, Sentences
<1>3. IsFiniteSet(V) /\ Cardinality(V) = i - 1
  <2>1. V = Below(Unfinished, u) /\ V \in SUBSET Unfinished
    BY DEF Below
  <2>. QED
    BY <1>1, <2>1, FS_Subset
<1>4. IsFiniteSet(1 .. u) /\ Cardinality(1 .. u) = u
  <2>1. 1 \in Int /\ u \in Int /\ u >= 1
    BY <1>2
  <2>2. /\ IsFiniteSet(1 .. u) /\ Cardinality(1 .. u) = IF 1 > u THEN 0 ELSE u - 1 + 1
    BY <2>1, FS_Interval
  <2>. HIDE DEF u
  <2>. QED
    BY <2>1, <2>2
<1>5. F \in SUBSET (1 .. u) /\ IsFiniteSet(F)
  BY <1>4, FS_Subset
<1>6. Cardinality(F) \in Nat /\ i \in Int
  BY <1>5, FS_CardinalityType, PlaceFacts DEF Places
<1>. DEFINE W == V \cup {u}
<1>7. IsFiniteSet(W) /\ Cardinality(W) = i
  <2>1. u \notin V
    BY <1>2
  <2>2. IsFiniteSet(W) /\ Cardinality(W) = IF u \in V THEN Cardinality(V) ELSE Cardinality(V) + 1
    BY <1>3, FS_AddElement
  <2>. HIDE DEF V, W, u
  <2>. QED
    BY <1>3, <1>6, <2>1, <2>2
<1>8. 1 .. u = W \cup F /\ W \cap F = {}
  <2>1. \A s \in 1 .. u : s \in Sentences /\ (s \in Unfinished <=> ~ finished[s]) /\ (s < u \/ s = u)
    BY <1>2 DEF Unfinished
  <2>2. \A s \in Unfinished : s \in Sentences /\ ~ finished[s] /\ s >= 1
    BY <1>2 DEF Unfinished
  <2>3. \A s \in Unfinished : s < u => s \in 1 .. u
    BY <1>2, <2>2
  <2>4. u \in 1 .. u
    BY <1>2
  <2>. HIDE DEF u
  <2>. QED
    BY <1>1, <2>1, <2>2, <2>3, <2>4
<1>9. u = i + Cardinality(F)
  <2>. HIDE DEF W, F, u
  <2>1. Cardinality(W \cup F) = Cardinality(W) + Cardinality(F) - Cardinality(W \cap F)
    BY <1>5, <1>7, FS_Union
  <2>2. Cardinality(W \cap F) = 0 /\ Cardinality(W \cup F) = u
    BY <1>4, <1>8, FS_EmptySet
  <2>. QED
    BY <1>6, <1>7, <2>1, <2>2
<1>10. cum_unfin(i) = Cardinality(F)
  BY DEF cum_unfin, Place, Unfinished
<1>. HIDE DEF u, F
<1>. QED
  BY <1>9, <1>10 DEF sent, u
-----------------------------------------------------------------------------
(***************************************************************************)
(* The candidates of a sentence.                                           *)
(***************************************************************************)

Ends(list) == {j \in DOMAIN list : list[j][2]}

LEMMA SearchFacts ==
  ASSUME GeneratorInv, Searching
  PROVE  /\ size \in Sizes /\ beam_size \in Nat \ {0} /\ max_len \in Nat /\ step \in 0 .. max_len
         /\ Cardinality(Unfinished) \in Nat \ {0}
         /\ bsz = Cardinality(Unfinished) /\ 1 .. bsz = Places
         /\ DOMAIN buf = Rows /\ SearchInv /\ HypothesesInv
         /\ \A i \in Places : sent(i) = Place(i)
<1>1. /\ size \in Sizes /\ beam_size \in Nat \ {0} /\ max_len \in Nat /\ step \in 0 .. max_len
      /\ SearchInv /\ HypothesesInv
  BY SizeFacts DEF GeneratorInv
<1>2. Cardinality(Unfinished) \in Nat /\ Cardinality(Unfinished) # 0
  BY <1>1, PlaceFacts DEF SearchInv
<1>3. bsz = Cardinality(Unfinished)
  BY <1>1, <1>2, RowNumbers DEF SearchInv, bsz
<1>4. DOMAIN buf = Rows
  BY <1>1, SequenceFacts DEF SearchInv, Rows
<1>5. \A i \in Places : sent(i) = Place(i)
  BY <1>1, SentIsPlace DEF SearchInv
<1>. QED
  BY <1>1, <1>2, <1>3, <1>4, <1>5 DEF Places

LEMMA ListFacts ==
  ASSUME size \in Sizes, NEW list \in Shapes[beam_size]
  PROVE  /\ DOMAIN list = 1 .. 2 * beam_size
         /\ \A j \in 1 .. 2 * beam_size :
              /\ list[j] \in (1 .. beam_size) \X BOOLEAN
              /\ list[j][1] \in 1 .. beam_size /\ list[j][2] \in BOOLEAN
         /\ \A i, j \in Ends(list) : list[i][1] = list[j][1] => i = j
<1>. DEFINE n == 2 * beam_size
<1>1. /\ list \in [1 .. n -> (1 .. beam_size) \X BOOLEAN]
      /\ \A i, j \in DOMAIN list : i < j /\ list[i][2] /\ list[j][2] => list[i][1] # list[j][1]
  BY SizeFacts DEF Lists
<1>2. DOMAIN list = 1 .. n /\ n \in Int
  BY <1>1, SizeFacts
<1>. HIDE DEF n
<1>3. \A j \in 1 .. n : list[j] \in (1 .. beam_size) \X BOOLEAN
  BY <1>1
<1>4. ASSUME NEW i \in Ends(list), NEW j \in Ends(list), list[i][1] = list[j][1] PROVE i = j
  <2>1. i \in 1 .. n /\ j \in 1 .. n /\ list[i][2] /\ list[j][2]
    BY <1>2 DEF Ends
  <2>2. ~ (i < j) /\ ~ (j < i)
    BY <1>1, <1>2, <1>4, <2>1
  <2>. QED
    BY <1>2, <2>1, <2>2
<1>. QED
  BY <1>2, <1>3, <1>4 DEF n

\* No beam is ignored: the ends are masked, and only they.
LEMMA OnlyEndsMasked ==
  ASSUME GeneratorInv, Searching, NEW i \in Places, NEW list \in Shapes[beam_size]
  PROVE  eos_mask(i, list) = Ends(list) /\ masked(i, list) = Ends(list)
<1>1. \A b \in 1 .. beam_size : ~ ignorelist[i][b]
  BY SearchFacts DEF SearchInv
<1>2. DOMAIN list = 1 .. 2 * beam_size /\ beam_size \in Nat
  BY SearchFacts, ListFacts
<1>3. eos_mask(i, list) = Ends(list)
  BY <1>1, <1>2 DEF eos_mask, Ends
<1>. QED
  BY <1>1, <1>3 DEF masked

\* A beam ends once, so at least half of the candidates do not.
LEMMA EndsAreFew ==
  ASSUME size \in Sizes, NEW list \in Shapes[beam_size]
  PROVE  LET stays == DOMAIN list \ Ends(list) IN
         /\ IsFiniteSet(Ends(list)) /\ Ends(list) \subseteq 1 .. 2 * beam_size
         /\ IsFiniteSet(stays) /\ stays \subseteq 1 .. 2 * beam_size
         /\ Cardinality(stays) \in Nat /\ Cardinality(stays) >= beam_size
<1>. DEFINE B == beam_size
            n == 2 * B
            stays == DOMAIN list \ Ends(list)
            f == [j \in Ends(list) |-> list[j][1]]
<1>1. B \in Nat \ {0} /\ n \in Nat /\ n = 2 * B
  BY SizeFacts
<1>2. /\ DOMAIN list = 1 .. n
      /\ \A j \in 1 .. n : list[j][1] \in 1 .. B
      /\ \A i, j \in Ends(list) : list[i][1] = list[j][1] => i = j
  BY ListFacts
<1>. HIDE DEF B, n
<1>3. 1 \in Int /\ n \in Int /\ B \in Int
  BY <1>1
<1>4. /\ IsFiniteSet(1 .. n) /\ Cardinality(1 .. n) = n
      /\ IsFiniteSet(1 .. B) /\ Cardinality(1 .. B) = B
  <2>1. /\ IsFiniteSet(1 .. n) /\ Cardinality(1 .. n) = IF 1 > n THEN 0 ELSE n - 1 + 1
        /\ IsFiniteSet(1 .. B) /\ Cardinality(1 .. B) = IF 1 > B THEN 0 ELSE B - 1 + 1
    BY <1>3, FS_Interval
  <2>. QED
    BY <1>1, <2>1
<1>5. Ends(list) \in SUBSET (1 .. n) /\ stays \in SUBSET (1 .. n)
  BY <1>2 DEF Ends
<1>6. IsFiniteSet(Ends(list)) /\ IsFiniteSet(stays)
  BY <1>4, <1>5, FS_Subset
<1>7. Cardinality(Ends(list)) \in Nat /\ Cardinality(stays) \in Nat
  BY <1>6, FS_CardinalityType
<1>8. f \in [Ends(list) -> 1 .. B]
  BY <1>2, <1>5
<1>9. \A i, j \in Ends(list) : f[i] = f[j] => i = j
  BY <1>2
<1>10. f \in Injection(Ends(list), 1 .. B)
  BY <1>8, <1>9, Zenon DEF Injection, IsInjective
<1>11. Cardinality(Ends(list)) <= B
  BY <1>4, <1>10, FS_Injection
<1>12. 1 .. n = stays \cup Ends(list) /\ stays \cap Ends(list) = {}
  BY <1>2, <1>5
<1>13. Cardinality(stays \cup Ends(list))
          = Cardinality(stays) + Cardinality(Ends(list)) - Cardinality(stays \cap Ends(list))
  BY <1>6, FS_Union
<1>14. Cardinality(stays \cap Ends(list)) = 0
  BY <1>12, FS_EmptySet
<1>15. n = Cardinality(stays) + Cardinality(Ends(list))
  <2>1. Cardinality(stays \cup Ends(list)) = n
    BY <1>4, <1>12
  <2>. HIDE DEF stays
  <2>. QED
    BY <1>1, <1>7, <1>13, <1>14, <2>1
<1>16. Cardinality(stays) >= B
  <2>. HIDE DEF stays
  <2>. QED
    BY <1>1, <1>7, <1>11, <1>15
<1>. QED
  BY <1>5, <1>6, <1>7, <1>16 DEF B, n

\* The search goes on with beam_size different candidates, none of which is an end.
LEMMA ActiveGoOn ==
  ASSUME GeneratorInv, Searching, NEW i \in Places, NEW list \in Shapes[beam_size]
  PROVE  LET active == active_hypos(i, list) IN
         /\ \A b \in 1 .. beam_size : active[b] \in 1 .. 2 * beam_size /\ active[b] \notin Ends(list)
         /\ \A b, c \in 1 .. beam_size : b # c => active[b] # active[c]
<1>. DEFINE stays == DOMAIN list \ Ends(list)
            s == Ascending(stays)
            t == Ascending(Ends(list))
            active == active_hypos(i, list)
<1>1. beam_size \in Nat \ {0} /\ size \in Sizes
  BY SearchFacts
<1>2. /\ IsFiniteSet(Ends(list)) /\ Ends(list) \subseteq 1 .. 2 * beam_size
      /\ IsFiniteSet(stays) /\ stays \subseteq 1 .. 2 * beam_size
      /\ Cardinality(stays) \in Nat /\ Cardinality(stays) >= beam_size
  BY <1>1, EndsAreFew
<1>3. Ends(list) \subseteq Int /\ stays \subseteq Int
  <2>1. 1 .. 2 * beam_size \subseteq Int
    BY <1>1
  <2>. QED
    BY <1>2, <2>1
<1>4. /\ s \in Seq(stays) /\ Len(s) = Cardinality(stays)
      /\ \A n \in 1 .. Cardinality(stays) : s[n] \in stays
      /\ \A m, n \in 1 .. Cardinality(stays) : m < n => s[m] < s[n]
      /\ t \in Seq(Ends(list))
  BY <1>2, <1>3, AscendingProperties
<1>5. active = SubSeq(s \o t, 1, beam_size)
  BY OnlyEndsMasked DEF active_hypos
<1>. HIDE DEF s, t, active, stays
<1>6. IsSequence(s) /\ IsSequence(t) /\ Len(t) \in Nat
  BY <1>4 DEF IsSequence
<1>7. beam_size \in 0 .. Len(s \o t)
  BY <1>1, <1>2, <1>4, <1>6, JoinedSequence
<1>8. \A b \in 1 .. beam_size : active[b] = (s \o t)[b]
  BY <1>5, <1>6, <1>7, JoinedSequence, CutSequence
<1>9. ASSUME NEW b \in 1 .. beam_size
      PROVE  b \in 1 .. Cardinality(stays) /\ active[b] = s[b] /\ s[b] \in stays
  <2>1. b \in 1 .. Len(s) + Len(t) /\ b <= Len(s) /\ b \in 1 .. Cardinality(stays)
    BY <1>1, <1>2, <1>4, <1>6
  <2>. QED
    BY <1>4, <1>6, <1>8, <2>1, JoinedSequence
<1>10. \A b \in 1 .. beam_size : active[b] \in 1 .. 2 * beam_size /\ active[b] \notin Ends(list)
  BY <1>2, <1>9 DEF stays
<1>11. ASSUME NEW b \in 1 .. beam_size, NEW c \in 1 .. beam_size, b # c
       PROVE  active[b] # active[c]
  <2>1. s[b] \in Int /\ s[c] \in Int
    BY <1>3, <1>9
  <2>2. CASE b < c
    BY <1>4, <1>9, <2>1, <2>2
  <2>3. CASE c < b
    BY <1>4, <1>9, <2>1, <2>3
  <2>. QED
    BY <1>1, <1>11, <2>2, <2>3
<1>. QED
  BY <1>10, <1>11 DEF active
-----------------------------------------------------------------------------
(***************************************************************************)
(* The decoders, and the hypotheses made of what they return.              *)
(***************************************************************************)

LEMMA NumbersFacts ==
  ASSUME NEW s, NEW aux, NEW tokens, NEW l \in Nat
  PROVE  LET numbers == Numbers(s, aux, tokens, l) IN
         /\ IsSequence(numbers) /\ Len(numbers) = l /\ (numbers = << >> <=> l = 0)
         /\ \A n \in 1 .. l : numbers[n] = Known(s, aux, SubSeq(tokens, 1, n))
<1>. DEFINE numbers == Numbers(s, aux, tokens, l)
<1>1. numbers = [n \in 1 .. l |-> Known(s, aux, SubSeq(tokens, 1, n))]
  BY DEF Numbers
<1>. HIDE DEF numbers
<1>2. numbers = [n \in 1 .. l |-> numbers[n]]
  BY <1>1
<1>3. IsSequence(numbers) /\ Len(numbers) = l
  BY <1>2, FunctionSequence
<1>. QED
  BY <1>1, <1>3, SequenceFacts DEF numbers

\* The tokens before one more, and the tokens with it.
LEMMA OneMoreToken ==
  ASSUME NEW t, t \in Seq(Nat), NEW l \in Nat, Len(t) = l + 1
  PROVE  Append(SubSeq(t, 1, l), Last(t)) = t
<1>1. IsSequence(t) /\ l \in 0 .. Len(t)
  BY DEF IsSequence
<1>. DEFINE u == SubSeq(t, 1, l)
<1>2. IsSequence(u) /\ Len(u) = l /\ \A i \in 1 .. l : u[i] = t[i]
  BY <1>1, CutSequence
<1>3. Last(t) = t[l + 1]
  BY DEF Last
<1>. HIDE DEF u
<1>. DEFINE v == Append(u, Last(t))
<1>4. /\ IsSequence(v) /\ Len(v) = l + 1
      /\ \A i \in 1 .. l : v[i] = u[i]
      /\ v[l + 1] = Last(t)
  BY <1>2, AppendedSequence
<1>. HIDE DEF v
<1>5. \A i \in 1 .. Len(v) : v[i] = t[i]
  BY <1>2, <1>3, <1>4
<1>6. v = t
  BY <1>1, <1>4, <1>5, SameSequence
<1>. QED
  BY <1>6 DEF u, v

\* A decoder has seen the sentence, the transcript of the row, and its tokens.
LEMMA DecoderKnows ==
  ASSUME GeneratorInv, Searching, NEW row \in Rows
  PROVE  lprobs(row) = Known(Place(SentOf(row)), Reordered[row].aux, buf[row].tokens)
<1>. DEFINE r == Reordered[row]
            b == buf[row]
            s == Place(SentOf(row))
<1>1. RowRight(row) /\ step \in Nat
  BY SearchFacts DEF SearchInv
<1>2. /\ b.tokens \in Seq(Nat) /\ Len(b.tokens) = step + 1
      /\ r.enc = s /\ r.aux \in Transcripts
      /\ r.cache.of \subseteq Sources(s, r.aux)
      /\ r.cache.toks = SubSeq(b.tokens, 1, step)
      /\ b.tags = Numbers(s, r.aux, b.tokens, step)
  BY <1>1 DEF RowRight, Right
<1>. HIDE DEF r, b, s
<1>3. Append(r.cache.toks, Last(b.tokens)) = b.tokens
  BY <1>1, <1>2, OneMoreToken
<1>4. (IF b.tags = << >> THEN {} ELSE Last(b.tags).of) \subseteq Sources(s, r.aux)
  <2>1. CASE step = 0
    BY <1>2, <2>1, NumbersFacts
  <2>2. CASE step # 0
    <3>1. step \in 1 .. step
      BY <1>1, <2>2
    <3>2. b.tags # << >> /\ Len(b.tags) = step
          /\ b.tags[step] = Known(s, r.aux, SubSeq(b.tokens, 1, step))
      BY <1>1, <1>2, <2>2, <3>1, NumbersFacts
    <3>3. Last(b.tags).of = Sources(s, r.aux)
      BY <3>2 DEF Last, Known
    <3>. QED
      BY <3>3
  <2>. QED
    BY <2>1, <2>2
<1>5. ASSUME NEW sources, sources = Sources(s, r.aux)
      PROVE  Reads(row, sources) = Known(s, r.aux, b.tokens)
  <2>1. r.cache.of \cup sources \cup (IF b.tags = << >> THEN {} ELSE Last(b.tags).of) = Sources(s, r.aux)
    BY <1>2, <1>4, <1>5
  <2>2. Reads(row, sources)
          = [of   |-> r.cache.of \cup sources \cup (IF b.tags = << >> THEN {} ELSE Last(b.tags).of),
             toks |-> Append(r.cache.toks, Last(b.tokens))]
    BY DEF Reads, r, b
  <2>. QED
    BY <1>3, <2>1, <2>2 DEF Known
<1>6. /\ phase = "aux" \/ phase = "single" => r.aux = 0
      /\ phase = "tgt" => r.aux # 0
  <2>1. beam_size \in Nat
    BY SearchFacts
  <2>. QED
    BY <1>2, <2>1 DEF Transcripts, GeneratorInv
<1>7. lprobs(row) = Reads(row, Sources(s, r.aux))
  <2>1. CASE phase = "aux"
    <3>1. Sources(s, r.aux) = {Encoder(r.enc)}
      BY <1>2, <1>6, <2>1 DEF Sources
    <3>. QED
      BY <2>1, <3>1 DEF lprobs, forward_auxiliary_decoder, r
  <2>2. CASE phase = "tgt"
    <3>1. Sources(s, r.aux) = {Encoder(r.enc), Transcript(r.enc, r.aux)}
      BY <1>2, <1>6, <2>2 DEF Sources
    <3>. QED
      BY <2>2, <3>1 DEF lprobs, forward_decoder, r
  <2>3. CASE phase = "single"
    <3>1. Sources(s, r.aux) = {Encoder(r.enc)}
      BY <1>2, <1>6, <2>3 DEF Sources
    <3>. QED
      BY <2>3, <3>1 DEF lprobs, forward_decoder_with_tags, r
  <2>. QED
    BY <2>1, <2>2, <2>3 DEF Searching
<1>8. lprobs(row) = Known(s, r.aux, b.tokens)
  BY <1>5, <1>7
<1>. QED
  BY <1>8 DEF r, b, s

\* With the numbers of one more token, a row has them for all its tokens.
LEMMA OneMoreNumber ==
  ASSUME NEW s, NEW aux, NEW t, t \in Seq(Nat), NEW l \in Nat, Len(t) = l + 1, NEW e
  PROVE  Append(Numbers(s, aux, t, l), Known(s, aux, t))
           = Numbers(s, aux, Append(t, e), l + 1)
<1>1. IsSequence(t)
  BY DEF IsSequence
<1>. DEFINE v == Append(t, e)
            a == Append(Numbers(s, aux, t, l), Known(s, aux, t))
            c == Numbers(s, aux, v, l + 1)
<1>2. IsSequence(v) /\ Len(v) = l + 2 /\ \A i \in 1 .. l + 1 : v[i] = t[i]
  BY <1>1, AppendedSequence
<1>3. \A n \in 1 .. l + 1 : SubSeq(v, 1, n) = SubSeq(t, 1, n)
  <2>1. SUFFICES ASSUME NEW n \in 1 .. l + 1 PROVE SubSeq(v, 1, n) = SubSeq(t, 1, n)
    OBVIOUS
  <2>. HIDE DEF v
  <2>2. n \in 0 .. Len(v) /\ n \in 0 .. Len(t) /\ 1 .. n \subseteq 1 .. l + 1
    BY <1>2
  <2>3. /\ IsSequence(SubSeq(v, 1, n)) /\ Len(SubSeq(v, 1, n)) = n
        /\ \A i \in 1 .. n : SubSeq(v, 1, n)[i] = v[i]
        /\ IsSequence(SubSeq(t, 1, n)) /\ Len(SubSeq(t, 1, n)) = n
        /\ \A i \in 1 .. n : SubSeq(t, 1, n)[i] = t[i]
    BY <1>1, <1>2, <2>2, CutSequence
  <2>. DEFINE p == SubSeq(v, 1, n)
              q == SubSeq(t, 1, n)
  <2>4. \A i \in 1 .. n : p[i] = q[i]
    BY <1>2, <2>2, <2>3
  <2>5. IsSequence(p) /\ IsSequence(q) /\ Len(p) = n /\ Len(q) = n
    BY <2>3
  <2>. HIDE DEF p, q
  <2>6. p = q
    BY <2>4, <2>5, SameSequence
  <2>. QED
    BY <2>6 DEF p, q
<1>4. SubSeq(t, 1, l + 1) = t
  <2>1. l + 1 \in 0 .. Len(t)
    OBVIOUS
  <2>. DEFINE q == SubSeq(t, 1, l + 1)
  <2>2. IsSequence(q) /\ Len(q) = l + 1 /\ \A i \in 1 .. l + 1 : q[i] = t[i]
    BY <1>1, <2>1, CutSequence
  <2>. HIDE DEF q
  <2>3. q = t
    BY <1>1, <2>2, SameSequence
  <2>. QED
    BY <2>3 DEF q
<1>. HIDE DEF v
<1>5. /\ IsSequence(Numbers(s, aux, t, l)) /\ Len(Numbers(s, aux, t, l)) = l
      /\ \A n \in 1 .. l : Numbers(s, aux, t, l)[n] = Known(s, aux, SubSeq(t, 1, n))
  BY NumbersFacts
<1>6. IsSequence(c) /\ Len(c) = l + 1 /\ \A n \in 1 .. l + 1 : c[n] = Known(s, aux, SubSeq(v, 1, n))
  BY NumbersFacts
<1>7. /\ IsSequence(a) /\ Len(a) = l + 1
      /\ \A n \in 1 .. l : a[n] = Known(s, aux, SubSeq(t, 1, n))
      /\ a[l + 1] = Known(s, aux, t)
  BY <1>5, AppendedSequence
<1>. HIDE DEF a, c
<1>8. \A n \in 1 .. l + 1 : a[n] = c[n]
  <2>1. ASSUME NEW n \in 1 .. l PROVE a[n] = c[n]
    <3>1. n \in 1 .. l + 1
      OBVIOUS
    <3>2. c[n] = Known(s, aux, SubSeq(v, 1, n)) /\ SubSeq(v, 1, n) = SubSeq(t, 1, n)
      BY <1>3, <1>6, <3>1
    <3>. QED
      BY <1>7, <3>2
  <2>2. a[l + 1] = c[l + 1]
    <3>1. l + 1 \in 1 .. l + 1
      OBVIOUS
    <3>2. c[l + 1] = Known(s, aux, SubSeq(v, 1, l + 1)) /\ SubSeq(v, 1, l + 1) = t
      BY <1>3, <1>4, <1>6, <3>1
    <3>. QED
      BY <1>7, <3>2
  <2>. QED
    BY <2>1, <2>2
<1>9. a = c
  BY <1>6, <1>7, <1>8, SameSequence
<1>. QED
  BY <1>9 DEF a, c, v
\* The hypothesis of a row that ends has its own numbers.
LEMMA OwnNumbers ==
  ASSUME NEW s, NEW aux, NEW t, t \in Seq(Nat), NEW l \in Nat, Len(t) = l + 1, t[1] = Eos
  PROVE  LET toks == Append(Tail(t), Eos) IN
         /\ toks \in Seq(Nat) /\ Len(toks) = l + 1
         /\ \A m \in 1 .. l : toks[m] = t[m + 1]
         /\ Own(s, aux, toks, Append(Numbers(s, aux, t, l), Known(s, aux, t)))
<1>. DEFINE toks == Append(Tail(t), Eos)
            u == Append(t, Eos)
            numbers == Numbers(s, aux, u, l + 1)
<1>1. /\ Tail(t) \in Seq(Nat) /\ Len(Tail(t)) = l
      /\ \A m \in 1 .. l : Tail(t)[m] = t[m + 1]
  <2>1. t # << >>
    OBVIOUS
  <2>2. /\ Tail(t) \in Seq(Nat) /\ Len(Tail(t)) = Len(t) - 1
        /\ \A m \in 1 .. Len(Tail(t)) : Tail(t)[m] = t[m + 1]
    BY <2>1, HeadTailProperties
  <2>. QED
    BY <2>2
<1>2. /\ toks \in Seq(Nat) /\ IsSequence(toks) /\ Len(toks) = l + 1
      /\ \A m \in 1 .. l : toks[m] = t[m + 1]
  <2>1. IsSequence(Tail(t)) /\ Eos \in Nat
    BY <1>1 DEF IsSequence, Eos
  <2>2. toks \in Seq(Nat)
    BY <1>1, <2>1, AppendProperties
  <2>3. IsSequence(toks) /\ Len(toks) = l + 1 /\ \A m \in 1 .. l : toks[m] = Tail(t)[m]
    BY <1>1, <2>1, AppendedSequence
  <2>. QED
    BY <1>1, <2>2, <2>3
<1>3. IsSequence(u) /\ Len(u) = l + 2 /\ \A m \in 1 .. l + 1 : u[m] = t[m]
  <2>1. IsSequence(t)
    BY DEF IsSequence
  <2>. QED
    BY <2>1, AppendedSequence
<1>4. Append(Numbers(s, aux, t, l), Known(s, aux, t)) = numbers
  BY OneMoreNumber
<1>. HIDE DEF toks, u
<1>5. ASSUME NEW n \in 1 .. l + 1
      PROVE  <<Eos>> \o SubSeq(toks, 1, n - 1) = SubSeq(u, 1, n)
  <2>. DEFINE a == SubSeq(toks, 1, n - 1)
              c == SubSeq(u, 1, n)
              e == <<Eos>>
  <2>1. n - 1 \in 0 .. Len(toks) /\ n \in 0 .. Len(u) /\ n \in Nat
    BY <1>2, <1>3
  <2>2. IsSequence(a) /\ Len(a) = n - 1 /\ \A m \in 1 .. n - 1 : a[m] = toks[m]
    BY <1>2, <2>1, CutSequence
  <2>3. IsSequence(c) /\ Len(c) = n /\ \A m \in 1 .. n : c[m] = u[m]
    BY <1>3, <2>1, CutSequence
  <2>4. e \in Seq({Eos}) /\ Len(e) = 1 /\ e[1] = Eos
    OBVIOUS
  <2>5. IsSequence(e)
    BY <2>4 DEF IsSequence
  <2>. HIDE DEF a, c, e
  <2>6. /\ IsSequence(e \o a) /\ Len(e \o a) = n
        /\ \A m \in 1 .. n : (e \o a)[m] = IF m <= 1 THEN e[m] ELSE a[m - 1]
    <3>1. Len(e) + Len(a) = n
      BY <2>1, <2>2, <2>4
    <3>2. /\ IsSequence(e \o a) /\ Len(e \o a) = Len(e) + Len(a)
          /\ \A m \in 1 .. Len(e) + Len(a) :
               (e \o a)[m] = IF m <= Len(e) THEN e[m] ELSE a[m - Len(e)]
      BY <2>2, <2>5, JoinedSequence
    <3>. QED
      BY <2>4, <3>1, <3>2
  <2>7. ASSUME NEW m \in 1 .. n PROVE (e \o a)[m] = c[m]
    <3>1. c[m] = t[m]
      BY <1>3, <2>3, <2>7
    <3>2. CASE m = 1
      BY <2>4, <2>6, <3>1, <3>2
    <3>3. CASE m # 1
      <4>1. m - 1 \in 1 .. n - 1 /\ m - 1 \in 1 .. l /\ ~ (m <= 1) /\ (m - 1) + 1 = m
        BY <2>7, <3>3
      <4>2. a[m - 1] = t[(m - 1) + 1]
        BY <1>2, <2>2, <4>1
      <4>. QED
        BY <2>6, <3>1, <4>1, <4>2
    <3>. QED
      BY <3>2, <3>3
  <2>. DEFINE d == e \o a
  <2>8. IsSequence(d) /\ Len(d) = n /\ \A m \in 1 .. n : d[m] = c[m]
    BY <2>6, <2>7
  <2>. HIDE DEF d
  <2>9. d = c
    BY <2>3, <2>8, SameSequence
  <2>. QED
    BY <2>9 DEF a, c, d, e
<1>6. numbers = [n \in 1 .. l + 1 |-> Known(s, aux, SubSeq(u, 1, n))]
  BY DEF Numbers
<1>7. Own(s, aux, toks, numbers)
  BY <1>2, <1>5, <1>6 DEF Own, Known, Sources
<1>. QED
  BY <1>2, <1>4, <1>7 DEF toks

LEMMA HypothesisFacts ==
  ASSUME GeneratorInv, Searching, NEW i \in Places, NEW beam \in 1 .. beam_size
  PROVE  LET h   == Hypothesis(i, beam)
             row == RowOf(i, beam)
         IN  /\ row \in Rows /\ SentOf(row) = i /\ BeamOf(row) = beam
             /\ HypothesisRight(Place(i), h)
             /\ h.aux = Reordered[row].aux /\ h.toks \in Seq(Nat) /\ Len(h.toks) = step + 1
             /\ \A m \in 1 .. step : h.toks[m] = buf[row].tokens[m + 1]
<1>. DEFINE row == RowOf(i, beam)
            h   == Hypothesis(i, beam)
            b   == buf[row]
            r   == Reordered[row]
            s   == Place(i)
            n   == Cardinality(Unfinished)
<1>1. beam_size \in Nat \ {0} /\ n \in Nat /\ step \in Nat /\ DOMAIN buf = Rows
  BY SearchFacts
<1>2. row \in Rows /\ SentOf(row) = i /\ BeamOf(row) = beam
  BY <1>1, RowNumbers DEF Rows, Places
<1>3. RowRight(row)
  BY <1>2, SearchFacts DEF SearchInv
<1>4. lprobs(row) = Known(s, r.aux, b.tokens)
  BY <1>2, DecoderKnows
<1>5. /\ h.toks = Append(Tail(b.tokens), Eos)
      /\ h.tags = Append(b.tags, lprobs(row))
      /\ h.scores = Append(b.scores, lprobs(row))
      /\ h.aux = r.aux
      /\ h.outs = IF phase = "aux" THEN Decoded[row].outs ELSE << >>
  BY DEF Hypothesis, Tagged
<1>6. Decoded[row].outs = Append(r.outs, lprobs(row))
  BY <1>1, <1>2 DEF Decoded
<1>. HIDE DEF h, row
<1>7. /\ b.tokens \in Seq(Nat) /\ Len(b.tokens) = step + 1 /\ b.tokens[1] = Eos
      /\ r.aux \in Transcripts
      /\ b.scores = Numbers(s, r.aux, b.tokens, step)
      /\ b.tags   = Numbers(s, r.aux, b.tokens, step)
      /\ r.outs   = Numbers(s, r.aux, b.tokens, step)
  BY <1>2, <1>3 DEF RowRight, Right
<1>. HIDE DEF b, r, s
<1>8. /\ h.toks \in Seq(Nat) /\ Len(h.toks) = step + 1
      /\ \A m \in 1 .. step : h.toks[m] = b.tokens[m + 1]
      /\ Own(s, r.aux, h.toks, h.tags) /\ Own(s, r.aux, h.toks, h.scores)
      /\ Own(s, r.aux, h.toks, Append(r.outs, lprobs(row)))
  <2>. DEFINE t == b.tokens
              a == r.aux
              numbers == Append(Numbers(s, a, t, step), Known(s, a, t))
  <2>1. t \in Seq(Nat) /\ Len(t) = step + 1 /\ t[1] = Eos
    BY <1>7
  <2>2. /\ h.toks = Append(Tail(t), Eos) /\ h.tags = numbers /\ h.scores = numbers
        /\ Append(r.outs, lprobs(row)) = numbers
    BY <1>4, <1>5, <1>7
  <2>. HIDE DEF t, a
  <2>3. LET toks == Append(Tail(t), Eos) IN
        /\ toks \in Seq(Nat) /\ Len(toks) = step + 1
        /\ \A m \in 1 .. step : toks[m] = t[m + 1]
        /\ Own(s, a, toks, numbers)
    BY <1>1, <2>1, OwnNumbers
  <2>4. /\ h.toks \in Seq(Nat) /\ Len(h.toks) = step + 1
        /\ \A m \in 1 .. step : h.toks[m] = t[m + 1]
        /\ Own(s, a, h.toks, numbers)
    BY <2>2, <2>3
  <2>. QED
    BY <2>2, <2>4 DEF t, a
<1>9. phase \in {"aux", "nbest"} => phase = "aux" /\ r.aux = 0
  BY <1>7 DEF Searching, Transcripts
<1>10. HypothesisRight(s, h)
  BY <1>5, <1>6, <1>7, <1>8, <1>9 DEF HypothesisRight
<1>. QED
  BY <1>2, <1>5, <1>8, <1>10 DEF h, row, b, r, s

\* What ends at a step: different hypotheses of one sentence, and beam_size of them at last.
LEMMA EndedFacts ==
  ASSUME GeneratorInv, Searching, NEW i \in Places, NEW list \in Shapes[beam_size], MayFind(list)
  PROVE  LET e == Ended(i, list) IN
         /\ IsSequence(e)
         /\ step = max_len => Len(e) = beam_size
         /\ \A n \in 1 .. Len(e) : HypothesisRight(Place(i), e[n]) /\ Len(e[n].toks) = step + 1
         /\ \A m, n \in 1 .. Len(e) : m # n => e[m].toks # e[n].toks \/ e[m].aux # e[n].aux
<1>. DEFINE T == {j \in Ends(list) : j <= beam_size}
            found == Ascending(T)
            c == Cardinality(T)
            e == Ended(i, list)
            beam(n) == list[found[n]][1]
<1>1. /\ size \in Sizes /\ beam_size \in Nat \ {0} /\ step \in Nat
      /\ DOMAIN list = 1 .. 2 * beam_size
      /\ \A j \in 1 .. 2 * beam_size : list[j][1] \in 1 .. beam_size
      /\ \A j, k \in Ends(list) : list[j][1] = list[k][1] => j = k
  BY SearchFacts, ListFacts
<1>2. T \in SUBSET (1 .. beam_size) /\ T \subseteq Int /\ T \subseteq Ends(list)
  BY <1>1 DEF Ends
<1>3. IsFiniteSet(1 .. beam_size) /\ Cardinality(1 .. beam_size) = beam_size
  <2>. DEFINE B == beam_size
  <2>1. 1 \in Int /\ B \in Int /\ B >= 1
    BY <1>1
  <2>. HIDE DEF B
  <2>2. IsFiniteSet(1 .. B) /\ Cardinality(1 .. B) = IF 1 > B THEN 0 ELSE B - 1 + 1
    BY <2>1, FS_Interval
  <2>3. Cardinality(1 .. B) = B
    BY <2>1, <2>2
  <2>. QED
    BY <2>2, <2>3 DEF B
<1>4. IsFiniteSet(T)
  BY <1>2, <1>3, FS_Subset
<1>5. /\ c \in Nat /\ found \in [1 .. c -> T]
      /\ \A m, n \in 1 .. c : m < n => found[m] < found[n]
  BY <1>2, <1>4, AscendingProperties
<1>6. e = [n \in 1 .. c |-> Hypothesis(i, beam(n))]
  <2>1. T = {j \in eos_mask(i, list) : j <= beam_size}
    BY OnlyEndsMasked
  <2>2. DOMAIN found = 1 .. c
    BY <1>5
  <2>. HIDE DEF c
  <2>. QED
    BY <2>1, <2>2 DEF Ended
<1>. HIDE DEF found, c, e, T
<1>7. IsSequence(e) /\ Len(e) = c
  <2>1. e = [n \in 1 .. c |-> e[n]]
    BY <1>6
  <2>. QED
    BY <1>5, <2>1, FunctionSequence
<1>8. ASSUME NEW n \in 1 .. c
      PROVE  /\ found[n] \in Ends(list) /\ found[n] \in 1 .. 2 * beam_size
             /\ beam(n) \in 1 .. beam_size /\ e[n] = Hypothesis(i, beam(n))
  <2>1. found[n] \in T
    BY <1>5
  <2>2. found[n] \in Ends(list) /\ found[n] \in 1 .. beam_size
    BY <1>2, <2>1
  <2>3. found[n] \in 1 .. 2 * beam_size
    BY <1>1, <2>2
  <2>. QED
    BY <1>1, <1>6, <2>2, <2>3
<1>9. step = max_len => c = beam_size
  <2>1. ASSUME step = max_len PROVE T = 1 .. beam_size
    <3>1. \A j \in 1 .. beam_size : j \in DOMAIN list /\ list[j][2] /\ j <= beam_size
      BY <1>1, <2>1 DEF MayFind
    <3>. QED
      BY <1>2, <3>1 DEF T, Ends
  <2>. QED
    BY <1>3, <2>1 DEF c
<1>10. \A n \in 1 .. c : HypothesisRight(Place(i), e[n]) /\ Len(e[n].toks) = step + 1
  <2>1. SUFFICES ASSUME NEW n \in 1 .. c
                 PROVE  HypothesisRight(Place(i), e[n]) /\ Len(e[n].toks) = step + 1
    OBVIOUS
  <2>2. beam(n) \in 1 .. beam_size /\ e[n] = Hypothesis(i, beam(n))
    BY <1>8
  <2>. HIDE DEF beam
  <2>. QED
    BY <2>2, HypothesisFacts
<1>11. ASSUME NEW m \in 1 .. c, NEW n \in 1 .. c, m # n
       PROVE  e[m].toks # e[n].toks \/ e[m].aux # e[n].aux
  <2>1. found[m] # found[n]
    <3>1. found[m] \in Int /\ found[n] \in Int
      BY <1>2, <1>5
    <3>2. CASE m < n
      BY <1>5, <3>1, <3>2
    <3>3. CASE n < m
      BY <1>5, <3>1, <3>3
    <3>. QED
      BY <1>5, <1>11, <3>2, <3>3
  <2>. DEFINE k == beam(m)
              l == beam(n)
              p == RowOf(i, k)
              q == RowOf(i, l)
              x == buf[p].tokens
              y == buf[q].tokens
  <2>2. /\ k # l /\ k \in 1 .. beam_size /\ l \in 1 .. beam_size
        /\ e[m] = Hypothesis(i, k) /\ e[n] = Hypothesis(i, l)
    BY <1>1, <1>8, <2>1
  <2>3. step > 0 \/ phase = "tgt"
    <3>1. SUFFICES ASSUME step = 0, phase # "tgt" PROVE FALSE
      BY <1>1
    <3>2. FirstBeam(list)
      BY DEF MayFind
    <3>3. list[found[m]][1] = 1 /\ list[found[n]][1] = 1
      BY <1>1, <1>8, <3>1, <3>2 DEF FirstBeam
    <3>. QED
      BY <2>2, <3>3
  <2>. HIDE DEF k, l, beam
  <2>4. /\ p \in Rows /\ SentOf(p) = i /\ BeamOf(p) = k
        /\ e[m].aux = Reordered[p].aux /\ e[m].toks \in Seq(Nat)
        /\ \A o \in 1 .. step : e[m].toks[o] = x[o + 1]
    BY <2>2, HypothesisFacts
  <2>5. /\ q \in Rows /\ SentOf(q) = i /\ BeamOf(q) = l
        /\ e[n].aux = Reordered[q].aux /\ e[n].toks \in Seq(Nat)
        /\ \A o \in 1 .. step : e[n].toks[o] = y[o + 1]
    BY <2>2, HypothesisFacts
  <2>6. p # q
    BY <2>2, <2>4, <2>5
  <2>7. Reordered[p].aux # Reordered[q].aux \/ x # y
    BY <2>3, <2>4, <2>5, <2>6, SearchFacts DEF SearchInv, RowsDiffer
  <2>8. RowRight(p) /\ RowRight(q)
    BY <2>4, <2>5, SearchFacts DEF SearchInv
  <2>9. /\ x \in Seq(Nat) /\ Len(x) = step + 1 /\ x[1] = Eos
        /\ y \in Seq(Nat) /\ Len(y) = step + 1 /\ y[1] = Eos
    BY <2>8 DEF RowRight, Right
  <2>. HIDE DEF x, y, p, q
  <2>10. ASSUME e[m].toks = e[n].toks PROVE x = y
    <3>1. ASSUME NEW o \in 1 .. step + 1 PROVE x[o] = y[o]
      <4>1. CASE o = 1
        BY <2>9, <4>1
      <4>2. CASE o # 1
        <5>1. o - 1 \in 1 .. step /\ (o - 1) + 1 = o
          BY <1>1, <3>1, <4>2
        <5>. QED
          BY <2>4, <2>5, <2>10, <5>1
      <4>. QED
        BY <4>1, <4>2
    <3>2. IsSequence(x) /\ IsSequence(y)
      BY <2>9 DEF IsSequence
    <3>. QED
      BY <2>9, <3>1, <3>2, SameSequence
  <2>. QED
    BY <2>4, <2>5, <2>7, <2>10
<1>. QED
  BY <1>7, <1>9, <1>10, <1>11 DEF e
-----------------------------------------------------------------------------
(***************************************************************************)
(* The hypotheses after a step.                                            *)
(***************************************************************************)

Chosen == [1 .. bsz -> {list \in Shapes[beam_size] : MayFind(list)}]

NewHypotheses(s, hypos) ==
  /\ IsSequence(hypos)
  /\ \A n \in 1 .. Len(hypos) : HypothesisRight(s, hypos[n]) /\ Len(hypos[n].toks) = step + 1
  /\ \A m, n \in 1 .. Len(hypos) :
       m # n => hypos[m].toks # hypos[n].toks \/ hypos[m].aux # hypos[n].aux

LEMMA FoundFacts ==
  ASSUME GeneratorInv, Searching, NEW lists \in Chosen
  PROVE  /\ \A s \in Sentences : NewHypotheses(s, Found(s, lists))
         /\ \A s \in Sentences : finished[s] => Found(s, lists) = << >>
         /\ \A i \in Places : /\ Found(Place(i), lists) = Ended(i, lists[i])
                              /\ step = max_len => Len(Ended(i, lists[i])) = beam_size
<1>1. /\ size \in Sizes /\ 1 .. bsz = Places
      /\ \A i \in Places : sent(i) = Place(i)
      /\ \A i \in Places : lists[i] \in Shapes[beam_size] /\ MayFind(lists[i])
  BY SearchFacts DEF Chosen
<1>2. /\ \A i \in Places : Place(i) \in Unfinished
      /\ \A s \in Unfinished : \E i \in Places : Place(i) = s
      /\ \A i, j \in Places : Place(i) = Place(j) => i = j
  BY <1>1, PlaceFacts
<1>3. ASSUME NEW i \in Places PROVE Found(Place(i), lists) = Ended(i, lists[i])
  <2>. DEFINE k == CHOOSE k \in 1 .. bsz : sent(k) = Place(i)
  <2>1. i \in 1 .. bsz /\ sent(i) = Place(i)
    BY <1>1
  <2>2. k \in 1 .. bsz /\ sent(k) = Place(i)
    BY <2>1
  <2>3. k = i
    <3>. HIDE DEF k
    <3>1. k \in Places /\ Place(k) = Place(i)
      BY <1>1, <2>2
    <3>. QED
      BY <1>2, <3>1
  <2>4. Found(Place(i), lists) = Ended(k, lists[k])
    BY <2>1 DEF Found
  <2>. QED
    BY <2>3, <2>4
<1>4. ASSUME NEW s \in Sentences, finished[s] PROVE Found(s, lists) = << >>
  <2>1. ~ \E i \in 1 .. bsz : sent(i) = s
    <3>1. SUFFICES ASSUME NEW i \in 1 .. bsz, sent(i) = s PROVE FALSE
      OBVIOUS
    <3>2. Place(i) = s /\ Place(i) \in Unfinished
      BY <1>1, <1>2, <3>1
    <3>. QED
      BY <1>4, <3>2 DEF Unfinished
  <2>. QED
    BY <2>1 DEF Found
<1>5. ASSUME NEW i \in Places
      PROVE  /\ NewHypotheses(Place(i), Ended(i, lists[i]))
             /\ step = max_len => Len(Ended(i, lists[i])) = beam_size
  BY <1>1, EndedFacts DEF NewHypotheses
<1>6. ASSUME NEW s \in Sentences PROVE NewHypotheses(s, Found(s, lists))
  <2>1. CASE finished[s]
    <3>1. Found(s, lists) = << >> /\ IsSequence(<< >>) /\ Len(<< >>) = 0
      BY <1>4, <2>1, EmptySequence
    <3>. QED
      BY <3>1 DEF NewHypotheses
  <2>2. CASE ~ finished[s]
    <3>1. PICK i \in Places : Place(i) = s
      BY <1>2, <2>2 DEF Unfinished
    <3>. QED
      BY <1>3, <1>5, <3>1
  <2>. QED
    BY <2>1, <2>2
<1>. QED
  BY <1>3, <1>4, <1>5, <1>6

\* At most beam_size hypotheses are kept, the older ones first.
LEMMA KeptFacts ==
  ASSUME beam_size \in Nat, NEW a, IsSequence(a), NEW c, IsSequence(c), Len(a) <= beam_size
  PROVE  LET f == Kept(a \o c) IN
         /\ IsSequence(f) /\ Len(f) <= beam_size /\ Len(f) >= Len(a)
         /\ Len(c) = 0 => Len(f) = Len(a)
         /\ Len(c) >= beam_size => Len(f) = beam_size
         /\ \A n \in 1 .. Len(f) :
              IF n <= Len(a) THEN f[n] = a[n]
              ELSE n - Len(a) \in 1 .. Len(c) /\ f[n] = c[n - Len(a)]
<1>. DEFINE h == a \o c
            l == IF Len(h) < beam_size THEN Len(h) ELSE beam_size
            f == Kept(h)
<1>1. Len(a) \in Nat /\ Len(c) \in Nat
  BY SequenceFacts
<1>2. /\ IsSequence(h) /\ Len(h) = Len(a) + Len(c)
      /\ \A n \in 1 .. Len(a) + Len(c) : h[n] = IF n <= Len(a) THEN a[n] ELSE c[n - Len(a)]
  BY JoinedSequence
<1>. HIDE DEF h
<1>3. l \in 0 .. Len(h) /\ l <= beam_size /\ l >= Len(a)
      /\ (Len(c) = 0 => l = Len(a)) /\ (Len(c) >= beam_size => l = beam_size)
  BY <1>1, <1>2
<1>4. f = SubSeq(h, 1, l)
  BY DEF Kept
<1>. HIDE DEF l, f
<1>5. IsSequence(f) /\ Len(f) = l /\ \A n \in 1 .. l : f[n] = h[n]
  BY <1>2, <1>3, <1>4, CutSequence
<1>6. ASSUME NEW n \in 1 .. l
      PROVE  IF n <= Len(a) THEN f[n] = a[n]
             ELSE n - Len(a) \in 1 .. Len(c) /\ f[n] = c[n - Len(a)]
  <2>1. n \in 1 .. Len(a) + Len(c) /\ f[n] = h[n]
    BY <1>1, <1>2, <1>3, <1>5
  <2>2. f[n] = IF n <= Len(a) THEN a[n] ELSE c[n - Len(a)]
    BY <1>2, <2>1
  <2>3. ~ (n <= Len(a)) => n - Len(a) \in 1 .. Len(c)
    BY <1>1, <2>1
  <2>. QED
    BY <2>2, <2>3
<1>. QED
  BY <1>3, <1>5, <1>6 DEF f, h

LEMMA FinalizedFacts ==
  ASSUME GeneratorInv, Searching, NEW lists \in Chosen, NEW s \in Sentences
  PROVE  LET f == Finalized(lists)[s] IN
         /\ IsSequence(f) /\ Len(f) \in Nat /\ Len(f) <= beam_size
         /\ \A n \in 1 .. Len(f) : HypothesisRight(s, f[n]) /\ Len(f[n].toks) <= step + 1
         /\ \A m, n \in 1 .. Len(f) : m # n => f[m].toks # f[n].toks \/ f[m].aux # f[n].aux
         /\ Found(s, lists) = << >> => Len(f) = Len(finalized[s])
         /\ Len(Found(s, lists)) >= beam_size => Len(f) = beam_size
<1>. DEFINE a == finalized[s]
            c == Found(s, lists)
            f == Finalized(lists)[s]
<1>1. f = Kept(a \o c)
  BY DEF Finalized
<1>2. beam_size \in Nat /\ step \in Nat
  BY SearchFacts
<1>3. /\ IsSequence(a) /\ Len(a) <= beam_size
      /\ \A n \in 1 .. Len(a) : HypothesisRight(s, a[n]) /\ Len(a[n].toks) <= step
      /\ \A m, n \in 1 .. Len(a) : m # n => a[m].toks # a[n].toks \/ a[m].aux # a[n].aux
  <2>1. /\ IsSequence(a) /\ Len(a) <= beam_size
        /\ \A n \in 1 .. Len(a) : HypothesisRight(s, a[n]) /\ Len(a[n].toks) <= step
    BY SearchFacts DEF HypothesesInv
  <2>2. DOMAIN a = 1 .. Len(a)
    BY <2>1, SequenceFacts
  <2>. QED
    BY <2>1, <2>2, SearchFacts DEF HypothesesInv, HypothesesDiffer
<1>4. NewHypotheses(s, c)
  BY FoundFacts
<1>. HIDE DEF a, c, f
<1>5. /\ IsSequence(c) /\ Len(a) \in Nat /\ Len(c) \in Nat /\ (c = << >> <=> Len(c) = 0)
      /\ \A n \in 1 .. Len(c) : HypothesisRight(s, c[n]) /\ Len(c[n].toks) = step + 1
      /\ \A m, n \in 1 .. Len(c) : m # n => c[m].toks # c[n].toks \/ c[m].aux # c[n].aux
  BY <1>3, <1>4, SequenceFacts DEF NewHypotheses
<1>6. /\ IsSequence(f) /\ Len(f) <= beam_size
      /\ Len(c) = 0 => Len(f) = Len(a)
      /\ Len(c) >= beam_size => Len(f) = beam_size
      /\ \A n \in 1 .. Len(f) :
           IF n <= Len(a) THEN f[n] = a[n]
           ELSE n - Len(a) \in 1 .. Len(c) /\ f[n] = c[n - Len(a)]
  <2>1. LET k == Kept(a \o c) IN
        /\ IsSequence(k) /\ Len(k) <= beam_size
        /\ Len(c) = 0 => Len(k) = Len(a)
        /\ Len(c) >= beam_size => Len(k) = beam_size
        /\ \A n \in 1 .. Len(k) :
             IF n <= Len(a) THEN k[n] = a[n]
             ELSE n - Len(a) \in 1 .. Len(c) /\ k[n] = c[n - Len(a)]
    BY <1>2, <1>3, <1>5, KeptFacts
  <2>. QED
    BY <1>1, <2>1, Zenon
<1>7. Len(f) \in Nat
  BY <1>6, SequenceFacts
<1>8. ASSUME NEW n \in 1 .. Len(f)
      PROVE  /\ HypothesisRight(s, f[n]) /\ Len(f[n].toks) <= step + 1
             /\ n <= Len(a) => n \in 1 .. Len(a) /\ f[n] = a[n] /\ Len(f[n].toks) <= step
             /\ ~ (n <= Len(a)) => /\ n - Len(a) \in 1 .. Len(c) /\ f[n] = c[n - Len(a)]
                                   /\ Len(f[n].toks) = step + 1
  <2>1. f[n].toks \in Seq(Nat) => Len(f[n].toks) \in Nat
    OBVIOUS
  <2>2. CASE n <= Len(a)
    <3>1. n \in 1 .. Len(a) /\ f[n] = a[n]
      BY <1>5, <1>6, <1>7, <1>8, <2>2
    <3>2. HypothesisRight(s, f[n]) /\ Len(f[n].toks) <= step
      BY <1>3, <3>1
    <3>3. Len(f[n].toks) \in Nat
      BY <2>1, <3>2 DEF HypothesisRight
    <3>. QED
      BY <1>2, <2>2, <3>1, <3>2, <3>3
  <2>3. CASE ~ (n <= Len(a))
    <3>1. n - Len(a) \in 1 .. Len(c) /\ f[n] = c[n - Len(a)]
      BY <1>6, <1>8, <2>3
    <3>2. HypothesisRight(s, f[n]) /\ Len(f[n].toks) = step + 1
      BY <1>5, <3>1
    <3>. QED
      BY <1>2, <2>3, <3>1, <3>2
  <2>. QED
    BY <2>2, <2>3
<1>9. ASSUME NEW m \in 1 .. Len(f), NEW n \in 1 .. Len(f), m # n
      PROVE  f[m].toks # f[n].toks \/ f[m].aux # f[n].aux
  <2>1. Len(f[m].toks) <= step => ~ (Len(f[m].toks) = step + 1)
    BY <1>2
  <2>2. Len(f[n].toks) <= step => ~ (Len(f[n].toks) = step + 1)
    BY <1>2
  <2>3. CASE m <= Len(a) /\ n <= Len(a)
    BY <1>3, <1>8, <1>9, <2>3
  <2>4. CASE m <= Len(a) /\ ~ (n <= Len(a))
    BY <1>8, <2>1, <2>4
  <2>5. CASE ~ (m <= Len(a)) /\ n <= Len(a)
    BY <1>8, <2>2, <2>5
  <2>6. CASE ~ (m <= Len(a)) /\ ~ (n <= Len(a))
    <3>1. m - Len(a) # n - Len(a)
      BY <1>5, <1>7, <1>9
    <3>2. /\ m - Len(a) \in 1 .. Len(c) /\ f[m] = c[m - Len(a)]
          /\ n - Len(a) \in 1 .. Len(c) /\ f[n] = c[n - Len(a)]
      BY <1>8, <2>6
    <3>. DEFINE k == m - Len(a)
                l == n - Len(a)
    <3>. HIDE DEF k, l
    <3>3. k \in 1 .. Len(c) /\ l \in 1 .. Len(c) /\ k # l /\ f[m] = c[k] /\ f[n] = c[l]
      BY <3>1, <3>2 DEF k, l
    <3>. QED
      BY <1>5, <3>3
  <2>. QED
    BY <2>3, <2>4, <2>5, <2>6
<1>10. c = << >> => Len(f) = Len(a)
  BY <1>5, <1>6
<1>. QED
  BY <1>6, <1>7, <1>8, <1>9, <1>10 DEF a, c, f

\* A place is given up when its sentence has beam_size hypotheses, and all are at max_len.
LEMMA NewlyFinishedFacts ==
  ASSUME GeneratorInv, Searching, NEW lists \in Chosen
  PROVE  /\ newly_finished(lists) \subseteq Places
         /\ \A i \in newly_finished(lists) : Len(Finalized(lists)[Place(i)]) = beam_size
         /\ \A i \in Places \ newly_finished(lists) : Len(Finalized(lists)[Place(i)]) < beam_size
         /\ step = max_len => newly_finished(lists) = Places
<1>. DEFINE f(i) == Finalized(lists)[Place(i)]
            e(i) == Ended(i, lists[i])
            new  == newly_finished(lists)
<1>1. /\ size \in Sizes /\ beam_size \in Nat \ {0} /\ 1 .. bsz = Places
      /\ \A i \in Places : sent(i) = Place(i)
  BY SearchFacts
<1>2. \A i \in Places : Place(i) \in Unfinished /\ Place(i) \in Sentences /\ ~ finished[Place(i)]
  BY <1>1, PlaceFacts DEF Unfinished
<1>3. \A i \in Places : i \in new <=> e(i) # << >> /\ is_finished(Len(f(i)))
  BY <1>1 DEF newly_finished
<1>4. new \subseteq Places
  BY <1>1 DEF newly_finished
<1>5. ASSUME NEW i \in Places
      PROVE  /\ Len(f(i)) \in Nat /\ Len(f(i)) <= beam_size
             /\ e(i) = << >> => Len(f(i)) < beam_size
             /\ step = max_len => e(i) # << >> /\ Len(f(i)) = beam_size
  <2>1. Found(Place(i), lists) = e(i) /\ (step = max_len => Len(e(i)) = beam_size)
    BY FoundFacts
  <2>2. /\ Len(f(i)) \in Nat /\ Len(f(i)) <= beam_size
        /\ e(i) = << >> => Len(f(i)) = Len(finalized[Place(i)])
        /\ Len(e(i)) >= beam_size => Len(f(i)) = beam_size
    BY <1>2, <2>1, FinalizedFacts
  <2>3. Len(finalized[Place(i)]) < beam_size
    BY <1>2, SearchFacts DEF SearchInv
  <2>4. e(i) = << >> => Len(e(i)) = 0
    BY EmptySequence
  <2>. HIDE DEF e, f
  <2>. QED
    BY <1>1, <2>1, <2>2, <2>3, <2>4
<1>. HIDE DEF e, f, new
<1>6. \A i \in new : Len(f(i)) = beam_size
  BY <1>3, <1>4, <1>5 DEF is_finished
<1>7. \A i \in Places \ new : Len(f(i)) < beam_size
  <2>1. SUFFICES ASSUME NEW i \in Places, i \notin new PROVE Len(f(i)) < beam_size
    OBVIOUS
  <2>2. CASE e(i) = << >>
    BY <1>5, <2>2
  <2>3. CASE ~ is_finished(Len(f(i)))
    <3>1. Len(f(i)) # beam_size
      BY <2>3 DEF is_finished
    <3>. QED
      BY <1>1, <1>5, <3>1
  <2>. QED
    BY <1>3, <2>1, <2>2, <2>3
<1>8. step = max_len => new = Places
  BY <1>3, <1>4, <1>5 DEF is_finished
<1>. QED
  BY <1>4, <1>6, <1>7, <1>8 DEF f, new
-----------------------------------------------------------------------------
(***************************************************************************)
(* The rows of the sentences that go on.                                   *)
(***************************************************************************)

\* The places of what is left, and where they were before.
LEMMA NextPlaces ==
  ASSUME size \in Sizes, NEW new, new \subseteq Places
  PROVE  LET left == Places \ new
             keep == Ascending(left)
             c    == Cardinality(left)
             T    == Unfinished \ {Place(i) : i \in new}
         IN  /\ c \in Nat /\ (c = 0 => new = Places) /\ Cardinality(T) = c
             /\ keep \in [1 .. c -> left] /\ IsSequence(keep) /\ Len(keep) = c
             /\ \A n \in 1 .. c : Ascending(T)[n] = Place(keep[n])
             /\ new = {} => \A n \in 1 .. c : keep[n] = n
<1>. DEFINE left == Places \ new
            keep == Ascending(left)
            c    == Cardinality(left)
            T    == Unfinished \ {Place(i) : i \in new}
            f    == [n \in 1 .. c |-> Place(keep[n])]
            N    == Cardinality(Unfinished)
<1>1. /\ N \in Nat /\ Places = 1 .. N
      /\ IsFiniteSet(Unfinished) /\ Unfinished \subseteq Int
      /\ \A i \in Places : Place(i) \in Unfinished
      /\ \A s \in Unfinished : \E i \in Places : Place(i) = s
      /\ \A i, j \in Places : i < j => Place(i) < Place(j)
      /\ \A i, j \in Places : Place(i) = Place(j) => i = j
  BY PlaceFacts DEF Places
<1>. HIDE DEF N
<1>2. IsFiniteSet(Places) /\ Places \subseteq Int
  <2>1. 1 \in Int /\ N \in Int
    BY <1>1
  <2>2. IsFiniteSet(1 .. N)
    BY <2>1, FS_Interval
  <2>3. 1 .. N \subseteq Int
    BY <2>1
  <2>. QED
    BY <1>1, <2>2, <2>3
<1>3. IsFiniteSet(left) /\ left \subseteq Int /\ left \subseteq Places
  <2>1. left \in SUBSET Places
    OBVIOUS
  <2>. QED
    BY <1>2, <2>1, FS_Subset
<1>4. IsFiniteSet(T) /\ T \subseteq Int
  <2>1. T \in SUBSET Unfinished
    OBVIOUS
  <2>. QED
    BY <1>1, <2>1, FS_Subset
<1>5. /\ c \in Nat /\ keep \in [1 .. c -> left] /\ keep \in Seq(left) /\ Len(keep) = c
      /\ \A i \in left : \E n \in 1 .. c : keep[n] = i
      /\ \A m, n \in 1 .. c : m < n => keep[m] < keep[n]
  BY <1>3, AscendingProperties
<1>6. IsSequence(keep)
  BY <1>5 DEF IsSequence
<1>7. c = 0 => new = Places
  BY <1>3, FS_EmptySet
<1>8. new = {} => \A n \in 1 .. c : keep[n] = n
  <2>1. ASSUME new = {} PROVE \A n \in 1 .. c : keep[n] = n
    <3>1. left = 1 .. N
      BY <1>1, <2>1
    <3>2. keep = [n \in 1 .. N |-> n]
      BY <1>1, <3>1, AscendingInterval
    <3>3. DOMAIN keep = 1 .. N /\ DOMAIN keep = 1 .. c
      BY <1>5, <3>2
    <3>. HIDE DEF keep, c
    <3>. QED
      BY <3>2, <3>3
  <2>. QED
    BY <2>1
<1>. HIDE DEF keep, c, left
<1>9. f \in [1 .. c -> T]
  <2>1. ASSUME NEW n \in 1 .. c PROVE Place(keep[n]) \in T
    <3>1. keep[n] \in Places /\ keep[n] \notin new
      BY <1>3, <1>5 DEF left
    <3>. QED
      BY <1>1, <3>1
  <2>. QED
    BY <2>1
<1>10. ASSUME NEW s \in T PROVE \E n \in 1 .. c : f[n] = s
  <2>1. PICK i \in Places : Place(i) = s
    BY <1>1
  <2>2. i \in left
    BY <2>1 DEF left
  <2>. QED
    BY <1>5, <2>1, <2>2
<1>11. ASSUME NEW m \in 1 .. c, NEW n \in 1 .. c, m < n PROVE f[m] < f[n]
  <2>1. keep[m] \in Places /\ keep[n] \in Places /\ keep[m] < keep[n]
    BY <1>3, <1>5, <1>11
  <2>. QED
    BY <1>1, <2>1
<1>12. f = [n \in 1 .. c |-> f[n]] /\ \A n \in 1 .. c : f[n] = Place(keep[n])
  OBVIOUS
<1>. HIDE DEF f, T
<1>13. c = Cardinality(T) /\ Ascending(T) = f
  BY <1>4, <1>5, <1>9, <1>10, <1>11, AscendingUnique
<1>. QED
  BY <1>5, <1>6, <1>7, <1>8, <1>12, <1>13 DEF left, keep, c, T

\* A row that goes on with one token more is right for the next step.
LEMMA NextRowRight ==
  ASSUME GeneratorInv, Searching, NEW p \in Rows, NEW token \in Nat, token # Eos, NEW b,
         b.tokens = Append(buf[p].tokens, token),
         b.scores = Append(buf[p].scores, lprobs(p)), b.tags = Tagged(p)
  PROVE  Right(Decoded[p], b, Place(SentOf(p)), step + 1, Transcripts)
<1>. DEFINE r == Reordered[p]
            t == buf[p].tokens
            s == Place(SentOf(p))
            aux == r.aux
            d == Decoded[p]
<1>1. step \in Nat /\ DOMAIN buf = Rows /\ RowRight(p)
  BY SearchFacts DEF SearchInv
<1>2. lprobs(p) = Known(s, aux, t)
  BY DecoderKnows
<1>3. /\ t \in Seq(Nat) /\ Len(t) = step + 1 /\ t[1] = Eos
      /\ \A n \in 2 .. step + 1 : t[n] # Eos
      /\ r.enc = s /\ aux \in Transcripts
      /\ buf[p].scores = Numbers(s, aux, t, step)
      /\ buf[p].tags   = Numbers(s, aux, t, step)
      /\ r.outs   = Numbers(s, aux, t, step)
  BY <1>1 DEF RowRight, Right
<1>4. d.enc = s /\ d.aux = aux /\ d.cache = lprobs(p) /\ d.outs = Append(r.outs, lprobs(p))
  BY <1>1, <1>3 DEF Decoded
<1>5. b.tags = Append(buf[p].tags, lprobs(p))
  BY DEF Tagged
<1>. HIDE DEF r, t, s, aux, d
<1>. DEFINE u == Append(t, token)
<1>6. Append(Numbers(s, aux, t, step), Known(s, aux, t)) = Numbers(s, aux, u, step + 1)
  BY <1>1, <1>3, OneMoreNumber
<1>7. IsSequence(t)
  BY <1>3 DEF IsSequence
<1>8. /\ u \in Seq(Nat) /\ IsSequence(u) /\ Len(u) = step + 2
      /\ \A n \in 1 .. step + 1 : u[n] = t[n]
      /\ u[step + 2] = token
  <2>1. u \in Seq(Nat)
    BY <1>3, AppendProperties
  <2>. QED
    BY <1>1, <1>3, <1>7, <2>1, AppendedSequence
<1>9. b.tokens = u
  BY DEF t
<1>. HIDE DEF u
<1>10. u[1] = Eos /\ \A n \in 2 .. step + 2 : u[n] # Eos
  <2>1. u[1] = Eos
    BY <1>1, <1>3, <1>8
  <2>2. ASSUME NEW n \in 2 .. step + 2 PROVE u[n] # Eos
    <3>1. CASE n = step + 2
      BY <1>8, <3>1
    <3>2. CASE n # step + 2
      <4>1. n \in 2 .. step + 1 /\ n \in 1 .. step + 1
        BY <1>1, <2>2, <3>2
      <4>. QED
        BY <1>3, <1>8, <4>1
    <3>. QED
      BY <3>1, <3>2
  <2>. QED
    BY <2>1, <2>2
<1>11. SubSeq(u, 1, step + 1) = t
  <2>1. step + 1 \in 0 .. Len(u)
    BY <1>1, <1>8
  <2>. DEFINE q == SubSeq(u, 1, step + 1)
  <2>2. IsSequence(q) /\ Len(q) = step + 1 /\ \A i \in 1 .. step + 1 : q[i] = u[i]
    BY <1>8, <2>1, CutSequence
  <2>. HIDE DEF q
  <2>3. q = t
    BY <1>3, <1>7, <1>8, <2>2, SameSequence
  <2>. QED
    BY <2>3 DEF q
<1>12. d.cache.of = Sources(s, aux) /\ d.cache.toks = t
  BY <1>2, <1>4 DEF Known
<1>13. (step + 1) + 1 = step + 2
  BY <1>1
<1>14. /\ b.tokens \in Seq(Nat) /\ Len(b.tokens) = (step + 1) + 1
       /\ b.tokens[1] = Eos /\ \A n \in 2 .. (step + 1) + 1 : b.tokens[n] # Eos
  BY <1>8, <1>9, <1>10, <1>13
<1>15. /\ b.scores = Numbers(s, d.aux, b.tokens, step + 1)
       /\ b.tags   = Numbers(s, d.aux, b.tokens, step + 1)
       /\ d.outs   = Numbers(s, d.aux, b.tokens, step + 1)
  BY <1>2, <1>3, <1>4, <1>5, <1>6, <1>9
<1>16. d.cache.of \subseteq Sources(s, d.aux) /\ d.cache.toks = SubSeq(b.tokens, 1, step + 1)
  BY <1>4, <1>9, <1>11, <1>12
<1>17. d.enc = s /\ d.aux \in Transcripts
  BY <1>3, <1>4
<1>. QED
  BY <1>14, <1>15, <1>16, <1>17 DEF Right, d, s

\* Two candidates that go on make different rows.
LEMMA NextRowsDiffer ==
  ASSUME GeneratorInv, Searching, NEW i \in Places,
         NEW list \in Shapes[beam_size], MayFind(list),
         NEW j \in 1 .. 2 * beam_size, NEW k \in 1 .. 2 * beam_size, j # k,
         j \notin Ends(list), k \notin Ends(list)
  PROVE  LET p == RowOf(i, list[j][1])
             q == RowOf(i, list[k][1])
         IN  \/ Reordered[p].aux # Reordered[q].aux
             \/ Append(buf[p].tokens, Token(list, j)) # Append(buf[q].tokens, Token(list, k))
<1>. DEFINE p == RowOf(i, list[j][1])
            q == RowOf(i, list[k][1])
            x == buf[p].tokens
            y == buf[q].tokens
<1>1. /\ size \in Sizes /\ beam_size \in Nat \ {0} /\ step \in Nat
      /\ DOMAIN list = 1 .. 2 * beam_size
      /\ list[j] \in (1 .. beam_size) \X BOOLEAN /\ list[k] \in (1 .. beam_size) \X BOOLEAN
      /\ list[j][1] \in 1 .. beam_size /\ list[k][1] \in 1 .. beam_size
      /\ ~ list[j][2] /\ ~ list[k][2]
  BY SearchFacts, ListFacts DEF Ends
<1>2. /\ p \in Rows /\ q \in Rows /\ SentOf(p) = i /\ SentOf(q) = i
      /\ BeamOf(p) = list[j][1] /\ BeamOf(q) = list[k][1]
  BY <1>1, HypothesisFacts
<1>3. RowRight(p) /\ RowRight(q)
  BY <1>2, SearchFacts DEF SearchInv
<1>4. /\ x \in Seq(Nat) /\ Len(x) = step + 1 /\ y \in Seq(Nat) /\ Len(y) = step + 1
  BY <1>3 DEF RowRight, Right
<1>5. CASE list[j][1] # list[k][1]
  <2>1. p # q
    BY <1>2, <1>5
  <2>2. step > 0 \/ phase = "tgt"
    <3>1. SUFFICES ASSUME step = 0, phase # "tgt" PROVE FALSE
      BY <1>1
    <3>2. list[j][1] = 1 /\ list[k][1] = 1
      BY <1>1, <3>1 DEF MayFind, FirstBeam
    <3>. QED
      BY <1>5, <3>2
  <2>3. Reordered[p].aux # Reordered[q].aux \/ x # y
    BY <1>2, <2>1, <2>2, SearchFacts DEF SearchInv, RowsDiffer
  <2>. DEFINE d == Token(list, j)
              e == Token(list, k)
  <2>. HIDE DEF p, q, x, y, d, e
  <2>4. Append(x, d) = Append(y, e) => x = y
    <3>1. SUFFICES ASSUME Append(x, d) = Append(y, e) PROVE x = y
      OBVIOUS
    <3>2. IsSequence(x) /\ IsSequence(y)
      BY <1>4 DEF IsSequence
    <3>3. /\ \A n \in 1 .. step + 1 : Append(x, d)[n] = x[n]
          /\ \A n \in 1 .. step + 1 : Append(y, e)[n] = y[n]
      BY <1>4, <3>2, AppendedSequence
    <3>4. \A n \in 1 .. step + 1 : x[n] = y[n]
      BY <3>1, <3>3
    <3>. QED
      BY <1>4, <3>2, <3>4, SameSequence
  <2>. QED
    BY <2>3, <2>4 DEF p, q, x, y, d, e
<1>6. CASE list[j][1] = list[k][1]
  <2>1. list[j] = list[k] /\ p = q /\ x = y
    BY <1>1, <1>6
  <2>2. ASSUME NEW a \in 1 .. 2 * beam_size, NEW c \in 1 .. 2 * beam_size, a < c,
               list[a] = list[c]
        PROVE  LET A == {o \in 1 .. a : list[o] = list[a]}
                   C == {o \in 1 .. c : list[o] = list[c]}
               IN  Cardinality(A) \in Nat /\ Cardinality(C) \in Nat /\ Cardinality(A) < Cardinality(C)
    <3>. DEFINE A == {o \in 1 .. a : list[o] = list[a]}
                C == {o \in 1 .. c : list[o] = list[c]}
    <3>1. 1 \in Int /\ c \in Int
      BY <1>1
    <3>2. C \in SUBSET (1 .. c) /\ IsFiniteSet(1 .. c)
      BY <3>1, FS_Interval
    <3>3. IsFiniteSet(C) /\ A \in SUBSET C /\ c \in C /\ c \notin A
      <4>1. IsFiniteSet(C)
        BY <3>2, FS_Subset
      <4>2. a \in Int /\ 1 .. a \subseteq 1 .. c /\ c \in 1 .. c /\ c \notin 1 .. a
        BY <1>1, <2>2
      <4>. QED
        BY <2>2, <4>1, <4>2
    <3>. HIDE DEF A, C
    <3>4. /\ IsFiniteSet(A) /\ Cardinality(A) <= Cardinality(C)
          /\ Cardinality(C) = Cardinality(A) => C = A
      BY <3>3, FS_Subset
    <3>5. Cardinality(A) \in Nat /\ Cardinality(C) \in Nat
      BY <3>3, <3>4, FS_CardinalityType
    <3>6. Cardinality(A) < Cardinality(C)
      BY <3>3, <3>4, <3>5
    <3>. QED
      BY <3>5, <3>6 DEF A, C
  <2>3. /\ Token(list, j) = Cardinality({o \in 1 .. j : list[o] = list[j]})
        /\ Token(list, k) = Cardinality({o \in 1 .. k : list[o] = list[k]})
    BY <1>1 DEF Token
  <2>4. Token(list, j) # Token(list, k)
    <3>1. CASE j < k
      <4>1. LET A == Cardinality({o \in 1 .. j : list[o] = list[j]})
                C == Cardinality({o \in 1 .. k : list[o] = list[k]})
            IN  A \in Nat /\ C \in Nat /\ A < C
        BY <2>1, <2>2, <3>1
      <4>. QED
        BY <2>3, <4>1
    <3>2. CASE k < j
      <4>1. LET A == Cardinality({o \in 1 .. k : list[o] = list[k]})
                C == Cardinality({o \in 1 .. j : list[o] = list[j]})
            IN  A \in Nat /\ C \in Nat /\ A < C
        BY <2>1, <2>2, <3>2
      <4>. QED
        BY <2>3, <4>1
    <3>. QED
      BY <1>1, <3>1, <3>2
  <2>. DEFINE d == Token(list, j)
              e == Token(list, k)
  <2>. HIDE DEF x, y, d, e
  <2>5. Append(x, d) # Append(y, e)
    <3>1. IsSequence(x) /\ x = y
      BY <1>4, <2>1 DEF IsSequence
    <3>2. Append(x, d)[Len(x) + 1] = d /\ Append(x, e)[Len(x) + 1] = e
      BY <3>1, AppendedSequence
    <3>. QED
      BY <2>4, <3>1, <3>2 DEF d, e
  <2>. QED
    BY <2>5 DEF x, y, d, e
<1>. QED
  BY <1>5, <1>6

LEMMA TokenGoesOn ==
  ASSUME size \in Sizes, NEW list \in Shapes[beam_size], NEW j \in 1 .. 2 * beam_size,
         j \notin Ends(list)
  PROVE  Token(list, j) \in Nat /\ Token(list, j) # Eos
<1>. DEFINE A == {o \in 1 .. j : list[o] = list[j]}
<1>1. /\ beam_size \in Nat \ {0} /\ DOMAIN list = 1 .. 2 * beam_size
      /\ 1 \in Int /\ j \in Int /\ j \in 1 .. j
  BY SizeFacts, ListFacts
<1>2. A \in SUBSET (1 .. j) /\ IsFiniteSet(1 .. j) /\ j \in A
  BY <1>1, FS_Interval
<1>3. Token(list, j) = Cardinality(A)
  BY <1>1 DEF Token, Ends
<1>. HIDE DEF A
<1>4. IsFiniteSet(A) /\ A # {}
  BY <1>2, FS_Subset
<1>5. Cardinality(A) \in Nat /\ Cardinality(A) # 0
  BY <1>4, FS_CardinalityType, FS_EmptySet
<1>. QED
  BY <1>3, <1>5 DEF Eos

\* Where a row of the models is after sentences were removed, and where it was before.
LEMMA CorrectedIsPrevious ==
  ASSUME beam_size \in Nat, NEW i \in Nat, NEW k \in Nat, NEW beam \in Nat
  PROVE  RowOf(i, beam) + ((k - i) * beam_size) = RowOf(k, beam)
<1>. DEFINE B == beam_size
<1>1. B \in Nat
  OBVIOUS
<1>. HIDE DEF B
<1>2. (i - 1) * B + beam + ((k - i) * B) = (k - 1) * B + beam
  BY <1>1, Z3T(30)
<1>. QED
  BY <1>2 DEF RowOf, B

-----------------------------------------------------------------------------
(***************************************************************************)
(* The steps.                                                              *)
(***************************************************************************)

\* The rest of a step that does not end a search.
LEMMA AdvanceRows ==
  ASSUME GeneratorInv, Searching, NEW lists \in Chosen, size' = size,
         Cardinality(newly_finished(lists)) # bsz,
         Advance(lists, newly_finished(lists)),
         Unfinished' = Unfinished \ {Place(i) : i \in newly_finished(lists)}
  PROVE  /\ phase' = phase /\ step' = step + 1
         /\ Unfinished' # {}
         /\ IsSequence(buf)' /\ Len(buf') = Cardinality(Unfinished') * beam_size
         /\ IsSequence(ignorelist)' /\ Len(ignorelist') = Cardinality(Unfinished')
         /\ \A i \in Places' : \A b \in 1 .. beam_size : ~ ignorelist'[i][b]
         /\ IsSequence(reorder_state)' /\ Len(reorder_state') = Len(buf')
         /\ batch_idxs' = << >>
              \/ (IsSequence(batch_idxs)' /\ Len(batch_idxs') = Cardinality(Unfinished'))
         /\ \A row \in DOMAIN reorder_state' : Corrected(row)' \in DOMAIN net'
         /\ \A row \in Rows' : RowRight(row)'
         /\ RowsDiffer'
<1>. DEFINE new  == newly_finished(lists)
            left == Places \ new
            keep == Ascending(1 .. bsz \ new)
            c    == Cardinality(left)
            T    == Unfinished \ {Place(i) : i \in new}
            Old(row)  == keep[SentOf(row)]
            Cand(row) == active_hypos(Old(row), lists[Old(row)])[BeamOf(row)]
            beam(row) == lists[Old(row)][Cand(row)][1]
            Prev(row) == RowOf(Old(row), beam(row))
<1>1. /\ size \in Sizes /\ beam_size \in Nat \ {0} /\ step \in Nat
      /\ 1 .. bsz = Places /\ bsz = Cardinality(Unfinished) /\ bsz \in Nat \ {0}
      /\ DOMAIN buf = Rows
      /\ \A i \in Places : lists[i] \in Shapes[beam_size] /\ MayFind(lists[i])
  BY SearchFacts DEF Chosen
<1>2. new \subseteq Places
  BY NewlyFinishedFacts
<1>5. keep = Ascending(left)
  BY <1>1
<1>3. /\ c \in Nat /\ (c = 0 => new = Places) /\ Cardinality(T) = c
      /\ keep \in [1 .. c -> left] /\ IsSequence(keep) /\ Len(keep) = c
      /\ \A n \in 1 .. c : Ascending(T)[n] = Place(keep[n])
      /\ new = {} => \A n \in 1 .. c : keep[n] = n
  BY <1>1, <1>2, <1>5, NextPlaces
<1>4. c # 0
  <2>1. Cardinality(1 .. bsz) = bsz
    <3>. DEFINE n == bsz
    <3>1. 1 \in Int /\ n \in Int /\ n >= 1
      BY <1>1
    <3>. HIDE DEF n
    <3>2. Cardinality(1 .. n) = IF 1 > n THEN 0 ELSE n - 1 + 1
      BY <3>1, FS_Interval
    <3>. QED
      BY <3>1, <3>2 DEF n
  <2>. QED
    BY <1>1, <1>3, <2>1
<1>6. Unfinished' = T
  OBVIOUS
<1>. HIDE DEF keep, c, T, new
<1>7. DOMAIN keep = 1 .. c /\ \A n \in 1 .. c : keep[n] \in Places /\ keep[n] \notin new
  BY <1>3
<1>8. ASSUME NEW row \in 1 .. c * beam_size
      PROVE  /\ SentOf(row) \in 1 .. c /\ BeamOf(row) \in 1 .. beam_size
             /\ Old(row) \in Places
             /\ Cand(row) \in 1 .. 2 * beam_size /\ Cand(row) \notin Ends(lists[Old(row)])
             /\ beam(row) \in 1 .. beam_size
             /\ Prev(row) \in Rows /\ SentOf(Prev(row)) = Old(row)
  <2>1. SentOf(row) \in 1 .. c /\ BeamOf(row) \in 1 .. beam_size
    BY <1>1, <1>3, RowNumbers
  <2>2. Old(row) \in Places /\ lists[Old(row)] \in Shapes[beam_size]
    BY <1>1, <1>7, <2>1
  <2>. HIDE DEF Old
  <2>3. Cand(row) \in 1 .. 2 * beam_size /\ Cand(row) \notin Ends(lists[Old(row)])
    BY <2>1, <2>2, ActiveGoOn
  <2>. HIDE DEF Cand
  <2>4. beam(row) \in 1 .. beam_size
    BY <1>1, <2>2, <2>3, ListFacts
  <2>. HIDE DEF beam
  <2>5. Prev(row) \in Rows /\ SentOf(Prev(row)) = Old(row)
    BY <2>2, <2>4, HypothesisFacts
  <2>. QED
    BY <2>1, <2>2, <2>3, <2>4, <2>5
<1>9. c * beam_size \in Nat /\ c * beam_size # 0 /\ (c * beam_size) \div beam_size = c
  <2>1. c * beam_size \in Nat /\ (c * beam_size) \div beam_size = c
    BY <1>1, <1>3, RowNumbers
  <2>2. RowOf(1, 1) \in 1 .. c * beam_size
    <3>1. 1 \in 1 .. c /\ 1 \in 1 .. beam_size
      BY <1>1, <1>3, <1>4
    <3>. QED
      BY <1>1, <1>3, <3>1, RowNumbers
  <2>3. c * beam_size # 0
    BY <2>1, <2>2
  <2>. QED
    BY <2>1, <2>3
<1>. DEFINE M == c * beam_size
            active == [n \in 1 .. c |-> active_hypos(keep[n], lists[keep[n]])]
            all    == [n \in DOMAIN keep |-> active_hypos(keep[n], lists[keep[n]])]
<1>10. /\ batch_idxs' = IF new = {} THEN << >> ELSE keep
       /\ ignorelist' = [n \in 1 .. c |-> [b \in 1 .. beam_size |->
                           active[n][b] \in masked(keep[n], lists[keep[n]])]]
       /\ net' = Decoded /\ step' = step + 1
       /\ phase' = IF \A n \in 1 .. c : \E b \in 1 .. beam_size : ~ ignorelist'[n][b]
                   THEN phase ELSE "failed"
  BY <1>3, <1>7 DEF Advance, new, keep
<1>11. buf' = [row \in 1 .. M |-> Continued(Old(row), lists[Old(row)], Cand(row))]
  <2>1. ASSUME NEW row \in 1 .. M PROVE active[SentOf(row)][BeamOf(row)] = Cand(row)
    BY <1>8
  <2>2. buf' = [row \in 1 .. M |->
                  Continued(Old(row), lists[Old(row)], active[SentOf(row)][BeamOf(row)])]
    <3>1. buf' = [row \in 1 .. Len(keep) * beam_size |->
                    Continued(keep[SentOf(row)], lists[keep[SentOf(row)]],
                              all[SentOf(row)][BeamOf(row)])]
      BY Zenon DEF Advance, new, keep
    <3>. QED
      BY <1>3, <1>7, <3>1
  <2>. QED
    BY <2>1, <2>2
<1>12. reorder_state' = [row \in 1 .. M |-> RowOf(SentOf(row), beam(row))]
  <2>1. ASSUME NEW row \in 1 .. M PROVE active[SentOf(row)][BeamOf(row)] = Cand(row)
    BY <1>8
  <2>2. reorder_state' = [row \in 1 .. M |->
                  RowOf(SentOf(row), lists[Old(row)][active[SentOf(row)][BeamOf(row)]][1])]
    <3>1. reorder_state' = [row \in 1 .. Len(keep) * beam_size |->
                    RowOf(SentOf(row),
                          lists[keep[SentOf(row)]][all[SentOf(row)][BeamOf(row)]][1])]
      BY Zenon DEF Advance, new, keep
    <3>. QED
      BY <1>3, <1>7, <3>1
  <2>. QED
    BY <2>1, <2>2
<1>13. \A n \in 1 .. c : \A b \in 1 .. beam_size : ~ ignorelist'[n][b]
  <2>1. SUFFICES ASSUME NEW n \in 1 .. c, NEW b \in 1 .. beam_size PROVE ~ ignorelist'[n][b]
    OBVIOUS
  <2>2. keep[n] \in Places /\ lists[keep[n]] \in Shapes[beam_size]
    BY <1>1, <1>7
  <2>3. active_hypos(keep[n], lists[keep[n]])[b] \notin masked(keep[n], lists[keep[n]])
    BY <2>2, ActiveGoOn, OnlyEndsMasked
  <2>. QED
    BY <1>10, <2>3
<1>14. phase' = phase
  <2>1. 1 \in 1 .. beam_size
    BY <1>1
  <2>. QED
    BY <1>10, <1>13, <2>1
<1>15. beam_size' = beam_size /\ Rows' = 1 .. M /\ Places' = 1 .. c /\ Cardinality(Unfinished') = c
  BY <1>3, <1>6 DEF Rows, Places, beam_size
<1>. HIDE DEF active, M
<1>16. IsSequence(buf)' /\ Len(buf') = M /\ IsSequence(reorder_state)' /\ Len(reorder_state') = M
  <2>1. M \in Nat
    BY <1>9 DEF M
  <2>2. buf' = [row \in 1 .. M |-> buf'[row]]
    BY <1>11
  <2>3. reorder_state' = [row \in 1 .. M |-> reorder_state'[row]]
    BY <1>12
  <2>. QED
    BY <2>1, <2>2, <2>3, FunctionSequence DEF IsSequence
<1>17. IsSequence(ignorelist)' /\ Len(ignorelist') = c
  <2>1. ignorelist' = [n \in 1 .. c |-> ignorelist'[n]]
    BY <1>10
  <2>. QED
    BY <1>3, <2>1, FunctionSequence DEF IsSequence
<1>18. batch_idxs' = << >> \/ (IsSequence(batch_idxs)' /\ Len(batch_idxs') = c)
  BY <1>3, <1>10 DEF IsSequence
<1>19. DOMAIN reorder_state' = 1 .. M /\ reorder_state' # << >>
  BY <1>9, <1>12 DEF M
<1>20. ASSUME NEW row \in 1 .. M PROVE Corrected(row)' = Prev(row)
  <2>1. /\ SentOf(row) \in 1 .. c /\ Old(row) \in Places /\ beam(row) \in 1 .. beam_size
        /\ keep[SentOf(row)] = Old(row)
    BY <1>8 DEF M
  <2>2. reorder_state'[row] = RowOf(SentOf(row), beam(row)) /\ SentOf(row)' = SentOf(row)
    BY <1>12, <1>15 DEF SentOf
  <2>. HIDE DEF Old, beam
  <2>3. CASE new = {}
    <3>1. batch_idxs' = << >> /\ Old(row) = SentOf(row)
      BY <1>3, <1>10, <2>1, <2>3
    <3>. QED
      BY <2>2, <3>1 DEF Corrected
  <2>4. CASE new # {}
    <3>1. batch_idxs' # << >> /\ batch_idxs'[SentOf(row)] = Old(row)
      BY <1>3, <1>4, <1>10, <2>1, <2>4, SequenceFacts
    <3>2. Corrected(row)' = RowOf(SentOf(row), beam(row)) + ((Old(row) - SentOf(row)) * beam_size)
      BY <1>15, <2>2, <3>1 DEF Corrected
    <3>3. SentOf(row) \in Nat /\ Old(row) \in Nat /\ beam(row) \in Nat /\ beam_size \in Nat
      BY <1>1, <1>3, <2>1
    <3>. QED
      BY <3>2, <3>3, CorrectedIsPrevious
  <2>. QED
    BY <2>3, <2>4
<1>21. DOMAIN net' = Rows /\ \A row \in Rows : net'[row] = Decoded[row]
  BY <1>1, <1>10 DEF Decoded
<1>22. \A row \in 1 .. M : Corrected(row)' \in DOMAIN net'
  BY <1>8, <1>20, <1>21 DEF M
<1>23. ASSUME NEW row \in 1 .. M PROVE Reordered'[row] = Decoded[Prev(row)]
  <2>1. Prev(row) \in Rows
    BY <1>8 DEF M
  <2>. HIDE DEF Prev
  <2>2. Reordered'[row] = net'[Corrected(row)']
    BY <1>19 DEF Reordered
  <2>. QED
    BY <1>20, <1>21, <2>1, <2>2
<1>. DEFINE tok(row) == Token(lists[Old(row)], Cand(row))
<1>24. ASSUME NEW row \in 1 .. M
       PROVE  /\ buf'[row].tokens = Append(buf[Prev(row)].tokens, tok(row))
              /\ buf'[row].scores = Append(buf[Prev(row)].scores, lprobs(Prev(row)))
              /\ buf'[row].tags = Tagged(Prev(row))
  BY <1>11 DEF Continued
<1>25. ASSUME NEW row \in 1 .. M
       PROVE  tok(row) \in Nat /\ tok(row) # Eos
  <2>1. /\ Old(row) \in Places /\ Cand(row) \in 1 .. 2 * beam_size
        /\ Cand(row) \notin Ends(lists[Old(row)])
    BY <1>8 DEF M
  <2>. HIDE DEF Old, Cand
  <2>. QED
    BY <1>1, <2>1, TokenGoesOn
<1>26. Transcripts' = Transcripts
  BY <1>14, <1>15 DEF Transcripts
<1>27. ASSUME NEW row \in 1 .. M PROVE RowRight(row)'
  <2>1. /\ Prev(row) \in Rows /\ SentOf(Prev(row)) = Old(row) /\ SentOf(row) \in 1 .. c
        /\ Old(row) = keep[SentOf(row)]
    BY <1>8 DEF M
  <2>2. SentOf(row)' = SentOf(row) /\ Place(SentOf(row))' = Place(Old(row))
    <3>1. SentOf(row)' = SentOf(row)
      BY <1>15 DEF SentOf
    <3>2. Place(SentOf(row))' = Ascending(T)[SentOf(row)]
      BY <1>6, <3>1 DEF Place
    <3>. QED
      BY <1>3, <2>1, <3>1, <3>2
  <2>3. tok(row) \in Nat /\ tok(row) # Eos
    BY <1>25
  <2>4. /\ buf'[row].tokens = Append(buf[Prev(row)].tokens, tok(row))
        /\ buf'[row].scores = Append(buf[Prev(row)].scores, lprobs(Prev(row)))
        /\ buf'[row].tags = Tagged(Prev(row))
    BY <1>24
  <2>. HIDE DEF Prev, Old, tok
  <2>5. Right(Decoded[Prev(row)], buf'[row], Place(Old(row)), step + 1, Transcripts)
    BY <2>1, <2>3, <2>4, NextRowRight
  <2>6. Reordered'[row] = Decoded[Prev(row)]
    BY <1>23 DEF Prev
  <2>. QED
    BY <1>10, <1>26, <2>2, <2>5, <2>6 DEF RowRight
<1>28. ASSUME NEW p \in 1 .. M, NEW q \in 1 .. M, p # q, SentOf(p) = SentOf(q)
       PROVE  Reordered'[p].aux # Reordered'[q].aux \/ buf'[p].tokens # buf'[q].tokens
  <2>. DEFINE i == Old(p)
  <2>1. Old(q) = i
    BY <1>28
  <2>2. BeamOf(p) # BeamOf(q)
    <3>1. /\ RowOf(SentOf(p), BeamOf(p)) = p /\ RowOf(SentOf(q), BeamOf(q)) = q
      BY <1>1, <1>3, RowNumbers DEF M
    <3>. QED
      BY <1>28, <3>1
  <2>3. /\ i \in Places /\ BeamOf(p) \in 1 .. beam_size /\ BeamOf(q) \in 1 .. beam_size
        /\ Cand(p) \in 1 .. 2 * beam_size /\ Cand(p) \notin Ends(lists[i])
        /\ Cand(q) \in 1 .. 2 * beam_size /\ Cand(q) \notin Ends(lists[i])
        /\ Prev(p) \in Rows /\ Prev(q) \in Rows
    BY <1>8, <2>1 DEF M
  <2>4. lists[i] \in Shapes[beam_size] /\ MayFind(lists[i])
    BY <1>1, <2>3
  <2>5. Cand(p) # Cand(q)
    <3>1. /\ Cand(p) = active_hypos(i, lists[i])[BeamOf(p)]
          /\ Cand(q) = active_hypos(i, lists[i])[BeamOf(q)]
      BY <2>1
    <3>. HIDE DEF i, Cand
    <3>. QED
      BY <2>2, <2>3, <2>4, <3>1, ActiveGoOn
  <2>6. /\ Prev(p) = RowOf(i, lists[i][Cand(p)][1]) /\ tok(p) = Token(lists[i], Cand(p))
        /\ Prev(q) = RowOf(i, lists[i][Cand(q)][1]) /\ tok(q) = Token(lists[i], Cand(q))
    BY <2>1
  <2>7. /\ Reordered'[p] = Decoded[Prev(p)] /\ Reordered'[q] = Decoded[Prev(q)]
        /\ buf'[p].tokens = Append(buf[Prev(p)].tokens, tok(p))
        /\ buf'[q].tokens = Append(buf[Prev(q)].tokens, tok(q))
    BY <1>23, <1>24
  <2>. HIDE DEF Old, Cand, Prev, tok, i
  <2>8. \/ Reordered[Prev(p)].aux # Reordered[Prev(q)].aux
        \/ Append(buf[Prev(p)].tokens, tok(p)) # Append(buf[Prev(q)].tokens, tok(q))
    BY <2>3, <2>4, <2>5, <2>6, NextRowsDiffer
  <2>9. /\ Decoded[Prev(p)].aux = Reordered[Prev(p)].aux
        /\ Decoded[Prev(q)].aux = Reordered[Prev(q)].aux
    BY <1>1, <2>3 DEF Decoded
  <2>. QED
    BY <2>7, <2>8, <2>9
<1>29. RowsDiffer'
  <2>1. \A row : SentOf(row)' = SentOf(row)
    BY <1>15 DEF SentOf
  <2>. QED
    BY <1>15, <1>28, <2>1 DEF RowsDiffer
<1>30. Unfinished' # {}
  <2>1. Cardinality(Unfinished') # 0
    BY <1>4, <1>15
  <2>. QED
    BY <2>1, FS_EmptySet
<1>31. M = Cardinality(Unfinished') * beam_size
  BY <1>15 DEF M
<1>. HIDE DEF Old, Cand, beam, Prev, tok
<1>32. \A i \in Places' : \A b \in 1 .. beam_size : ~ ignorelist'[i][b]
  BY <1>13, <1>15
<1>33. \A row \in DOMAIN reorder_state' : Corrected(row)' \in DOMAIN net'
  BY <1>19, <1>22
<1>34. \A row \in Rows' : RowRight(row)'
  BY <1>15, <1>27
<1>. QED
  BY <1>10, <1>14, <1>15, <1>16, <1>17, <1>18, <1>29, <1>30, <1>31, <1>32, <1>33, <1>34

\* The beginning of a search.
Fresh ==
  /\ size \in Sizes /\ Searching
  /\ phase = "single" <=> ~ size.two_phase
  /\ step = 0 /\ buf = EmptyBuffers
  /\ net = EncoderRows([b \in 1 .. beam_size |-> IF phase = "tgt" THEN b ELSE 0])
  /\ reorder_state = << >> /\ batch_idxs = << >> /\ ignorelist = NotIgnored
  /\ finalized = NoHypotheses /\ finished = NoneIsFinished

LEMMA FreshIsRight == Fresh => GeneratorInv
<1>. SUFFICES ASSUME Fresh PROVE GeneratorInv
  OBVIOUS
<1>. DEFINE B == beam_size
            n == size.bsz
            aux == [b \in 1 .. B |-> IF phase = "tgt" THEN b ELSE 0]
<1>1. size \in Sizes /\ B \in Nat \ {0} /\ n \in Nat \ {0} /\ max_len \in Nat
  BY SizeFacts DEF Fresh
<1>2. Unfinished = 1 .. n /\ Sentences = 1 .. n
  BY DEF Fresh, NoneIsFinished, Unfinished, Sentences
<1>3. Cardinality(Unfinished) = n
  <2>. HIDE DEF n
  <2>1. 1 \in Int /\ n \in Int /\ n >= 1
    BY <1>1
  <2>2. Cardinality(1 .. n) = IF 1 > n THEN 0 ELSE n - 1 + 1
    BY <2>1, FS_Interval
  <2>. QED
    BY <1>2, <2>1, <2>2
<1>4. \A i \in 1 .. n : Place(i) = i
  <2>. HIDE DEF n
  <2>1. Ascending(1 .. n) = [i \in 1 .. n |-> i]
    BY <1>1, AscendingInterval
  <2>. QED
    BY <1>2, <2>1 DEF Place
<1>5. Rows = 1 .. n * B /\ AllRows = 1 .. n * B /\ Places = 1 .. n /\ n * B \in Nat
      /\ \A row \in 1 .. n * B :
           /\ SentOf(row) \in 1 .. n /\ BeamOf(row) \in 1 .. B
           /\ RowOf(SentOf(row), BeamOf(row)) = row
  BY <1>1, <1>3, RowNumbers DEF Rows, AllRows, Places
<1>6. /\ step = 0 /\ buf = EmptyBuffers /\ net = EncoderRows(aux) /\ Reordered = net
      /\ reorder_state = << >> /\ batch_idxs = << >> /\ ignorelist = NotIgnored
      /\ finalized = NoHypotheses /\ finished = NoneIsFinished
  BY DEF Fresh, Reordered
<1>. HIDE DEF B, n
<1>7. IsSequence(buf) /\ Len(buf) = n * B
  <2>1. buf = [row \in 1 .. n * B |-> buf[row]]
    BY <1>5, <1>6 DEF EmptyBuffers
  <2>. QED
    BY <1>5, <2>1, FunctionSequence
<1>8. IsSequence(ignorelist) /\ Len(ignorelist) = n
  <2>1. ignorelist = [i \in 1 .. n |-> ignorelist[i]]
    BY <1>2, <1>6 DEF NotIgnored
  <2>. QED
    BY <1>1, <2>1, FunctionSequence
<1>9. \A i \in Places : \A b \in 1 .. beam_size : ~ ignorelist[i][b]
  BY <1>2, <1>5, <1>6 DEF NotIgnored
<1>10. ASSUME NEW s \in Sentences PROVE finalized[s] = << >> /\ IsSequence(finalized[s]) /\ Len(finalized[s]) = 0
  BY <1>6, EmptySequence DEF NoHypotheses
<1>11. ASSUME NEW row \in Rows
       PROVE  /\ buf[row].tokens = <<Eos>> /\ buf[row].scores = << >> /\ buf[row].tags = << >>
              /\ Reordered[row].enc = SentOf(row) /\ Reordered[row].aux = aux[BeamOf(row)]
              /\ Reordered[row].cache = Nothing /\ Reordered[row].outs = << >>
  BY <1>5, <1>6 DEF EmptyBuffers, EncoderRows
<1>12. ASSUME NEW row \in Rows PROVE RowRight(row)
  <2>. DEFINE b == buf[row]
              r == Reordered[row]
              s == Place(SentOf(row))
  <2>1. b.tokens \in Seq(Nat) /\ Len(b.tokens) = 1 /\ b.tokens[1] = Eos
    <3>1. b.tokens = <<0>>
      BY <1>11 DEF Eos
    <3>2. <<0>> \in Seq(Nat) /\ Len(<<0>>) = 1 /\ <<0>>[1] = 0
      OBVIOUS
    <3>. HIDE DEF b
    <3>. QED
      BY <3>1, <3>2 DEF Eos
  <2>2. r.enc = s
    BY <1>4, <1>5, <1>11
  <2>3. r.aux \in Transcripts
    <3>1. BeamOf(row) \in 1 .. beam_size /\ r.aux = IF phase = "tgt" THEN BeamOf(row) ELSE 0
      BY <1>5, <1>11 DEF B
    <3>. QED
      BY <3>1 DEF Transcripts, Fresh, Searching
  <2>4. r.cache.of = {} /\ r.cache.toks = << >>
    <3>1. Nothing.of = {} /\ Nothing.toks = << >>
      BY DEF Nothing
    <3>. QED
      BY <1>11, <3>1
  <2>5. SubSeq(b.tokens, 1, 0) = << >>
    <3>1. IsSequence(b.tokens) /\ 0 \in 0 .. Len(b.tokens)
      BY <2>1 DEF IsSequence
    <3>2. IsSequence(SubSeq(b.tokens, 1, 0)) /\ Len(SubSeq(b.tokens, 1, 0)) = 0
      BY <3>1, CutSequence
    <3>. QED
      BY <3>2, SequenceFacts
  <2>6. \A t : Numbers(s, r.aux, t, 0) = << >>
    BY NumbersFacts
  <2>7. b.scores = << >> /\ b.tags = << >> /\ r.outs = << >>
    BY <1>11
  <2>8. b.tokens \in Seq(Nat) /\ Len(b.tokens) = 0 + 1 /\ \A m \in 2 .. 0 + 1 : b.tokens[m] # Eos
    BY <2>1
  <2>. HIDE DEF b, r, s
  <2>9. Right(r, b, s, 0, Transcripts)
    BY <2>1, <2>2, <2>3, <2>4, <2>5, <2>6, <2>7, <2>8 DEF Right
  <2>. QED
    BY <1>6, <2>9 DEF RowRight, b, r, s
<1>13. RowsDiffer
  <2>1. SUFFICES ASSUME phase = "tgt", NEW p \in Rows, NEW q \in Rows, p # q, SentOf(p) = SentOf(q)
                 PROVE  Reordered[p].aux # Reordered[q].aux
    BY <1>6 DEF RowsDiffer
  <2>2. BeamOf(p) # BeamOf(q) /\ BeamOf(p) \in 1 .. B /\ BeamOf(q) \in 1 .. B
    BY <1>5, <2>1
  <2>3. aux[BeamOf(p)] = BeamOf(p) /\ aux[BeamOf(q)] = BeamOf(q)
    BY <2>1, <2>2 DEF B
  <2>. QED
    BY <1>11, <2>2, <2>3
<1>14. finished \in [Sentences -> BOOLEAN] /\ \A s \in Sentences : ~ finished[s]
  BY <1>6 DEF NoneIsFinished
<1>15. Unfinished # {}
  <2>1. n \in Nat /\ n # 0
    BY <1>1
  <2>2. 1 \in 1 .. n
    BY <2>1
  <2>. QED
    BY <1>2, <2>2
<1>16. SearchInv
  <2>1. beam_size = B /\ B > 0
    BY <1>1 DEF B
  <2>2. \A s \in Sentences :
          IF finished[s] THEN Len(finalized[s]) = beam_size ELSE Len(finalized[s]) < beam_size
    BY <1>10, <1>14, <2>1
  <2>3. \A row \in DOMAIN reorder_state : Corrected(row) \in DOMAIN net
    BY <1>6
  <2>. QED
    BY <1>3, <1>6, <1>7, <1>8, <1>9, <1>12, <1>13, <1>14, <1>15, <2>1, <2>2, <2>3 DEF SearchInv
<1>17. HypothesesInv
  <2>1. finalized = [s \in Sentences |-> finalized[s]]
    BY <1>6 DEF NoHypotheses
  <2>2. HypothesesDiffer
    BY <1>10 DEF HypothesesDiffer
  <2>3. beam_size \in Nat
    BY <1>1 DEF B
  <2>. QED
    BY <1>10, <2>1, <2>2, <2>3 DEF HypothesesInv
<1>. QED
  BY <1>1, <1>6, <1>16, <1>17 DEF GeneratorInv, Fresh, Searching

LEMMA SearchStep ==
  ASSUME GeneratorInv, Searching, NEW next, Step(next),
         phase = "aux" => next = "nbest", phase # "aux" => next = "done"
  PROVE  GeneratorInv'
<1>1. PICK lists \in Chosen :
        /\ finalized' = Finalized(lists)
        /\ finished' = [s \in Sentences |->
                          finished[s] \/ \E i \in newly_finished(lists) : sent(i) = s]
        /\ IF \E s \in Sentences : Len(finalized'[s]) > beam_size
           THEN Drop("failed")
           ELSE IF bsz - Cardinality(newly_finished(lists)) = 0 THEN Drop(next)
           ELSE IF step = max_len THEN Drop("failed")
           ELSE Advance(lists, newly_finished(lists))
        /\ size' = size
  BY DEF Step, Chosen
<1>. DEFINE new == newly_finished(lists)
            N   == bsz
<1>2. /\ size \in Sizes /\ beam_size \in Nat \ {0} /\ max_len \in Nat /\ step \in 0 .. max_len
      /\ 1 .. bsz = Places /\ bsz \in Nat \ {0} /\ SearchInv
      /\ \A i \in Places : sent(i) = Place(i)
  BY SearchFacts
<1>3. /\ new \subseteq Places
      /\ \A i \in new : Len(Finalized(lists)[Place(i)]) = beam_size
      /\ \A i \in Places \ new : Len(Finalized(lists)[Place(i)]) < beam_size
      /\ step = max_len => new = Places
  BY NewlyFinishedFacts
<1>4. /\ \A i \in Places : Place(i) \in Unfinished
      /\ \A s \in Unfinished : \E i \in Places : Place(i) = s
      /\ \A i, j \in Places : Place(i) = Place(j) => i = j
  BY <1>2, PlaceFacts
<1>5. Sentences' = Sentences /\ beam_size' = beam_size /\ max_len' = max_len
  BY <1>1 DEF Sentences, beam_size, max_len
<1>6. IsFiniteSet(Places) /\ Cardinality(Places) = N
  <2>1. 1 \in Int /\ N \in Int /\ N >= 1
    BY <1>2
  <2>. HIDE DEF N
  <2>2. IsFiniteSet(1 .. N) /\ Cardinality(1 .. N) = IF 1 > N THEN 0 ELSE N - 1 + 1
    BY <2>1, FS_Interval
  <2>3. Places = 1 .. N
    BY <1>2 DEF N
  <2>. QED
    BY <2>1, <2>2, <2>3
<1>7. /\ Cardinality(new) \in Nat /\ Cardinality(new) <= N
      /\ (N = Cardinality(new) => new = Places)
  <2>1. IsFiniteSet(new)
    BY <1>3, <1>6, FS_Subset
  <2>2. Cardinality(new) <= Cardinality(Places) /\ (Cardinality(Places) = Cardinality(new) => Places = new)
    BY <1>3, <1>6, FS_Subset
  <2>. QED
    BY <1>6, <2>1, <2>2, FS_CardinalityType
<1>8. ASSUME NEW s \in Sentences
      PROVE  /\ IsSequence(finalized'[s]) /\ Len(finalized'[s]) \in Nat
             /\ Len(finalized'[s]) <= beam_size
             /\ \A n \in 1 .. Len(finalized'[s]) :
                  HypothesisRight(s, finalized'[s][n]) /\ Len(finalized'[s][n].toks) <= step + 1
             /\ \A m, n \in 1 .. Len(finalized'[s]) :
                  m # n => \/ finalized'[s][m].toks # finalized'[s][n].toks
                           \/ finalized'[s][m].aux # finalized'[s][n].aux
             /\ Found(s, lists) = << >> => Len(finalized'[s]) = Len(finalized[s])
  BY <1>1, FinalizedFacts
<1>. HIDE DEF new, N
<1>9. /\ finished' \in [Sentences -> BOOLEAN]
      /\ \A s \in Sentences : finished'[s] <=> finished[s] \/ \E i \in new : sent(i) = s
  BY <1>1, <1>2 DEF SearchInv, new
<1>10. ASSUME NEW s \in Sentences
       PROVE  IF finished'[s] THEN Len(finalized'[s]) = beam_size ELSE Len(finalized'[s]) < beam_size
  <2>1. CASE finished[s]
    <3>1. Found(s, lists) = << >> /\ Len(finalized[s]) = beam_size
      BY <1>2, <2>1, FoundFacts DEF SearchInv
    <3>. QED
      BY <1>8, <1>9, <2>1, <3>1
  <2>2. CASE ~ finished[s]
    <3>1. PICK i \in Places : Place(i) = s
      BY <1>4, <2>2 DEF Unfinished
    <3>2. \A j \in new : sent(j) = s <=> j = i
      BY <1>2, <1>3, <1>4, <3>1
    <3>3. CASE i \in new
      BY <1>1, <1>3, <1>9, <3>1, <3>2, <3>3
    <3>4. CASE i \notin new
      BY <1>1, <1>3, <1>9, <2>2, <3>1, <3>2, <3>4
    <3>. QED
      BY <3>3, <3>4
  <2>. QED
    BY <2>1, <2>2
<1>11. Unfinished' = Unfinished \ {Place(i) : i \in new}
  <2>1. \A s \in Sentences : (\E i \in new : sent(i) = s) <=> s \in {Place(i) : i \in new}
    BY <1>2, <1>3
  <2>. QED
    BY <1>5, <1>9, <2>1 DEF Unfinished
<1>12. ~ \E s \in Sentences : Len(finalized'[s]) > beam_size
  BY <1>2, <1>8
<1>13. finalized' = [s \in Sentences |-> finalized'[s]]
  BY <1>1 DEF Finalized
<1>14. HypothesesDiffer'
  <2>1. ASSUME NEW s \in Sentences PROVE DOMAIN finalized'[s] = 1 .. Len(finalized'[s])
    BY <1>8, SequenceFacts
  <2>. QED
    BY <1>5, <1>8, <2>1 DEF HypothesesDiffer
<1>15. CASE N - Cardinality(new) = 0
  <2>1. new = Places
    BY <1>2, <1>7, <1>15 DEF N
  <2>2. Drop(next)
    BY <1>1, <1>12, <1>15 DEF N, new
  <2>3. /\ phase' = next /\ step' = 0 /\ buf' = << >> /\ reorder_state' = << >>
        /\ batch_idxs' = << >> /\ ignorelist' = << >>
    BY <2>2 DEF Drop
  <2>4. \A s \in Sentences : finished'[s]
    <3>1. ASSUME NEW s \in Sentences, ~ finished[s] PROVE \E i \in new : sent(i) = s
      <4>1. PICK i \in Places : Place(i) = s
        BY <1>4, <3>1 DEF Unfinished
      <4>. QED
        BY <1>2, <2>1, <4>1
    <3>. QED
      BY <1>9, <3>1
  <2>5. EnoughHypotheses'
    BY <1>5, <1>10, <2>4 DEF EnoughHypotheses
  <2>6. /\ phase = "aux" => phase' = "nbest" /\ size.two_phase
        /\ phase = "tgt" => phase' = "done" /\ size.two_phase
        /\ phase = "single" => phase' = "done" /\ ~ size.two_phase
        /\ phase \in {"aux", "tgt", "single"}
    BY <2>3 DEF GeneratorInv, Searching
  <2>7. ~ Searching'
    BY <2>6 DEF Searching
  <2>8. Transcripts' = Transcripts /\ (phase' \in {"aux", "nbest"} => phase \in {"aux", "nbest"})
    BY <1>1, <1>5, <2>6 DEF Transcripts
  <2>9. ASSUME NEW s \in Sentences, NEW n \in 1 .. Len(finalized'[s])
        PROVE  HypothesisRight(s, finalized[s][n])'
    <3>1. HypothesisRight(s, finalized'[s][n])
      BY <1>8
    <3>. QED
      BY <2>8, <3>1 DEF HypothesisRight
  <2>10. HypothesesInv'
    BY <1>5, <1>8, <1>13, <1>14, <2>7, <2>9 DEF HypothesesInv, IsSequence
  <2>11. step' \in 0 .. max_len'
    BY <1>2, <1>5, <2>3
  <2>. QED
    BY <1>1, <1>2, <2>3, <2>5, <2>6, <2>7, <2>10, <2>11 DEF GeneratorInv
<1>16. CASE N - Cardinality(new) # 0
  <2>1. step # max_len /\ Cardinality(new) # bsz
    BY <1>2, <1>3, <1>6, <1>7, <1>16 DEF N
  <2>2. Advance(lists, newly_finished(lists))
    BY <1>1, <1>12, <1>16, <2>1 DEF N, new
  <2>3. /\ phase' = phase /\ step' = step + 1
        /\ Unfinished' # {}
        /\ IsSequence(buf)' /\ Len(buf') = Cardinality(Unfinished') * beam_size
        /\ IsSequence(ignorelist)' /\ Len(ignorelist') = Cardinality(Unfinished')
        /\ \A i \in Places' : \A b \in 1 .. beam_size : ~ ignorelist'[i][b]
        /\ IsSequence(reorder_state)' /\ Len(reorder_state') = Len(buf')
        /\ batch_idxs' = << >>
             \/ (IsSequence(batch_idxs)' /\ Len(batch_idxs') = Cardinality(Unfinished'))
        /\ \A row \in DOMAIN reorder_state' : Corrected(row)' \in DOMAIN net'
        /\ \A row \in Rows' : RowRight(row)'
        /\ RowsDiffer'
    BY <1>1, <1>11, <2>1, <2>2, AdvanceRows DEF new
  <2>4. Searching' /\ Transcripts' = Transcripts
    BY <1>1, <1>5, <2>3 DEF Searching, Transcripts
  <2>5. SearchInv'
    BY <1>5, <1>9, <1>10, <2>3 DEF SearchInv
  <2>6. ASSUME NEW s \in Sentences, NEW n \in 1 .. Len(finalized'[s])
        PROVE  /\ HypothesisRight(s, finalized[s][n])'
               /\ Len(finalized'[s][n].toks) <= step'
    <3>1. HypothesisRight(s, finalized'[s][n]) /\ Len(finalized'[s][n].toks) <= step + 1
      BY <1>8
    <3>. QED
      BY <2>3, <2>4, <3>1 DEF HypothesisRight
  <2>7. HypothesesInv'
    BY <1>5, <1>8, <1>13, <1>14, <2>6 DEF HypothesesInv, IsSequence
  <2>8. step' \in 0 .. max_len'
    BY <1>2, <1>5, <2>1, <2>3
  <2>. QED
    BY <1>1, <1>2, <2>3, <2>4, <2>5, <2>7, <2>8 DEF GeneratorInv
<1>. QED
  BY <1>15, <1>16

\* The second search begins as the first one did, with as many transcripts as it has beams.
LEMMA StartTgtIsFresh ==
  ASSUME GeneratorInv, StartTgt
  PROVE  Fresh'
<1>1. size \in Sizes /\ size.two_phase /\ ~ Searching /\ phase = "nbest"
  BY DEF GeneratorInv, StartTgt, Searching
<1>2. \A s \in Sentences : Len(finalized[s]) = beam_size
  BY <1>1 DEF GeneratorInv, EnoughHypotheses
<1>3. /\ size' = size /\ phase' = "tgt" /\ step' = 0
      /\ buf' = EmptyBuffers /\ net' = EncoderRows([b \in 1 .. beam_size |-> b])
      /\ reorder_state' = << >> /\ batch_idxs' = << >> /\ ignorelist' = NotIgnored
      /\ finalized' = NoHypotheses /\ finished' = NoneIsFinished
  BY <1>2 DEF StartTgt
<1>4. beam_size' = beam_size /\ Sentences' = Sentences /\ AllRows' = AllRows
  BY <1>3 DEF beam_size, Sentences, AllRows
<1>5. \A row : SentOf(row)' = SentOf(row) /\ BeamOf(row)' = BeamOf(row)
  BY <1>4 DEF SentOf, BeamOf
<1>6. /\ EmptyBuffers' = EmptyBuffers /\ NotIgnored' = NotIgnored
      /\ NoHypotheses' = NoHypotheses /\ NoneIsFinished' = NoneIsFinished
  BY <1>4 DEF EmptyBuffers, NotIgnored, NoHypotheses, NoneIsFinished
<1>7. EncoderRows([b \in 1 .. beam_size |-> IF phase = "tgt" THEN b ELSE 0])'
        = EncoderRows([b \in 1 .. beam_size |-> b])
  BY <1>3, <1>4, <1>5 DEF EncoderRows
<1>. QED
  BY <1>1, <1>3, <1>6, <1>7 DEF Fresh, Searching

\* The inductive invariant: after every step of either search the rows of all tensors, those
\* that are reordered late included, are those of the sentence that has their place.
THEOREM GeneratorInvHolds == Spec => []GeneratorInv
<1>1. Init => GeneratorInv
  <2>1. ASSUME Init PROVE Fresh
    <3>1. phase # "tgt" /\ size \in Sizes
      BY <2>1 DEF Init
    <3>2. [b \in 1 .. beam_size |-> IF phase = "tgt" THEN b ELSE 0] = [b \in 1 .. beam_size |-> 0]
      BY <3>1
    <3>3. size.two_phase \in BOOLEAN
      BY <3>1, SizeFacts
    <3>. QED
      BY <2>1, <3>1, <3>2, <3>3 DEF Fresh, Init, Searching
  <2>. QED
    BY <2>1, FreshIsRight
<1>2. Fresh' => GeneratorInv'
  BY FreshIsRight, PTL
<1>3. GeneratorInv /\ [Next]_vars => GeneratorInv'
  <2>. SUFFICES ASSUME GeneratorInv, [Next]_vars PROVE GeneratorInv'
    OBVIOUS
  <2>1. CASE _generate_aux
    <3>1. phase = "aux" /\ Step("nbest") /\ Searching
      BY <2>1 DEF _generate_aux, Searching
    <3>. QED
      BY <3>1, SearchStep
  <2>2. CASE StartTgt
    BY <1>2, <2>2, StartTgtIsFresh
  <2>3. CASE _generate_tgt
    <3>1. phase = "tgt" /\ phase # "aux" /\ Step("done") /\ Searching
      BY <2>3 DEF _generate_tgt, Searching
    <3>. QED
      BY <3>1, SearchStep
  <2>4. CASE _generate
    <3>1. phase = "single" /\ phase # "aux" /\ Step("done") /\ Searching
      BY <2>4 DEF _generate, Searching
    <3>. QED
      BY <3>1, SearchStep
  <2>5. CASE UNCHANGED vars
    <3>1. /\ size' = size /\ phase' = phase /\ step' = step /\ buf' = buf /\ net' = net
          /\ reorder_state' = reorder_state /\ batch_idxs' = batch_idxs
          /\ ignorelist' = ignorelist /\ finalized' = finalized /\ finished' = finished
      BY <2>5 DEF vars
    <3>2. /\ beam_size' = beam_size /\ max_len' = max_len /\ Sentences' = Sentences
          /\ Searching' = Searching /\ \A row : SentOf(row)' = SentOf(row)
      BY <3>1 DEF beam_size, max_len, Sentences, Searching, SentOf
    <3>3. Unfinished' = Unfinished /\ Transcripts' = Transcripts
      BY <3>1, <3>2 DEF Unfinished, Transcripts
    <3>4. /\ Rows' = Rows /\ Places' = Places
          /\ \A row : Corrected(row)' = Corrected(row)
          /\ \A row : Place(SentOf(row))' = Place(SentOf(row))
      BY <3>1, <3>2, <3>3 DEF Rows, Places, Corrected, Place
    <3>5. Reordered' = Reordered
      BY <3>1, <3>4 DEF Reordered
    <3>6. \A row : RowRight(row)' <=> RowRight(row)
      BY <3>1, <3>3, <3>4, <3>5 DEF RowRight
    <3>7. RowsDiffer' <=> RowsDiffer
      BY <3>1, <3>2, <3>4, <3>5 DEF RowsDiffer
    <3>8. SearchInv' <=> SearchInv
      BY <3>1, <3>2, <3>3, <3>4, <3>6, <3>7 DEF SearchInv
    <3>9. HypothesesInv' <=> HypothesesInv
      BY <3>1, <3>2, <3>3 DEF HypothesesInv, HypothesesDiffer, HypothesisRight
    <3>. QED
      BY <3>1, <3>2, <3>8, <3>9 DEF GeneratorInv, EnoughHypotheses
  <2>. QED
    BY <2>1, <2>2, <2>3, <2>4, <2>5 DEF Next
<1>. QED
  BY <1>1, <1>3, PTL DEF Spec

-----------------------------------------------------------------------------
(***************************************************************************)
(* The properties.                                                         *)
(***************************************************************************)

\* The tensors of a search always agree in their sizes: rows that are reordered late are
\* still there then, and have one token, score and tag for every step so far.
THEOREM GeneratorTypeOK == Spec => []TypeOK
<1>1. GeneratorInv => TypeOK
  <2>. SUFFICES ASSUME GeneratorInv PROVE TypeOK
    OBVIOUS
  <2>1. CASE Searching
    <3>1. /\ size \in Sizes /\ step \in 0 .. max_len /\ step \in Nat
          /\ bsz = Cardinality(Unfinished) /\ DOMAIN buf = Rows /\ SearchInv
      BY <2>1, SearchFacts
    <3>2. ASSUME NEW row \in DOMAIN buf
          PROVE  /\ Len(buf[row].tokens) = step + 1
                 /\ Len(buf[row].scores) = step /\ Len(buf[row].tags) = step
      <4>1. RowRight(row)
        BY <3>1 DEF SearchInv
      <4>. QED
        BY <3>1, <4>1, NumbersFacts DEF RowRight, Right
    <3>. QED
      BY <3>1, <3>2 DEF TypeOK, SearchInv, GeneratorInv, Unfinished
  <2>2. CASE ~ Searching
    <3>1. beam_size \in Nat /\ size \in Sizes
      BY SizeFacts DEF GeneratorInv
    <3>2. /\ buf = << >> /\ reorder_state = << >> /\ batch_idxs = << >> /\ ignorelist = << >>
      BY <2>2 DEF GeneratorInv
    <3>3. Len(<< >>) = 0 /\ DOMAIN << >> = {} /\ 0 = 0 * beam_size
      BY <3>1
    <3>. QED
      BY <2>2, <3>1, <3>2, <3>3 DEF TypeOK, GeneratorInv, Searching
  <2>. QED
    BY <2>1, <2>2
<1>. QED
  BY <1>1, GeneratorInvHolds, PTL

\* The scores, tags and outputs of a hypothesis were computed from the audio of its own
\* sentence, the transcript stated with it and the tokens before them.
THEOREM OwnHypotheses == Spec => []HypothesesAreOwn
<1>1. GeneratorInv => HypothesesAreOwn
  <2>. SUFFICES ASSUME GeneratorInv, NEW s \in Sentences, NEW n \in DOMAIN finalized[s]
                PROVE  LET h == finalized[s][n]
                       IN  /\ Own(s, h.aux, h.toks, h.tags) /\ Own(s, h.aux, h.toks, h.scores)
                           /\ phase \in {"aux", "nbest"} => Own(s, 0, h.toks, h.outs)
                           /\ h.aux \in Transcripts
    BY DEF HypothesesAreOwn, Transcripts
  <2>1. IsSequence(finalized[s])
    BY DEF GeneratorInv, HypothesesInv
  <2>2. n \in 1 .. Len(finalized[s])
    BY <2>1, SequenceFacts
  <2>3. HypothesisRight(s, finalized[s][n])
    BY <2>2 DEF GeneratorInv, HypothesesInv
  <2>. QED
    BY <2>3 DEF HypothesisRight
<1>. QED
  BY <1>1, GeneratorInvHolds, PTL

\* No sentence has the same hypothesis twice.
THEOREM DifferentHypotheses == Spec => []HypothesesDiffer
<1>1. GeneratorInv => HypothesesDiffer
  BY DEF GeneratorInv, HypothesesInv
<1>. QED
  BY <1>1, GeneratorInvHolds, PTL

\* A beam that has ended does not go on.
THEOREM EosIsLast == Spec => []NothingAfterEos
<1>1. GeneratorInv => NothingAfterEos
  <2>. SUFFICES ASSUME GeneratorInv, NEW row \in DOMAIN buf,
                       NEW n \in DOMAIN Tail(buf[row].tokens)
                PROVE  Tail(buf[row].tokens)[n] # Eos
    BY DEF NothingAfterEos
  <2>1. Searching
    <3>1. buf # << >>
      OBVIOUS
    <3>. QED
      BY <3>1 DEF GeneratorInv
  <2>2. RowRight(row) /\ step \in Nat
    BY <2>1, SearchFacts DEF SearchInv
  <2>. DEFINE t == buf[row].tokens
  <2>3. t \in Seq(Nat) /\ Len(t) = step + 1 /\ \A m \in 2 .. step + 1 : t[m] # Eos
    BY <2>2 DEF RowRight, Right
  <2>4. n \in DOMAIN Tail(t)
    OBVIOUS
  <2>. HIDE DEF t
  <2>5. t # << >>
    BY <2>2, <2>3
  <2>6. /\ Tail(t) \in Seq(Nat) /\ Len(Tail(t)) = Len(t) - 1
        /\ \A m \in 1 .. Len(Tail(t)) : Tail(t)[m] = t[m + 1]
    BY <2>3, <2>5, HeadTailProperties
  <2>7. n \in 1 .. step /\ Tail(t)[n] = t[n + 1] /\ n + 1 \in 2 .. step + 1
    BY <2>2, <2>3, <2>4, <2>6
  <2>8. Tail(t)[n] # Eos
    BY <2>3, <2>7
  <2>. QED
    BY <2>8 DEF t
<1>. QED
  BY <1>1, GeneratorInvHolds, PTL

\* A search returns beam_size hypotheses of every sentence.
THEOREM SearchesFindEnough == Spec => []EnoughHypotheses
<1>1. GeneratorInv => EnoughHypotheses
  BY DEF GeneratorInv, EnoughHypotheses, Searching
<1>. QED
  BY <1>1, GeneratorInvHolds, PTL

\* No assertion of the generator fails, and the second search can start after the first.
THEOREM NoAssertionFails == Spec => []NoAssertFails
<1>1. GeneratorInv => NoAssertFails
  BY DEF GeneratorInv, NoAssertFails
<1>. QED
  BY <1>1, GeneratorInvHolds, PTL
=============================================================================
