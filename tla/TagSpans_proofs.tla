--------------------------- MODULE TagSpans_proofs ---------------------------
(***************************************************************************)
(* That no entity is lost on the way from tokens and tags to a text, for   *)
(* hypotheses of any length and any types, and that a span that begins     *)
(* inside a word, and has its words alone, becomes those words.  The line  *)
(* is right when it is joined, and each pass over it only moves marks over *)
(* letters or spaces, in a way that loses nothing (Careful) and takes them *)
(* to the ends of their words (WordInv).                                   *)
(***************************************************************************)
EXTENDS TagSpans, FiniteSetTheorems, SequenceTheorems, TLAPS

IsSequence(s) == \E S : s \in Seq(S)

-----------------------------------------------------------------------------
(***************************************************************************)
(* Sorting.                                                                *)
(***************************************************************************)

\* rank says where the items of text are in new, which is sorted by their places.
Sorted(text, new, place, rank) ==
  /\ IsSequence(new) /\ DOMAIN new = DOMAIN text
  /\ rank \in [DOMAIN text -> DOMAIN text]
  /\ \A i \in DOMAIN text : new[rank[i]] = text[i]
  /\ \A n \in DOMAIN text : \E i \in DOMAIN text : rank[i] = n
  /\ \A i, j \in DOMAIN text : place[i] < place[j] <=> rank[i] < rank[j]

\* Items with places of their own are sorted.
LEMMA RearrangedSorts ==
  ASSUME NEW text, IsSequence(text), NEW place \in [DOMAIN text -> Int],
         \A i, j \in DOMAIN text : i # j => place[i] # place[j]
  PROVE  \E rank : Sorted(text, Rearranged(text, place), place, rank)
<1>. DEFINE D == DOMAIN text
            Upto(i) == {j \in D : place[j] <= place[i]}
            rank == [i \in D |-> Cardinality(Upto(i))]
            new == Rearranged(text, place)
<1>1. Len(text) \in Nat /\ D = 1 .. Len(text)
  BY DEF IsSequence
<1>2. IsFiniteSet(D) /\ Cardinality(D) = Len(text)
  <2>1. 1 \in Int /\ Len(text) \in Int
    BY <1>1
  <2>2. IsFiniteSet(1 .. Len(text)) /\ Cardinality(1 .. Len(text)) = IF 1 > Len(text) THEN 0 ELSE Len(text) - 1 + 1
    BY <2>1, FS_Interval
  <2>3. IsFiniteSet(D) /\ Cardinality(D) = IF 1 > Len(text) THEN 0 ELSE Len(text) - 1 + 1
    BY <1>1, <2>2
  <2>. QED
    BY <1>1, <2>3
<1>. HIDE DEF D
<1>3. ASSUME NEW i \in D
      PROVE  /\ IsFiniteSet(Upto(i)) /\ Upto(i) \subseteq D
             /\ Cardinality(Upto(i)) \in D
  <2>1. Upto(i) \in SUBSET D /\ i \in Upto(i)
    BY DEF D
  <2>. HIDE DEF Upto
  <2>2. IsFiniteSet(Upto(i)) /\ Cardinality(Upto(i)) <= Len(text) /\ Cardinality(Upto(i)) \in Nat
    BY <1>2, <2>1, FS_Subset, FS_CardinalityType
  <2>3. Cardinality(Upto(i)) # 0
    BY <2>1, <2>2, FS_EmptySet
  <2>. QED
    BY <1>1, <2>1, <2>2, <2>3
<1>4. ASSUME NEW i \in D, NEW j \in D, place[i] < place[j]
      PROVE  Cardinality(Upto(i)) < Cardinality(Upto(j))
  <2>1. place[i] \in Int /\ place[j] \in Int /\ \A k \in D : place[k] \in Int
    BY DEF D
  <2>2. Upto(i) \subseteq Upto(j) /\ j \in Upto(j) /\ j \notin Upto(i)
    BY <1>4, <2>1
  <2>3. IsFiniteSet(Upto(i)) /\ IsFiniteSet(Upto(j)) /\ Cardinality(Upto(i)) \in Nat /\ Cardinality(Upto(j)) \in Nat
    BY <1>3, FS_CardinalityType
  <2>. HIDE DEF Upto
  <2>4. Cardinality(Upto(i)) <= Cardinality(Upto(j)) /\ Cardinality(Upto(i)) # Cardinality(Upto(j))
    BY <2>2, <2>3, FS_Subset
  <2>. QED
    BY <2>3, <2>4
<1>5. rank \in [D -> D] /\ \A i \in D : rank[i] = Cardinality(Upto(i))
  BY <1>3
<1>6. \A i, j \in D : place[i] < place[j] <=> rank[i] < rank[j]
  <2>1. TAKE i, j \in D
  <2>2. place[i] \in Int /\ place[j] \in Int /\ rank[i] \in Nat /\ rank[j] \in Nat
    <3>1. rank[i] \in D /\ rank[j] \in D
      BY <1>5
    <3>2. place[i] \in Int /\ place[j] \in Int
      BY DEF D
    <3>. QED
      BY <1>1, <3>1, <3>2
  <2>3. place[i] < place[j] => rank[i] < rank[j]
    BY <1>4, <1>5
  <2>4. place[j] < place[i] => rank[j] < rank[i]
    BY <1>4, <1>5
  <2>5. place[i] = place[j] => rank[i] = rank[j]
    BY DEF D
  <2>. HIDE DEF rank
  <2>. QED
    BY <2>2, <2>3, <2>4, <2>5
<1>7. \A i, j \in D : rank[i] = rank[j] => i = j
  <2>1. TAKE i, j \in D
  <2>2. HAVE rank[i] = rank[j]
  <2>3. place[i] \in Int /\ place[j] \in Int /\ rank[i] \in Int /\ rank[j] \in Int
    <3>1. rank[i] \in D /\ rank[j] \in D
      BY <1>5
    <3>2. place[i] \in Int /\ place[j] \in Int
      BY DEF D
    <3>. QED
      BY <1>1, <3>1, <3>2
  <2>. HIDE DEF rank
  <2>4. ~ (place[i] < place[j]) /\ ~ (place[j] < place[i])
    BY <1>6, <2>2, <2>3
  <2>5. place[i] = place[j]
    BY <2>3, <2>4
  <2>. QED
    BY <2>5 DEF D
<1>. HIDE DEF rank
<1>8. \A n \in D : \E i \in D : rank[i] = n
  <2>1. rank \in Injection(D, D)
    BY <1>5, <1>7 DEF Injection, IsInjective
  <2>2. rank \in Surjection(D, D)
    BY <1>2, <2>1, FS_Injection
  <2>. QED
    BY <2>2 DEF Surjection
<1>9. new = [n \in D |-> text[CHOOSE i \in D : rank[i] = n]]
  BY Zenon DEF Rearranged, rank, D
<1>10. \A i \in D : new[rank[i]] = text[i]
  <2>1. TAKE i \in D
  <2>2. rank[i] \in D
    BY <1>5
  <2>3. new[rank[i]] = text[CHOOSE j \in D : rank[j] = rank[i]]
    BY <1>9, <2>2
  <2>. DEFINE c == CHOOSE j \in D : rank[j] = rank[i]
  <2>4. c \in D /\ rank[c] = rank[i]
    BY <2>1
  <2>5. c = i
    <3>. HIDE DEF c
    <3>. QED
      BY <1>7, <2>4
  <2>. QED
    BY <2>3, <2>5
<1>11. IsSequence(new) /\ DOMAIN new = D
  <2>. DEFINE T == {new[n] : n \in D}
  <2>1. new \in [1 .. Len(text) -> T]
    BY <1>1, <1>9
  <2>2. new \in Seq(T)
    <3>. HIDE DEF new, T
    <3>. QED
      BY <1>1, <2>1
  <2>. QED
    BY <1>9, <2>2 DEF IsSequence
<1>12. Sorted(text, new, place, rank)
  BY <1>5, <1>6, <1>8, <1>10, <1>11 DEF Sorted, D
<1>. QED
  BY <1>12

-----------------------------------------------------------------------------
(***************************************************************************)
(* What is true of every line.                                             *)
(***************************************************************************)

\* A letter or a punctuation mark, of which every token has one.
IsText(item) == item.kind \in {"letter", "punct"}

\* A mark, or a character of a token.
ItemOK(item) ==
  \/ item.kind \in {"open", "close"} /\ item.of \in Types
  \/ item.kind \in {"space", "letter", "punct"} /\ item.of \in 1 .. Len(tokens)

\* An opening and a closing mark, with nothing but the text of the tokens between them,
\* and all text of span s.
Encloses(text, o, c, s) ==
  /\ o \in DOMAIN text /\ c \in DOMAIN text
  /\ text[o].kind = "open" /\ text[o].of = TypeOf(s)
  /\ text[c].kind = "close" /\ text[c].of = TypeOf(s)
  /\ \A p \in DOMAIN text : o < p /\ p < c => ~ IsMark(text[p])
  /\ \A i \in s[1] .. s[2] : \E p \in DOMAIN text : o < p /\ p < c /\ IsText(text[p]) /\ text[p].of = i

LineOK(text) ==
  /\ IsSequence(text)
  /\ \A p \in DOMAIN text : ItemOK(text[p])
  /\ \A p, q \in DOMAIN text : IsText(text[p]) /\ IsText(text[q]) /\ text[p].of = text[q].of => p = q
  /\ \A s \in Spans : \E o, c \in DOMAIN text : Encloses(text, o, c, s)
  /\ \A c \in DOMAIN text : text[c].kind = "close" =>
       \E s \in Spans, o \in DOMAIN text : Encloses(text, o, c, s)

TagInv ==
  /\ \E n \in 0 .. MaxTokens : tokens \in [1 .. n -> Token]
  /\ eosTag \in Tags
  /\ stage \in {"none", "joined", "moved", "spaced"}
  /\ stage = "none" => tokens = << >> /\ line = << >>
  /\ stage # "none" => LineOK(line)

-----------------------------------------------------------------------------
(***************************************************************************)
(* The moves.                                                              *)
(***************************************************************************)

\* Every item has a place of its own; marks keep their order, and no mark goes over text to
\* the wrong side.
Careful(text, place) ==
  /\ place \in [DOMAIN text -> Int]
  /\ \A i, j \in DOMAIN text : i # j => place[i] # place[j]
  /\ \A p, q \in DOMAIN text : p < q /\ IsMark(text[p]) /\ IsMark(text[q]) => place[p] < place[q]
  /\ \A p, q \in DOMAIN text : p < q /\ text[p].kind = "open" /\ IsText(text[q]) => place[p] < place[q]
  /\ \A p, q \in DOMAIN text : p < q /\ IsText(text[p]) /\ text[q].kind = "close" => place[p] < place[q]

LEMMA RankedInOrder ==
  ASSUME NEW text, IsSequence(text), NEW place, NEW new, NEW rank, Sorted(text, new, place, rank),
         NEW i \in DOMAIN text, NEW j \in DOMAIN text
  PROVE  /\ i \in Int /\ rank[i] \in Int /\ rank[i] \in DOMAIN new /\ new[rank[i]] = text[i]
         /\ place[i] < place[j] <=> rank[i] < rank[j]
<1>1. Len(text) \in Nat /\ DOMAIN text = 1 .. Len(text)
  BY DEF IsSequence
<1>2. /\ rank[i] \in DOMAIN text /\ DOMAIN new = DOMAIN text /\ new[rank[i]] = text[i]
      /\ place[i] < place[j] <=> rank[i] < rank[j]
  BY DEF Sorted
<1>3. i \in Int /\ rank[i] \in Int
  BY <1>1, <1>2
<1>. QED
  BY <1>2, <1>3

LEMMA EncloseMoved ==
  ASSUME NEW text, IsSequence(text), NEW place, Careful(text, place), NEW new, NEW rank,
         Sorted(text, new, place, rank), NEW s, NEW o, NEW c, Encloses(text, o, c, s)
  PROVE  Encloses(new, rank[o], rank[c], s)
<1>0. \A i, j \in DOMAIN text :
        /\ i \in Int /\ rank[i] \in Int /\ rank[i] \in DOMAIN new /\ new[rank[i]] = text[i]
        /\ place[i] < place[j] <=> rank[i] < rank[j]
  BY RankedInOrder
<1>1. /\ o \in DOMAIN text /\ c \in DOMAIN text
      /\ text[o].kind = "open" /\ text[o].of = TypeOf(s)
      /\ text[c].kind = "close" /\ text[c].of = TypeOf(s)
  BY DEF Encloses
<1>2. /\ rank[o] \in DOMAIN new /\ rank[c] \in DOMAIN new
      /\ new[rank[o]].kind = "open" /\ new[rank[o]].of = TypeOf(s)
      /\ new[rank[c]].kind = "close" /\ new[rank[c]].of = TypeOf(s)
  BY <1>0, <1>1
<1>3. ASSUME NEW n \in DOMAIN new, rank[o] < n, n < rank[c] PROVE ~ IsMark(new[n])
  <2>1. PICK i \in DOMAIN text : rank[i] = n
    BY DEF Sorted
  <2>2. SUFFICES ASSUME IsMark(text[i]) PROVE FALSE
    BY <1>0, <2>1
  <2>3. IsMark(text[o]) /\ IsMark(text[c])
    BY <1>1 DEF IsMark
  <2>4. i # o /\ i # c
    BY <1>0, <1>1, <1>3, <2>1
  <2>5. ~ (i < o)
    <3>1. SUFFICES ASSUME i < o PROVE FALSE
      OBVIOUS
    <3>2. place[i] < place[o]
      BY <1>1, <2>2, <2>3, <3>1 DEF Careful
    <3>3. rank[i] < rank[o]
      BY <1>0, <1>1, <3>2
    <3>. QED
      BY <1>0, <1>1, <1>3, <2>1, <3>3
  <2>6. ~ (c < i)
    <3>1. SUFFICES ASSUME c < i PROVE FALSE
      OBVIOUS
    <3>2. place[c] < place[i]
      BY <1>1, <2>2, <2>3, <3>1 DEF Careful
    <3>3. rank[c] < rank[i]
      BY <1>0, <1>1, <3>2
    <3>. QED
      BY <1>0, <1>1, <1>3, <2>1, <3>3
  <2>7. o < i /\ i < c
    BY <1>0, <1>1, <2>4, <2>5, <2>6
  <2>. QED
    BY <2>2, <2>7 DEF Encloses
<1>4. ASSUME NEW i \in s[1] .. s[2]
      PROVE  \E p \in DOMAIN new : rank[o] < p /\ p < rank[c] /\ IsText(new[p]) /\ new[p].of = i
  <2>1. PICK p \in DOMAIN text : o < p /\ p < c /\ IsText(text[p]) /\ text[p].of = i
    BY DEF Encloses
  <2>2. place[o] < place[p] /\ place[p] < place[c]
    BY <1>1, <2>1 DEF Careful
  <2>3. rank[o] < rank[p] /\ rank[p] < rank[c] /\ rank[p] \in DOMAIN new /\ new[rank[p]] = text[p]
    BY <1>0, <1>1, <2>2
  <2>. QED
    BY <2>1, <2>3
<1>. QED
  BY <1>2, <1>3, <1>4 DEF Encloses

\* A careful move loses no span.
LEMMA LineStaysOK ==
  ASSUME NEW text, LineOK(text), NEW place, Careful(text, place)
  PROVE  LineOK(Rearranged(text, place))
<1>. DEFINE new == Rearranged(text, place)
<1>0. IsSequence(text)
  BY DEF LineOK
<1>1. PICK rank : Sorted(text, new, place, rank)
  BY <1>0, RearrangedSorts DEF Careful
<1>. HIDE DEF new
<1>2. \A i, j \in DOMAIN text :
        /\ i \in Int /\ rank[i] \in Int /\ rank[i] \in DOMAIN new /\ new[rank[i]] = text[i]
        /\ place[i] < place[j] <=> rank[i] < rank[j]
  BY <1>0, <1>1, RankedInOrder
<1>3. IsSequence(new) /\ DOMAIN new = DOMAIN text /\ \A n \in DOMAIN new : \E i \in DOMAIN text : rank[i] = n /\ new[n] = text[i]
  BY <1>1 DEF Sorted
<1>4. \A n \in DOMAIN new : ItemOK(new[n])
  BY <1>3 DEF LineOK
<1>5. ASSUME NEW p \in DOMAIN new, NEW q \in DOMAIN new, IsText(new[p]), IsText(new[q]), new[p].of = new[q].of
      PROVE  p = q
  <2>1. PICK i \in DOMAIN text : rank[i] = p /\ new[p] = text[i]
    BY <1>3
  <2>2. PICK j \in DOMAIN text : rank[j] = q /\ new[q] = text[j]
    BY <1>3
  <2>3. i = j
    BY <1>5, <2>1, <2>2 DEF LineOK
  <2>. QED
    BY <2>1, <2>2, <2>3
<1>6. \A s \in Spans : \E o, c \in DOMAIN new : Encloses(new, o, c, s)
  <2>1. TAKE s \in Spans
  <2>2. PICK o, c \in DOMAIN text : Encloses(text, o, c, s)
    BY DEF LineOK
  <2>3. Encloses(new, rank[o], rank[c], s)
    BY <1>0, <1>1, <2>2, EncloseMoved
  <2>. QED
    BY <1>2, <2>3
<1>7. ASSUME NEW n \in DOMAIN new, new[n].kind = "close"
      PROVE  \E s \in Spans, o \in DOMAIN new : Encloses(new, o, n, s)
  <2>1. PICK c \in DOMAIN text : rank[c] = n /\ new[n] = text[c]
    BY <1>3
  <2>2. PICK s \in Spans, o \in DOMAIN text : Encloses(text, o, c, s)
    BY <1>7, <2>1 DEF LineOK
  <2>3. Encloses(new, rank[o], rank[c], s)
    BY <1>0, <1>1, <2>2, EncloseMoved
  <2>. QED
    BY <1>2, <2>1, <2>3
<1>8. LineOK(new)
  BY <1>3, <1>4, <1>5, <1>6, <1>7 DEF LineOK
<1>. QED
  BY <1>8 DEF new

\* A set of numbers has a least one, and a greatest one if it is bounded.
LEMMA Least ==
  ASSUME NEW T, T \subseteq Nat, T # {}
  PROVE  Min(T) \in T /\ \A y \in T : Min(T) <= y
<1>1. PICK n \in T : \A m \in T : ~ (<<m, n>> \in OpToRel(<, Nat))
  BY NatLessThanWellFounded, WFMin
<1>2. \A m \in T : n <= m
  <2>1. SUFFICES ASSUME NEW m \in T, m < n PROVE FALSE
    OBVIOUS
  <2>2. m \in Nat /\ n \in Nat
    OBVIOUS
  <2>3. <<m, n>> \in OpToRel(<, Nat)
    BY <2>1, <2>2 DEF OpToRel
  <2>. QED
    BY <1>1, <2>3
<1>. QED
  BY <1>2 DEF Min

LEMMA Greatest ==
  ASSUME NEW T, NEW bound \in Nat, T \subseteq 0 .. bound, T # {}
  PROVE  Max(T) \in T /\ \A y \in T : y <= Max(T)
<1>. DEFINE U == {bound - x : x \in T}
<1>1. U \subseteq Nat /\ U # {}
  <2>1. \A x \in T : x \in 0 .. bound /\ bound - x \in Nat
    OBVIOUS
  <2>. QED
    BY <2>1
<1>2. PICK u \in U : \A v \in U : u <= v
  <2>. HIDE DEF U
  <2>. QED
    BY <1>1, Least
<1>3. PICK x \in T : u = bound - x
  BY <1>2
<1>4. \A y \in T : y <= x
  <2>1. TAKE y \in T
  <2>2. u <= bound - y
    BY <1>2
  <2>. QED
    BY <1>3, <2>2
<1>. QED
  BY <1>4 DEF Max

\* A run is of one kind, and within the text.
LEMMA RunIsBefore ==
  ASSUME NEW text, IsSequence(text), NEW i \in DOMAIN text, NEW kind
  PROVE  LET r == RunBefore(text, i, kind)
         IN  r \in 0 .. i - 1 /\ \A j \in i - r .. i - 1 : text[j].kind = kind
<1>. DEFINE T == {r \in 0 .. i - 1 : \A j \in i - r .. i - 1 : text[j].kind = kind}
<1>1. i \in Nat /\ i > 0 /\ i - 1 \in Nat
  BY DEF IsSequence
<1>2. 0 \in T /\ T \subseteq 0 .. i - 1
  BY <1>1
<1>3. Max(T) \in T
  <2>. HIDE DEF T
  <2>. QED
    BY <1>1, <1>2, Greatest
<1>. QED
  BY <1>3 DEF RunBefore

LEMMA RunIsAfter ==
  ASSUME NEW text, IsSequence(text), NEW i \in DOMAIN text, NEW kind
  PROVE  LET r == RunAfter(text, i, kind)
         IN  r \in 0 .. Len(text) - i /\ \A j \in i + 1 .. i + r : text[j].kind = kind
<1>. DEFINE b == Len(text) - i
            T == {r \in 0 .. b : \A j \in i + 1 .. i + r : text[j].kind = kind}
<1>1. i \in Nat /\ b \in Nat
  BY DEF IsSequence
<1>2. 0 \in T /\ T \subseteq 0 .. b
  BY <1>1
<1>3. Max(T) \in T
  <2>. HIDE DEF T, b
  <2>. QED
    BY <1>1, <1>2, Greatest
<1>. QED
  BY <1>3 DEF RunAfter

\* A run reaches back to p, or on to p, if and only if all from there on are of the kind.
LEMMA RunReachesBack ==
  ASSUME NEW text, IsSequence(text), NEW i \in DOMAIN text, NEW kind, NEW p \in DOMAIN text, p < i
  PROVE  p >= i - RunBefore(text, i, kind) <=> \A j \in p .. i - 1 : text[j].kind = kind
<1>. DEFINE r == RunBefore(text, i, kind)
            T == {x \in 0 .. i - 1 : \A j \in i - x .. i - 1 : text[j].kind = kind}
<1>1. i \in Nat /\ i > 0 /\ i - 1 \in Nat /\ p \in Nat /\ p > 0
  BY DEF IsSequence
<1>2. r \in 0 .. i - 1 /\ \A j \in i - r .. i - 1 : text[j].kind = kind
  BY RunIsBefore
<1>3. T \subseteq 0 .. i - 1
  OBVIOUS
<1>4. ASSUME \A j \in p .. i - 1 : text[j].kind = kind PROVE p >= i - r
  <2>1. i - (i - p) = p /\ i - p \in 0 .. i - 1
    BY <1>1
  <2>2. i - p \in T
    BY <1>4, <2>1
  <2>3. i - p <= Max(T)
    <3>. HIDE DEF T
    <3>. QED
      BY <1>1, <1>3, <2>2, Greatest
  <2>4. r = Max(T)
    BY DEF RunBefore
  <2>. HIDE DEF T, r
  <2>. QED
    BY <1>1, <1>2, <2>3, <2>4
<1>5. ASSUME p >= i - r PROVE \A j \in p .. i - 1 : text[j].kind = kind
  <2>. HIDE DEF r
  <2>. QED
    BY <1>1, <1>2, <1>5
<1>. QED
  BY <1>4, <1>5

LEMMA RunReachesOn ==
  ASSUME NEW text, IsSequence(text), NEW i \in DOMAIN text, NEW kind, NEW p \in DOMAIN text, i < p
  PROVE  p <= i + RunAfter(text, i, kind) <=> \A j \in i + 1 .. p : text[j].kind = kind
<1>. DEFINE r == RunAfter(text, i, kind)
            b == Len(text) - i
            T == {x \in 0 .. b : \A j \in i + 1 .. i + x : text[j].kind = kind}
<1>1. i \in Nat /\ p \in Nat /\ b \in Nat /\ p - i \in 0 .. b
  BY DEF IsSequence
<1>2. r \in 0 .. b /\ \A j \in i + 1 .. i + r : text[j].kind = kind
  BY RunIsAfter
<1>3. T \subseteq 0 .. b
  OBVIOUS
<1>4. ASSUME \A j \in i + 1 .. p : text[j].kind = kind PROVE p <= i + r
  <2>1. i + (p - i) = p
    BY <1>1
  <2>2. p - i \in T
    BY <1>1, <1>4, <2>1
  <2>3. p - i <= Max(T)
    <3>. HIDE DEF T, b
    <3>. QED
      BY <1>1, <1>3, <2>2, Greatest
  <2>4. r = Max(T)
    BY DEF RunAfter
  <2>. HIDE DEF T, r, b
  <2>. QED
    BY <1>1, <1>2, <2>3, <2>4
<1>5. ASSUME p <= i + r PROVE \A j \in i + 1 .. p : text[j].kind = kind
  <2>. HIDE DEF r, b
  <2>. QED
    BY <1>1, <1>2, <1>5
<1>. QED
  BY <1>4, <1>5

\* The places of the items in the three moves.
StartPlaces(text) ==
  [i \in DOMAIN text |->
    IF text[i].kind = "open" /\ Movable(text[i]) /\ RunBefore(text, i, "letter") > 0
    THEN 2 * (i - RunBefore(text, i, "letter")) - 1 ELSE 2 * i]

EndPlaces(text) ==
  [i \in DOMAIN text |->
    IF text[i].kind = "close" /\ Movable(text[i]) /\ RunAfter(text, i, "letter") > 0
    THEN 2 * (i + RunAfter(text, i, "letter")) + 1 ELSE 2 * i]

SpacePlaces(text) ==
  [i \in DOMAIN text |->
    IF text[i].kind = "open" /\ RunAfter(text, i, "space") > 0
    THEN 2 * (i + RunAfter(text, i, "space")) + 1 ELSE 2 * i]

LEMMA StartsCareful ==
  ASSUME NEW text, LineOK(text)
  PROVE  Careful(text, StartPlaces(text))
<1>. DEFINE r(i) == RunBefore(text, i, "letter")
            moved(i) == text[i].kind = "open" /\ Movable(text[i]) /\ r(i) > 0
            place == [i \in DOMAIN text |-> IF moved(i) THEN 2 * (i - r(i)) - 1 ELSE 2 * i]
<1>1. IsSequence(text) /\ Len(text) \in Nat /\ DOMAIN text = 1 .. Len(text)
  BY DEF LineOK, IsSequence
<1>2. \A i \in DOMAIN text : /\ r(i) \in 0 .. i - 1 /\ i \in Int /\ r(i) \in Int
                             /\ \A j \in i - r(i) .. i - 1 : text[j].kind = "letter"
  <2>1. TAKE i \in DOMAIN text
  <2>2. r(i) \in 0 .. i - 1 /\ \A j \in i - r(i) .. i - 1 : text[j].kind = "letter"
    BY <1>1, RunIsBefore
  <2>. HIDE DEF r
  <2>. QED
    BY <1>1, <2>2
<1>. HIDE DEF r
<1>3. \A i \in DOMAIN text :
        /\ place[i] \in Int /\ place[i] <= 2 * i
        /\ moved(i) => place[i] = 2 * (i - r(i)) - 1 /\ text[i].kind = "open"
        /\ ~ moved(i) => place[i] = 2 * i
  BY <1>2
<1>4. place \in [DOMAIN text -> Int]
  BY <1>3
<1>. HIDE DEF place, moved
<1>5. ASSUME NEW p \in DOMAIN text, NEW q \in DOMAIN text, p < q, IsMark(text[p])
      PROVE  place[p] < place[q]
  <2>1. CASE moved(q)
    <3>1. p \notin q - r(q) .. q - 1
      BY <1>2, <1>5 DEF IsMark
    <3>2. p < q - r(q)
      BY <1>2, <1>5, <3>1
    <3>. QED
      BY <1>2, <1>3, <2>1, <3>2
  <2>2. CASE ~ moved(q)
    BY <1>2, <1>3, <1>5, <2>2
  <2>. QED
    BY <2>1, <2>2
<1>6. ASSUME NEW i \in DOMAIN text, NEW j \in DOMAIN text, i < j PROVE place[i] # place[j]
  <2>1. CASE moved(i)
    <3>1. place[i] < place[j]
      BY <1>3, <1>5, <1>6, <2>1 DEF IsMark
    <3>. QED
      BY <1>3, <3>1
  <2>2. CASE ~ moved(i) /\ ~ moved(j)
    BY <1>2, <1>3, <1>6, <2>2
  <2>3. CASE ~ moved(i) /\ moved(j)
    BY <1>2, <1>3, <2>3
  <2>. QED
    BY <2>1, <2>2, <2>3
<1>7. \A i, j \in DOMAIN text : i # j => place[i] # place[j]
  BY <1>2, <1>6
<1>8. ASSUME NEW p \in DOMAIN text, NEW q \in DOMAIN text, p < q, IsText(text[p]), text[q].kind = "close"
      PROVE  place[p] < place[q]
  <2>1. ~ moved(p) /\ ~ moved(q)
    BY <1>3, <1>8 DEF IsText
  <2>. QED
    BY <1>2, <1>3, <1>8, <2>1
<1>9. Careful(text, place)
  BY <1>4, <1>5, <1>7, <1>8 DEF Careful, IsMark
<1>10. place = StartPlaces(text)
  BY Zenon DEF StartPlaces, place, moved, r
<1>. QED
  BY <1>9, <1>10

LEMMA StartsMovedOK ==
  ASSUME NEW text, LineOK(text)
  PROVE  LineOK(StartsMoved(text))
<1>1. StartsMoved(text) = Rearranged(text, StartPlaces(text))
  BY Zenon DEF StartsMoved, StartPlaces
<1>. QED
  BY <1>1, StartsCareful, LineStaysOK

LEMMA EndsCareful ==
  ASSUME NEW text, LineOK(text)
  PROVE  Careful(text, EndPlaces(text))
<1>. DEFINE r(i) == RunAfter(text, i, "letter")
            moved(i) == text[i].kind = "close" /\ Movable(text[i]) /\ r(i) > 0
            place == [i \in DOMAIN text |-> IF moved(i) THEN 2 * (i + r(i)) + 1 ELSE 2 * i]
<1>1. IsSequence(text) /\ Len(text) \in Nat /\ DOMAIN text = 1 .. Len(text)
  BY DEF LineOK, IsSequence
<1>2. \A i \in DOMAIN text : /\ r(i) \in Nat /\ i \in Int
                             /\ \A j \in i + 1 .. i + r(i) : text[j].kind = "letter"
  <2>1. TAKE i \in DOMAIN text
  <2>2. r(i) \in 0 .. Len(text) - i /\ \A j \in i + 1 .. i + r(i) : text[j].kind = "letter"
    BY <1>1, RunIsAfter
  <2>. HIDE DEF r
  <2>. QED
    BY <1>1, <2>2
<1>. HIDE DEF r
<1>3. \A i \in DOMAIN text :
        /\ place[i] \in Int /\ place[i] >= 2 * i
        /\ moved(i) => place[i] = 2 * (i + r(i)) + 1 /\ text[i].kind = "close"
        /\ ~ moved(i) => place[i] = 2 * i
  BY <1>2
<1>4. place \in [DOMAIN text -> Int]
  BY <1>3
<1>. HIDE DEF place, moved
<1>5. ASSUME NEW p \in DOMAIN text, NEW q \in DOMAIN text, p < q, IsMark(text[q])
      PROVE  place[p] < place[q]
  <2>1. CASE moved(p)
    <3>1. q \notin p + 1 .. p + r(p)
      BY <1>2, <1>5 DEF IsMark
    <3>2. q > p + r(p)
      BY <1>2, <1>5, <3>1
    <3>. QED
      BY <1>2, <1>3, <2>1, <3>2
  <2>2. CASE ~ moved(p)
    BY <1>2, <1>3, <1>5, <2>2
  <2>. QED
    BY <2>1, <2>2
<1>6. ASSUME NEW i \in DOMAIN text, NEW j \in DOMAIN text, i < j PROVE place[i] # place[j]
  <2>1. CASE moved(j)
    <3>1. place[i] < place[j]
      BY <1>3, <1>5, <1>6, <2>1 DEF IsMark
    <3>. QED
      BY <1>3, <3>1
  <2>2. CASE ~ moved(i) /\ ~ moved(j)
    BY <1>2, <1>3, <1>6, <2>2
  <2>3. CASE moved(i) /\ ~ moved(j)
    BY <1>2, <1>3, <2>3
  <2>. QED
    BY <2>1, <2>2, <2>3
<1>7. \A i, j \in DOMAIN text : i # j => place[i] # place[j]
  BY <1>2, <1>6
<1>8. ASSUME NEW p \in DOMAIN text, NEW q \in DOMAIN text, p < q, text[p].kind = "open", IsText(text[q])
      PROVE  place[p] < place[q]
  <2>1. ~ moved(p) /\ ~ moved(q)
    BY <1>3, <1>8 DEF IsText
  <2>. QED
    BY <1>2, <1>3, <1>8, <2>1
<1>9. Careful(text, place)
  BY <1>4, <1>5, <1>7, <1>8 DEF Careful, IsMark
<1>10. place = EndPlaces(text)
  BY Zenon DEF EndPlaces, place, moved, r
<1>. QED
  BY <1>9, <1>10

LEMMA EndsMovedOK ==
  ASSUME NEW text, LineOK(text)
  PROVE  LineOK(EndsMoved(text))
<1>1. EndsMoved(text) = Rearranged(text, EndPlaces(text))
  BY Zenon DEF EndsMoved, EndPlaces
<1>. QED
  BY <1>1, EndsCareful, LineStaysOK

LEMMA SpacesCareful ==
  ASSUME NEW text, LineOK(text)
  PROVE  Careful(text, SpacePlaces(text))
<1>. DEFINE r(i) == RunAfter(text, i, "space")
            moved(i) == text[i].kind = "open" /\ r(i) > 0
            place == [i \in DOMAIN text |-> IF moved(i) THEN 2 * (i + r(i)) + 1 ELSE 2 * i]
<1>1. IsSequence(text) /\ Len(text) \in Nat /\ DOMAIN text = 1 .. Len(text)
  BY DEF LineOK, IsSequence
<1>2. \A i \in DOMAIN text : /\ r(i) \in Nat /\ i \in Int
                             /\ \A j \in i + 1 .. i + r(i) : text[j].kind = "space"
  <2>1. TAKE i \in DOMAIN text
  <2>2. r(i) \in 0 .. Len(text) - i /\ \A j \in i + 1 .. i + r(i) : text[j].kind = "space"
    BY <1>1, RunIsAfter
  <2>. HIDE DEF r
  <2>. QED
    BY <1>1, <2>2
<1>. HIDE DEF r
<1>3. \A i \in DOMAIN text :
        /\ place[i] \in Int /\ place[i] >= 2 * i
        /\ moved(i) => place[i] = 2 * (i + r(i)) + 1 /\ text[i].kind = "open"
        /\ ~ moved(i) => place[i] = 2 * i
  BY <1>2
<1>4. place \in [DOMAIN text -> Int]
  BY <1>3
<1>. HIDE DEF place, moved
<1>5. ASSUME NEW p \in DOMAIN text, NEW q \in DOMAIN text, p < q, text[q].kind # "space"
      PROVE  place[p] < place[q]
  <2>1. CASE moved(p)
    <3>1. q \notin p + 1 .. p + r(p)
      BY <1>2, <1>5
    <3>2. q > p + r(p)
      BY <1>2, <1>5, <3>1
    <3>. QED
      BY <1>2, <1>3, <2>1, <3>2
  <2>2. CASE ~ moved(p)
    BY <1>2, <1>3, <1>5, <2>2
  <2>. QED
    BY <2>1, <2>2
<1>6. ASSUME NEW i \in DOMAIN text, NEW j \in DOMAIN text, i < j PROVE place[i] # place[j]
  <2>1. CASE moved(j)
    <3>1. place[i] < place[j]
      BY <1>3, <1>5, <1>6, <2>1
    <3>. QED
      BY <1>3, <3>1
  <2>2. CASE ~ moved(i) /\ ~ moved(j)
    BY <1>2, <1>3, <1>6, <2>2
  <2>3. CASE moved(i) /\ ~ moved(j)
    BY <1>2, <1>3, <2>3
  <2>. QED
    BY <2>1, <2>2, <2>3
<1>7. \A i, j \in DOMAIN text : i # j => place[i] # place[j]
  BY <1>2, <1>6
<1>8. Careful(text, place)
  BY <1>4, <1>5, <1>7 DEF Careful, IsMark, IsText
<1>9. place = SpacePlaces(text)
  BY Zenon DEF SpacePlaces, place, moved, r
<1>. QED
  BY <1>8, <1>9

LEMMA AfterSpaceOK ==
  ASSUME NEW text, LineOK(text)
  PROVE  LineOK(move_tags_after_space(text))
<1>1. move_tags_after_space(text) = Rearranged(text, SpacePlaces(text))
  BY Zenon DEF move_tags_after_space, SpacePlaces
<1>. QED
  BY <1>1, SpacesCareful, LineStaysOK

-----------------------------------------------------------------------------
(***************************************************************************)
(* Flattening.                                                             *)
(***************************************************************************)

\* Induction over the numbers up to n, for a set of them.
LEMMA AllReached ==
  ASSUME NEW n \in Nat, NEW T, 1 \in T, \A m \in 1 .. n : m \in T => m + 1 \in T
  PROVE  \A m \in 1 .. n : m \in T
<1>. DEFINE U == {m \in 1 .. n : m \notin T}
<1>1. SUFFICES ASSUME U # {} PROVE FALSE
  BY <1>1
<1>2. U \subseteq Nat
  OBVIOUS
<1>3. Min(U) \in U /\ \A y \in U : Min(U) <= y
  <2>. HIDE DEF U
  <2>. QED
    BY <1>1, <1>2, Least
<1>. DEFINE m == Min(U)
<1>. HIDE DEF m
<1>4. m \in 1 .. n /\ m \notin T /\ \A y \in 1 .. n : y < m => y \in T
  <2>1. m \in U /\ \A y \in U : m <= y
    BY <1>3 DEF m
  <2>. QED
    BY <2>1
<1>5. m # 1
  BY <1>4
<1>6. m - 1 \in 1 .. n /\ m - 1 < m /\ m = (m - 1) + 1
  BY <1>4, <1>5
<1>7. m - 1 \in T
  BY <1>4, <1>6
<1>8. (m - 1) + 1 \in T
  BY <1>6, <1>7
<1>. QED
  BY <1>4, <1>6, <1>8

\* The items of two sequences.
LEMMA Joined ==
  ASSUME NEW S, NEW a \in Seq(S), NEW b \in Seq(S)
  PROVE  /\ a \o b \in Seq(S) /\ Len(a \o b) = Len(a) + Len(b)
         /\ Len(a) \in Nat /\ Len(b) \in Nat
         /\ \A k \in 1 .. Len(a) : (a \o b)[k] = a[k]
         /\ \A k \in 1 .. Len(b) : (a \o b)[Len(a) + k] = b[k]
<1>1. a \o b \in Seq(S) /\ Len(a \o b) = Len(a) + Len(b) /\ Len(a) \in Nat /\ Len(b) \in Nat
  OBVIOUS
<1>2. \A k \in 1 .. Len(a) : (a \o b)[k] = a[k]
  OBVIOUS
<1>3. \A k \in 1 .. Len(b) : (a \o b)[Len(a) + k] = b[k]
  OBVIOUS
<1>. QED
  BY <1>1, <1>2, <1>3

Flattening(f, ss, n) ==
  f = [i \in 1 .. n |-> IF i = 1 THEN ss[i] ELSE f[i - 1] \o ss[i]]

LEMMA FlatteningExists ==
  ASSUME NEW n \in Nat, NEW S, NEW ss \in [1 .. n -> Seq(S)]
  PROVE  \E f : Flattening(f, ss, n)
<1>. DEFINE Right(f, m) == /\ f \in [1 .. m -> Seq(S)]
                           /\ \A i \in 1 .. m : f[i] = IF i = 1 THEN ss[i] ELSE f[i - 1] \o ss[i]
            T == {m \in Nat : m <= n => \E f : Right(f, m)}
<1>1. CASE n = 0
  <2>. DEFINE f == [i \in 1 .. n |-> ss[i]]
  <2>1. 1 .. n = {}
    BY <1>1
  <2>2. f = [i \in 1 .. n |-> IF i = 1 THEN ss[i] ELSE f[i - 1] \o ss[i]]
    BY <2>1
  <2>. QED
    BY <2>2 DEF Flattening
<1>2. CASE n # 0
  <2>1. 1 \in T
    <3>. DEFINE f == [i \in 1 .. 1 |-> ss[1]]
    <3>1. 1 .. 1 = {1} /\ ss[1] \in Seq(S)
      BY <1>2
    <3>2. f \in [1 .. 1 -> Seq(S)] /\ \A i \in 1 .. 1 : i = 1 /\ f[i] = ss[1]
      BY <3>1
    <3>. HIDE DEF f
    <3>3. Right(f, 1)
      BY <3>2
    <3>. HIDE DEF Right
    <3>. QED
      BY <3>3
  <2>2. ASSUME NEW m \in 1 .. n, m \in T PROVE m + 1 \in T
    <3>1. CASE m = n
      BY <3>1
    <3>2. CASE m # n
      <4>1. m + 1 \in 1 .. n /\ m \in Nat /\ m + 1 # 1
        BY <3>2
      <4>2. PICK f : Right(f, m)
        <5>. HIDE DEF Right
        <5>. QED
          BY <2>2, <4>1
      <4>. DEFINE g == [i \in 1 .. m + 1 |-> IF i = m + 1 THEN f[m] \o ss[m + 1] ELSE f[i]]
      <4>3. f[m] \o ss[m + 1] \in Seq(S)
        BY <4>1, <4>2
      <4>4. g \in [1 .. m + 1 -> Seq(S)]
        BY <4>1, <4>2, <4>3
      <4>5. g[m + 1] = f[m] \o ss[m + 1] /\ \A i \in 1 .. m : g[i] = f[i]
        <5>1. m + 1 \in 1 .. m + 1 /\ \A i \in 1 .. m : i \in 1 .. m + 1 /\ i # m + 1
          BY <4>1
        <5>. QED
          BY <5>1, Zenon
      <4>. HIDE DEF g
      <4>6. ASSUME NEW i \in 1 .. m + 1
            PROVE  g[i] = IF i = 1 THEN ss[i] ELSE g[i - 1] \o ss[i]
        <5>1. CASE i = m + 1
          <6>1. i # 1 /\ i - 1 = m /\ m \in 1 .. m
            BY <4>1, <5>1
          <6>. QED
            BY <4>5, <5>1, <6>1
        <5>2. CASE i \in 1 .. m
          <6>1. i # 1 => i - 1 \in 1 .. m
            BY <4>1, <5>2
          <6>. QED
            BY <4>2, <4>5, <5>2, <6>1
        <5>. QED
          BY <4>1, <5>1, <5>2
      <4>7. Right(g, m + 1)
        BY <4>4, <4>6
      <4>. HIDE DEF Right
      <4>. QED
        BY <4>1, <4>7
    <3>. QED
      BY <3>1, <3>2
  <2>3. n \in T
    <3>. HIDE DEF T
    <3>1. n \in 1 .. n
      BY <1>2
    <3>. QED
      BY <2>1, <2>2, <3>1, AllReached
  <2>4. PICK f : Right(f, n)
    <3>. HIDE DEF Right
    <3>. QED
      BY <2>3
  <2>5. Flattening(f, ss, n)
    BY <2>4 DEF Flattening
  <2>. QED
    BY <2>5
<1>. QED
  BY <1>1, <1>2

\* Where the items of the sequences are: off[i] items are of the first i of them.
Laid(text, ss, n, off) ==
  /\ off \in [0 .. n -> Nat] /\ off[0] = 0 /\ Len(text) = off[n]
  /\ \A i \in 1 .. n : off[i] = off[i - 1] + Len(ss[i])
  /\ \A i, j \in 0 .. n : i <= j => off[i] <= off[j]
  /\ \A i \in 1 .. n : \A k \in 1 .. Len(ss[i]) : text[off[i - 1] + k] = ss[i][k]
  /\ \A p \in 1 .. off[n] : \E i \in 1 .. n : \E k \in 1 .. Len(ss[i]) : p = off[i - 1] + k

LEMMA Flattened ==
  ASSUME NEW n \in Nat, n # 0, NEW S, NEW ss \in [1 .. n -> Seq(S)], Len(ss) = n
  PROVE  FlattenSeq(ss) \in Seq(S) /\ \E off : Laid(FlattenSeq(ss), ss, n, off)
<1>. DEFINE f   == CHOOSE f : Flattening(f, ss, n)
            off == [i \in 0 .. n |-> IF i = 0 THEN 0 ELSE Len(f[i])]
            Extends(m) ==
              /\ f[m] \in Seq(S)
              /\ \A i \in 0 .. m : off[i] \in Nat /\ off[i] <= off[m]
              /\ \A i \in 1 .. m : off[i] = off[i - 1] + Len(ss[i])
              /\ \A i \in 1 .. m : \A k \in 1 .. Len(ss[i]) : f[m][off[i - 1] + k] = ss[i][k]
              /\ \A p \in 1 .. off[m] : \E i \in 1 .. m : \E k \in 1 .. Len(ss[i]) : p = off[i - 1] + k
            T == {m \in Nat : m <= n => Extends(m)}
<1>1. Flattening(f, ss, n)
  BY FlatteningExists, Zenon
<1>2. FlattenSeq(ss) = f[n]
  BY Zenon DEF FlattenSeq, Flattening
<1>. HIDE DEF f
<1>3. /\ f[1] = ss[1]
      /\ \A i \in 1 .. n : i # 1 => f[i] = f[i - 1] \o ss[i]
  <2>1. ASSUME NEW i \in 1 .. n PROVE f[i] = IF i = 1 THEN ss[i] ELSE f[i - 1] \o ss[i]
    BY <1>1, Zenon DEF Flattening
  <2>2. 1 \in 1 .. n
    OBVIOUS
  <2>. QED
    BY <2>1, <2>2, Zenon
<1>4. off[0] = 0 /\ \A i \in 1 .. n : off[i] = Len(f[i])
  OBVIOUS
<1>. HIDE DEF off
<1>5. 1 \in T
  <2>1. ss[1] \in Seq(S) /\ off[1] = Len(ss[1]) /\ Len(ss[1]) \in Nat
    BY <1>3, <1>4
  <2>2. Extends(1)
    <3>1. \A i \in 0 .. 1 : i = 0 \/ i = 1
      OBVIOUS
    <3>2. \A i \in 0 .. 1 : off[i] \in Nat /\ off[i] <= off[1]
      BY <1>4, <2>1, <3>1
    <3>5. \A i \in 1 .. 1 : off[i] = off[i - 1] + Len(ss[i])
      BY <1>4, <2>1
    <3>3. \A i \in 1 .. 1 : \A k \in 1 .. Len(ss[i]) : f[1][off[i - 1] + k] = ss[i][k]
      BY <1>3, <1>4, <2>1
    <3>4. \A p \in 1 .. off[1] : \E i \in 1 .. 1 : \E k \in 1 .. Len(ss[i]) : p = off[i - 1] + k
      BY <1>4, <2>1
    <3>. QED
      BY <1>3, <2>1, <3>2, <3>3, <3>4, <3>5
  <2>. HIDE DEF Extends
  <2>. QED
    BY <2>2
<1>6. ASSUME NEW m \in 1 .. n, m \in T PROVE m + 1 \in T
  <2>1. CASE m = n
    BY <2>1
  <2>2. CASE m # n
    <3>1. m + 1 \in 1 .. n /\ m \in Nat /\ m + 1 # 1 /\ m <= n
      BY <2>2
    <3>2. Extends(m)
      <4>. HIDE DEF Extends
      <4>. QED
        BY <1>6, <3>1
    <3>. DEFINE a == f[m]
                b == ss[m + 1]
    <3>3. a \in Seq(S) /\ b \in Seq(S) /\ f[m + 1] = a \o b
      <4>1. (m + 1) - 1 = m
        BY <3>1
      <4>2. f[m + 1] = f[(m + 1) - 1] \o ss[m + 1]
        BY <1>3, <3>1, Zenon
      <4>3. a \in Seq(S) /\ b \in Seq(S)
        BY <3>1, <3>2
      <4>. QED
        BY <4>1, <4>2, <4>3, Zenon
    <3>4. /\ f[m + 1] \in Seq(S) /\ off[m + 1] = off[m] + Len(b) /\ off[m] = Len(a)
          /\ off[m] \in Nat /\ Len(b) \in Nat
          /\ \A k \in 1 .. off[m] : f[m + 1][k] = a[k]
          /\ \A k \in 1 .. Len(b) : f[m + 1][off[m] + k] = b[k]
      <4>1. /\ a \o b \in Seq(S) /\ Len(a \o b) = Len(a) + Len(b) /\ Len(a) \in Nat /\ Len(b) \in Nat
            /\ \A k \in 1 .. Len(a) : (a \o b)[k] = a[k]
            /\ \A k \in 1 .. Len(b) : (a \o b)[Len(a) + k] = b[k]
        <5>. HIDE DEF a, b
        <5>. QED
          BY <3>3, Joined
      <4>2. off[m] = Len(a) /\ off[m + 1] = Len(a \o b)
        BY <1>4, <3>1, <3>3
      <4>. HIDE DEF a, b
      <4>. QED
        BY <3>3, <4>1, <4>2
    <3>. HIDE DEF a
    <3>5. \A i \in 0 .. m + 1 : i \in 0 .. m \/ i = m + 1
      BY <3>1
    <3>6. \A i \in 0 .. m + 1 : off[i] \in Nat /\ off[i] <= off[m + 1]
      <4>1. \A i \in 0 .. m : off[i] \in Nat /\ off[i] <= off[m]
        BY <3>2
      <4>2. off[m] <= off[m + 1] /\ off[m + 1] \in Nat /\ off[m] \in Nat
        <5>. HIDE DEF b
        <5>. QED
          BY <3>4
      <4>3. \A i \in 0 .. m : off[i] \in Nat /\ off[i] <= off[m + 1]
        <5>1. TAKE i \in 0 .. m
        <5>2. off[i] \in Nat /\ off[i] <= off[m]
          BY <4>1
        <5>. HIDE DEF Extends
        <5>. QED
          BY <4>2, <5>2
      <4>. HIDE DEF Extends
      <4>. QED
        BY <3>5, <4>2, <4>3
    <3>7. \A i \in 1 .. m + 1 : (i \in 1 .. m \/ i = m + 1) /\ i - 1 \in 0 .. m
      BY <3>1
    <3>8. \A i \in 1 .. m + 1 : off[i] = off[i - 1] + Len(ss[i])
      <4>1. (m + 1) - 1 = m
        BY <3>1
      <4>. QED
        BY <3>2, <3>4, <3>7, <4>1
    <3>9. ASSUME NEW i \in 1 .. m + 1, NEW k \in 1 .. Len(ss[i])
          PROVE  f[m + 1][off[i - 1] + k] = ss[i][k]
      <4>1. CASE i \in 1 .. m
        <5>1. off[i] = off[i - 1] + Len(ss[i]) /\ off[i] <= off[m] /\ off[i - 1] \in Nat /\ off[i] \in Nat
          <6>1. i \in 0 .. m /\ i - 1 \in 0 .. m
            BY <4>1
          <6>. QED
            BY <3>2, <4>1, <6>1
        <5>2. off[i - 1] + k \in 1 .. off[m]
          <6>1. Len(ss[i]) \in Nat
            BY <3>1, <4>1
          <6>2. k \in Int /\ 1 <= k /\ k <= Len(ss[i])
            BY <6>1
          <6>3. off[m] \in Nat
            BY <3>4
          <6>. DEFINE x == off[i - 1]
                      y == off[i]
                      z == off[m]
                      l == Len(ss[i])
          <6>4. y = x + l /\ y <= z /\ x \in Nat /\ y \in Nat /\ z \in Nat /\ l \in Nat
            BY <5>1, <6>1, <6>3, Zenon
          <6>5. k <= l /\ 1 <= k /\ k \in Int
            BY <6>2
          <6>. HIDE DEF x, y, z, l
          <6>6. x + k \in 1 .. z
            BY <6>4, <6>5
          <6>. QED
            BY <6>6 DEF x, z
        <5>3. f[m + 1][off[i - 1] + k] = a[off[i - 1] + k]
          BY <3>4, <5>2
        <5>. QED
          BY <3>2, <4>1, <5>3 DEF a
      <4>2. CASE i = m + 1
        <5>1. i - 1 = m /\ k \in 1 .. Len(b)
          BY <3>1, <4>2
        <5>. QED
          BY <3>4, <4>2, <5>1
      <4>. QED
        BY <3>7, <4>1, <4>2
    <3>10. ASSUME NEW p \in 1 .. off[m + 1]
           PROVE  \E i \in 1 .. m + 1 : \E k \in 1 .. Len(ss[i]) : p = off[i - 1] + k
      <4>1. CASE p <= off[m]
        <5>1. p \in 1 .. off[m]
          BY <3>4, <4>1
        <5>2. \E i \in 1 .. m : \E k \in 1 .. Len(ss[i]) : p = off[i - 1] + k
          BY <3>2, <5>1
        <5>3. 1 .. m \subseteq 1 .. m + 1
          BY <3>1
        <5>. QED
          BY <5>2, <5>3
      <4>2. CASE ~ (p <= off[m])
        <5>1. p - off[m] \in 1 .. Len(b) /\ p = off[m] + (p - off[m])
          BY <3>4, <4>2
        <5>2. m + 1 \in 1 .. m + 1 /\ (m + 1) - 1 = m
          BY <3>1
        <5>. QED
          BY <5>1, <5>2
      <4>. QED
        BY <4>1, <4>2
    <3>11. Extends(m + 1)
      BY <3>4, <3>6, <3>8, <3>9, <3>10
    <3>. HIDE DEF Extends
    <3>. QED
      BY <3>1, <3>11
  <2>. QED
    BY <2>1, <2>2
<1>7. \A m \in 1 .. n : Extends(m)
  <2>1. \A m \in 1 .. n : m \in T
    <3>. HIDE DEF T
    <3>. QED
      BY <1>5, <1>6, AllReached
  <2>2. \A m \in 1 .. n : m \in T => Extends(m)
    <3>. HIDE DEF Extends
    <3>. QED
      OBVIOUS
  <2>. HIDE DEF T, Extends
  <2>. QED
    BY <2>1, <2>2
<1>8. n \in 1 .. n
  OBVIOUS
<1>9. Extends(n)
  <2>. HIDE DEF Extends
  <2>. QED
    BY <1>7, <1>8
<1>10. off \in [0 .. n -> Nat] /\ off[0] = 0 /\ Len(f[n]) = off[n]
  <2>1. \A i \in 0 .. n : off[i] \in Nat
    BY <1>9
  <2>. QED
    BY <1>4, <1>8, <2>1 DEF off
<1>11. ASSUME NEW i \in 0 .. n, NEW j \in 0 .. n, i <= j PROVE off[i] <= off[j]
  <2>1. CASE j = 0
    BY <1>4, <1>11, <2>1
  <2>2. CASE j # 0
    <3>1. j \in 1 .. n /\ i \in 0 .. j
      BY <1>11, <2>2
    <3>2. Extends(j)
      <4>. HIDE DEF Extends
      <4>. QED
        BY <1>7, <3>1
    <3>. QED
      BY <3>1, <3>2
  <2>. QED
    BY <2>1, <2>2
<1>12. Laid(f[n], ss, n, off)
  BY <1>9, <1>10, <1>11 DEF Laid
<1>. QED
  BY <1>2, <1>9, <1>12

-----------------------------------------------------------------------------
(***************************************************************************)
(* The line that is joined.                                                *)
(***************************************************************************)

HypothesisOK == (\E n \in 1 .. MaxTokens : tokens \in [1 .. n -> Token]) /\ eosTag \in Tags

Tagged(i) == TagAt(tokens, eosTag, i)

MarksBetween(before, tag) ==
  IF tag = before THEN << >>
  ELSE (IF before = NoTag THEN << >> ELSE <<Close(before)>>)
         \o (IF tag = NoTag THEN << >> ELSE <<Open(tag)>>)

Piece(i) == MarksBetween(Tagged(i - 1), Tagged(i)) \o CharsAt(tokens, i)

Items == [kind : {"open", "close", "space", "letter", "punct"}, of : Types \cup Nat]

LEMMA TokensTyped ==
  ASSUME HypothesisOK
  PROVE  /\ Len(tokens) \in Nat \ {0} /\ DOMAIN tokens = 1 .. Len(tokens)
         /\ \A i \in 1 .. Len(tokens) : tokens[i] \in Token
         /\ \A i \in 0 .. Len(tokens) + 1 : Tagged(i) \in Tags
         /\ \A i \in 1 .. Len(tokens) : Tagged(i) = tokens[i].tag /\ TagAt(tokens, NoTag, i) = tokens[i].tag
         /\ Tagged(0) = NoTag /\ TagAt(tokens, NoTag, 0) = NoTag
         /\ Tagged(Len(tokens) + 1) = eosTag
<1>1. PICK n \in 1 .. MaxTokens : tokens \in [1 .. n -> Token]
  BY DEF HypothesisOK
<1>2. Len(tokens) = n /\ n \in Nat \ {0}
  BY <1>1, BoundAssumption
<1>3. \A i \in 1 .. n : tokens[i] \in Token /\ tokens[i].tag \in Tags
  BY <1>1 DEF Token
<1>4. \A i \in 1 .. n : Tagged(i) = tokens[i].tag /\ TagAt(tokens, NoTag, i) = tokens[i].tag
  BY <1>2 DEF Tagged, TagAt
<1>5. Tagged(0) = NoTag /\ TagAt(tokens, NoTag, 0) = NoTag
  BY DEF Tagged, TagAt
<1>6. Tagged(n + 1) = eosTag
  BY <1>2 DEF Tagged, TagAt
<1>7. eosTag \in Tags /\ NoTag \in Tags
  BY DEF HypothesisOK, Tags
<1>8. \A i \in 0 .. n + 1 : Tagged(i) \in Tags
  <2>1. TAKE i \in 0 .. n + 1
  <2>2. i = 0 \/ i \in 1 .. n \/ i = n + 1
    BY <1>2
  <2>. QED
    BY <1>3, <1>4, <1>5, <1>6, <1>7, <2>2
<1>. QED
  BY <1>1, <1>2, <1>3, <1>4, <1>5, <1>6, <1>8

LEMMA MarksOK ==
  ASSUME NEW b \in Tags, NEW t \in Tags
  PROVE  LET m == MarksBetween(b, t)
         IN  /\ m \in Seq(Items) /\ Len(m) \in 0 .. 2
             /\ b = t => Len(m) = 0
             /\ b # t /\ b # NoTag => Len(m) >= 1 /\ m[1] = Close(b)
             /\ b # t /\ t # NoTag => Len(m) >= 1 /\ m[Len(m)] = Open(t)
             /\ \A k \in 1 .. Len(m) : \/ k = 1 /\ m[k] = Close(b) /\ b # NoTag /\ b # t
                                       \/ k = Len(m) /\ m[k] = Open(t) /\ t # NoTag /\ b # t
<1>. DEFINE m == MarksBetween(b, t)
<1>1. /\ b # NoTag => Close(b) \in Items
      /\ t # NoTag => Open(t) \in Items
  BY DEF Tags, Items, Open, Close
<1>2. CASE b = t
  <2>1. m = << >>
    BY <1>2 DEF MarksBetween
  <2>. QED
    BY <1>2, <2>1
<1>3. CASE b # t /\ b = NoTag
  <2>1. m = << >> \o <<Open(t)>>
    BY <1>3 DEF MarksBetween
  <2>2. m = <<Open(t)>>
    BY <2>1
  <2>. QED
    BY <1>1, <1>3, <2>2
<1>4. CASE b # t /\ t = NoTag
  <2>1. m = <<Close(b)>> \o << >>
    BY <1>4 DEF MarksBetween
  <2>2. m = <<Close(b)>>
    BY <2>1
  <2>. QED
    BY <1>1, <1>4, <2>2
<1>5. CASE b # t /\ b # NoTag /\ t # NoTag
  <2>1. m = <<Close(b)>> \o <<Open(t)>>
    BY <1>5 DEF MarksBetween
  <2>. DEFINE x == Close(b)
              y == Open(t)
  <2>2. x \in Items /\ y \in Items
    BY <1>1, <1>5
  <2>. HIDE DEF x, y
  <2>3. /\ <<x>> \in Seq(Items) /\ <<y>> \in Seq(Items)
        /\ Len(<<x>>) = 1 /\ Len(<<y>>) = 1 /\ <<x>>[1] = x /\ <<y>>[1] = y
    BY <2>2
  <2>. DEFINE xs == <<x>>
              ys == <<y>>
              xy == xs \o ys
  <2>4. xs \in Seq(Items) /\ ys \in Seq(Items) /\ Len(xs) = 1 /\ Len(ys) = 1 /\ xs[1] = x /\ ys[1] = y
    BY <2>3
  <2>5. m = xy
    BY <2>1 DEF x, y
  <2>. HIDE DEF xs, ys, m
  <2>6. /\ xy \in Seq(Items) /\ Len(xy) = Len(xs) + Len(ys)
        /\ \A k \in 1 .. Len(xs) : xy[k] = xs[k]
        /\ \A k \in 1 .. Len(ys) : xy[Len(xs) + k] = ys[k]
    <3>. DEFINE I == Items
    <3>1. xs \in Seq(I) /\ ys \in Seq(I)
      BY <2>4
    <3>. HIDE DEF I
    <3>2. /\ xs \o ys \in Seq(I) /\ Len(xs \o ys) = Len(xs) + Len(ys)
          /\ \A k \in 1 .. Len(xs) : (xs \o ys)[k] = xs[k]
          /\ \A k \in 1 .. Len(ys) : (xs \o ys)[Len(xs) + k] = ys[k]
      BY <3>1, Joined
    <3>. QED
      BY <3>2 DEF I
  <2>. HIDE DEF xy
  <2>7. 1 \in 1 .. Len(xs) /\ 1 \in 1 .. Len(ys) /\ Len(xs) + 1 = 2
    BY <2>4
  <2>8. m \in Seq(Items) /\ Len(m) = 2 /\ m[1] = x /\ m[2] = y
    BY <2>4, <2>5, <2>6, <2>7
  <2>. QED
    BY <1>5, <2>8 DEF x, y, m
<1>. QED
  BY <1>2, <1>3, <1>4, <1>5

LEMMA CharsOK ==
  ASSUME HypothesisOK, NEW i \in 1 .. Len(tokens) + 1
  PROVE  LET c == CharsAt(tokens, i)
         IN  /\ c \in Seq(Items) /\ Len(c) \in 0 .. 2
             /\ i <= Len(tokens) => Len(c) > 0
             /\ \A k \in 1 .. Len(c) :
                  /\ c[k].of = i /\ i <= Len(tokens)
                  /\ k < Len(c) => c[k].kind = "space"
                  /\ k = Len(c) => c[k].kind \in {"letter", "punct"}
<1>. DEFINE c == CharsAt(tokens, i)
<1>1. Len(tokens) \in Nat /\ i \in Nat
  BY TokensTyped
<1>2. Space(i) \in Items /\ Letter(i) \in Items /\ Punct(i) \in Items
  BY <1>1 DEF Items, Space, Letter, Punct
<1>3. CASE i > Len(tokens)
  <2>1. c = << >>
    BY <1>3 DEF CharsAt
  <2>. QED
    BY <1>1, <1>3, <2>1
<1>4. CASE ~ (i > Len(tokens))
  <2>1. i \in 1 .. Len(tokens)
    BY <1>1, <1>4
  <2>2. tokens[i].kind \in {"word", "piece", "punct"}
    BY <2>1, TokensTyped DEF Token
  <2>3. CASE tokens[i].kind = "word"
    <3>1. c = <<Space(i), Letter(i)>>
      BY <1>4, <2>3 DEF CharsAt
    <3>2. c \in Seq(Items) /\ Len(c) = 2 /\ c[1] = Space(i) /\ c[2] = Letter(i)
      BY <1>2, <3>1
    <3>3. Space(i).of = i /\ Space(i).kind = "space" /\ Letter(i).of = i /\ Letter(i).kind = "letter"
      BY DEF Space, Letter
    <3>. QED
      BY <1>1, <2>1, <3>2, <3>3
  <2>4. CASE tokens[i].kind = "piece"
    <3>1. c = <<Letter(i)>>
      BY <1>4, <2>4 DEF CharsAt
    <3>2. c \in Seq(Items) /\ Len(c) = 1 /\ c[1] = Letter(i)
      BY <1>2, <3>1
    <3>3. Letter(i).of = i /\ Letter(i).kind = "letter"
      BY DEF Letter
    <3>. QED
      BY <1>1, <2>1, <3>2, <3>3
  <2>5. CASE tokens[i].kind = "punct"
    <3>1. c = <<Punct(i)>>
      BY <1>4, <2>5 DEF CharsAt
    <3>2. c \in Seq(Items) /\ Len(c) = 1 /\ c[1] = Punct(i)
      BY <1>2, <3>1
    <3>3. Punct(i).of = i /\ Punct(i).kind = "punct"
      BY DEF Punct
    <3>. QED
      BY <1>1, <2>1, <3>2, <3>3
  <2>. QED
    BY <2>2, <2>3, <2>4, <2>5
<1>. QED
  BY <1>3, <1>4

\* What stands before token i, and what it is written as: a mark that closes, one that opens,
\* and its characters, the last of which is its text.
PieceOK(piece, i) ==
  LET before == Tagged(i - 1)
      tag    == Tagged(i)
  IN  /\ piece \in Seq(Items)
      /\ \A k \in 1 .. Len(piece) :
           \/ k = 1 /\ piece[k] = Close(before) /\ before # NoTag /\ before # tag
           \/ piece[k] = Open(tag) /\ tag # NoTag /\ before # tag
           \/ piece[k].kind \in {"space", "letter", "punct"} /\ piece[k].of = i /\ i <= Len(tokens)
      /\ before # tag /\ before # NoTag => Len(piece) >= 1 /\ piece[1] = Close(before)
      /\ before # tag /\ tag # NoTag =>
           \E k \in 1 .. Len(piece) :
             piece[k] = Open(tag) /\ \A l \in 1 .. Len(piece) : k < l => ~ IsMark(piece[l])
      /\ i <= Len(tokens) =>
           Len(piece) >= 1 /\ IsText(piece[Len(piece)]) /\ piece[Len(piece)].of = i
      /\ \A k \in 1 .. Len(piece) : IsText(piece[k]) => k = Len(piece)
      /\ \A k, l \in 1 .. Len(piece) : piece[k].kind = "open" /\ piece[l].kind = "open" => k = l
      /\ i <= Len(tokens) => (piece[Len(piece)].kind = "letter" <=> IsLetters(i))
      /\ i <= Len(tokens) /\ tokens[i].kind = "word" =>
           \E k \in 1 .. Len(piece) : piece[k].kind = "space"
      /\ i <= Len(tokens) /\ tokens[i].kind # "word" =>
           \A k \in 1 .. Len(piece) : piece[k].kind # "space"

LEMMA PiecesOK ==
  ASSUME HypothesisOK, NEW i \in 1 .. Len(tokens) + 1
  PROVE  PieceOK(Piece(i), i)
<1>. DEFINE before == Tagged(i - 1)
            tag == Tagged(i)
            m == MarksBetween(before, tag)
            c == CharsAt(tokens, i)
            piece == Piece(i)
            a == Len(m)
            b == Len(c)
<1>1. Len(tokens) \in Nat /\ i \in Nat /\ before \in Tags /\ tag \in Tags
  <2>1. Len(tokens) \in Nat
    BY TokensTyped
  <2>2. i - 1 \in 0 .. Len(tokens) + 1 /\ i \in 0 .. Len(tokens) + 1
    BY <2>1
  <2>. QED
    BY <2>1, <2>2, TokensTyped
<1>2. /\ m \in Seq(Items) /\ a \in 0 .. 2
      /\ before = tag => a = 0
      /\ before # tag /\ before # NoTag => a >= 1 /\ m[1] = Close(before)
      /\ before # tag /\ tag # NoTag => a >= 1 /\ m[a] = Open(tag)
      /\ \A k \in 1 .. a : \/ k = 1 /\ m[k] = Close(before) /\ before # NoTag /\ before # tag
                           \/ k = a /\ m[k] = Open(tag) /\ tag # NoTag /\ before # tag
  <2>. HIDE DEF before, tag
  <2>. QED
    BY <1>1, MarksOK
<1>3. /\ c \in Seq(Items) /\ b \in 0 .. 2
      /\ i <= Len(tokens) => b > 0
      /\ \A k \in 1 .. b :
           /\ c[k].of = i /\ i <= Len(tokens)
           /\ k < b => c[k].kind = "space"
           /\ k = b => c[k].kind \in {"letter", "punct"}
  BY CharsOK
<1>4. piece = m \o c
  BY DEF Piece
<1>. HIDE DEF m, c, piece, before, tag
<1>5. /\ piece \in Seq(Items) /\ Len(piece) = a + b /\ a \in Nat /\ b \in Nat
      /\ \A k \in 1 .. a : piece[k] = m[k]
      /\ \A k \in 1 .. b : piece[a + k] = c[k]
  BY <1>2, <1>3, <1>4, Joined
<1>. HIDE DEF a, b
<1>6. ASSUME NEW k \in 1 .. Len(piece)
      PROVE  \/ k \in 1 .. a /\ piece[k] = m[k]
             \/ k - a \in 1 .. b /\ k > a /\ piece[k] = c[k - a]
  <2>1. k \in 1 .. a \/ (k - a \in 1 .. b /\ a + (k - a) = k /\ k > a)
    BY <1>5
  <2>. QED
    BY <1>5, <2>1
<1>7. ASSUME NEW k \in 1 .. a
      PROVE  /\ k \in 1 .. Len(piece) /\ IsMark(piece[k]) /\ ~ IsText(piece[k])
             /\ \/ k = 1 /\ piece[k] = Close(before) /\ before # NoTag /\ before # tag
                \/ k = a /\ piece[k] = Open(tag) /\ tag # NoTag /\ before # tag
             /\ piece[k].kind = "open" => k = a
  <2>1. \/ k = 1 /\ piece[k] = Close(before) /\ before # NoTag /\ before # tag
        \/ k = a /\ piece[k] = Open(tag) /\ tag # NoTag /\ before # tag
    BY <1>2, <1>5
  <2>2. piece[k].kind \in {"open", "close"}
    BY <2>1 DEF Open, Close
  <2>3. k \in 1 .. Len(piece)
    BY <1>5
  <2>4. piece[k].kind = "open" => k = a
    BY <2>1 DEF Close
  <2>. QED
    BY <2>1, <2>2, <2>3, <2>4 DEF IsMark, IsText
<1>8. ASSUME NEW k \in 1 .. Len(piece), k > a
      PROVE  /\ piece[k].kind \in {"space", "letter", "punct"} /\ piece[k].of = i /\ i <= Len(tokens)
             /\ k < Len(piece) => piece[k].kind = "space"
             /\ k = Len(piece) => piece[k].kind \in {"letter", "punct"}
             /\ ~ IsMark(piece[k])
  <2>1. k - a \in 1 .. b /\ piece[k] = c[k - a]
    BY <1>5, <1>6, <1>8
  <2>2. (k < Len(piece) <=> k - a < b) /\ (k = Len(piece) <=> k - a = b) /\ (k < Len(piece) \/ k = Len(piece))
    BY <1>5
  <2>3. /\ piece[k].of = i /\ i <= Len(tokens)
        /\ k < Len(piece) => piece[k].kind = "space"
        /\ k = Len(piece) => piece[k].kind \in {"letter", "punct"}
    BY <1>3, <2>1, <2>2
  <2>. QED
    BY <2>2, <2>3 DEF IsMark
<1>9. ASSUME NEW k \in 1 .. Len(piece)
      PROVE  \/ k = 1 /\ piece[k] = Close(before) /\ before # NoTag /\ before # tag
             \/ piece[k] = Open(tag) /\ tag # NoTag /\ before # tag
             \/ piece[k].kind \in {"space", "letter", "punct"} /\ piece[k].of = i /\ i <= Len(tokens)
  <2>1. k \in 1 .. a \/ k > a
    BY <1>5
  <2>. QED
    BY <1>7, <1>8, <2>1
<1>10. before # tag /\ before # NoTag => Len(piece) >= 1 /\ piece[1] = Close(before)
  BY <1>2, <1>5
<1>11. ASSUME before # tag, tag # NoTag
       PROVE  \E k \in 1 .. Len(piece) :
                piece[k] = Open(tag) /\ \A l \in 1 .. Len(piece) : k < l => ~ IsMark(piece[l])
  <2>1. a \in 1 .. a /\ a \in 1 .. Len(piece)
    BY <1>2, <1>5, <1>11
  <2>2. piece[a] = Open(tag)
    BY <1>2, <1>5, <1>11, <2>1
  <2>3. \A l \in 1 .. Len(piece) : a < l => l > a
    BY <1>5
  <2>. QED
    BY <1>8, <2>1, <2>2, <2>3
<1>12. ASSUME i <= Len(tokens)
       PROVE  Len(piece) >= 1 /\ IsText(piece[Len(piece)]) /\ piece[Len(piece)].of = i
  <2>1. Len(piece) \in 1 .. Len(piece) /\ Len(piece) > a
    BY <1>3, <1>5, <1>12
  <2>. QED
    BY <1>5, <1>8, <2>1 DEF IsText
<1>13. ASSUME NEW k \in 1 .. Len(piece), IsText(piece[k]) PROVE k = Len(piece)
  <2>1. k \in 1 .. a \/ (k > a /\ (k < Len(piece) \/ k = Len(piece)))
    BY <1>5
  <2>2. k \notin 1 .. a
    BY <1>7, <1>13
  <2>3. piece[k].kind # "space"
    BY <1>13 DEF IsText
  <2>. QED
    BY <1>8, <2>1, <2>2, <2>3
<1>14. ASSUME NEW k \in 1 .. Len(piece), piece[k].kind = "open" PROVE k = a
  <2>1. k \in 1 .. a \/ k > a
    BY <1>5
  <2>. QED
    BY <1>7, <1>8, <1>14, <2>1
<1>15. ASSUME i <= Len(tokens)
       PROVE  /\ piece[Len(piece)].kind = "letter" <=> IsLetters(i)
              /\ tokens[i].kind = "word" => \E k \in 1 .. Len(piece) : piece[k].kind = "space"
              /\ tokens[i].kind # "word" => \A k \in 1 .. Len(piece) : piece[k].kind # "space"
  <2>1. i \in 1 .. Len(tokens) /\ ~ (i > Len(tokens)) /\ tokens[i].kind \in {"word", "piece", "punct"}
    <3>1. i \in 1 .. Len(tokens) /\ ~ (i > Len(tokens))
      BY <1>1, <1>15
    <3>. QED
      BY <3>1, TokensTyped DEF Token
  <2>2. /\ b >= 1 /\ a + b = Len(piece) /\ a + b \in 1 .. Len(piece) /\ piece[a + b] = c[b]
        /\ a + 1 \in 1 .. Len(piece) /\ piece[a + 1] = c[1]
    <3>1. b >= 1 /\ b \in 1 .. b /\ 1 \in 1 .. b
      BY <1>3, <1>5, <1>15
    <3>. QED
      BY <1>5, <3>1
  <2>3. \A k \in 1 .. Len(piece) : (k \in 1 .. a /\ IsMark(piece[k])) \/ (k - a \in 1 .. b /\ piece[k] = c[k - a])
    BY <1>6, <1>7
  <2>4. CASE tokens[i].kind = "word"
    <3>1. c = <<Space(i), Letter(i)>>
      BY <2>1, <2>4 DEF c, CharsAt
    <3>2. b = 2 /\ c[1] = Space(i) /\ c[2] = Letter(i)
      BY <3>1 DEF b
    <3>3. piece[Len(piece)].kind = "letter" /\ piece[a + 1].kind = "space"
      BY <2>2, <3>2 DEF Space, Letter
    <3>. QED
      BY <2>2, <2>4, <3>3 DEF IsLetters
  <2>5. CASE tokens[i].kind \in {"piece", "punct"}
    <3>. DEFINE x == IF tokens[i].kind = "piece" THEN Letter(i) ELSE Punct(i)
    <3>1. c = <<x>>
      BY <2>1, <2>5 DEF c, CharsAt
    <3>2. x.kind = "letter" <=> IsLetters(i)
      BY <2>5 DEF IsLetters, Letter, Punct
    <3>3. x.kind # "space"
      BY DEF Letter, Punct
    <3>. HIDE DEF x
    <3>4. b = 1 /\ c[1] = x
      BY <3>1 DEF b
    <3>5. piece[Len(piece)].kind = "letter" <=> IsLetters(i)
      BY <2>2, <3>2, <3>4
    <3>6. ASSUME NEW k \in 1 .. Len(piece) PROVE piece[k].kind # "space"
      <4>1. CASE k - a \in 1 .. b /\ piece[k] = c[k - a]
        BY <1>5, <3>3, <3>4, <4>1
      <4>2. CASE IsMark(piece[k])
        BY <4>2 DEF IsMark
      <4>. QED
        BY <2>3, <4>1, <4>2
    <3>. QED
      BY <2>5, <3>5, <3>6
  <2>. QED
    BY <2>1, <2>4, <2>5
<1>16. \A k, l \in 1 .. Len(piece) : piece[k].kind = "open" /\ piece[l].kind = "open" => k = l
  BY <1>14
<1>. QED
  BY <1>5, <1>9, <1>10, <1>11, <1>12, <1>13, <1>15, <1>16 DEF PieceOK, piece, before, tag

\* text is the pieces one after the other; off[i] items are of the first i of them.
Written(text, off) ==
  LET n == Len(tokens) + 1
  IN  /\ IsSequence(text) /\ DOMAIN text = 1 .. off[n]
      /\ off \in [0 .. n -> Nat] /\ off[0] = 0
      /\ \A i \in 1 .. n : off[i] = off[i - 1] + Len(Piece(i))
      /\ \A i, j \in 0 .. n : i <= j => off[i] <= off[j]
      /\ \A i \in 1 .. n : \A k \in 1 .. Len(Piece(i)) : text[off[i - 1] + k] = Piece(i)[k]
      /\ \A p \in DOMAIN text : \E i \in 1 .. n : \E k \in 1 .. Len(Piece(i)) : p = off[i - 1] + k

LEMMA LineIsWritten ==
  ASSUME HypothesisOK
  PROVE  \E off : Written(join_tags_tokens(tokens, eosTag), off)
<1>. DEFINE n == Len(tokens) + 1
            ss == [i \in 1 .. Len(tokens) + 1 |-> Piece(i)]
            text == join_tags_tokens(tokens, eosTag)
<1>1. Len(tokens) \in Nat /\ n \in Nat /\ n # 0
  BY TokensTyped
<1>2. \A i \in 1 .. n : Piece(i) \in Seq(Items)
  BY PiecesOK DEF PieceOK
<1>3. text = FlattenSeq(ss)
  BY Zenon DEF join_tags_tokens, Piece, MarksBetween, Tagged
<1>4. ss \in [1 .. n -> Seq(Items)] /\ \A i \in 1 .. n : ss[i] = Piece(i)
  BY <1>2
<1>. HIDE DEF n, ss, text
<1>5. Len(ss) = n
  <2>. DEFINE S == Seq(Items)
  <2>1. ss \in [1 .. n -> S]
    BY <1>4
  <2>. HIDE DEF S
  <2>. QED
    BY <1>1, <2>1
<1>6. PICK off : Laid(text, ss, n, off) /\ text \in Seq(Items)
  <2>. DEFINE I == Items
  <2>1. ss \in [1 .. n -> Seq(I)]
    BY <1>4
  <2>. HIDE DEF I
  <2>2. FlattenSeq(ss) \in Seq(I) /\ \E off : Laid(FlattenSeq(ss), ss, n, off)
    BY <1>1, <1>5, <2>1, Flattened
  <2>. QED
    BY <1>3, <2>2 DEF I
<1>7. /\ off \in [0 .. n -> Nat] /\ off[0] = 0 /\ Len(text) = off[n]
      /\ \A i \in 1 .. n : off[i] = off[i - 1] + Len(ss[i])
      /\ \A i, j \in 0 .. n : i <= j => off[i] <= off[j]
      /\ \A i \in 1 .. n : \A k \in 1 .. Len(ss[i]) : text[off[i - 1] + k] = ss[i][k]
      /\ \A p \in 1 .. off[n] : \E i \in 1 .. n : \E k \in 1 .. Len(ss[i]) : p = off[i - 1] + k
  BY <1>6, Zenon DEF Laid
<1>8. IsSequence(text) /\ DOMAIN text = 1 .. off[n]
  BY <1>6, <1>7 DEF IsSequence
<1>9. \A i \in 1 .. n : off[i] = off[i - 1] + Len(Piece(i))
  BY <1>4, <1>7
<1>10. \A i \in 1 .. n : \A k \in 1 .. Len(Piece(i)) : text[off[i - 1] + k] = Piece(i)[k]
  BY <1>4, <1>7
<1>11. \A p \in DOMAIN text : \E i \in 1 .. n : \E k \in 1 .. Len(Piece(i)) : p = off[i - 1] + k
  BY <1>4, <1>7, <1>8
<1>12. Written(text, off)
  BY <1>7, <1>8, <1>9, <1>10, <1>11, Zenon DEF Written, n
<1>. QED
  BY <1>12 DEF text

\* Where an item of the line comes from.
LEMMA Origin ==
  ASSUME HypothesisOK, NEW text, NEW off, Written(text, off), NEW p \in DOMAIN text
  PROVE  \E i \in 1 .. Len(tokens) + 1 : \E k \in 1 .. Len(Piece(i)) :
           /\ p = off[i - 1] + k /\ text[p] = Piece(i)[k]
           /\ off[i - 1] < p /\ p <= off[i] /\ (p = off[i] <=> k = Len(Piece(i)))
<1>0. PICK i \in 1 .. Len(tokens) + 1 : \E k \in 1 .. Len(Piece(i)) : p = off[i - 1] + k
  BY DEF Written
<1>1. PICK k \in 1 .. Len(Piece(i)) : p = off[i - 1] + k
  BY <1>0
<1>2. text[p] = Piece(i)[k]
  BY <1>1 DEF Written
<1>3. Len(tokens) \in Nat /\ Piece(i) \in Seq(Items)
  BY TokensTyped, PiecesOK DEF PieceOK
<1>. DEFINE x == off[i - 1]
            y == off[i]
            l == Len(Piece(i))
<1>4. x \in Nat /\ l \in Nat /\ y = x + l
  <2>1. i - 1 \in 0 .. Len(tokens) + 1
    BY <1>3
  <2>2. x \in Nat
    BY <2>1 DEF Written
  <2>3. y = x + l
    BY Zenon DEF Written
  <2>. QED
    BY <1>3, <2>2, <2>3
<1>5. k \in 1 .. l /\ p = x + k
  BY <1>1
<1>6. x < p /\ p <= y /\ (p = y <=> k = l)
  <2>. HIDE DEF x, y, l
  <2>. QED
    BY <1>4, <1>5
<1>. QED
  BY <1>1, <1>2, <1>6

\* The spans, said of the tags that the line is joined from.
LEMMA SpansOfTags ==
  ASSUME HypothesisOK, NEW s, s \in (1 .. Len(tokens)) \X (1 .. Len(tokens))
  PROVE  s \in Spans <=> /\ s[1] <= s[2] /\ TypeOf(s) # NoTag
                         /\ \A i \in s[1] .. s[2] : Tagged(i) = TypeOf(s)
                         /\ Tagged(s[1] - 1) # TypeOf(s) /\ Tagged(s[2] + 1) # TypeOf(s)
<1>1. /\ Len(tokens) \in Nat /\ DOMAIN tokens = 1 .. Len(tokens)
      /\ s[1] \in 1 .. Len(tokens) /\ s[2] \in 1 .. Len(tokens)
  BY TokensTyped
<1>2. \A i \in 0 .. Len(tokens) : TagAt(tokens, NoTag, i) = Tagged(i)
  <2>1. TAKE i \in 0 .. Len(tokens)
  <2>2. i = 0 \/ i \in 1 .. Len(tokens)
    BY <1>1
  <2>. QED
    BY <2>2, TokensTyped
<1>3. TagAt(tokens, NoTag, s[1]) = TypeOf(s) /\ Tagged(s[1]) = TypeOf(s)
  BY <1>1, TokensTyped DEF TypeOf
<1>4. TagAt(tokens, NoTag, s[1] - 1) = Tagged(s[1] - 1)
  <2>1. s[1] - 1 \in 0 .. Len(tokens)
    BY <1>1
  <2>. QED
    BY <1>2, <2>1
<1>5. \A i \in s[1] .. s[2] : TagAt(tokens, NoTag, i) = Tagged(i)
  <2>1. \A i \in s[1] .. s[2] : i \in 0 .. Len(tokens)
    BY <1>1
  <2>. QED
    BY <1>2, <2>1
<1>6. CASE s[2] = Len(tokens)
  <2>1. TagAt(tokens, NoTag, s[2] + 1) = NoTag /\ Tagged(s[2] + 1) = eosTag
    BY <1>1, <1>6 DEF TagAt, Tagged
  <2>2. Span(s) <=> /\ s[1] <= s[2] /\ TypeOf(s) # NoTag
                    /\ \A i \in s[1] .. s[2] : Tagged(i) = TypeOf(s)
                    /\ Tagged(s[1] - 1) # TypeOf(s) /\ NoTag # TypeOf(s)
    BY <1>3, <1>4, <1>5, <2>1 DEF Span
  <2>3. s \in Spans <=> Span(s) /\ eosTag # TypeOf(s)
    BY <1>1, <1>6 DEF Spans, TypeOf
  <2>. QED
    BY <2>1, <2>2, <2>3
<1>7. CASE s[2] # Len(tokens)
  <2>1. TagAt(tokens, NoTag, s[2] + 1) = Tagged(s[2] + 1)
    <3>1. s[2] + 1 \in 0 .. Len(tokens)
      BY <1>1, <1>7
    <3>. QED
      BY <1>2, <3>1
  <2>2. Span(s) <=> /\ s[1] <= s[2] /\ TypeOf(s) # NoTag
                    /\ \A i \in s[1] .. s[2] : Tagged(i) = TypeOf(s)
                    /\ Tagged(s[1] - 1) # TypeOf(s) /\ Tagged(s[2] + 1) # TypeOf(s)
    BY <1>3, <1>4, <1>5, <2>1 DEF Span
  <2>3. s \in Spans <=> Span(s)
    BY <1>1, <1>7 DEF Spans
  <2>. QED
    BY <2>2, <2>3
<1>. QED
  BY <1>6, <1>7

\* A span's mark is closed right behind its last token.
LEMMA SpanIsEnclosed ==
  ASSUME HypothesisOK, NEW text, NEW off, Written(text, off), NEW s \in Spans
  PROVE  \E o \in DOMAIN text :
           Encloses(text, o, off[s[2]] + 1, s) /\ off[s[1] - 1] < o /\ o <= off[s[1]]
<1>. DEFINE n == Len(tokens) + 1
            s1 == s[1]
            s2 == s[2]
            type == TypeOf(s)
<1>1. n \in Nat /\ Len(tokens) \in Nat /\ s1 \in 1 .. Len(tokens) /\ s2 \in 1 .. Len(tokens)
  <2>1. s \in (DOMAIN tokens) \X (DOMAIN tokens)
    BY DEF Spans
  <2>. QED
    BY <2>1, TokensTyped
<1>2. /\ s1 <= s2 /\ type # NoTag
      /\ \A i \in s1 .. s2 : Tagged(i) = type
      /\ Tagged(s1 - 1) # type /\ Tagged(s2 + 1) # type
  <2>1. s \in (1 .. Len(tokens)) \X (1 .. Len(tokens))
    <3>1. s \in (DOMAIN tokens) \X (DOMAIN tokens)
      BY DEF Spans
    <3>. QED
      BY <3>1, TokensTyped
  <2>. QED
    BY <2>1, SpansOfTags
<1>3. s1 \in s1 .. s2 /\ s2 \in s1 .. s2 /\ s1 \in 1 .. n /\ s2 + 1 \in 1 .. n /\ (s2 + 1) - 1 = s2
  BY <1>1, <1>2
<1>4. \A i \in 1 .. n : PieceOK(Piece(i), i) /\ Len(Piece(i)) \in Nat
  <2>1. TAKE i \in 1 .. n
  <2>2. PieceOK(Piece(i), i)
    BY PiecesOK
  <2>. QED
    BY <2>2 DEF PieceOK
<1>5. \A i \in 0 .. n : off[i] \in Nat
  BY DEF Written
<1>6. \A i, j \in 0 .. n : i <= j => off[i] <= off[j]
  BY Zenon DEF Written, n
<1>7. DOMAIN text = 1 .. off[n]
  BY DEF Written
<1>8. \A i \in 1 .. n : off[i] = off[i - 1] + Len(Piece(i))
  BY Zenon DEF Written, n
<1>9. \A i \in 1 .. n : \A k \in 1 .. Len(Piece(i)) :
        text[off[i - 1] + k] = Piece(i)[k] /\ off[i - 1] + k \in DOMAIN text /\ off[i - 1] + k <= off[i]
  <2>1. TAKE i \in 1 .. n
  <2>2. TAKE k \in 1 .. Len(Piece(i))
  <2>3. text[off[i - 1] + k] = Piece(i)[k]
    BY DEF Written
  <2>. DEFINE x == off[i - 1]
              y == off[i]
              z == off[n]
              l == Len(Piece(i))
  <2>4. y = x + l /\ l \in Nat /\ x \in Nat /\ z \in Nat /\ y <= z
    <3>1. i - 1 \in 0 .. n /\ i \in 0 .. n /\ n \in 0 .. n /\ i <= n
      BY <1>1
    <3>2. l \in Nat /\ x \in Nat /\ z \in Nat /\ y <= z
      BY <1>4, <1>5, <1>6, <3>1
    <3>3. y = x + l
      BY <1>8, Zenon
    <3>. QED
      BY <3>2, <3>3
  <2>5. k \in 1 .. l
    OBVIOUS
  <2>6. x + k \in 1 .. z /\ x + k <= y
    <3>. HIDE DEF x, y, z, l
    <3>. QED
      BY <2>4, <2>5
  <2>. QED
    BY <1>7, <2>3, <2>6
<1>10. PICK k \in 1 .. Len(Piece(s1)) :
         Piece(s1)[k] = Open(type) /\ \A l \in 1 .. Len(Piece(s1)) : k < l => ~ IsMark(Piece(s1)[l])
  <2>1. Tagged(s1) = type
    BY <1>2, <1>3
  <2>2. PieceOK(Piece(s1), s1)
    BY <1>3, <1>4
  <2>. QED
    BY <1>2, <2>1, <2>2 DEF PieceOK
<1>11. 1 \in 1 .. Len(Piece(s2 + 1)) /\ Piece(s2 + 1)[1] = Close(type)
  <2>1. Tagged((s2 + 1) - 1) = type
    BY <1>2, <1>3
  <2>2. PieceOK(Piece(s2 + 1), s2 + 1) /\ Len(Piece(s2 + 1)) \in Nat
    BY <1>3, <1>4
  <2>3. Len(Piece(s2 + 1)) >= 1 /\ Piece(s2 + 1)[1] = Close(type)
    BY <1>2, <2>1, <2>2 DEF PieceOK
  <2>. QED
    BY <2>2, <2>3
<1>. DEFINE x == off[s1 - 1]
            o == x + k
            y == off[s2]
            c == y + 1
<1>12. o \in DOMAIN text /\ text[o] = Open(type)
  BY <1>3, <1>9, <1>10
<1>13. c \in DOMAIN text /\ text[c] = Close(type)
  BY <1>3, <1>9, <1>11
<1>14. x \in Nat /\ y \in Nat /\ k \in Nat /\ k >= 1
  <2>1. s1 - 1 \in 0 .. n /\ s2 \in 0 .. n /\ Len(Piece(s1)) \in Nat
    BY <1>1, <1>3, <1>4
  <2>. QED
    BY <1>5, <2>1
<1>15. ASSUME NEW p \in DOMAIN text, o < p, p < c PROVE ~ IsMark(text[p])
  <2>1. PICK i \in 1 .. n : \E l \in 1 .. Len(Piece(i)) :
          p = off[i - 1] + l /\ text[p] = Piece(i)[l] /\ off[i - 1] < p /\ p <= off[i]
    BY Origin
  <2>2. PICK l \in 1 .. Len(Piece(i)) :
          p = off[i - 1] + l /\ text[p] = Piece(i)[l] /\ off[i - 1] < p /\ p <= off[i]
    BY <2>1
  <2>. DEFINE u == off[i - 1]
              v == off[i]
  <2>3. i - 1 \in 0 .. n /\ i \in 0 .. n /\ s1 - 1 \in 0 .. n /\ s2 \in 0 .. n /\ p \in Int
    <3>1. i - 1 \in 0 .. n /\ i \in 0 .. n /\ s1 - 1 \in 0 .. n /\ s2 \in 0 .. n /\ n \in 0 .. n
      BY <1>1, <1>3
    <3>2. p \in Int
      BY <1>5, <1>7, <3>1
    <3>. QED
      BY <3>1, <3>2
  <2>4. u \in Nat /\ v \in Nat /\ u < p /\ p <= v
    BY <1>5, <2>2, <2>3
  <2>5. ~ (s2 <= i - 1)
    <3>1. SUFFICES ASSUME s2 <= i - 1 PROVE FALSE
      OBVIOUS
    <3>2. y <= u
      BY <1>6, <2>3, <3>1
    <3>. HIDE DEF x, y, u, v
    <3>. QED
      BY <1>14, <1>15, <2>3, <2>4, <3>2
  <2>6. ~ (i <= s1 - 1)
    <3>1. SUFFICES ASSUME i <= s1 - 1 PROVE FALSE
      OBVIOUS
    <3>2. v <= x
      BY <1>6, <2>3, <3>1
    <3>. HIDE DEF x, y, u, v
    <3>. QED
      BY <1>14, <1>15, <2>3, <2>4, <3>2
  <2>7. i \in s1 .. s2
    BY <1>1, <2>5, <2>6
  <2>8. CASE i = s1
    <3>1. k < l
      <4>1. p = x + l /\ l \in Int
        <5>1. Len(Piece(i)) \in Nat
          BY <1>4
        <5>. QED
          BY <2>2, <2>8, <5>1
      <4>. HIDE DEF x, y
      <4>. QED
        BY <1>14, <1>15, <4>1
    <3>. QED
      BY <1>10, <2>2, <2>8, <3>1
  <2>9. CASE i # s1
    <3>1. i - 1 \in s1 .. s2
      BY <1>1, <2>7, <2>9
    <3>2. Tagged(i) = Tagged(i - 1)
      BY <1>2, <2>7, <3>1
    <3>3. PieceOK(Piece(i), i)
      BY <1>4
    <3>4. Piece(i)[l].kind \in {"space", "letter", "punct"}
      BY <3>2, <3>3 DEF PieceOK
    <3>. QED
      BY <2>2, <3>4 DEF IsMark
  <2>. QED
    BY <2>8, <2>9
<1>16. ASSUME NEW i \in s1 .. s2
       PROVE  \E p \in DOMAIN text : o < p /\ p < c /\ IsText(text[p]) /\ text[p].of = i
  <2>1. i \in 1 .. n /\ i <= Len(tokens) /\ i - 1 \in 0 .. n /\ i \in 0 .. n /\ s1 \in 0 .. n /\ s2 \in 0 .. n
    BY <1>1
  <2>. DEFINE l == Len(Piece(i))
              u == off[i - 1]
              v == off[i]
              p == u + l
  <2>2. l >= 1 /\ IsText(Piece(i)[l]) /\ Piece(i)[l].of = i /\ l \in Nat
    <3>1. PieceOK(Piece(i), i) /\ l \in Nat
      BY <1>4, <2>1
    <3>. QED
      BY <2>1, <3>1 DEF PieceOK
  <2>3. l \in 1 .. l
    BY <2>2
  <2>4. p \in DOMAIN text /\ text[p] = Piece(i)[l] /\ p <= v
    BY <1>9, <2>1, <2>3
  <2>5. u \in Nat /\ v \in Nat /\ v <= y
    <3>1. i <= s2
      BY <1>1
    <3>. QED
      BY <1>5, <1>6, <2>1, <3>1
  <2>6. p < c
    <3>. HIDE DEF l, u, v, y
    <3>. QED
      BY <1>14, <2>2, <2>4, <2>5
  <2>7. o < p
    <3>1. CASE i = s1
      <4>1. k # l
        <5>1. SUFFICES ASSUME k = l PROVE FALSE
          OBVIOUS
        <5>2. Piece(i)[l] = Open(type)
          BY <1>10, <3>1, <5>1
        <5>. QED
          BY <2>2, <5>2 DEF IsText, Open
      <4>2. k <= l /\ u = x
        BY <1>10, <3>1
      <4>. HIDE DEF l, u, x
      <4>. QED
        BY <1>14, <2>2, <4>1, <4>2
    <3>2. CASE i # s1
      <4>1. s1 <= i - 1
        BY <1>1, <3>2
      <4>. DEFINE w == off[s1]
      <4>2. w <= u /\ w \in Nat
        BY <1>5, <1>6, <2>1, <4>1
      <4>3. o <= w
        BY <1>3, <1>9
      <4>. HIDE DEF l, u, x, w
      <4>. QED
        BY <1>14, <2>2, <2>5, <4>2, <4>3
    <3>. QED
      BY <3>1, <3>2
  <2>. QED
    BY <2>2, <2>4, <2>6, <2>7
<1>17. /\ text[o].kind = "open" /\ text[o].of = type
       /\ text[c].kind = "close" /\ text[c].of = type
  BY <1>12, <1>13 DEF Open, Close
<1>18. Encloses(text, o, c, s)
  <2>. HIDE DEF o, c
  <2>. QED
    BY <1>12, <1>13, <1>15, <1>16, <1>17 DEF Encloses
<1>19. off[s[1] - 1] < o /\ o <= off[s[1]]
  <2>1. x < o
    <3>. HIDE DEF x
    <3>. QED
      BY <1>14
  <2>2. o <= off[s1]
    BY <1>3, <1>9
  <2>. QED
    BY <2>1, <2>2
<1>. QED
  BY <1>12, <1>18, <1>19

\* A mark that closes stands behind a span: the tokens of its type before it.
LEMMA ClosedIsSpan ==
  ASSUME HypothesisOK, NEW text, NEW off, Written(text, off),
         NEW c \in DOMAIN text, text[c].kind = "close"
  PROVE  \E s \in Spans : c = off[s[2]] + 1
<1>. DEFINE n == Len(tokens) + 1
<1>1. PICK i \in 1 .. n : \E k \in 1 .. Len(Piece(i)) : c = off[i - 1] + k /\ text[c] = Piece(i)[k]
  BY Origin
<1>2. PICK k \in 1 .. Len(Piece(i)) : c = off[i - 1] + k /\ text[c] = Piece(i)[k]
  BY <1>1
<1>. DEFINE type == Tagged(i - 1)
<1>3. k = 1 /\ type # NoTag /\ type # Tagged(i)
  <2>1. PieceOK(Piece(i), i)
    BY PiecesOK
  <2>2. Piece(i)[k].kind = "close"
    BY <1>2
  <2>3. Open(Tagged(i)).kind # "close"
    BY DEF Open
  <2>4. \/ k = 1 /\ type # NoTag /\ type # Tagged(i)
        \/ Piece(i)[k] = Open(Tagged(i))
        \/ Piece(i)[k].kind \in {"space", "letter", "punct"}
    BY <2>1 DEF PieceOK
  <2>. HIDE DEF type
  <2>. QED
    BY <2>2, <2>3, <2>4
<1>4. Len(tokens) \in Nat /\ i \in Nat /\ Tagged(0) = NoTag
  BY TokensTyped
<1>5. i - 1 \in 1 .. Len(tokens)
  BY <1>3, <1>4
<1>. DEFINE T == {j \in 1 .. i - 1 : \A l \in j .. i - 1 : Tagged(l) = type}
            f == Min(T)
            s == <<f, i - 1>>
<1>6. T \subseteq Nat /\ i - 1 \in T
  BY <1>4, <1>5
<1>7. f \in T /\ \A j \in T : f <= j
  <2>. HIDE DEF T
  <2>1. T # {}
    BY <1>6
  <2>. QED
    BY <1>6, <2>1, Least
<1>8. f \in 1 .. i - 1 /\ \A l \in f .. i - 1 : Tagged(l) = type
  <2>. HIDE DEF f
  <2>. QED
    BY <1>7
<1>. HIDE DEF f
<1>9. Tagged(f - 1) # type
  <2>1. CASE f = 1
    BY <1>3, <1>4, <2>1
  <2>2. CASE f # 1
    <3>1. SUFFICES ASSUME Tagged(f - 1) = type PROVE FALSE
      OBVIOUS
    <3>2. f - 1 \in 1 .. i - 1 /\ \A l \in f - 1 .. i - 1 : l = f - 1 \/ l \in f .. i - 1
      BY <1>4, <1>8, <2>2
    <3>3. f - 1 \in T
      <4>. HIDE DEF type
      <4>. QED
        BY <1>8, <3>1, <3>2
    <3>. HIDE DEF T
    <3>4. f <= f - 1 /\ f \in Int
      BY <1>7, <1>8, <3>3
    <3>. QED
      BY <3>4
  <2>. QED
    BY <2>1, <2>2
<1>10. s \in (1 .. Len(tokens)) \X (1 .. Len(tokens)) /\ s[1] = f /\ s[2] = i - 1
  BY <1>4, <1>5, <1>8
<1>. HIDE DEF s
<1>11. f \in f .. i - 1 /\ f \in 1 .. Len(tokens)
  BY <1>4, <1>5, <1>8
<1>12. TypeOf(s) = type
  <2>1. Tagged(f) = tokens[f].tag
    BY <1>11, TokensTyped
  <2>. QED
    BY <1>8, <1>10, <1>11, <2>1 DEF TypeOf
<1>13. Tagged((i - 1) + 1) # type
  <2>1. (i - 1) + 1 = i
    BY <1>4
  <2>. QED
    BY <1>3, <2>1
<1>14. s \in Spans
  <2>1. /\ s[1] <= s[2] /\ TypeOf(s) # NoTag
        /\ \A l \in s[1] .. s[2] : Tagged(l) = TypeOf(s)
        /\ Tagged(s[1] - 1) # TypeOf(s) /\ Tagged(s[2] + 1) # TypeOf(s)
    <3>1. f <= i - 1
      BY <1>4, <1>8
    <3>. HIDE DEF type
    <3>. QED
      BY <1>3, <1>8, <1>9, <1>10, <1>12, <1>13, <3>1
  <2>. QED
    BY <1>10, <2>1, SpansOfTags
<1>. QED
  BY <1>2, <1>3, <1>10, <1>14

\* The text of token i is the last item of piece i.
LEMMA TextOfToken ==
  ASSUME HypothesisOK, NEW text, NEW off, Written(text, off), NEW p \in DOMAIN text
  PROVE  ItemOK(text[p]) /\ (IsText(text[p]) => p = off[text[p].of])
<1>1. PICK i \in 1 .. Len(tokens) + 1 :
        \E k \in 1 .. Len(Piece(i)) : text[p] = Piece(i)[k] /\ (p = off[i] <=> k = Len(Piece(i)))
  BY Origin
<1>2. PICK k \in 1 .. Len(Piece(i)) : text[p] = Piece(i)[k] /\ (p = off[i] <=> k = Len(Piece(i)))
  BY <1>1
<1>. DEFINE item == Piece(i)[k]
            before == Tagged(i - 1)
            tag == Tagged(i)
<1>3. /\ \/ item = Close(before) /\ before # NoTag
         \/ item = Open(tag) /\ tag # NoTag
         \/ item.kind \in {"space", "letter", "punct"} /\ item.of = i /\ i <= Len(tokens)
      /\ IsText(item) => k = Len(Piece(i))
  <2>1. PieceOK(Piece(i), i)
    BY PiecesOK
  <2>. QED
    BY <2>1 DEF PieceOK
<1>4. before \in Tags /\ tag \in Tags /\ Len(tokens) \in Nat /\ i \in Nat /\ i >= 1
  <2>1. Len(tokens) \in Nat
    BY TokensTyped
  <2>2. i - 1 \in 0 .. Len(tokens) + 1 /\ i \in 0 .. Len(tokens) + 1
    BY <2>1
  <2>. QED
    BY <2>1, <2>2, TokensTyped
<1>. HIDE DEF item, before, tag
<1>5. CASE (item = Close(before) /\ before # NoTag) \/ (item = Open(tag) /\ tag # NoTag)
  <2>1. item.kind \in {"open", "close"} /\ item.of \in Types
    BY <1>4, <1>5 DEF Open, Close, Tags
  <2>2. ItemOK(item) /\ ~ IsText(item)
    BY <2>1 DEF ItemOK, IsText
  <2>. QED
    BY <1>2, <2>2 DEF item
<1>6. CASE item.kind \in {"space", "letter", "punct"} /\ item.of = i /\ i <= Len(tokens)
  <2>1. ItemOK(item)
    BY <1>4, <1>6 DEF ItemOK
  <2>. QED
    BY <1>2, <1>3, <1>6, <2>1 DEF item
<1>. QED
  BY <1>3, <1>5, <1>6

\* The line is joined as the tags of the tokens say.
LEMMA JoinedOK ==
  ASSUME HypothesisOK
  PROVE  LineOK(join_tags_tokens(tokens, eosTag))
<1>. DEFINE text == join_tags_tokens(tokens, eosTag)
<1>1. PICK off : Written(text, off)
  BY LineIsWritten
<1>. HIDE DEF text
<1>2. IsSequence(text)
  BY <1>1 DEF Written
<1>3. \A p \in DOMAIN text : ItemOK(text[p])
  BY <1>1, TextOfToken
<1>4. \A p, q \in DOMAIN text : IsText(text[p]) /\ IsText(text[q]) /\ text[p].of = text[q].of => p = q
  <2>1. \A p \in DOMAIN text : IsText(text[p]) => p = off[text[p].of]
    BY <1>1, TextOfToken
  <2>. QED
    BY <2>1
<1>5. \A s \in Spans : \E o \in DOMAIN text : Encloses(text, o, off[s[2]] + 1, s)
  BY <1>1, SpanIsEnclosed
<1>6. \A s \in Spans : \E o, c \in DOMAIN text : Encloses(text, o, c, s)
  BY <1>5 DEF Encloses
<1>7. \A c \in DOMAIN text : text[c].kind = "close" =>
        \E s \in Spans, o \in DOMAIN text : Encloses(text, o, c, s)
  <2>1. TAKE c \in DOMAIN text
  <2>2. HAVE text[c].kind = "close"
  <2>3. PICK s \in Spans : c = off[s[2]] + 1
    BY <1>1, <2>2, ClosedIsSpan
  <2>. QED
    BY <1>5, <2>3
<1>8. LineOK(text)
  BY <1>2, <1>3, <1>4, <1>6, <1>7 DEF LineOK
<1>. QED
  BY <1>8 DEF text

\* The space that is stripped: everything else moves up by one.
LEMMA StripShifts ==
  ASSUME NEW text, IsSequence(text), text # << >>, text[1].kind = "space"
  PROVE  LET new == strip(text)
         IN  /\ IsSequence(new)
             /\ \A p \in DOMAIN new : p + 1 \in DOMAIN text /\ new[p] = text[p + 1] /\ p \in Int
             /\ \A p \in DOMAIN text : text[p].kind # "space" =>
                  p - 1 \in DOMAIN new /\ new[p - 1] = text[p] /\ p \in Int /\ (p - 1) + 1 = p
<1>. DEFINE new == strip(text)
<1>1. PICK S : text \in Seq(S)
  BY DEF IsSequence
<1>2. new = Tail(text)
  BY DEF strip
<1>. HIDE DEF new
<1>3. Len(text) \in Nat /\ Len(text) >= 1 /\ DOMAIN text = 1 .. Len(text)
  BY <1>1
<1>4. /\ new \in Seq(S) /\ Len(new) = Len(text) - 1
      /\ DOMAIN new = 1 .. Len(text) - 1
      /\ \A p \in 1 .. Len(text) - 1 : new[p] = text[p + 1]
  <2>1. Tail(text) \in Seq(S) /\ Len(Tail(text)) = Len(text) - 1
    BY <1>1
  <2>2. \A p \in 1 .. Len(text) - 1 : Tail(text)[p] = text[p + 1]
    BY <1>1
  <2>3. DOMAIN Tail(text) = 1 .. Len(text) - 1
    BY <2>1
  <2>. QED
    BY <1>2, <2>1, <2>2, <2>3
<1>5. \A p \in DOMAIN new : p + 1 \in DOMAIN text /\ new[p] = text[p + 1] /\ p \in Int
  BY <1>3, <1>4
<1>6. ASSUME NEW p \in DOMAIN text, text[p].kind # "space"
      PROVE  p - 1 \in DOMAIN new /\ new[p - 1] = text[p] /\ p \in Int /\ (p - 1) + 1 = p
  <2>1. p # 1
    BY <1>6
  <2>2. p - 1 \in 1 .. Len(text) - 1 /\ (p - 1) + 1 = p /\ p \in Int
    BY <1>3, <2>1
  <2>. QED
    BY <1>4, <2>2
<1>7. IsSequence(new)
  BY <1>4 DEF IsSequence
<1>. QED
  BY <1>5, <1>6, <1>7 DEF new

LEMMA StripEncloses ==
  ASSUME NEW text, IsSequence(text), text # << >>, text[1].kind = "space",
         NEW s, NEW o, NEW c, Encloses(text, o, c, s)
  PROVE  Encloses(strip(text), o - 1, c - 1, s)
<1>. DEFINE new == strip(text)
<1>1. /\ \A p \in DOMAIN new : p + 1 \in DOMAIN text /\ new[p] = text[p + 1] /\ p \in Int
      /\ \A p \in DOMAIN text : text[p].kind # "space" =>
           p - 1 \in DOMAIN new /\ new[p - 1] = text[p] /\ p \in Int /\ (p - 1) + 1 = p
  BY StripShifts
<1>. HIDE DEF new
<1>2. /\ o \in DOMAIN text /\ c \in DOMAIN text
      /\ text[o].kind = "open" /\ text[o].of = TypeOf(s)
      /\ text[c].kind = "close" /\ text[c].of = TypeOf(s)
  BY DEF Encloses
<1>3. /\ o - 1 \in DOMAIN new /\ new[o - 1] = text[o] /\ o \in Int
      /\ c - 1 \in DOMAIN new /\ new[c - 1] = text[c] /\ c \in Int
  BY <1>1, <1>2
<1>4. ASSUME NEW p \in DOMAIN new, o - 1 < p, p < c - 1 PROVE ~ IsMark(new[p])
  <2>1. p + 1 \in DOMAIN text /\ new[p] = text[p + 1] /\ o < p + 1 /\ p + 1 < c
    BY <1>1, <1>3, <1>4
  <2>. QED
    BY <2>1 DEF Encloses
<1>5. ASSUME NEW i \in s[1] .. s[2]
      PROVE  \E p \in DOMAIN new : o - 1 < p /\ p < c - 1 /\ IsText(new[p]) /\ new[p].of = i
  <2>1. PICK p \in DOMAIN text : o < p /\ p < c /\ IsText(text[p]) /\ text[p].of = i
    BY DEF Encloses
  <2>2. text[p].kind # "space"
    BY <2>1 DEF IsText
  <2>3. p - 1 \in DOMAIN new /\ new[p - 1] = text[p] /\ o - 1 < p - 1 /\ p - 1 < c - 1
    BY <1>1, <1>3, <2>1, <2>2
  <2>. QED
    BY <2>1, <2>3
<1>6. Encloses(new, o - 1, c - 1, s)
  BY <1>2, <1>3, <1>4, <1>5 DEF Encloses
<1>. QED
  BY <1>6 DEF new

\* It is no mark and no text.
LEMMA StrippedOK ==
  ASSUME NEW text, LineOK(text)
  PROVE  LineOK(strip(text))
<1>. DEFINE new == strip(text)
<1>1. CASE text # << >> /\ text[1].kind = "space"
  <2>0. IsSequence(text)
    BY DEF LineOK
  <2>1. /\ IsSequence(new)
        /\ \A p \in DOMAIN new : p + 1 \in DOMAIN text /\ new[p] = text[p + 1] /\ p \in Int
    BY <1>1, <2>0, StripShifts
  <2>2. \A s, o, c : Encloses(text, o, c, s) => Encloses(new, o - 1, c - 1, s)
    BY <1>1, <2>0, StripEncloses
  <2>. HIDE DEF new
  <2>3. \A p \in DOMAIN new : ItemOK(new[p])
    BY <2>1 DEF LineOK
  <2>4. ASSUME NEW p \in DOMAIN new, NEW q \in DOMAIN new, IsText(new[p]), IsText(new[q]), new[p].of = new[q].of
        PROVE  p = q
    <3>1. p + 1 = q + 1
      BY <2>1, <2>4 DEF LineOK
    <3>. QED
      BY <2>1, <3>1
  <2>5. \A s \in Spans : \E o, c \in DOMAIN new : Encloses(new, o, c, s)
    <3>1. TAKE s \in Spans
    <3>2. PICK o, c \in DOMAIN text : Encloses(text, o, c, s)
      BY DEF LineOK
    <3>3. Encloses(new, o - 1, c - 1, s)
      BY <2>2, <3>2
    <3>4. o - 1 \in DOMAIN new /\ c - 1 \in DOMAIN new
      BY <3>3 DEF Encloses
    <3>. QED
      BY <3>3, <3>4
  <2>6. ASSUME NEW c \in DOMAIN new, new[c].kind = "close"
        PROVE  \E s \in Spans, o \in DOMAIN new : Encloses(new, o, c, s)
    <3>1. c + 1 \in DOMAIN text /\ text[c + 1].kind = "close" /\ (c + 1) - 1 = c
      BY <2>1, <2>6
    <3>2. PICK s \in Spans, o \in DOMAIN text : Encloses(text, o, c + 1, s)
      BY <3>1 DEF LineOK
    <3>3. Encloses(new, o - 1, (c + 1) - 1, s)
      BY <2>2, <3>2
    <3>4. Encloses(new, o - 1, c, s) /\ o - 1 \in DOMAIN new
      BY <3>1, <3>3 DEF Encloses
    <3>. QED
      BY <3>4
  <2>7. LineOK(new)
    BY <2>1, <2>3, <2>4, <2>5, <2>6 DEF LineOK
  <2>. QED
    BY <2>7 DEF new
<1>2. CASE ~ (text # << >> /\ text[1].kind = "space")
  BY <1>2 DEF strip
<1>. QED
  BY <1>1, <1>2

-----------------------------------------------------------------------------
(***************************************************************************)
(* A span that begins inside a word and has it alone: its marks reach the  *)
(* ends of its words, the opening one with the first move, the closing one *)
(* with the second.                                                        *)
(***************************************************************************)

Inner(s) == tokens[s[1]].kind = "piece" /\ Alone(s) /\ TypeOf(s) \notin Underscored

IsLetter(item) == item.kind = "letter"

Run(text, p, q) == \A j \in p .. q : IsLetter(text[j])

\* Every token that has letters has one in the line.
LettersThere(text) ==
  \A i \in DOMAIN tokens : IsLetters(i) => \E p \in DOMAIN text : IsLetter(text[p]) /\ text[p].of = i

LettersWithin(text, o, c, s) ==
  \A p \in DOMAIN text : IsLetter(text[p]) /\ o < p /\ p < c => text[p].of \in Touched(s)

\* The rest of the last word follows the closing mark, and no tag opens at its end.
WordGoesOn(text, c, s) ==
  \A p \in DOMAIN text : IsLetter(text[p]) /\ c < p => (text[p].of \in Touched(s) <=> Run(text, c + 1, p))

\* Before the first move, ...
WordAround(text, o, c, s) ==
  /\ LettersWithin(text, o, c, s)
  /\ \A p \in DOMAIN text : IsLetter(text[p]) /\ p < o => (text[p].of \in Touched(s) <=> Run(text, p, o - 1))
  /\ WordGoesOn(text, c, s)
  /\ \A m \in DOMAIN text : text[m].kind = "open" /\ c < m => ~ Run(text, c + 1, m - 1)

\* ... between the two, ...
WordBehind(text, o, c, s) ==
  /\ LettersWithin(text, o, c, s)
  /\ \A p \in DOMAIN text : IsLetter(text[p]) /\ p < o => text[p].of \notin Touched(s)
  /\ WordGoesOn(text, c, s)

\* ... and after them.
WordWithin(text, o, c, s) ==
  \A p \in DOMAIN text : IsLetter(text[p]) => (text[p].of \in Touched(s) <=> o < p /\ p < c)

Around(text, s) ==
  \E o, c \in DOMAIN text : Encloses(text, o, c, s) /\ WordAround(text, o, c, s)

Within(text, s) ==
  \E o, c \in DOMAIN text : Encloses(text, o, c, s) /\ WordWithin(text, o, c, s)

WordInv ==
  /\ stage # "none" => LettersThere(line)
  /\ stage = "joined" => \A s \in Spans : Inner(s) => Around(line, s)
  /\ stage \in {"moved", "spaced"} => \A s \in Spans : Inner(s) => Within(line, s)

\* How far the moves take a mark, said without the length of runs.
LEMMA StartPlace ==
  ASSUME NEW text, IsSequence(text), NEW i \in DOMAIN text
  PROVE  LET x == StartPlaces(text)[i]
         IN  /\ i \in Int /\ x \in Int /\ x <= 2 * i
             /\ x # 2 * i => text[i].kind = "open"
             /\ \A p \in DOMAIN text : p < i /\ x < 2 * p => Run(text, p, i - 1)
             /\ \A p \in DOMAIN text :
                  p < i /\ Run(text, p, i - 1) /\ text[i].kind = "open" /\ Movable(text[i]) => x < 2 * p
<1>. DEFINE r == RunBefore(text, i, "letter")
            x == StartPlaces(text)[i]
            moved == text[i].kind = "open" /\ Movable(text[i]) /\ r > 0
<1>1. i \in Int /\ \A p \in DOMAIN text : p \in Int
  BY DEF IsSequence
<1>2. r \in 0 .. i - 1 /\ r \in Int
  <2>1. r \in 0 .. i - 1
    BY RunIsBefore
  <2>. HIDE DEF r
  <2>. QED
    BY <1>1, <2>1
<1>3. \A p \in DOMAIN text : p < i => (p >= i - r <=> Run(text, p, i - 1))
  BY RunReachesBack DEF Run, IsLetter
<1>4. x = IF moved THEN 2 * (i - r) - 1 ELSE 2 * i
  BY Zenon DEF StartPlaces
<1>. HIDE DEF r, x
<1>5. x \in Int /\ x <= 2 * i /\ (x # 2 * i => text[i].kind = "open")
  BY <1>1, <1>2, <1>4
<1>6. ASSUME NEW p \in DOMAIN text, p < i, x < 2 * p PROVE Run(text, p, i - 1)
  <2>1. p >= i - r
    BY <1>1, <1>2, <1>4, <1>6
  <2>. QED
    BY <1>3, <1>6, <2>1
<1>7. ASSUME NEW p \in DOMAIN text, p < i, Run(text, p, i - 1), text[i].kind = "open", Movable(text[i])
      PROVE  x < 2 * p
  <2>1. p >= i - r
    BY <1>3, <1>7
  <2>2. r > 0
    BY <1>1, <1>2, <1>7, <2>1
  <2>. QED
    BY <1>1, <1>2, <1>4, <1>7, <2>1, <2>2
<1>. QED
  BY <1>1, <1>5, <1>6, <1>7 DEF x

LEMMA EndPlace ==
  ASSUME NEW text, IsSequence(text), NEW i \in DOMAIN text
  PROVE  LET x == EndPlaces(text)[i]
         IN  /\ i \in Int /\ x \in Int /\ 2 * i <= x
             /\ x # 2 * i => text[i].kind = "close"
             /\ \A p \in DOMAIN text : i < p /\ 2 * p < x => Run(text, i + 1, p)
             /\ \A p \in DOMAIN text :
                  i < p /\ Run(text, i + 1, p) /\ text[i].kind = "close" /\ Movable(text[i]) => 2 * p < x
<1>. DEFINE r == RunAfter(text, i, "letter")
            x == EndPlaces(text)[i]
            moved == text[i].kind = "close" /\ Movable(text[i]) /\ r > 0
<1>1. i \in Int /\ \A p \in DOMAIN text : p \in Int
  BY DEF IsSequence
<1>2. r \in Nat
  <2>1. r \in 0 .. Len(text) - i
    BY RunIsAfter
  <2>. HIDE DEF r
  <2>. QED
    BY <2>1
<1>3. \A p \in DOMAIN text : i < p => (p <= i + r <=> Run(text, i + 1, p))
  BY RunReachesOn DEF Run, IsLetter
<1>4. x = IF moved THEN 2 * (i + r) + 1 ELSE 2 * i
  BY Zenon DEF EndPlaces
<1>. HIDE DEF r, x
<1>5. x \in Int /\ 2 * i <= x /\ (x # 2 * i => text[i].kind = "close")
  BY <1>1, <1>2, <1>4
<1>6. ASSUME NEW p \in DOMAIN text, i < p, 2 * p < x PROVE Run(text, i + 1, p)
  <2>1. p <= i + r
    BY <1>1, <1>2, <1>4, <1>6
  <2>. QED
    BY <1>3, <1>6, <2>1
<1>7. ASSUME NEW p \in DOMAIN text, i < p, Run(text, i + 1, p), text[i].kind = "close", Movable(text[i])
      PROVE  2 * p < x
  <2>1. p <= i + r
    BY <1>3, <1>7
  <2>2. r > 0
    BY <1>1, <1>2, <1>7, <2>1
  <2>. QED
    BY <1>1, <1>2, <1>4, <1>7, <2>1, <2>2
<1>. QED
  BY <1>1, <1>5, <1>6, <1>7 DEF x

LEMMA SpacePlace ==
  ASSUME NEW text, IsSequence(text), NEW i \in DOMAIN text
  PROVE  LET x == SpacePlaces(text)[i]
         IN  /\ i \in Int /\ x \in Int /\ 2 * i <= x
             /\ x # 2 * i => text[i].kind = "open"
<1>. DEFINE r == RunAfter(text, i, "space")
            x == SpacePlaces(text)[i]
            moved == text[i].kind = "open" /\ r > 0
<1>1. i \in Int
  BY DEF IsSequence
<1>2. r \in Nat
  <2>1. r \in 0 .. Len(text) - i
    BY RunIsAfter
  <2>. HIDE DEF r
  <2>. QED
    BY <2>1
<1>3. x = IF moved THEN 2 * (i + r) + 1 ELSE 2 * i
  BY Zenon DEF SpacePlaces
<1>. HIDE DEF r, x
<1>. QED
  BY <1>1, <1>2, <1>3 DEF x

\* A move takes no letter away.
LEMMA LettersStay ==
  ASSUME NEW text, LettersThere(text), NEW place, NEW new, NEW rank, Sorted(text, new, place, rank)
  PROVE  LettersThere(new)
<1>1. SUFFICES ASSUME NEW i \in DOMAIN tokens, IsLetters(i)
               PROVE  \E n \in DOMAIN new : IsLetter(new[n]) /\ new[n].of = i
  BY DEF LettersThere
<1>2. PICK p \in DOMAIN text : IsLetter(text[p]) /\ text[p].of = i
  BY <1>1 DEF LettersThere
<1>3. rank[p] \in DOMAIN new /\ new[rank[p]] = text[p]
  BY DEF Sorted
<1>. QED
  BY <1>2, <1>3

\* The first move: the opening mark goes before the letters of its word, and no other mark comes
\* among those behind the closing one.
LEMMA WordStarts ==
  ASSUME NEW text, LineOK(text), NEW new, NEW rank, Sorted(text, new, StartPlaces(text), rank),
         NEW s, TypeOf(s) \notin Underscored, NEW o, NEW c, Encloses(text, o, c, s), WordAround(text, o, c, s)
  PROVE  WordBehind(new, rank[o], rank[c], s)
<1>. DEFINE place == StartPlaces(text)
<1>0. IsSequence(text) /\ Careful(text, place)
  BY StartsCareful DEF LineOK
<1>1. /\ o \in DOMAIN text /\ c \in DOMAIN text
      /\ text[o].kind = "open" /\ text[o].of = TypeOf(s)
      /\ text[c].kind = "close"
      /\ IsMark(text[o]) /\ IsMark(text[c]) /\ ~ IsLetter(text[o]) /\ ~ IsLetter(text[c])
  BY DEF Encloses, IsMark, IsLetter
<1>2. Movable(text[o])
  BY <1>1 DEF Movable
<1>3. \A i, j \in DOMAIN text :
        /\ i \in Int /\ rank[i] \in Int /\ rank[i] \in DOMAIN new /\ new[rank[i]] = text[i]
        /\ place[i] < place[j] <=> rank[i] < rank[j]
  BY <1>0, RankedInOrder
<1>4. \A i \in DOMAIN text :
        /\ place[i] \in Int /\ place[i] <= 2 * i
        /\ place[i] # 2 * i => text[i].kind = "open"
        /\ \A p \in DOMAIN text : p < i /\ place[i] < 2 * p => Run(text, p, i - 1)
        /\ \A p \in DOMAIN text :
             p < i /\ Run(text, p, i - 1) /\ text[i].kind = "open" /\ Movable(text[i]) => place[i] < 2 * p
  BY <1>0, StartPlace
<1>5. \A n \in DOMAIN new : \E i \in DOMAIN text : rank[i] = n /\ new[n] = text[i]
  BY DEF Sorted
<1>. HIDE DEF place
<1>6. \A i \in DOMAIN text : IsLetter(text[i]) => place[i] = 2 * i /\ i # o /\ i # c
  BY <1>1, <1>4 DEF IsLetter
<1>7. place[c] = 2 * c
  BY <1>1, <1>4
<1>8. ASSUME NEW i \in DOMAIN text, IsLetter(text[i]), rank[o] < rank[i], rank[i] < rank[c]
      PROVE  text[i].of \in Touched(s)
  <2>1. place[o] < 2 * i /\ 2 * i < 2 * c
    BY <1>1, <1>3, <1>6, <1>7, <1>8
  <2>2. i < c /\ (i < o \/ o < i)
    BY <1>1, <1>3, <1>6, <1>8, <2>1
  <2>3. CASE o < i
    BY <1>8, <2>2, <2>3 DEF WordAround, LettersWithin
  <2>4. CASE i < o
    <3>1. Run(text, i, o - 1)
      BY <1>1, <1>4, <2>1, <2>4
    <3>. QED
      BY <1>8, <2>4, <3>1 DEF WordAround
  <2>. QED
    BY <2>2, <2>3, <2>4
<1>9. ASSUME NEW i \in DOMAIN text, IsLetter(text[i]), rank[i] < rank[o]
      PROVE  text[i].of \notin Touched(s)
  <2>1. 2 * i < place[o] /\ place[o] <= 2 * o
    BY <1>1, <1>3, <1>4, <1>6, <1>9
  <2>2. i < o /\ ~ (place[o] < 2 * i)
    BY <1>1, <1>3, <1>4, <2>1
  <2>3. ~ Run(text, i, o - 1)
    BY <1>1, <1>2, <1>4, <2>2
  <2>. QED
    BY <1>9, <2>2, <2>3 DEF WordAround
<1>10. ASSUME NEW i \in DOMAIN text, IsLetter(text[i]), rank[c] < rank[i]
       PROVE  text[i].of \in Touched(s) <=> Run(new, rank[c] + 1, rank[i])
  <2>1. c < i
    BY <1>1, <1>3, <1>6, <1>7, <1>10
  <2>2. text[i].of \in Touched(s) <=> Run(text, c + 1, i)
    BY <1>10, <2>1 DEF WordAround, WordGoesOn
  <2>3. ASSUME Run(text, c + 1, i), NEW n \in rank[c] + 1 .. rank[i] PROVE IsLetter(new[n])
    <3>1. n \in DOMAIN new
      <4>1. DOMAIN new = DOMAIN text /\ DOMAIN text = 1 .. Len(text)
        BY <1>0 DEF Sorted, IsSequence
      <4>2. rank[c] \in 1 .. Len(text) /\ rank[i] \in 1 .. Len(text)
        BY <1>1, <1>3, <4>1
      <4>. QED
        BY <4>1, <4>2
    <3>2. PICK j \in DOMAIN text : rank[j] = n /\ new[n] = text[j]
      BY <1>5, <3>1
    <3>3. place[c] < place[j] /\ ~ (place[i] < place[j])
      BY <1>1, <1>3, <2>3, <3>2
    <3>4. 2 * c < place[j] /\ place[j] <= 2 * i /\ place[j] <= 2 * j
      BY <1>4, <1>6, <1>7, <1>10, <3>3
    <3>5. c < j
      BY <1>1, <1>3, <1>4, <3>4
    <3>6. CASE j <= i
      <4>1. j \in c + 1 .. i
        BY <1>1, <1>3, <3>5, <3>6
      <4>. QED
        BY <2>3, <3>2, <4>1 DEF Run
    <3>7. CASE i < j
      <4>1. place[j] # 2 * j
        BY <1>3, <3>4, <3>7
      <4>2. text[j].kind = "open" /\ place[j] # 2 * i
        <5>1. text[j].kind = "open"
          BY <1>4, <4>1
        <5>2. i # j
          BY <1>3, <3>7
        <5>. QED
          BY <1>0, <1>6, <1>10, <5>1, <5>2 DEF Careful
      <4>3. Run(text, i, j - 1)
        BY <1>3, <1>4, <3>4, <3>7, <4>2
      <4>4. \A k \in c + 1 .. j - 1 : k \in c + 1 .. i \/ k \in i .. j - 1
        BY <1>1, <1>3
      <4>5. Run(text, c + 1, j - 1)
        BY <2>3, <4>3, <4>4 DEF Run
      <4>. QED
        BY <3>5, <4>2, <4>5 DEF WordAround
    <3>. QED
      BY <1>3, <3>6, <3>7
  <2>4. ASSUME Run(new, rank[c] + 1, rank[i]), NEW j \in c + 1 .. i PROVE IsLetter(text[j])
    <3>1. j \in DOMAIN text /\ c < j /\ j <= i
      BY <1>0, <1>1, <1>3 DEF IsSequence
    <3>2. place[c] < place[j]
      <4>1. CASE text[j].kind = "open"
        BY <1>0, <1>1, <3>1, <4>1 DEF Careful, IsMark
      <4>2. CASE text[j].kind # "open"
        BY <1>1, <1>3, <1>4, <1>7, <3>1, <4>2
      <4>. QED
        BY <4>1, <4>2
    <3>3. ~ (place[i] < place[j])
      BY <1>3, <1>4, <1>6, <1>10, <3>1
    <3>4. rank[c] < rank[j] /\ ~ (rank[i] < rank[j])
      BY <1>1, <1>3, <3>1, <3>2, <3>3
    <3>5. rank[j] \in rank[c] + 1 .. rank[i]
      BY <1>1, <1>3, <3>1, <3>4
    <3>. QED
      BY <1>3, <2>4, <3>1, <3>5 DEF Run
  <2>5. Run(text, c + 1, i) <=> Run(new, rank[c] + 1, rank[i])
    BY <2>3, <2>4 DEF Run
  <2>. QED
    BY <2>2, <2>5
<1>11. LettersWithin(new, rank[o], rank[c], s)
  BY <1>5, <1>8 DEF LettersWithin
<1>12. \A p \in DOMAIN new : IsLetter(new[p]) /\ p < rank[o] => new[p].of \notin Touched(s)
  BY <1>5, <1>9
<1>13. WordGoesOn(new, rank[c], s)
  BY <1>5, <1>10 DEF WordGoesOn
<1>. QED
  BY <1>11, <1>12, <1>13 DEF WordBehind

\* The second move: the closing mark goes behind the letters of its word.
LEMMA WordEnds ==
  ASSUME NEW text, LineOK(text), NEW new, NEW rank, Sorted(text, new, EndPlaces(text), rank),
         NEW s, TypeOf(s) \notin Underscored, NEW o, NEW c, Encloses(text, o, c, s), WordBehind(text, o, c, s)
  PROVE  WordWithin(new, rank[o], rank[c], s)
<1>. DEFINE place == EndPlaces(text)
<1>0. IsSequence(text)
  BY DEF LineOK
<1>1. /\ o \in DOMAIN text /\ c \in DOMAIN text
      /\ text[o].kind = "open"
      /\ text[c].kind = "close" /\ text[c].of = TypeOf(s)
      /\ ~ IsLetter(text[o]) /\ ~ IsLetter(text[c])
  BY DEF Encloses, IsLetter
<1>2. Movable(text[c])
  BY <1>1 DEF Movable, IsMark
<1>3. \A i, j \in DOMAIN text :
        /\ i \in Int /\ rank[i] \in Int /\ rank[i] \in DOMAIN new /\ new[rank[i]] = text[i]
        /\ place[i] < place[j] <=> rank[i] < rank[j]
  BY <1>0, RankedInOrder
<1>4. \A i \in DOMAIN text :
        /\ place[i] \in Int /\ 2 * i <= place[i]
        /\ place[i] # 2 * i => text[i].kind = "close"
        /\ \A p \in DOMAIN text : i < p /\ 2 * p < place[i] => Run(text, i + 1, p)
        /\ \A p \in DOMAIN text :
             i < p /\ Run(text, i + 1, p) /\ text[i].kind = "close" /\ Movable(text[i]) => 2 * p < place[i]
  BY <1>0, EndPlace
<1>5. \A n \in DOMAIN new : \E i \in DOMAIN text : rank[i] = n /\ new[n] = text[i]
  BY DEF Sorted
<1>. HIDE DEF place
<1>6. \A i \in DOMAIN text : IsLetter(text[i]) => place[i] = 2 * i /\ i # o /\ i # c
  BY <1>1, <1>4 DEF IsLetter
<1>7. place[o] = 2 * o
  BY <1>1, <1>4
<1>8. ASSUME NEW i \in DOMAIN text, IsLetter(text[i])
      PROVE  text[i].of \in Touched(s) <=> rank[o] < rank[i] /\ rank[i] < rank[c]
  <2>1. rank[o] < rank[i] <=> o < i
    BY <1>1, <1>3, <1>6, <1>7, <1>8
  <2>2. CASE i < o
    BY <1>1, <1>3, <1>8, <2>1, <2>2 DEF WordBehind
  <2>3. CASE o < i /\ i < c
    <3>1. rank[i] < rank[c]
      <4>1. place[i] < place[c]
        BY <1>1, <1>3, <1>4, <1>6, <1>8, <2>3
      <4>. QED
        BY <1>1, <1>3, <4>1
    <3>. QED
      BY <1>8, <2>1, <2>3, <3>1 DEF WordBehind, LettersWithin
  <2>4. CASE o < i /\ c < i
    <3>1. rank[i] < rank[c] <=> Run(text, c + 1, i)
      <4>1. 2 * i < place[c] <=> Run(text, c + 1, i)
        BY <1>1, <1>2, <1>4, <2>4
      <4>. QED
        BY <1>1, <1>3, <1>6, <1>8, <4>1
    <3>. QED
      BY <1>8, <2>1, <2>4, <3>1 DEF WordBehind, WordGoesOn
  <2>. QED
    BY <1>1, <1>3, <1>6, <1>8, <2>2, <2>3, <2>4
<1>. QED
  BY <1>5, <1>8 DEF WordWithin

\* The pass over spaces moves no opening mark over a letter, and no closing one at all.
LEMMA WordStays ==
  ASSUME NEW text, LineOK(text), NEW new, NEW rank, Sorted(text, new, SpacePlaces(text), rank),
         NEW s, NEW o, NEW c, Encloses(text, o, c, s), WordWithin(text, o, c, s)
  PROVE  WordWithin(new, rank[o], rank[c], s)
<1>. DEFINE place == SpacePlaces(text)
<1>0. IsSequence(text) /\ Careful(text, place)
  BY SpacesCareful DEF LineOK
<1>1. /\ o \in DOMAIN text /\ c \in DOMAIN text
      /\ text[o].kind = "open" /\ text[c].kind = "close"
      /\ ~ IsLetter(text[o]) /\ ~ IsLetter(text[c])
  BY DEF Encloses, IsLetter
<1>3. \A i, j \in DOMAIN text :
        /\ i \in Int /\ rank[i] \in Int /\ rank[i] \in DOMAIN new /\ new[rank[i]] = text[i]
        /\ place[i] < place[j] <=> rank[i] < rank[j]
  BY <1>0, RankedInOrder
<1>4. \A i \in DOMAIN text :
        /\ place[i] \in Int /\ 2 * i <= place[i]
        /\ place[i] # 2 * i => text[i].kind = "open"
  BY <1>0, SpacePlace
<1>5. \A n \in DOMAIN new : \E i \in DOMAIN text : rank[i] = n /\ new[n] = text[i]
  BY DEF Sorted
<1>. HIDE DEF place
<1>6. \A i \in DOMAIN text : IsLetter(text[i]) => place[i] = 2 * i /\ i # o /\ i # c /\ IsText(text[i])
  BY <1>1, <1>4 DEF IsLetter, IsText
<1>7. place[c] = 2 * c
  BY <1>1, <1>4
<1>8. ASSUME NEW i \in DOMAIN text, IsLetter(text[i])
      PROVE  text[i].of \in Touched(s) <=> rank[o] < rank[i] /\ rank[i] < rank[c]
  <2>1. rank[i] < rank[c] <=> i < c
    BY <1>1, <1>3, <1>6, <1>7, <1>8
  <2>2. o < i => place[o] < place[i]
    BY <1>0, <1>1, <1>6, <1>8 DEF Careful
  <2>3. ~ (o < i) => ~ (place[o] < place[i])
    BY <1>1, <1>3, <1>4, <1>6, <1>8
  <2>4. rank[o] < rank[i] <=> o < i
    BY <1>1, <1>3, <1>8, <2>2, <2>3
  <2>. QED
    BY <1>8, <2>1, <2>4 DEF WordWithin
<1>. QED
  BY <1>5, <1>8 DEF WordWithin

-----------------------------------------------------------------------------
\* The words of a span, when it begins with a piece of a word and ends in one.
LEMMA TouchedBefore ==
  ASSUME HypothesisOK, NEW s \in Spans, tokens[s[1]].kind = "piece", NEW i \in DOMAIN tokens, i < s[1]
  PROVE  i \in Touched(s) <=> IsLetters(i) /\ \A l \in i + 1 .. s[1] : tokens[l].kind = "piece"
<1>1. /\ s[1] \in DOMAIN tokens /\ s[2] \in DOMAIN tokens /\ s[1] <= s[2]
      /\ \A l \in DOMAIN tokens : l \in Int
      /\ DOMAIN tokens = 1 .. Len(tokens) /\ Len(tokens) \in Nat
  BY TokensTyped DEF Spans, Span
<1>2. s[1] \in s[1] .. s[2] /\ \A j \in s[1] .. s[2] : j \in Int /\ s[1] <= j
  BY <1>1
<1>3. ASSUME i \in Touched(s), NEW l \in i + 1 .. s[1] PROVE tokens[l].kind = "piece"
  <2>1. PICK j \in s[1] .. s[2] : SameWord(i, j)
    BY <1>3 DEF Touched
  <2>2. l \in DOMAIN tokens /\ i < l /\ l <= j
    BY <1>1, <1>2
  <2>. QED
    BY <2>1, <2>2 DEF SameWord
<1>4. ASSUME IsLetters(i), \A l \in i + 1 .. s[1] : tokens[l].kind = "piece" PROVE i \in Touched(s)
  <2>1. SameWord(i, s[1])
    <3>1. SUFFICES ASSUME NEW k \in DOMAIN tokens, (i < k /\ k <= s[1]) \/ (s[1] < k /\ k <= i)
                   PROVE  tokens[k].kind = "piece"
      BY DEF SameWord
    <3>2. k \in i + 1 .. s[1]
      BY <1>1, <3>1
    <3>. QED
      BY <1>4, <3>2
  <2>2. IsLetters(s[1])
    BY DEF IsLetters
  <2>. QED
    BY <1>2, <1>4, <2>1, <2>2 DEF Touched
<1>5. i \in Touched(s) => IsLetters(i)
  BY DEF Touched
<1>. QED
  BY <1>3, <1>4, <1>5

LEMMA TouchedBehind ==
  ASSUME HypothesisOK, NEW s \in Spans, IsLetters(s[2]), NEW i \in DOMAIN tokens, s[2] < i
  PROVE  i \in Touched(s) <=> \A l \in s[2] + 1 .. i : tokens[l].kind = "piece"
<1>1. /\ s[1] \in DOMAIN tokens /\ s[2] \in DOMAIN tokens /\ s[1] <= s[2]
      /\ \A l \in DOMAIN tokens : l \in Int
      /\ DOMAIN tokens = 1 .. Len(tokens) /\ Len(tokens) \in Nat
  BY TokensTyped DEF Spans, Span
<1>2. s[2] \in s[1] .. s[2] /\ i \in s[2] + 1 .. i /\ \A j \in s[1] .. s[2] : j \in Int /\ j <= s[2]
  BY <1>1
<1>3. ASSUME i \in Touched(s), NEW l \in s[2] + 1 .. i PROVE tokens[l].kind = "piece"
  <2>1. PICK j \in s[1] .. s[2] : SameWord(i, j)
    BY <1>3 DEF Touched
  <2>2. l \in DOMAIN tokens /\ j < l /\ l <= i
    BY <1>1, <1>2
  <2>. QED
    BY <2>1, <2>2 DEF SameWord
<1>4. ASSUME \A l \in s[2] + 1 .. i : tokens[l].kind = "piece" PROVE i \in Touched(s)
  <2>1. SameWord(i, s[2])
    <3>1. SUFFICES ASSUME NEW k \in DOMAIN tokens, (i < k /\ k <= s[2]) \/ (s[2] < k /\ k <= i)
                   PROVE  tokens[k].kind = "piece"
      BY DEF SameWord
    <3>2. k \in s[2] + 1 .. i
      BY <1>1, <3>1
    <3>. QED
      BY <1>4, <3>2
  <2>2. IsLetters(i)
    BY <1>2, <1>4 DEF IsLetters
  <2>. QED
    BY <1>2, <2>1, <2>2 DEF Touched
<1>. QED
  BY <1>3, <1>4

LEMMA TouchedWithin ==
  ASSUME HypothesisOK, NEW s \in Spans, NEW i \in s[1] .. s[2], IsLetters(i)
  PROVE  i \in Touched(s)
<1>1. s[1] \in DOMAIN tokens /\ s[2] \in DOMAIN tokens /\ DOMAIN tokens = 1 .. Len(tokens) /\ Len(tokens) \in Nat
  BY TokensTyped DEF Spans
<1>2. i \in DOMAIN tokens /\ i \in Int
  BY <1>1
<1>3. SameWord(i, i)
  <2>1. \A k \in DOMAIN tokens : ~ ((i < k /\ k <= i) \/ (i < k /\ k <= i))
    BY <1>1, <1>2
  <2>. QED
    BY <2>1 DEF SameWord
<1>. QED
  BY <1>2, <1>3 DEF Touched

\* A tagged token is in a span, at whose beginning the tag changes.
LEMMA SpanOfToken ==
  ASSUME HypothesisOK, NEW i \in 1 .. Len(tokens), Tagged(i) # NoTag
  PROVE  \E u \in (DOMAIN tokens) \X (DOMAIN tokens) :
           Span(u) /\ u[1] <= i /\ i <= u[2] /\ (Tagged(i - 1) # Tagged(i) => u[1] = i)
<1>. DEFINE n == Len(tokens)
            type == Tagged(i)
            T == {j \in 1 .. i : \A l \in j .. i : Tagged(l) = type}
            U == {j \in i .. n : \A l \in i .. j : Tagged(l) = type}
            first == Min(T)
            last == Max(U)
            u == <<first, last>>
<1>1. n \in Nat /\ i \in Nat /\ DOMAIN tokens = 1 .. n /\ i \in 1 .. i /\ i \in i .. n
  BY TokensTyped
<1>2. i \in T /\ i \in U /\ T \subseteq Nat /\ U \subseteq 0 .. n
  BY <1>1
<1>3. first \in T /\ \A j \in T : first <= j
  <2>. HIDE DEF T
  <2>. QED
    BY <1>2, Least
<1>4. last \in U /\ \A j \in U : j <= last
  <2>. HIDE DEF U
  <2>. QED
    BY <1>1, <1>2, Greatest
<1>. HIDE DEF first, last
<1>5. /\ first \in 1 .. i /\ last \in i .. n
      /\ \A l \in first .. i : Tagged(l) = type
      /\ \A l \in i .. last : Tagged(l) = type
  BY <1>3, <1>4
<1>6. \A l \in first .. last : Tagged(l) = type
  <2>1. \A l \in first .. last : l \in first .. i \/ l \in i .. last
    BY <1>1, <1>5
  <2>. HIDE DEF type
  <2>. QED
    BY <1>5, <2>1
<1>7. \A l \in 0 .. n : TagAt(tokens, NoTag, l) = Tagged(l)
  <2>1. TAKE l \in 0 .. n
  <2>2. l = 0 \/ l \in 1 .. n
    BY <1>1
  <2>. QED
    BY <2>2, TokensTyped
<1>8. TagAt(tokens, NoTag, first - 1) # type
  <2>1. first - 1 \in 0 .. n /\ TagAt(tokens, NoTag, first - 1) = Tagged(first - 1)
    BY <1>1, <1>5, <1>7
  <2>2. CASE first = 1
    <3>1. first - 1 = 0
      BY <2>2
    <3>. QED
      BY <3>1, TokensTyped
  <2>3. CASE first # 1
    <3>1. SUFFICES ASSUME Tagged(first - 1) = type PROVE FALSE
      BY <2>1
    <3>2. first - 1 \in 1 .. i /\ \A l \in first - 1 .. i : l = first - 1 \/ l \in first .. i
      BY <1>1, <1>5, <2>3
    <3>3. first - 1 \in T
      <4>. HIDE DEF type
      <4>. QED
        BY <1>5, <3>1, <3>2
    <3>. HIDE DEF T
    <3>. QED
      BY <1>3, <1>5, <3>3
  <2>. QED
    BY <2>2, <2>3
<1>9. TagAt(tokens, NoTag, last + 1) # type
  <2>1. CASE last = n
    <3>1. TagAt(tokens, NoTag, last + 1) = NoTag
      BY <1>1, <2>1 DEF TagAt
    <3>. QED
      BY <3>1
  <2>2. CASE last # n
    <3>0. last \in i .. n
      BY <1>5
    <3>1. last + 1 \in i .. n /\ last + 1 \in 0 .. n /\ \A l \in i .. last + 1 : l = last + 1 \/ l \in i .. last
      <4>. HIDE DEF n
      <4>. QED
        BY <1>1, <2>2, <3>0
    <3>2. SUFFICES ASSUME Tagged(last + 1) = type PROVE FALSE
      BY <1>7, <3>1
    <3>3. last + 1 \in U
      <4>. HIDE DEF type
      <4>. QED
        BY <1>5, <3>1, <3>2
    <3>. HIDE DEF U
    <3>. QED
      BY <1>4, <1>5, <3>3
  <2>. QED
    BY <2>1, <2>2
<1>10. u \in (DOMAIN tokens) \X (DOMAIN tokens) /\ u[1] = first /\ u[2] = last
  BY <1>1, <1>5
<1>. HIDE DEF u
<1>11. first \in 0 .. n /\ first \in first .. last /\ first <= last /\ \A l \in first .. last : l \in 0 .. n
  BY <1>1, <1>5
<1>12. TagAt(tokens, NoTag, first) = type /\ \A l \in first .. last : TagAt(tokens, NoTag, l) = type
  <2>. HIDE DEF type
  <2>. QED
    BY <1>6, <1>7, <1>11
<1>13. Span(u)
  <2>. HIDE DEF type
  <2>1. type # NoTag
    BY DEF type
  <2>. QED
    BY <1>8, <1>9, <1>10, <1>11, <1>12, <2>1 DEF Span
<1>14. ASSUME Tagged(i - 1) # type PROVE first = i
  <2>1. SUFFICES ASSUME first # i PROVE FALSE
    OBVIOUS
  <2>2. i - 1 \in first .. i
    BY <1>1, <1>5, <2>1
  <2>. HIDE DEF type
  <2>. QED
    BY <1>5, <1>14, <2>2
<1>15. first <= i /\ i <= last
  BY <1>5
<1>. QED
  BY <1>10, <1>13, <1>14, <1>15

\* Who shares a word with a span that is alone has no tag.
LEMMA TouchedUntagged ==
  ASSUME HypothesisOK, NEW s \in Spans, Alone(s), NEW i \in Touched(s), i \notin s[1] .. s[2]
  PROVE  Tagged(i) = NoTag
<1>1. SUFFICES ASSUME Tagged(i) # NoTag PROVE FALSE
  OBVIOUS
<1>2. i \in DOMAIN tokens /\ IsLetters(i) /\ DOMAIN tokens = 1 .. Len(tokens)
  BY TokensTyped DEF Touched
<1>3. PICK u \in (DOMAIN tokens) \X (DOMAIN tokens) : Span(u) /\ u[1] <= i /\ i <= u[2]
  BY <1>1, <1>2, SpanOfToken
<1>4. i \in u[1] .. u[2] /\ u # s
  BY <1>2, <1>3, TokensTyped
<1>5. SameWord(i, i)
  <2>1. \A k \in DOMAIN tokens : ~ ((i < k /\ k <= i) \/ (i < k /\ k <= i))
    BY <1>2, TokensTyped
  <2>. QED
    BY <2>1 DEF SameWord
<1>6. i \in Touched(u)
  BY <1>2, <1>4, <1>5 DEF Touched
<1>. QED
  BY <1>3, <1>4, <1>6 DEF Alone

-----------------------------------------------------------------------------
\* Item p of the line is of piece i.
At(off, p, i) == off[i - 1] < p /\ p <= off[i]

\* The items of a piece, by their places in the line.
LEMMA ItemOfPiece ==
  ASSUME HypothesisOK, NEW text, NEW off, Written(text, off),
         NEW i \in 1 .. Len(tokens) + 1, NEW p \in DOMAIN text, At(off, p, i)
  PROVE  /\ text[p].kind \in {"open", "close", "space", "letter", "punct"}
         /\ text[p].kind = "close" => p = off[i - 1] + 1 /\ Tagged(i - 1) # NoTag
         /\ text[p].kind = "open" => Tagged(i) # NoTag /\ Tagged(i - 1) # Tagged(i)
         /\ IsText(text[p]) => p = off[i] /\ i \in DOMAIN tokens /\ text[p].of = i
         /\ IsLetter(text[p]) => IsLetters(i)
         /\ i \in DOMAIN tokens /\ tokens[i].kind # "word" => text[p].kind # "space"
         /\ \A q \in DOMAIN text : At(off, q, i) /\ text[p].kind = "open" /\ text[q].kind = "open" => p = q
<1>. DEFINE P == Piece(i)
            x == off[i - 1]
            y == off[i]
<1>1. Len(tokens) \in Nat /\ DOMAIN tokens = 1 .. Len(tokens) /\ i \in Nat
  BY TokensTyped
<1>2. PieceOK(P, i) /\ Len(P) \in Nat
  <2>1. PieceOK(P, i)
    BY PiecesOK
  <2>. QED
    BY <2>1 DEF PieceOK
<1>3. x \in Nat /\ y = x + Len(P)
  <2>1. i - 1 \in 0 .. Len(tokens) + 1
    BY <1>1
  <2>2. y = x + Len(P)
    BY Zenon DEF Written
  <2>3. x \in Nat
    BY <2>1 DEF Written
  <2>. QED
    BY <2>2, <2>3
<1>4. \A q \in DOMAIN text :
        At(off, q, i) => q - x \in 1 .. Len(P) /\ text[q] = P[q - x] /\ (q = y <=> q - x = Len(P)) /\ q \in Int
  <2>1. TAKE q \in DOMAIN text
  <2>2. HAVE At(off, q, i)
  <2>3. q \in Int
    BY DEF Written, IsSequence
  <2>4. x < q /\ q <= y
    BY <2>2 DEF At
  <2>. HIDE DEF x, y, P
  <2>5. q - x \in 1 .. Len(P) /\ x + (q - x) = q /\ (q = y <=> q - x = Len(P))
    BY <1>2, <1>3, <2>3, <2>4
  <2>6. \A k \in 1 .. Len(P) : text[x + k] = P[k]
    BY Zenon DEF Written, x, P
  <2>7. text[q] = P[q - x]
    BY <2>5, <2>6
  <2>. QED
    BY <2>3, <2>5, <2>7
<1>. DEFINE k == p - x
            item == text[p]
<1>5. k \in 1 .. Len(P) /\ item = P[k] /\ (p = y <=> k = Len(P)) /\ p \in Int
  BY <1>4
<1>. HIDE DEF x, y, P
<1>6. \/ k = 1 /\ item = Close(Tagged(i - 1)) /\ Tagged(i - 1) # NoTag
      \/ item = Open(Tagged(i)) /\ Tagged(i) # NoTag /\ Tagged(i - 1) # Tagged(i)
      \/ item.kind \in {"space", "letter", "punct"} /\ item.of = i /\ i <= Len(tokens)
  <2>. HIDE DEF k, item
  <2>1. \A l \in 1 .. Len(P) :
          \/ l = 1 /\ P[l] = Close(Tagged(i - 1)) /\ Tagged(i - 1) # NoTag
          \/ P[l] = Open(Tagged(i)) /\ Tagged(i) # NoTag /\ Tagged(i - 1) # Tagged(i)
          \/ P[l].kind \in {"space", "letter", "punct"} /\ P[l].of = i /\ i <= Len(tokens)
    BY <1>2 DEF PieceOK
  <2>. QED
    BY <1>5, <2>1, Zenon
<1>7. Close(Tagged(i - 1)).kind = "close" /\ Open(Tagged(i)).kind = "open"
  BY DEF Close, Open
<1>8. /\ \A l \in 1 .. Len(P) : IsText(P[l]) => l = Len(P)
      /\ \A j, l \in 1 .. Len(P) : P[j].kind = "open" /\ P[l].kind = "open" => j = l
      /\ i <= Len(tokens) => (P[Len(P)].kind = "letter" <=> IsLetters(i))
      /\ i <= Len(tokens) /\ tokens[i].kind # "word" => \A l \in 1 .. Len(P) : P[l].kind # "space"
  BY <1>2, Zenon DEF PieceOK
<1>9. /\ item.kind \in {"open", "close", "space", "letter", "punct"}
      /\ item.kind = "close" => k = 1 /\ Tagged(i - 1) # NoTag
      /\ item.kind = "open" => Tagged(i) # NoTag /\ Tagged(i - 1) # Tagged(i)
      /\ item.kind \in {"letter", "punct"} => i <= Len(tokens) /\ item.of = i
  <2>. HIDE DEF k, item
  <2>. QED
    BY <1>6, <1>7
<1>10. k = 1 => p = x + 1
  BY <1>3, <1>5
<1>11. IsText(item) => p = y /\ i \in DOMAIN tokens /\ item.of = i
  <2>. HIDE DEF k, item
  <2>. QED
    BY <1>1, <1>5, <1>8, <1>9 DEF IsText
<1>12. IsLetter(item) => IsLetters(i)
  <2>. HIDE DEF k, item
  <2>. QED
    BY <1>5, <1>8, <1>9 DEF IsLetter, IsText
<1>13. i \in DOMAIN tokens /\ tokens[i].kind # "word" => item.kind # "space"
  <2>. HIDE DEF k, item
  <2>. QED
    BY <1>1, <1>5, <1>8
<1>14. ASSUME NEW q \in DOMAIN text, At(off, q, i), item.kind = "open", text[q].kind = "open" PROVE p = q
  <2>1. q - x \in 1 .. Len(P) /\ text[q] = P[q - x] /\ q \in Int
    BY <1>4, <1>14
  <2>2. k = q - x
    BY <1>5, <1>8, <1>14, <2>1
  <2>. QED
    BY <1>3, <1>5, <2>1, <2>2
<1>. QED
  BY <1>9, <1>10, <1>11, <1>12, <1>13, <1>14 DEF x, y

\* The last item of a token is its text; a token that starts a word has a space.
LEMMA TokenInLine ==
  ASSUME HypothesisOK, NEW text, NEW off, Written(text, off), NEW i \in DOMAIN tokens
  PROVE  /\ off[i] \in DOMAIN text /\ At(off, off[i], i)
         /\ IsText(text[off[i]]) /\ text[off[i]].of = i /\ (IsLetter(text[off[i]]) <=> IsLetters(i))
         /\ tokens[i].kind = "word" => \E q \in DOMAIN text : At(off, q, i) /\ text[q].kind = "space"
<1>. DEFINE n == Len(tokens) + 1
            P == Piece(i)
            x == off[i - 1]
            y == off[i]
            z == off[n]
<1>1. Len(tokens) \in Nat /\ i \in 1 .. Len(tokens) /\ i \in 1 .. n /\ i \in Nat /\ i <= Len(tokens)
  BY TokensTyped
<1>2. PieceOK(P, i) /\ Len(P) \in Nat
  <2>1. PieceOK(P, i)
    BY <1>1, PiecesOK
  <2>. QED
    BY <2>1 DEF PieceOK
<1>3. x \in Nat /\ y = x + Len(P) /\ z \in Nat /\ y <= z
  <2>1. i - 1 \in 0 .. n /\ i \in 0 .. n /\ n \in 0 .. n /\ i <= n
    BY <1>1
  <2>2. y = x + Len(P)
    BY <1>1, Zenon DEF Written
  <2>3. x \in Nat /\ z \in Nat /\ y <= z
    BY <2>1 DEF Written
  <2>. QED
    BY <2>2, <2>3
<1>4. \A k \in 1 .. Len(P) : /\ x + k \in DOMAIN text /\ text[x + k] = P[k] /\ At(off, x + k, i)
  <2>1. TAKE k \in 1 .. Len(P)
  <2>2. text[x + k] = P[k]
    BY <1>1, Zenon DEF Written
  <2>3. DOMAIN text = 1 .. z
    BY Zenon DEF Written
  <2>. HIDE DEF P, x, y, z
  <2>4. x + k \in 1 .. z /\ x < x + k /\ x + k <= y
    BY <1>2, <1>3
  <2>. QED
    BY <2>2, <2>3, <2>4 DEF At, x, y
<1>5. /\ Len(P) >= 1 /\ IsText(P[Len(P)]) /\ P[Len(P)].of = i
      /\ P[Len(P)].kind = "letter" <=> IsLetters(i)
      /\ tokens[i].kind = "word" => \E k \in 1 .. Len(P) : P[k].kind = "space"
  BY <1>1, <1>2, Zenon DEF PieceOK
<1>. HIDE DEF P, x
<1>6. Len(P) \in 1 .. Len(P) /\ y = x + Len(P)
  BY <1>2, <1>3, <1>5
<1>7. y \in DOMAIN text /\ At(off, y, i) /\ text[y] = P[Len(P)]
  BY <1>4, <1>6
<1>8. tokens[i].kind = "word" => \E q \in DOMAIN text : At(off, q, i) /\ text[q].kind = "space"
  BY <1>4, <1>5
<1>. QED
  BY <1>5, <1>7, <1>8 DEF IsLetter

\* The words of a span in the line that is joined.
LEMMA JoinedAround ==
  ASSUME HypothesisOK, NEW text, NEW off, Written(text, off), NEW s \in Spans, Inner(s)
  PROVE  Around(text, s)
<1>. DEFINE n == Len(tokens) + 1
            s1 == s[1]
            s2 == s[2]
            c == off[s2] + 1
<1>1. PICK o \in DOMAIN text : Encloses(text, o, c, s) /\ off[s1 - 1] < o /\ o <= off[s1]
  BY SpanIsEnclosed
<1>2. /\ n \in Nat /\ Len(tokens) \in Nat /\ DOMAIN tokens = 1 .. Len(tokens)
      /\ s1 \in 1 .. Len(tokens) /\ s2 \in 1 .. Len(tokens) /\ s1 <= s2
  <2>1. s1 \in DOMAIN tokens /\ s2 \in DOMAIN tokens /\ s1 <= s2
    BY DEF Spans, Span
  <2>. QED
    BY <2>1, TokensTyped
<1>3. /\ \A i \in 0 .. n : off[i] \in Nat
      /\ \A i, j \in 0 .. n : i <= j => off[i] <= off[j]
      /\ DOMAIN text = 1 .. off[n]
  BY Zenon DEF Written
<1>4. \A p \in DOMAIN text : p \in Int
  <2>1. n \in 0 .. n
    BY <1>2
  <2>. QED
    BY <1>3, <2>1
<1>5. c \in DOMAIN text /\ text[c].kind = "close" /\ text[o].kind = "open"
  BY <1>1 DEF Encloses
<1>6. tokens[s1].kind = "piece" /\ Alone(s) /\ IsLetters(s2)
  BY DEF Inner, Alone
\* The items of the line and their tokens are in the same order.
<1>7. ASSUME NEW p \in DOMAIN text, NEW i \in 1 .. n, At(off, p, i)
      PROVE  \A j \in 0 .. n : (p <= off[j] => i <= j) /\ (off[j] < p => j < i)
  <2>1. TAKE j \in 0 .. n
  <2>2. i - 1 \in 0 .. n /\ i \in 0 .. n /\ i \in Int /\ j \in Int
    BY <1>2
  <2>3. off[i - 1] < p /\ p <= off[i] /\ p \in Int
    BY <1>4, <1>7 DEF At
  <2>4. off[i - 1] \in Nat /\ off[i] \in Nat /\ off[j] \in Nat
    BY <1>3, <2>2
  <2>5. j <= i - 1 => off[j] <= off[i - 1]
    BY <1>3, <2>2
  <2>6. i <= j => off[i] <= off[j]
    BY <1>3, <2>2
  <2>. QED
    BY <2>2, <2>3, <2>4, <2>5, <2>6
<1>8. \A p \in DOMAIN text : \E i \in 1 .. n : At(off, p, i)
  BY Origin DEF At
<1>9. ASSUME NEW p \in DOMAIN text, IsLetter(text[p])
      PROVE  \E i \in DOMAIN tokens : At(off, p, i) /\ p = off[i] /\ text[p].of = i /\ IsLetters(i)
  <2>1. PICK i \in 1 .. n : At(off, p, i)
    BY <1>8
  <2>2. IsText(text[p])
    BY <1>9 DEF IsText, IsLetter
  <2>. QED
    BY <1>9, <2>1, <2>2, ItemOfPiece
<1>10. \A i \in DOMAIN tokens :
         i \in 1 .. n /\ i \in 0 .. n /\ i \in Int /\ off[i] \in DOMAIN text /\ At(off, off[i], i)
  <2>1. TAKE i \in DOMAIN tokens
  <2>2. i \in 1 .. n /\ i \in 0 .. n /\ i \in Int
    BY <1>2
  <2>. QED
    BY <2>2, TokenInLine
<1>11. s1 \in 0 .. n /\ s1 - 1 \in 0 .. n /\ s2 \in 0 .. n /\ s1 \in DOMAIN tokens /\ s2 \in DOMAIN tokens
       /\ s2 + 1 \in 1 .. n
  BY <1>2
<1>12. off[s2] \in Nat /\ off[s1] \in Nat /\ At(off, o, s1) /\ o \in Int
  BY <1>1, <1>3, <1>4, <1>11 DEF At
<1>. HIDE DEF s1, s2, n
<1>13. \A p \in DOMAIN text : c < p => off[s2] < p
  BY <1>4, <1>12
\* The letters between the marks.
<1>14. LettersWithin(text, o, c, s)
  <2>1. SUFFICES ASSUME NEW p \in DOMAIN text, IsLetter(text[p]), o < p, p < c PROVE text[p].of \in Touched(s)
    BY DEF LettersWithin
  <2>2. PICK i \in DOMAIN tokens : At(off, p, i) /\ p = off[i] /\ text[p].of = i /\ IsLetters(i)
    BY <1>9, <2>1
  <2>3. p <= off[s2]
    BY <1>4, <1>12, <2>1
  <2>4. off[s1 - 1] < p
    <3>1. off[s1 - 1] \in Nat
      BY <1>3, <1>11
    <3>. QED
      BY <1>1, <1>4, <1>12, <2>1, <3>1
  <2>5. i <= s2 /\ s1 - 1 < i
    BY <1>7, <1>10, <1>11, <2>2, <2>3, <2>4
  <2>6. i \in s[1] .. s[2]
    BY <1>2, <1>10, <2>5 DEF s1, s2
  <2>. QED
    BY <2>2, <2>6, TouchedWithin
\* What is a run of letters up to the opening mark, or on from the closing one, is of pieces.
<1>15. ASSUME NEW x, NEW y, Run(text, x, y), NEW l \in DOMAIN tokens, off[l] <= y, x \in Int, y \in Int,
              \A q \in DOMAIN text : At(off, q, l) /\ ~ (x <= q) => text[q].kind = "close"
       PROVE  tokens[l].kind = "piece"
  <2>1. off[l] \in DOMAIN text /\ At(off, off[l], l) /\ IsText(text[off[l]]) /\ (IsLetter(text[off[l]]) <=> IsLetters(l))
    BY TokenInLine
  <2>2. off[l] \in x .. y
    <3>1. text[off[l]].kind # "close"
      BY <2>1 DEF IsText
    <3>. QED
      BY <1>4, <1>15, <2>1, <3>1
  <2>3. IsLetters(l)
    BY <1>15, <2>1, <2>2 DEF Run
  <2>4. tokens[l].kind # "word"
    <3>1. SUFFICES ASSUME tokens[l].kind = "word" PROVE FALSE
      OBVIOUS
    <3>2. PICK q \in DOMAIN text : At(off, q, l) /\ text[q].kind = "space"
      BY <3>1, TokenInLine
    <3>3. x <= q
      BY <1>15, <3>2
    <3>4. q <= off[l] /\ off[l] \in Int /\ q \in Int
      BY <1>4, <2>1, <3>2 DEF At
    <3>5. q \in x .. y
      BY <1>15, <3>3, <3>4
    <3>. QED
      BY <1>15, <3>2, <3>5 DEF Run, IsLetter
  <2>5. tokens[l].kind \in {"word", "piece", "punct"}
    BY <1>2, TokensTyped DEF Token
  <2>. QED
    BY <2>3, <2>4, <2>5 DEF IsLetters
\* The letters before the opening mark.
<1>16. ASSUME NEW p \in DOMAIN text, IsLetter(text[p]), p < o
       PROVE  text[p].of \in Touched(s) <=> Run(text, p, o - 1)
  <2>1. PICK i \in DOMAIN tokens : At(off, p, i) /\ p = off[i] /\ text[p].of = i /\ IsLetters(i)
    BY <1>9, <1>16
  <2>2. i < s1 /\ i \in Int /\ p \in Int /\ s1 \in Int
    <3>1. p <= off[s1]
      BY <1>1, <1>4, <1>12, <1>16
    <3>2. i <= s1
      BY <1>7, <1>10, <1>11, <2>1, <3>1
    <3>3. i # s1
      BY <1>1, <1>4, <1>12, <1>16, <2>1
    <3>. QED
      BY <1>2, <1>4, <1>10, <3>2, <3>3
  <2>3. i \in Touched(s) <=> \A l \in i + 1 .. s1 : tokens[l].kind = "piece"
    BY <1>6, <2>1, <2>2, TouchedBefore DEF s1
  <2>4. ASSUME Run(text, p, o - 1), NEW l \in i + 1 .. s1 PROVE tokens[l].kind = "piece"
    <3>1. CASE l = s1
      BY <1>6, <3>1
    <3>2. CASE l # s1
      <4>1. l \in DOMAIN tokens /\ l <= s1 - 1 /\ i <= l - 1 /\ l - 1 \in 0 .. n /\ l \in 0 .. n /\ i \in 0 .. n
        BY <1>2, <1>10, <2>2, <3>2 DEF n
      <4>2. off[l] <= o - 1
        <5>1. off[l] <= off[s1 - 1] /\ off[l] \in Nat /\ off[s1 - 1] \in Nat
          BY <1>3, <1>11, <4>1
        <5>. QED
          BY <1>1, <1>12, <5>1
      <4>3. off[i] <= off[l - 1] /\ off[l - 1] \in Nat /\ off[i] \in Nat
        BY <1>3, <4>1
      <4>4. ASSUME NEW q \in DOMAIN text, At(off, q, l), ~ (p <= q) PROVE FALSE
        <5>1. off[l - 1] < q /\ q \in Int
          BY <1>4, <4>4 DEF At
        <5>. QED
          BY <2>1, <4>3, <4>4, <5>1
      <4>. QED
        BY <1>12, <1>15, <2>2, <2>4, <4>1, <4>2, <4>4
    <3>. QED
      BY <3>1, <3>2
  <2>5. ASSUME i \in Touched(s), NEW q \in p .. o - 1 PROVE IsLetter(text[q])
    <3>1. q \in DOMAIN text /\ q < o /\ p <= q /\ q \in Int
      <4>1. off[n] \in Nat
        <5>1. n \in 0 .. n
          BY <1>2 DEF n
        <5>. QED
          BY <1>3, <5>1
      <4>2. p \in 1 .. off[n] /\ o \in 1 .. off[n]
        BY <1>1, <1>3
      <4>3. q \in 1 .. off[n] /\ q < o /\ p <= q /\ q \in Int
        BY <2>2, <1>12, <4>1, <4>2
      <4>. QED
        BY <1>3, <4>3
    <3>2. PICK l \in 1 .. n : At(off, q, l)
      BY <1>8, <3>1
    <3>3. l <= s1 /\ i <= l /\ l \in Int
      <4>1. q <= off[s1]
        BY <1>1, <1>12, <3>1
      <4>2. l <= s1
        BY <1>7, <1>11, <3>1, <3>2, <4>1
      <4>3. ~ (l < i)
        <5>1. SUFFICES ASSUME l < i PROVE FALSE
          OBVIOUS
        <5>2. l \in 0 .. n /\ i - 1 \in 0 .. n /\ l <= i - 1 /\ i \in 0 .. n
          BY <1>2, <1>10, <2>2, <5>1 DEF n
        <5>3. off[l] <= off[i - 1] /\ off[i - 1] < off[i] /\ q <= off[l]
          BY <1>3, <2>1, <3>2, <5>2 DEF At
        <5>4. off[l] \in Nat /\ off[i - 1] \in Nat /\ off[i] \in Nat
          BY <1>3, <5>2
        <5>. QED
          BY <2>1, <3>1, <5>3, <5>4
      <4>4. l \in Int
        BY <1>2 DEF n
      <4>. QED
        BY <2>2, <4>2, <4>3, <4>4
    <3>4. CASE l = i
      <4>1. q = p
        <5>1. q <= off[i]
          BY <3>2, <3>4 DEF At
        <5>. QED
          BY <2>1, <2>2, <3>1, <5>1
      <4>. QED
        BY <1>16, <4>1
    <3>5. CASE l # i
      <4>1. l \in i + 1 .. s1 /\ l \in DOMAIN tokens /\ l - 1 \in DOMAIN tokens /\ l - 1 < s1 /\ l - 1 \in Int
        BY <1>2, <1>10, <2>2, <3>3, <3>5
      <4>2. tokens[l].kind = "piece"
        BY <2>3, <2>5, <4>1
      <4>3. ASSUME NEW k \in DOMAIN tokens, i <= k, k < s1 PROVE Tagged(k) = NoTag
        <5>1. k \in Int /\ k \notin s[1] .. s[2]
          BY <1>2, <1>10, <4>3 DEF s1, s2
        <5>2. k \in Touched(s)
          <6>1. CASE k = i
            BY <2>5, <6>1
          <6>2. CASE k # i
            <7>1. k \in i + 1 .. s1 /\ \A j \in k + 1 .. s1 : j \in i + 1 .. s1
              BY <2>2, <4>3, <5>1, <6>2
            <7>2. tokens[k].kind = "piece" /\ \A j \in k + 1 .. s1 : tokens[j].kind = "piece"
              BY <2>3, <2>5, <7>1
            <7>. QED
              BY <1>6, <4>3, <7>2, TouchedBefore DEF IsLetters, s1
          <6>. QED
            BY <6>1, <6>2
        <5>. QED
          BY <1>6, <5>1, <5>2, TouchedUntagged
      <4>4. Tagged(l - 1) = NoTag
        <5>1. i <= l - 1
          BY <2>2, <4>1
        <5>. QED
          BY <4>1, <4>3, <5>1
      <4>5. /\ text[q].kind \in {"open", "close", "space", "letter", "punct"}
            /\ text[q].kind = "close" => Tagged(l - 1) # NoTag
            /\ text[q].kind = "open" => Tagged(l) # NoTag
            /\ text[q].kind # "space"
            /\ IsText(text[q]) => q = off[l]
            /\ \A j \in DOMAIN text : At(off, j, l) /\ text[q].kind = "open" /\ text[j].kind = "open" => q = j
        BY <3>1, <3>2, <4>1, <4>2, ItemOfPiece DEF n
      <4>6. text[q].kind # "open"
        <5>1. CASE l = s1
          BY <1>5, <1>12, <3>1, <4>5, <5>1
        <5>2. CASE l # s1
          <6>1. l < s1 /\ i <= l
            BY <2>2, <3>3, <5>2
          <6>. QED
            BY <4>1, <4>3, <4>5, <6>1
        <5>. QED
          BY <5>1, <5>2
      <4>7. q = off[l]
        BY <4>4, <4>5, <4>6 DEF IsText
      <4>. QED
        BY <4>1, <4>2, <4>7, TokenInLine DEF IsLetters
    <3>. QED
      BY <3>4, <3>5
  <2>. QED
    BY <2>1, <2>3, <2>4, <2>5 DEF Run
\* What follows the closing mark.
<1>17. ASSUME NEW i \in DOMAIN tokens, s2 < i, NEW y \in Int, off[i] <= y, Run(text, c + 1, y)
       PROVE  i \in Touched(s)
  <2>1. SUFFICES ASSUME NEW l \in s2 + 1 .. i PROVE tokens[l].kind = "piece"
    BY <1>6, <1>17, TouchedBehind DEF s2
  <2>2. l \in DOMAIN tokens /\ l <= i /\ s2 <= l - 1 /\ l - 1 \in 0 .. n /\ l \in 0 .. n /\ i \in 0 .. n
    BY <1>2, <1>10, <1>17 DEF n
  <2>3. off[l] <= y
    <3>1. off[l] <= off[i] /\ off[l] \in Nat /\ off[i] \in Nat
      BY <1>3, <2>2
    <3>. QED
      BY <1>17, <3>1
  <2>4. ASSUME NEW q \in DOMAIN text, At(off, q, l), ~ (c + 1 <= q) PROVE text[q].kind = "close"
    <3>1. off[s2] <= off[l - 1] /\ off[l - 1] \in Nat
      BY <1>3, <1>11, <2>2
    <3>2. off[l - 1] < q /\ q \in Int
      BY <1>4, <2>4 DEF At
    <3>3. q = c
      BY <1>12, <2>4, <3>1, <3>2
    <3>. QED
      BY <1>5, <3>3
  <2>5. c + 1 \in Int
    BY <1>12
  <2>. QED
    BY <1>15, <1>17, <2>2, <2>3, <2>4, <2>5
<1>18. ASSUME NEW p \in DOMAIN text, IsLetter(text[p]), c < p
       PROVE  text[p].of \in Touched(s) <=> Run(text, c + 1, p)
  <2>1. PICK i \in DOMAIN tokens : At(off, p, i) /\ p = off[i] /\ text[p].of = i /\ IsLetters(i)
    BY <1>9, <1>18
  <2>2. s2 < i /\ i \in Int /\ s2 \in Int /\ p \in Int
    BY <1>2, <1>4, <1>7, <1>10, <1>11, <1>13, <1>18, <2>1
  <2>3. Run(text, c + 1, p) => i \in Touched(s)
    BY <1>17, <2>1, <2>2
  <2>4. ASSUME i \in Touched(s), NEW q \in c + 1 .. p PROVE IsLetter(text[q])
    <3>0. \A l \in s2 + 1 .. i : tokens[l].kind = "piece"
      BY <1>6, <2>1, <2>2, <2>4, TouchedBehind DEF s2
    <3>1. q \in DOMAIN text /\ q <= p /\ off[s2] < q /\ q # c /\ q \in Int
      <4>1. off[n] \in Nat
        <5>1. n \in 0 .. n
          BY <1>2 DEF n
        <5>. QED
          BY <1>3, <5>1
      <4>2. p \in 1 .. off[n]
        BY <1>3
      <4>3. q \in 1 .. off[n] /\ q <= p /\ off[s2] < q /\ q # c /\ q \in Int
        BY <1>12, <2>2, <4>1, <4>2
      <4>. QED
        BY <1>3, <4>3
    <3>2. PICK l \in 1 .. n : At(off, q, l)
      BY <1>8, <3>1
    <3>3. s2 < l /\ l <= i /\ l \in Int
      <4>1. s2 < l
        BY <1>7, <1>11, <3>1, <3>2
      <4>2. q <= off[i]
        BY <2>1, <3>1
      <4>3. l <= i
        BY <1>7, <1>10, <3>1, <3>2, <4>2
      <4>. QED
        BY <1>2, <4>1, <4>3 DEF n
    <3>4. ASSUME NEW k \in s2 + 1 .. i PROVE Tagged(k) = NoTag
      <4>1. k \in DOMAIN tokens /\ s2 < k /\ k \notin s[1] .. s[2] /\ \A j \in s2 + 1 .. k : j \in s2 + 1 .. i
        BY <1>2, <2>2 DEF s1, s2
      <4>2. k \in Touched(s)
        BY <1>6, <3>0, <4>1, TouchedBehind DEF s2
      <4>. QED
        BY <1>6, <4>1, <4>2, TouchedUntagged
    <3>5. l \in s2 + 1 .. i /\ l \in DOMAIN tokens
      BY <1>2, <1>10, <2>2, <3>3
    <3>6. tokens[l].kind = "piece" /\ Tagged(l) = NoTag
      BY <3>0, <3>4, <3>5
    <3>7. /\ text[q].kind \in {"open", "close", "space", "letter", "punct"}
          /\ text[q].kind = "close" => q = off[l - 1] + 1 /\ Tagged(l - 1) # NoTag
          /\ text[q].kind = "open" => Tagged(l) # NoTag
          /\ text[q].kind # "space"
          /\ IsText(text[q]) => q = off[l]
      BY <3>1, <3>2, <3>5, <3>6, ItemOfPiece
    <3>8. text[q].kind # "close"
      <4>1. SUFFICES ASSUME q = off[l - 1] + 1, Tagged(l - 1) # NoTag PROVE FALSE
        BY <3>7
      <4>2. CASE l - 1 = s2
        BY <3>1, <4>1, <4>2
      <4>3. CASE l - 1 # s2
        <5>1. l - 1 \in s2 + 1 .. i
          BY <2>2, <3>3, <4>3
        <5>. QED
          BY <3>4, <4>1, <5>1
      <4>. QED
        BY <4>2, <4>3
    <3>9. q = off[l]
      BY <3>6, <3>7, <3>8 DEF IsText
    <3>. QED
      BY <3>5, <3>6, <3>9, TokenInLine DEF IsLetters
  <2>. QED
    BY <2>1, <2>3, <2>4 DEF Run
<1>19. WordGoesOn(text, c, s)
  <2>. HIDE DEF c
  <2>. QED
    BY <1>18 DEF WordGoesOn
<1>20. ASSUME NEW m \in DOMAIN text, text[m].kind = "open", c < m, Run(text, c + 1, m - 1) PROVE FALSE
  <2>1. PICK t \in 1 .. n : At(off, m, t)
    BY <1>8
  <2>2. s2 < t /\ t \in Int /\ s2 \in Int /\ m \in Int
    BY <1>2, <1>4, <1>7, <1>11, <1>13, <1>20, <2>1 DEF n
  <2>3. Tagged(t) # NoTag /\ Tagged(t - 1) # Tagged(t)
    BY <1>20, <2>1, ItemOfPiece DEF n
  <2>4. t # n
    <3>1. SUFFICES ASSUME t = n PROVE FALSE
      OBVIOUS
    <3>2. Tagged(t) = eosTag /\ t - 1 = Len(tokens) /\ Len(tokens) \in 1 .. Len(tokens)
      BY <1>2, <3>1, TokensTyped DEF n
    <3>3. TagAt(tokens, NoTag, Len(tokens)) = Tagged(Len(tokens))
      BY <3>2, TokensTyped
    <3>. QED
      BY <1>6, <2>3, <3>2, <3>3 DEF Alone
  <2>5. t \in 1 .. Len(tokens) /\ t \in DOMAIN tokens
    BY <1>2, <2>2, <2>4 DEF n
  <2>6. PICK u \in (DOMAIN tokens) \X (DOMAIN tokens) : Span(u) /\ u[1] = t
    BY <2>3, <2>5, SpanOfToken
  <2>7. u # s
    BY <1>2, <2>2, <2>6 DEF s1, s2
  <2>8. t - 1 \notin Touched(s)
    BY <1>6, <2>6, <2>7 DEF Alone
  <2>9. CASE t - 1 = s2
    <3>1. s2 \in s[1] .. s[2]
      BY <1>2 DEF s1, s2
    <3>. QED
      BY <1>6, <2>8, <2>9, <3>1, TouchedWithin
  <2>10. CASE t - 1 # s2
    <3>1. t - 1 \in DOMAIN tokens /\ s2 < t - 1
      BY <1>2, <2>2, <2>5, <2>10
    <3>2. off[t - 1] <= m - 1 /\ m - 1 \in Int
      <4>1. off[t - 1] < m
        BY <2>1 DEF At
      <4>2. off[t - 1] \in Nat
        BY <1>3, <1>10, <3>1
      <4>. QED
        BY <2>2, <4>1, <4>2
    <3>. QED
      BY <1>17, <1>20, <2>8, <3>1, <3>2
  <2>. QED
    BY <2>9, <2>10
<1>21. WordAround(text, o, c, s)
  <2>. HIDE DEF c
  <2>. QED
    BY <1>14, <1>16, <1>19, <1>20 DEF WordAround
<1>. QED
  BY <1>1, <1>5, <1>21 DEF Around

-----------------------------------------------------------------------------
(***************************************************************************)
(* The words through the steps.                                            *)
(***************************************************************************)

\* Every token that has letters has one in the joined line, and the words of the spans are there.
LEMMA JoinedWords ==
  ASSUME HypothesisOK
  PROVE  LET text == join_tags_tokens(tokens, eosTag)
         IN  LettersThere(text) /\ \A s \in Spans : Inner(s) => Around(text, s)
<1>. DEFINE text == join_tags_tokens(tokens, eosTag)
<1>1. PICK off : Written(text, off)
  BY LineIsWritten
<1>. HIDE DEF text
<1>2. ASSUME NEW i \in DOMAIN tokens, IsLetters(i)
      PROVE  \E p \in DOMAIN text : IsLetter(text[p]) /\ text[p].of = i
  <2>1. off[i] \in DOMAIN text /\ text[off[i]].of = i /\ IsLetter(text[off[i]])
    BY <1>1, <1>2, TokenInLine
  <2>. QED
    BY <2>1
<1>3. LettersThere(text)
  BY <1>2 DEF LettersThere
<1>4. \A s \in Spans : Inner(s) => Around(text, s)
  BY <1>1, JoinedAround
<1>. QED
  BY <1>3, <1>4 DEF text

\* The space that is stripped is no letter.
LEMMA StripRun ==
  ASSUME NEW text, IsSequence(text), text # << >>, text[1].kind = "space",
         NEW p \in Int, NEW q \in Int, 1 < p, q <= Len(text)
  PROVE  Run(text, p, q) <=> Run(strip(text), p - 1, q - 1)
<1>. DEFINE new == strip(text)
<1>1. /\ \A j \in DOMAIN new : j + 1 \in DOMAIN text /\ new[j] = text[j + 1] /\ j \in Int
      /\ \A j \in DOMAIN text : j # 1 => j - 1 \in DOMAIN new
  <2>1. PICK S : text \in Seq(S)
    BY DEF IsSequence
  <2>2. new = Tail(text)
    BY DEF strip
  <2>3. Len(text) \in Nat /\ Len(text) >= 1 /\ DOMAIN text = 1 .. Len(text)
    BY <2>1
  <2>4. Len(Tail(text)) = Len(text) - 1 /\ DOMAIN Tail(text) = 1 .. Len(text) - 1
    <3>1. Tail(text) \in Seq(S) /\ Len(Tail(text)) = Len(text) - 1
      BY <2>1
    <3>. QED
      BY <3>1
  <2>5. \A j \in DOMAIN new : j + 1 \in DOMAIN text /\ new[j] = text[j + 1] /\ j \in Int
    BY StripShifts
  <2>. QED
    BY <2>2, <2>3, <2>4, <2>5
<1>2. DOMAIN text = 1 .. Len(text) /\ Len(text) \in Nat
  BY DEF IsSequence
<1>. HIDE DEF new
<1>3. ASSUME Run(text, p, q), NEW j \in p - 1 .. q - 1 PROVE IsLetter(new[j])
  <2>1. j + 1 \in p .. q /\ j + 1 \in DOMAIN text /\ j + 1 # 1 /\ (j + 1) - 1 = j
    BY <1>2
  <2>2. new[j] = text[j + 1]
    BY <1>1, <2>1
  <2>. QED
    BY <1>3, <2>1, <2>2 DEF Run
<1>4. ASSUME Run(new, p - 1, q - 1), NEW j \in p .. q PROVE IsLetter(text[j])
  <2>1. j - 1 \in p - 1 .. q - 1 /\ j \in DOMAIN text /\ j # 1 /\ (j - 1) + 1 = j
    BY <1>2
  <2>2. new[j - 1] = text[j]
    BY <1>1, <2>1
  <2>. QED
    BY <1>4, <2>1, <2>2 DEF Run
<1>. QED
  BY <1>3, <1>4 DEF Run, new

LEMMA StripWord ==
  ASSUME NEW text, IsSequence(text), text # << >>, text[1].kind = "space",
         NEW s, NEW o, NEW c, Encloses(text, o, c, s), WordAround(text, o, c, s)
  PROVE  WordAround(strip(text), o - 1, c - 1, s)
<1>. DEFINE new == strip(text)
<1>1. DOMAIN text = 1 .. Len(text) /\ Len(text) \in Nat
  BY DEF IsSequence
<1>2. /\ o \in DOMAIN text /\ c \in DOMAIN text /\ o \in Int /\ c \in Int
      /\ text[o].kind = "open" /\ text[c].kind = "close"
  BY <1>1 DEF Encloses
<1>3. 1 < o /\ 1 < c /\ o <= Len(text) /\ c <= Len(text)
  <2>1. o # 1 /\ c # 1
    BY <1>2
  <2>. QED
    BY <1>1, <1>2, <2>1
<1>4. \A p \in DOMAIN new : p + 1 \in DOMAIN text /\ new[p] = text[p + 1] /\ p \in Int
  BY StripShifts
<1>5. \A p, q \in Int : 1 < p /\ q <= Len(text) => (Run(text, p, q) <=> Run(new, p - 1, q - 1))
  BY StripRun
<1>. HIDE DEF new
<1>6. ASSUME NEW p \in DOMAIN new, IsLetter(new[p])
      PROVE  /\ o - 1 < p /\ p < c - 1 => new[p].of \in Touched(s)
             /\ p < o - 1 => (new[p].of \in Touched(s) <=> Run(new, p, (o - 1) - 1))
             /\ c - 1 < p => (new[p].of \in Touched(s) <=> Run(new, (c - 1) + 1, p))
  <2>1. /\ p + 1 \in DOMAIN text /\ new[p] = text[p + 1] /\ IsLetter(text[p + 1]) /\ p \in Int
        /\ p + 1 \in Int /\ 1 < p + 1 /\ p + 1 <= Len(text) /\ (p + 1) - 1 = p
    <3>1. p + 1 \in DOMAIN text /\ new[p] = text[p + 1] /\ p \in Int /\ IsLetter(text[p + 1])
      BY <1>4, <1>6
    <3>2. p + 1 # 1
      BY <3>1 DEF IsLetter
    <3>. QED
      BY <1>1, <3>1, <3>2
  <2>2. o - 1 < p /\ p < c - 1 => new[p].of \in Touched(s)
    <3>1. o - 1 < p /\ p < c - 1 => o < p + 1 /\ p + 1 < c
      BY <1>2, <2>1
    <3>. QED
      BY <2>1, <3>1 DEF WordAround, LettersWithin
  <2>3. ASSUME p < o - 1 PROVE new[p].of \in Touched(s) <=> Run(new, p, (o - 1) - 1)
    <3>1. p + 1 < o /\ o - 1 \in Int /\ o - 1 <= Len(text)
      BY <1>2, <1>3, <2>1, <2>3
    <3>2. text[p + 1].of \in Touched(s) <=> Run(text, p + 1, o - 1)
      BY <2>1, <3>1 DEF WordAround
    <3>3. Run(text, p + 1, o - 1) <=> Run(new, (p + 1) - 1, (o - 1) - 1)
      BY <1>5, <2>1, <3>1
    <3>. QED
      BY <2>1, <3>2, <3>3
  <2>4. ASSUME c - 1 < p PROVE new[p].of \in Touched(s) <=> Run(new, (c - 1) + 1, p)
    <3>1. c < p + 1 /\ c + 1 \in Int /\ 1 < c + 1 /\ (c - 1) + 1 = (c + 1) - 1
      <4>1. c \in Int /\ 1 < c /\ p \in Int
        BY <1>2, <1>3, <2>1
      <4>. QED
        BY <4>1, <2>4
    <3>2. text[p + 1].of \in Touched(s) <=> Run(text, c + 1, p + 1)
      BY <2>1, <3>1 DEF WordAround, WordGoesOn
    <3>3. Run(text, c + 1, p + 1) <=> Run(new, (c + 1) - 1, (p + 1) - 1)
      BY <1>5, <2>1, <3>1
    <3>. QED
      BY <2>1, <3>1, <3>2, <3>3
  <2>. QED
    BY <2>2, <2>3, <2>4
<1>7. ASSUME NEW m \in DOMAIN new, new[m].kind = "open", c - 1 < m PROVE ~ Run(new, (c - 1) + 1, m - 1)
  <2>1. m + 1 \in DOMAIN text /\ text[m + 1].kind = "open" /\ m \in Int /\ c < m + 1
    BY <1>2, <1>4, <1>7
  <2>2. /\ c + 1 \in Int /\ 1 < c + 1 /\ (c - 1) + 1 = (c + 1) - 1
        /\ m \in Int /\ m <= Len(text) /\ (m + 1) - 1 = m
    BY <1>1, <1>2, <1>3, <2>1
  <2>3. ~ Run(text, c + 1, (m + 1) - 1)
    BY <2>1 DEF WordAround
  <2>4. Run(text, c + 1, m) <=> Run(new, (c + 1) - 1, m - 1)
    BY <1>5, <2>2
  <2>. QED
    BY <2>2, <2>3, <2>4
<1>8. WordAround(new, o - 1, c - 1, s)
  BY <1>6, <1>7 DEF WordAround, LettersWithin, WordGoesOn
<1>. QED
  BY <1>8 DEF new

LEMMA StrippedWords ==
  ASSUME NEW text, LineOK(text)
  PROVE  /\ LettersThere(text) => LettersThere(strip(text))
         /\ \A s : Around(text, s) => Around(strip(text), s)
<1>. DEFINE new == strip(text)
<1>1. CASE text # << >> /\ text[1].kind = "space"
  <2>1. IsSequence(text)
    BY DEF LineOK
  <2>2. \A p \in DOMAIN text : text[p].kind # "space" => p - 1 \in DOMAIN new /\ new[p - 1] = text[p]
    BY <1>1, <2>1, StripShifts
  <2>3. \A s, o, c : Encloses(text, o, c, s) /\ WordAround(text, o, c, s) =>
          Encloses(new, o - 1, c - 1, s) /\ WordAround(new, o - 1, c - 1, s)
    BY <1>1, <2>1, StripEncloses, StripWord
  <2>. HIDE DEF new
  <2>4. LettersThere(text) => LettersThere(new)
    <3>1. SUFFICES ASSUME LettersThere(text), NEW i \in DOMAIN tokens, IsLetters(i)
                   PROVE  \E p \in DOMAIN new : IsLetter(new[p]) /\ new[p].of = i
      BY DEF LettersThere
    <3>2. PICK p \in DOMAIN text : IsLetter(text[p]) /\ text[p].of = i
      BY <3>1 DEF LettersThere
    <3>3. p - 1 \in DOMAIN new /\ new[p - 1] = text[p]
      BY <2>2, <3>2 DEF IsLetter
    <3>. QED
      BY <3>2, <3>3
  <2>5. ASSUME NEW s, Around(text, s) PROVE Around(new, s)
    <3>1. PICK o, c \in DOMAIN text : Encloses(text, o, c, s) /\ WordAround(text, o, c, s)
      BY <2>5 DEF Around
    <3>2. Encloses(new, o - 1, c - 1, s) /\ WordAround(new, o - 1, c - 1, s)
      BY <2>3, <3>1
    <3>3. o - 1 \in DOMAIN new /\ c - 1 \in DOMAIN new
      BY <3>2 DEF Encloses
    <3>. QED
      BY <3>2, <3>3 DEF Around
  <2>. QED
    BY <2>4, <2>5 DEF new
<1>2. CASE ~ (text # << >> /\ text[1].kind = "space")
  BY <1>2 DEF strip
<1>. QED
  BY <1>1, <1>2

\* The two moves of move_tags_to_start_or_end.
LEMMA MovedWords ==
  ASSUME NEW text, LineOK(text)
  PROVE  LET new == move_tags_to_start_or_end(text)
         IN  /\ LettersThere(text) => LettersThere(new)
             /\ \A s : TypeOf(s) \notin Underscored /\ Around(text, s) => Within(new, s)
<1>. DEFINE starts == StartsMoved(text)
            new == move_tags_to_start_or_end(text)
<1>1. starts = Rearranged(text, StartPlaces(text)) /\ LineOK(starts) /\ Careful(text, StartPlaces(text))
  <2>1. starts = Rearranged(text, StartPlaces(text))
    BY Zenon DEF StartsMoved, StartPlaces
  <2>. QED
    BY <2>1, StartsMovedOK, StartsCareful
<1>. HIDE DEF starts
<1>2. new = Rearranged(starts, EndPlaces(starts)) /\ Careful(starts, EndPlaces(starts))
  <2>1. new = Rearranged(starts, EndPlaces(starts))
    BY Zenon DEF move_tags_to_start_or_end, EndsMoved, EndPlaces, starts
  <2>. QED
    BY <1>1, <2>1, EndsCareful
<1>. HIDE DEF new
<1>3. PICK first : Sorted(text, starts, StartPlaces(text), first)
  BY <1>1, RearrangedSorts DEF Careful, LineOK
<1>4. PICK second : Sorted(starts, new, EndPlaces(starts), second)
  BY <1>1, <1>2, RearrangedSorts DEF Careful, LineOK
<1>5. LettersThere(text) => LettersThere(new)
  BY <1>3, <1>4, LettersStay
<1>6. ASSUME NEW s, TypeOf(s) \notin Underscored, Around(text, s) PROVE Within(new, s)
  <2>1. PICK o, c \in DOMAIN text : Encloses(text, o, c, s) /\ WordAround(text, o, c, s)
    BY <1>6 DEF Around
  <2>2. Encloses(starts, first[o], first[c], s)
    BY <1>1, <1>3, <2>1, EncloseMoved DEF LineOK
  <2>3. WordBehind(starts, first[o], first[c], s)
    BY <1>3, <1>6, <2>1, WordStarts
  <2>4. Encloses(new, second[first[o]], second[first[c]], s)
    BY <1>1, <1>2, <1>4, <2>2, EncloseMoved DEF LineOK
  <2>5. WordWithin(new, second[first[o]], second[first[c]], s)
    BY <1>1, <1>4, <1>6, <2>2, <2>3, WordEnds
  <2>6. second[first[o]] \in DOMAIN new /\ second[first[c]] \in DOMAIN new
    BY <2>4 DEF Encloses
  <2>. QED
    BY <2>4, <2>5, <2>6 DEF Within
<1>. QED
  BY <1>5, <1>6 DEF new

LEMMA SpacedWords ==
  ASSUME NEW text, LineOK(text)
  PROVE  LET new == move_tags_after_space(text)
         IN  /\ LettersThere(text) => LettersThere(new)
             /\ \A s : Within(text, s) => Within(new, s)
<1>. DEFINE new == move_tags_after_space(text)
<1>1. new = Rearranged(text, SpacePlaces(text)) /\ Careful(text, SpacePlaces(text))
  <2>1. new = Rearranged(text, SpacePlaces(text))
    BY Zenon DEF move_tags_after_space, SpacePlaces
  <2>. QED
    BY <2>1, SpacesCareful
<1>. HIDE DEF new
<1>2. PICK rank : Sorted(text, new, SpacePlaces(text), rank)
  BY <1>1, RearrangedSorts DEF Careful, LineOK
<1>3. LettersThere(text) => LettersThere(new)
  BY <1>2, LettersStay
<1>4. ASSUME NEW s, Within(text, s) PROVE Within(new, s)
  <2>1. PICK o, c \in DOMAIN text : Encloses(text, o, c, s) /\ WordWithin(text, o, c, s)
    BY <1>4 DEF Within
  <2>2. Encloses(new, rank[o], rank[c], s)
    BY <1>1, <1>2, <2>1, EncloseMoved DEF LineOK
  <2>3. WordWithin(new, rank[o], rank[c], s)
    BY <1>2, <2>1, WordStays
  <2>4. rank[o] \in DOMAIN new /\ rank[c] \in DOMAIN new
    BY <2>2 DEF Encloses
  <2>. QED
    BY <2>2, <2>3, <2>4 DEF Within
<1>. QED
  BY <1>3, <1>4 DEF new

-----------------------------------------------------------------------------
(***************************************************************************)
(* The invariant.                                                          *)
(***************************************************************************)

LEMMA LineJoined ==
  HypothesisOK /\ line = strip(join_tags_tokens(tokens, eosTag)) => LineOK(line)
BY JoinedOK, StrippedOK

LEMMA SameSpans ==
  ASSUME UNCHANGED <<tokens, eosTag>>, NEW text, LineOK(text), line' = text
  PROVE  LineOK(line)'
<1>1. tokens' = tokens /\ eosTag' = eosTag
  OBVIOUS
<1>2. Spans' = Spans
  BY <1>1, Zenon DEF Spans, Span
<1>3. \A s : (TypeOf(s))' = TypeOf(s)
  BY <1>1, Zenon DEF TypeOf
<1>4. \A item : ItemOK(item)' <=> ItemOK(item)
  BY <1>1 DEF ItemOK
<1>5. \A o, c, s : Encloses(text, o, c, s)' <=> Encloses(text, o, c, s)
  BY <1>3 DEF Encloses
<1>6. LineOK(text)'
  <2>1. \A p \in DOMAIN text : ItemOK(text[p])'
    BY <1>4 DEF LineOK
  <2>2. \A s \in Spans' : \E o, c \in DOMAIN text : Encloses(text, o, c, s)'
    BY <1>2, <1>5 DEF LineOK
  <2>3. \A c \in DOMAIN text : text[c].kind = "close" =>
          \E s \in Spans', o \in DOMAIN text : Encloses(text, o, c, s)'
    BY <1>2, <1>5 DEF LineOK
  <2>. QED
    BY <2>1, <2>2, <2>3 DEF LineOK
<1>. QED
  BY <1>6

LEMMA InitTagInv == Init => TagInv
<1>1. << >> \in [1 .. 0 -> Token] /\ NoTag \in Tags /\ 0 \in 0 .. MaxTokens
  BY BoundAssumption DEF Tags
<1>. QED
  BY <1>1 DEF Init, TagInv

LEMMA NextTagInv == TagInv /\ [Next]_vars => TagInv'
<1>. SUFFICES ASSUME TagInv, [Next]_vars PROVE TagInv'
  OBVIOUS
<1>1. CASE Join
  <2>1. HypothesisOK' /\ (line = strip(join_tags_tokens(tokens, eosTag)))'
    BY <1>1 DEF Join, HypothesisOK
  <2>2. LineOK(line)'
    BY <2>1, LineJoined, PTL
  <2>3. (\E n \in 0 .. MaxTokens : tokens' \in [1 .. n -> Token]) /\ eosTag' \in Tags /\ stage' = "joined"
    BY <1>1 DEF Join
  <2>. QED
    BY <2>2, <2>3 DEF TagInv
<1>2. CASE MoveToStartOrEnd
  <2>1. LineOK(move_tags_to_start_or_end(line))
    BY <1>2, StartsMovedOK, EndsMovedOK DEF MoveToStartOrEnd, TagInv, move_tags_to_start_or_end
  <2>2. LineOK(line)'
    BY <1>2, <2>1, SameSpans DEF MoveToStartOrEnd
  <2>. QED
    BY <1>2, <2>2 DEF MoveToStartOrEnd, TagInv
<1>3. CASE MoveAfterSpace
  <2>1. LineOK(move_tags_after_space(line))
    BY <1>3, AfterSpaceOK DEF MoveAfterSpace, TagInv
  <2>2. LineOK(line)'
    BY <1>3, <2>1, SameSpans DEF MoveAfterSpace
  <2>. QED
    BY <1>3, <2>2 DEF MoveAfterSpace, TagInv
<1>4. CASE Return
  <2>1. << >> \in [1 .. 0 -> Token] /\ NoTag \in Tags /\ 0 \in 0 .. MaxTokens
    BY BoundAssumption DEF Tags
  <2>. QED
    BY <1>4, <2>1 DEF Return, TagInv
<1>5. CASE UNCHANGED vars
  <2>1. tokens' = tokens /\ eosTag' = eosTag /\ line' = line /\ stage' = stage
    BY <1>5 DEF vars
  <2>2. stage' # "none" => LineOK(line)'
    BY <2>1, SameSpans DEF TagInv
  <2>. QED
    BY <2>1, <2>2 DEF TagInv
<1>. QED
  BY <1>1, <1>2, <1>3, <1>4, <1>5 DEF Next

\* In every reachable state the line keeps its spans.
LEMMA TagInvHolds == Spec => []TagInv
BY InitTagInv, NextTagInv, PTL DEF Spec

-----------------------------------------------------------------------------
\* What is enclosed is found, and its text is the span's.
LEMMA EnclosedIsEntity ==
  ASSUME TagInv, LineOK(line), NEW s \in Spans, NEW o, NEW c, Encloses(line, o, c, s)
  PROVE  /\ <<o, c>> \in Entities
         /\ line[o].of = TypeOf(s) /\ s[1] .. s[2] \subseteq Text(<<o, c>>)
<1>1. /\ o \in DOMAIN line /\ c \in DOMAIN line /\ o \in Int /\ c \in Int
      /\ line[o].kind = "open" /\ line[o].of = TypeOf(s)
      /\ line[c].kind = "close" /\ line[c].of = TypeOf(s)
  <2>1. DOMAIN line = 1 .. Len(line)
    BY DEF LineOK, IsSequence
  <2>. QED
    BY <2>1 DEF Encloses
<1>2. s[1] \in s[1] .. s[2]
  <2>1. s[1] \in DOMAIN tokens /\ s[2] \in DOMAIN tokens /\ s[1] <= s[2]
    BY DEF Spans, Span
  <2>2. PICK n \in 0 .. MaxTokens : tokens \in [1 .. n -> Token]
    BY DEF TagInv
  <2>. QED
    BY <2>1, <2>2, BoundAssumption
<1>3. \A p \in DOMAIN line : p \in Int
  BY DEF LineOK, IsSequence
<1>4. o + 1 < c
  <2>1. PICK p \in DOMAIN line : o < p /\ p < c
    BY <1>2 DEF Encloses
  <2>. QED
    BY <1>1, <1>3, <2>1
<1>5. \A p \in o + 1 .. c - 1 : ~ IsMark(line[p])
  <2>1. TAKE p \in o + 1 .. c - 1
  <2>2. p \in DOMAIN line /\ o < p /\ p < c
    BY <1>1 DEF LineOK, IsSequence
  <2>. QED
    BY <2>2 DEF Encloses
<1>. DEFINE e == <<o, c>>
<1>6. e[1] = o /\ e[2] = c /\ e \in (DOMAIN line) \X (DOMAIN line)
  BY <1>1
<1>. HIDE DEF e
<1>7. e \in Entities
  BY <1>1, <1>4, <1>5, <1>6 DEF Entities, ne_from_output
<1>8. ASSUME NEW i \in s[1] .. s[2] PROVE i \in Text(e)
  <2>1. PICK p \in DOMAIN line : o < p /\ p < c /\ IsText(line[p]) /\ line[p].of = i
    BY DEF Encloses
  <2>2. p \in e[1] .. e[2] /\ line[p].kind \in {"letter", "punct"}
    BY <1>1, <1>3, <1>6, <2>1 DEF IsText
  <2>. QED
    BY <2>1, <2>2 DEF Text
<1>. QED
  BY <1>1, <1>7, <1>8 DEF e

LEMMA EntityShape ==
  ASSUME LineOK(line), NEW e \in Entities
  PROVE  /\ e[1] \in DOMAIN line /\ e[2] \in DOMAIN line /\ e = <<e[1], e[2]>>
         /\ line[e[1]].kind = "open" /\ line[e[2]].kind = "close"
         /\ e[1] \in Int /\ e[2] \in Int /\ e[1] < e[2]
         /\ IsMark(line[e[1]]) /\ IsMark(line[e[2]])
         /\ \A p : p \in Int /\ e[1] < p /\ p < e[2] => ~ IsMark(line[p])
<1>1. /\ e \in (DOMAIN line) \X (DOMAIN line)
      /\ line[e[1]].kind = "open" /\ line[e[2]].kind = "close"
      /\ e[1] + 1 < e[2] /\ \A i \in e[1] + 1 .. e[2] - 1 : ~ IsMark(line[i])
  BY DEF Entities, ne_from_output
<1>2. e[1] \in DOMAIN line /\ e[2] \in DOMAIN line /\ e = <<e[1], e[2]>>
  BY <1>1
<1>3. e[1] \in Int /\ e[2] \in Int
  BY <1>2 DEF LineOK, IsSequence
<1>4. \A p : p \in Int /\ e[1] < p /\ p < e[2] => p \in e[1] + 1 .. e[2] - 1
  BY <1>3
<1>. QED
  BY <1>1, <1>2, <1>3, <1>4 DEF IsMark

LEMMA SpansAreEntities == TagInv => NoSpanIsLost
<1>1. SUFFICES ASSUME TagInv, stage = "spaced"
               PROVE  /\ \A s \in Spans : \E e \in Entities :
                           line[e[1]].of = TypeOf(s) /\ s[1] .. s[2] \subseteq Text(e)
                      /\ \A e \in Entities : \E s \in Spans :
                           line[e[1]].of = TypeOf(s) /\ s[1] .. s[2] \subseteq Text(e)
                      /\ \A s, t \in Entities : s # t => Text(s) \cap Text(t) = {}
  BY DEF NoSpanIsLost
<1>2. LineOK(line)
  BY <1>1 DEF TagInv
<1>3. ASSUME NEW s \in Spans
      PROVE  \E e \in Entities : line[e[1]].of = TypeOf(s) /\ s[1] .. s[2] \subseteq Text(e)
  <2>1. PICK o, c \in DOMAIN line : Encloses(line, o, c, s)
    BY <1>2 DEF LineOK
  <2>. DEFINE e == <<o, c>>
  <2>2. e \in Entities /\ line[o].of = TypeOf(s) /\ s[1] .. s[2] \subseteq Text(e) /\ e[1] = o
    BY <1>1, <1>2, <2>1, EnclosedIsEntity
  <2>. HIDE DEF e
  <2>. QED
    BY <2>2
<1>4. ASSUME NEW e \in Entities
      PROVE  \E s \in Spans : line[e[1]].of = TypeOf(s) /\ s[1] .. s[2] \subseteq Text(e)
  <2>. DEFINE a == e[1]
              c == e[2]
  <2>1. /\ a \in DOMAIN line /\ c \in DOMAIN line /\ e = <<a, c>>
        /\ line[a].kind = "open" /\ line[c].kind = "close"
        /\ a \in Int /\ c \in Int /\ a < c /\ IsMark(line[a])
        /\ \A p : p \in Int /\ a < p /\ p < c => ~ IsMark(line[p])
    BY <1>2, EntityShape
  <2>2. PICK s \in Spans, o \in DOMAIN line : Encloses(line, o, c, s)
    BY <1>2, <2>1 DEF LineOK
  <2>3. /\ <<o, c>> \in Entities
        /\ line[o].of = TypeOf(s) /\ s[1] .. s[2] \subseteq Text(<<o, c>>)
    BY <1>1, <1>2, <2>2, EnclosedIsEntity
  <2>4. o \in Int /\ o < c /\ IsMark(line[o])
    <3>. DEFINE f == <<o, c>>
    <3>1. f[1] = o /\ f[2] = c /\ f \in Entities
      BY <2>3
    <3>. HIDE DEF f, c
    <3>. QED
      BY <1>2, <3>1, EntityShape
  <2>5. ~ (o < a)
    BY <2>1, <2>2 DEF Encloses
  <2>6. ~ (a < o)
    BY <2>1, <2>4
  <2>7. o = a
    <3>. HIDE DEF a, c
    <3>. QED
      BY <2>1, <2>4, <2>5, <2>6
  <2>. QED
    BY <2>1, <2>3, <2>7
<1>5. ASSUME NEW e \in Entities, NEW f \in Entities, NEW i, i \in Text(e), i \in Text(f)
      PROVE  e = f
  <2>. DEFINE a == e[1]
              b == e[2]
              c == f[1]
              d == f[2]
  <2>1. /\ e = <<a, b>> /\ a \in Int /\ b \in Int /\ IsMark(line[a]) /\ IsMark(line[b])
        /\ a \in DOMAIN line /\ b \in DOMAIN line
        /\ \A p : p \in Int /\ a < p /\ p < b => ~ IsMark(line[p])
    BY <1>2, EntityShape
  <2>2. /\ f = <<c, d>> /\ c \in Int /\ d \in Int /\ IsMark(line[c]) /\ IsMark(line[d])
        /\ c \in DOMAIN line /\ d \in DOMAIN line
        /\ \A p : p \in Int /\ c < p /\ p < d => ~ IsMark(line[p])
    BY <1>2, EntityShape
  <2>3. PICK p \in a .. b : IsText(line[p]) /\ line[p].of = i
    BY <1>5 DEF Text, IsText
  <2>4. PICK q \in c .. d : IsText(line[q]) /\ line[q].of = i
    BY <1>5 DEF Text, IsText
  <2>. HIDE DEF a, b, c, d
  <2>5. p \in DOMAIN line /\ q \in DOMAIN line /\ p \in Int /\ q \in Int
    <3>1. DOMAIN line = 1 .. Len(line) /\ Len(line) \in Nat
      BY <1>2 DEF LineOK, IsSequence
    <3>. QED
      BY <2>1, <2>2, <2>3, <2>4, <3>1
  <2>6. p = q
    BY <1>2, <2>3, <2>4, <2>5 DEF LineOK
  <2>7. ~ IsMark(line[p])
    BY <2>3 DEF IsText, IsMark
  <2>8. a < p /\ p < b /\ c < p /\ p < d
    <3>1. p # a /\ p # b /\ p # c /\ p # d
      BY <2>1, <2>2, <2>7
    <3>. QED
      BY <2>1, <2>2, <2>3, <2>4, <2>6, <3>1
  <2>9. a = c
    <3>1. ~ (a < c)
      BY <2>1, <2>2, <2>5, <2>8
    <3>2. ~ (c < a)
      BY <2>1, <2>2, <2>5, <2>8
    <3>. QED
      BY <2>1, <2>2, <3>1, <3>2
  <2>10. b = d
    <3>1. ~ (b < d)
      BY <2>1, <2>2, <2>5, <2>8
    <3>2. ~ (d < b)
      BY <2>1, <2>2, <2>5, <2>8
    <3>. QED
      BY <2>1, <2>2, <3>1, <3>2
  <2>. QED
    BY <2>1, <2>2, <2>9, <2>10
<1>6. \A s, t \in Entities : s # t => Text(s) \cap Text(t) = {}
  BY <1>5
<1>. QED
  BY <1>3, <1>4, <1>6

LEMMA InvIsTyped == TagInv => TypeOK
<1>. SUFFICES ASSUME TagInv PROVE TypeOK
  OBVIOUS
<1>1. PICK n \in 0 .. MaxTokens : tokens \in [1 .. n -> Token]
  BY DEF TagInv
<1>2. Len(tokens) = n /\ Len(tokens) <= MaxTokens
  BY <1>1, BoundAssumption
<1>3. \A i \in 1 .. Len(tokens) : tokens[i] \in Token
  BY <1>1, <1>2
<1>4. eosTag \in Tags /\ stage \in {"none", "joined", "moved", "spaced"}
  BY DEF TagInv
<1>5. \A i \in 1 .. Len(line) :
        IF IsMark(line[i]) THEN line[i].of \in Types ELSE line[i].of \in 1 .. Len(tokens)
  <2>1. CASE stage = "none"
    BY <2>1 DEF TagInv
  <2>2. CASE stage # "none"
    <3>1. \A i \in 1 .. Len(line) : ItemOK(line[i])
      BY <2>2 DEF TagInv, LineOK, IsSequence
    <3>. QED
      BY <3>1 DEF ItemOK, IsMark
  <2>. QED
    BY <2>1, <2>2
<1>. QED
  BY <1>2, <1>3, <1>4, <1>5 DEF TypeOK

\* The lines are of marks of the known types and of characters of the hypothesis' tokens, after
\* every step and for any number of tokens.
THEOREM TypeCorrect == Spec => []TypeOK
BY TagInvHolds, InvIsTyped, PTL

\* However many tokens a hypothesis has and however they are tagged, the entities found in the
\* text that is returned are the closed spans of the tags: moving the marks over letters and spaces
\* (api/ne_postprocessing.py) loses, merges and splits none.
THEOREM NoSpanLost == Spec => []NoSpanIsLost
BY TagInvHolds, SpansAreEntities, PTL

-----------------------------------------------------------------------------
(***************************************************************************)
(* The words of the spans.                                                 *)
(***************************************************************************)

LEMMA WordsJoined ==
  HypothesisOK /\ line = strip(join_tags_tokens(tokens, eosTag))
    => LettersThere(line) /\ \A s \in Spans : Inner(s) => Around(line, s)
<1>. SUFFICES ASSUME HypothesisOK, line = strip(join_tags_tokens(tokens, eosTag))
              PROVE  LettersThere(line) /\ \A s \in Spans : Inner(s) => Around(line, s)
  OBVIOUS
<1>. DEFINE text == join_tags_tokens(tokens, eosTag)
<1>1. LettersThere(text) /\ \A s \in Spans : Inner(s) => Around(text, s)
  BY JoinedWords
<1>2. LineOK(text)
  BY JoinedOK
<1>3. line = strip(text)
  OBVIOUS
<1>. HIDE DEF text
<1>. QED
  BY <1>1, <1>2, <1>3, StrippedWords

\* What the words of the spans are does not change with the line.
LEMMA SameWords ==
  ASSUME UNCHANGED <<tokens, eosTag>>, NEW text, line' = text
  PROVE  /\ LettersThere(text) => LettersThere(line)'
         /\ (\A s \in Spans : Inner(s) => Around(text, s)) => (\A s \in Spans : Inner(s) => Around(line, s))'
         /\ (\A s \in Spans : Inner(s) => Within(text, s)) => (\A s \in Spans : Inner(s) => Within(line, s))'
<1>1. tokens' = tokens /\ eosTag' = eosTag
  OBVIOUS
<1>2. Spans' = Spans
  BY <1>1, Zenon DEF Spans, Span
<1>3. \A s : (TypeOf(s))' = TypeOf(s)
  BY <1>1, Zenon DEF TypeOf
<1>4. \A s : (Touched(s))' = Touched(s)
  BY <1>1, Zenon DEF Touched, IsLetters, SameWord
<1>5. \A s : Inner(s)' <=> Inner(s)
  <2>1. \A s : Span(s)' <=> Span(s)
    BY <1>1, Zenon DEF Span
  <2>2. \A s : IsLetters(s[2])' <=> IsLetters(s[2])
    BY <1>1, Zenon DEF IsLetters
  <2>3. \A s : Alone(s)' <=> Alone(s)
    BY <1>1, <1>4, <2>1, <2>2, Zenon DEF Alone
  <2>. QED
    BY <1>1, <1>3, <2>3, Zenon DEF Inner
<1>6. LettersThere(text) => LettersThere(line)'
  BY <1>1 DEF LettersThere, IsLetters
<1>7. \A o, c, s : Encloses(text, o, c, s)' <=> Encloses(text, o, c, s)
  BY <1>3 DEF Encloses
<1>8. /\ \A o, c, s : WordAround(text, o, c, s)' <=> WordAround(text, o, c, s)
      /\ \A o, c, s : WordWithin(text, o, c, s)' <=> WordWithin(text, o, c, s)
  <2>1. \A o, c, s : LettersWithin(text, o, c, s)' <=> LettersWithin(text, o, c, s)
    BY <1>4 DEF LettersWithin
  <2>2. \A c, s : WordGoesOn(text, c, s)' <=> WordGoesOn(text, c, s)
    BY <1>4 DEF WordGoesOn
  <2>3. \A o, c, s : WordAround(text, o, c, s)' <=> WordAround(text, o, c, s)
    BY <1>4, <2>1, <2>2 DEF WordAround
  <2>4. \A o, c, s : WordWithin(text, o, c, s)' <=> WordWithin(text, o, c, s)
    BY <1>4 DEF WordWithin
  <2>. QED
    BY <2>3, <2>4
<1>9. \A s : /\ Around(text, s) => Around(line, s)'
             /\ Within(text, s) => Within(line, s)'
  BY <1>7, <1>8, Zenon DEF Around, Within
<1>. QED
  BY <1>2, <1>5, <1>6, <1>9, Zenon

LEMMA InitWordInv == Init => WordInv
BY DEF Init, WordInv

LEMMA NextWordInv == TagInv /\ WordInv /\ [Next]_vars => WordInv'
<1>. SUFFICES ASSUME TagInv, WordInv, [Next]_vars PROVE WordInv'
  OBVIOUS
<1>1. CASE Join
  <2>1. HypothesisOK' /\ (line = strip(join_tags_tokens(tokens, eosTag)))'
    BY <1>1 DEF Join, HypothesisOK
  <2>2. (LettersThere(line) /\ \A s \in Spans : Inner(s) => Around(line, s))'
    BY <2>1, WordsJoined, PTL
  <2>3. stage' = "joined"
    BY <1>1 DEF Join
  <2>. QED
    BY <2>2, <2>3 DEF WordInv
<1>2. CASE MoveToStartOrEnd
  <2>. DEFINE text == move_tags_to_start_or_end(line)
  <2>1. /\ stage = "joined" /\ stage' = "moved"
        /\ UNCHANGED <<tokens, eosTag>> /\ line' = text
    BY <1>2 DEF MoveToStartOrEnd
  <2>2. LineOK(line) /\ LettersThere(line) /\ \A s \in Spans : Inner(s) => Around(line, s)
    BY <2>1 DEF TagInv, WordInv
  <2>3. LettersThere(text) /\ \A s \in Spans : Inner(s) => Within(text, s)
    BY <2>2, MovedWords DEF Inner
  <2>. HIDE DEF text
  <2>4. LettersThere(line)' /\ (\A s \in Spans : Inner(s) => Within(line, s))'
    BY <2>1, <2>3, SameWords
  <2>. QED
    BY <2>1, <2>4 DEF WordInv
<1>3. CASE MoveAfterSpace
  <2>. DEFINE text == move_tags_after_space(line)
  <2>1. /\ stage = "moved" /\ stage' = "spaced"
        /\ UNCHANGED <<tokens, eosTag>> /\ line' = text
    BY <1>3 DEF MoveAfterSpace
  <2>2. LineOK(line) /\ LettersThere(line) /\ \A s \in Spans : Inner(s) => Within(line, s)
    BY <2>1 DEF TagInv, WordInv
  <2>3. LettersThere(text) /\ \A s \in Spans : Inner(s) => Within(text, s)
    BY <2>2, SpacedWords
  <2>. HIDE DEF text
  <2>4. LettersThere(line)' /\ (\A s \in Spans : Inner(s) => Within(line, s))'
    BY <2>1, <2>3, SameWords
  <2>. QED
    BY <2>1, <2>4 DEF WordInv
<1>4. CASE Return
  BY <1>4 DEF Return, WordInv
<1>5. CASE UNCHANGED vars
  <2>1. UNCHANGED <<tokens, eosTag>> /\ line' = line /\ stage' = stage
    BY <1>5 DEF vars
  <2>2. /\ LettersThere(line) => LettersThere(line)'
        /\ (\A s \in Spans : Inner(s) => Around(line, s)) => (\A s \in Spans : Inner(s) => Around(line, s))'
        /\ (\A s \in Spans : Inner(s) => Within(line, s)) => (\A s \in Spans : Inner(s) => Within(line, s))'
    BY <2>1, SameWords
  <2>. QED
    BY <2>1, <2>2 DEF WordInv
<1>. QED
  BY <1>1, <1>2, <1>3, <1>4, <1>5 DEF Next

\* In every reachable state the words of the inner spans are where the moves will put their marks,
\* or are between them.
LEMMA WordInvHolds == Spec => []WordInv
<1>1. TagInv /\ WordInv /\ [Next]_vars => WordInv'
  BY NextWordInv
<1>. QED
  BY <1>1, InitWordInv, TagInvHolds, PTL DEF Spec

LEMMA InnerSpansWithin == TagInv /\ WordInv => InnerSpansAreWords
<1>. SUFFICES ASSUME TagInv, WordInv, stage = "spaced", NEW s \in Spans, Inner(s)
              PROVE  EntityIsItsWords(s)
  BY DEF InnerSpansAreWords, Inner
<1>1. LineOK(line) /\ LettersThere(line) /\ Within(line, s)
  BY DEF TagInv, WordInv
<1>2. PICK o, c \in DOMAIN line : Encloses(line, o, c, s) /\ WordWithin(line, o, c, s)
  BY <1>1 DEF Within
<1>. DEFINE e == <<o, c>>
<1>3. e \in Entities /\ line[o].of = TypeOf(s) /\ e[1] = o /\ e[2] = c
  BY <1>1, <1>2, EnclosedIsEntity
<1>4. /\ \A p \in DOMAIN line : p \in Int
      /\ \A p \in o .. c : p \in DOMAIN line
      /\ ~ IsLetter(line[o]) /\ ~ IsLetter(line[c])
  <2>1. DOMAIN line = 1 .. Len(line) /\ Len(line) \in Nat
    BY <1>1 DEF LineOK, IsSequence
  <2>2. line[o].kind = "open" /\ line[c].kind = "close"
    BY <1>2 DEF Encloses
  <2>3. ~ IsLetter(line[o]) /\ ~ IsLetter(line[c])
    BY <2>2 DEF IsLetter
  <2>. QED
    BY <2>1, <2>3
<1>. HIDE DEF e
<1>5. ASSUME NEW i \in Letters(e) PROVE i \in Touched(s)
  <2>1. PICK p \in o .. c : IsLetter(line[p]) /\ line[p].of = i
    BY <1>3 DEF Letters, IsLetter
  <2>2. p \in DOMAIN line /\ p # o /\ p # c
    BY <1>4, <2>1
  <2>3. o < p /\ p < c
    BY <1>4, <2>2
  <2>. QED
    BY <1>2, <2>1, <2>2, <2>3 DEF WordWithin
<1>6. ASSUME NEW i \in Touched(s) PROVE i \in Letters(e)
  <2>1. i \in DOMAIN tokens /\ IsLetters(i)
    BY DEF Touched
  <2>2. PICK p \in DOMAIN line : IsLetter(line[p]) /\ line[p].of = i
    BY <1>1, <2>1 DEF LettersThere
  <2>3. o < p /\ p < c
    BY <1>2, <2>2 DEF WordWithin
  <2>4. p \in e[1] .. e[2]
    BY <1>3, <1>4, <2>3
  <2>. QED
    BY <2>2, <2>4 DEF Letters, IsLetter
<1>7. Letters(e) = Touched(s)
  BY <1>5, <1>6
<1>. QED
  BY <1>3, <1>7 DEF EntityIsItsWords

\* However many tokens a hypothesis has and however they are tagged: a span that begins inside a
\* word, and has its words alone, becomes an entity of exactly those words, wherever in a word it
\* ends (the two substitutions of move_tags_to_start_or_end, api/ne_postprocessing.py).
THEOREM InnerSpansBecomeWords == Spec => []InnerSpansAreWords
BY TagInvHolds, WordInvHolds, InnerSpansWithin, PTL
=============================================================================
