------------------------ MODULE NamedEntities_proofs ------------------------
(***************************************************************************)
(* What the pairing of entities does, for every request, every answer of   *)
(* the knowledge graph and every list of stopwords: no entity of the       *)
(* translation is paired twice, none of the transcript goes astray, none   *)
(* that could be paired by ids, text or type is overlooked, and no side of *)
(* a triple becomes empty.                                                 *)
(***************************************************************************)
EXTENDS NamedEntities, FiniteSetTheorems, SequenceTheorems, TLAPS

IsSequence(s) == \E S : s \in Seq(S)

\* The first loop pairs or postpones the entities before next, and never both ...
PairedBefore ==
  /\ \A n \in DOMAIN pairing : pairing[n].entity \in Nat /\ pairing[n].entity < next
  /\ \A m \in DOMAIN to_be_aligned : to_be_aligned[m] \in Nat /\ to_be_aligned[m] < next
  /\ \A n \in DOMAIN pairing, m \in DOMAIN to_be_aligned : pairing[n].entity # to_be_aligned[m]

\* ... the second one those that were postponed before its next one.
StillToAlign ==
  \A n \in DOMAIN pairing, m \in DOMAIN to_be_aligned :
    m >= next => pairing[n].entity # to_be_aligned[m]

PostponedOnce ==
  \A m, n \in DOMAIN to_be_aligned : m # n => to_be_aligned[m] # to_be_aligned[n]

PairingInv ==
  /\ IsSequence(pairing) /\ IsSequence(to_be_aligned)
  /\ next \in Nat \ {0}
  /\ phase = "extract" => pairing = << >> /\ to_be_aligned = << >>
  /\ phase = "pair"    => PairedBefore
  /\ phase = "align"   => StillToAlign
  /\ PostponedOnce
  /\ NoEntityTwice

-----------------------------------------------------------------------------
\* A sequence with one element more.
LEMMA AppendedSequence ==
  ASSUME NEW s, IsSequence(s), NEW e
  PROVE  /\ IsSequence(Append(s, e))
         /\ Len(s) \in Nat
         /\ DOMAIN s = 1 .. Len(s)
         /\ DOMAIN Append(s, e) = 1 .. Len(s) + 1
         /\ \A n \in 1 .. Len(s) : Append(s, e)[n] = s[n]
         /\ Append(s, e)[Len(s) + 1] = e
<1>1. PICK S : s \in Seq(S)
  BY DEF IsSequence
<1>2. s \in Seq(S \cup {e}) /\ e \in S \cup {e}
  BY <1>1
<1>3. Append(s, e) \in Seq(S \cup {e})
  BY <1>2
<1>. QED
  BY <1>2, <1>3 DEF IsSequence

\* One more pair of an entity that has none leaves every entity with one at most.
LEMMA OneMorePair ==
  ASSUME NEW seq, IsSequence(seq), NEW e,
         \A m, n \in DOMAIN seq : m # n => seq[m].entity # seq[n].entity,
         \A n \in DOMAIN seq : seq[n].entity # e.entity
  PROVE  \A m, n \in DOMAIN Append(seq, e) :
           m # n => Append(seq, e)[m].entity # Append(seq, e)[n].entity
<1>. DEFINE A == Append(seq, e)
<1>1. /\ Len(seq) \in Nat /\ DOMAIN seq = 1 .. Len(seq) /\ DOMAIN A = 1 .. Len(seq) + 1
      /\ \A n \in 1 .. Len(seq) : A[n] = seq[n]
      /\ A[Len(seq) + 1] = e
  BY AppendedSequence
<1>. HIDE DEF A
<1>2. \A n \in DOMAIN A : n \in DOMAIN seq \/ n = Len(seq) + 1
  BY <1>1
<1>. QED
  BY <1>1, <1>2 DEF A

LEMMA InitPairing == Init => PairingInv
<1>. SUFFICES ASSUME Init PROVE PairingInv
  OBVIOUS
<1>1. pairing = << >> /\ to_be_aligned = << >> /\ next = 1 /\ phase = "extract"
  BY DEF Init
<1>2. IsSequence(<< >>)
  BY DEF IsSequence
<1>. QED
  BY <1>1, <1>2 DEF PairingInv, PostponedOnce, NoEntityTwice

-----------------------------------------------------------------------------
(***************************************************************************)
(* The steps.                                                              *)
(***************************************************************************)

\* A step of the first loop pairs the entity it is at or postpones it.
LEMMA PairNextStep ==
  ASSUME PairNext
  PROVE  /\ phase = "pair" /\ phase' = "pair" /\ next' = next + 1
         /\ \/ /\ \E elt : elt.entity = next /\ pairing' = Append(pairing, elt)
               /\ to_be_aligned' = to_be_aligned
            \/ /\ pairing' = pairing
               /\ to_be_aligned' = Append(to_be_aligned, next)
<1>. DEFINE e     == ne_translation[next]
            found == IF ByIds(e) # 0 THEN ByIds(e) ELSE ByText(e)
            match == do_exact_match(e)
<1>1. phase = "pair" /\ phase' = phase /\ next' = next + 1
  BY DEF PairNext
<1>2. CASE found # 0
  <2>1. /\ pairing' = Append(pairing, [how |-> IF ByIds(e) # 0 THEN "ids" ELSE "text",
                                       entity |-> next, with |-> ne_transcript[found]])
        /\ to_be_aligned' = to_be_aligned
    BY <1>2 DEF PairNext, Pair, Postponed
  <2>. QED
    BY <1>1, <2>1
<1>3. CASE found = 0 /\ match # None
  <2>1. /\ pairing' = Append(pairing, [how |-> "exact", entity |-> next, with |-> None])
        /\ to_be_aligned' = to_be_aligned
    BY <1>3 DEF PairNext, Pair, Postponed
  <2>. QED
    BY <1>1, <2>1
<1>4. CASE found = 0 /\ match = None
  <2>1. pairing' = pairing /\ to_be_aligned' = Append(to_be_aligned, next)
    BY <1>4 DEF PairNext, Postponed
  <2>. QED
    BY <1>1, <2>1
<1>. QED
  BY <1>2, <1>3, <1>4

LEMMA PairNextPairing ==
  ASSUME PairingInv, PairNext
  PROVE  PairingInv'
<1>1. /\ phase = "pair" /\ phase' = "pair" /\ next' = next + 1
      /\ \/ /\ \E elt : elt.entity = next /\ pairing' = Append(pairing, elt)
            /\ to_be_aligned' = to_be_aligned
         \/ /\ pairing' = pairing
            /\ to_be_aligned' = Append(to_be_aligned, next)
  BY PairNextStep
<1>2. PairedBefore /\ PostponedOnce /\ NoEntityTwice /\ next \in Nat \ {0}
      /\ IsSequence(pairing) /\ IsSequence(to_be_aligned)
  BY <1>1 DEF PairingInv
<1>3. CASE \E elt : /\ elt.entity = next /\ pairing' = Append(pairing, elt)
                    /\ to_be_aligned' = to_be_aligned
  <2>1. PICK elt : /\ elt.entity = next /\ pairing' = Append(pairing, elt)
                   /\ to_be_aligned' = to_be_aligned
    BY <1>3
  <2>2. /\ IsSequence(pairing') /\ Len(pairing) \in Nat
        /\ DOMAIN pairing = 1 .. Len(pairing) /\ DOMAIN pairing' = 1 .. Len(pairing) + 1
        /\ \A n \in 1 .. Len(pairing) : pairing'[n] = pairing[n]
        /\ pairing'[Len(pairing) + 1] = elt
    BY <1>2, <2>1, AppendedSequence
  <2>3. \A n \in DOMAIN pairing : pairing[n].entity # next
    BY <1>2 DEF PairedBefore
  <2>4. NoEntityTwice'
    BY <1>2, <2>1, <2>3, OneMorePair DEF NoEntityTwice
  <2>5. PairedBefore'
    <3>1. \A n \in DOMAIN pairing' : n \in DOMAIN pairing \/ n = Len(pairing) + 1
      BY <2>2
    <3>2. \A n \in DOMAIN pairing' :
            \/ n \in DOMAIN pairing /\ pairing'[n].entity = pairing[n].entity
            \/ pairing'[n].entity = next
      BY <2>1, <2>2, <3>1
    <3>3. \A n \in DOMAIN pairing' : pairing'[n].entity \in Nat /\ pairing'[n].entity < next'
      BY <1>1, <1>2, <3>2 DEF PairedBefore
    <3>4. \A m \in DOMAIN to_be_aligned' :
            to_be_aligned'[m] \in Nat /\ to_be_aligned'[m] < next'
      BY <1>1, <1>2, <2>1 DEF PairedBefore
    <3>5. \A n \in DOMAIN pairing', m \in DOMAIN to_be_aligned' :
            pairing'[n].entity # to_be_aligned'[m]
      BY <1>2, <2>1, <3>2 DEF PairedBefore
    <3>. QED
      BY <3>3, <3>4, <3>5 DEF PairedBefore
  <2>6. PostponedOnce' /\ IsSequence(to_be_aligned') /\ next' \in Nat \ {0}
    BY <1>1, <1>2, <2>1 DEF PostponedOnce
  <2>. QED
    BY <1>1, <2>2, <2>4, <2>5, <2>6 DEF PairingInv
<1>4. CASE pairing' = pairing /\ to_be_aligned' = Append(to_be_aligned, next)
  <2>1. /\ IsSequence(to_be_aligned') /\ Len(to_be_aligned) \in Nat
        /\ DOMAIN to_be_aligned = 1 .. Len(to_be_aligned)
        /\ DOMAIN to_be_aligned' = 1 .. Len(to_be_aligned) + 1
        /\ \A n \in 1 .. Len(to_be_aligned) : to_be_aligned'[n] = to_be_aligned[n]
        /\ to_be_aligned'[Len(to_be_aligned) + 1] = next
    BY <1>2, <1>4, AppendedSequence
  <2>2. \A n \in DOMAIN to_be_aligned' : n \in DOMAIN to_be_aligned \/ n = Len(to_be_aligned) + 1
    BY <2>1
  <2>3. PostponedOnce'
    BY <1>2, <2>1, <2>2 DEF PairedBefore, PostponedOnce
  <2>4. PairedBefore'
    BY <1>1, <1>2, <1>4, <2>1, <2>2 DEF PairedBefore
  <2>. QED
    BY <1>1, <1>2, <1>4, <2>1, <2>3, <2>4 DEF PairingInv, NoEntityTwice
<1>. QED
  BY <1>1, <1>3, <1>4

LEMMA PairingEndsPairing ==
  ASSUME PairingInv, PairingEnds
  PROVE  PairingInv'
<1>1. /\ phase = "pair" /\ phase' = "align" /\ next' = 1
      /\ pairing' = pairing /\ to_be_aligned' = to_be_aligned
  BY DEF PairingEnds
<1>2. StillToAlign'
  BY <1>1 DEF PairingInv, PairedBefore, StillToAlign
<1>. QED
  BY <1>1, <1>2 DEF PairingInv, PostponedOnce, NoEntityTwice

\* A step of the second loop pairs the entity it is at, or none.
LEMMA AlignStepPairing ==
  ASSUME PairingInv, NEW n, Aligning(n), AlignedNext,
         \/ pairing' = pairing
         \/ \E elt : elt.entity = n /\ pairing' = Append(pairing, elt)
  PROVE  PairingInv'
<1>1. /\ phase = "align" /\ phase' = "align" /\ next' = next + 1
      /\ to_be_aligned' = to_be_aligned
      /\ n = to_be_aligned[next] /\ next <= Len(to_be_aligned)
  BY DEF Aligning, AlignedNext
<1>2. /\ StillToAlign /\ PostponedOnce /\ NoEntityTwice /\ next \in Nat \ {0}
      /\ IsSequence(pairing) /\ IsSequence(to_be_aligned)
  BY <1>1 DEF PairingInv
<1>3. DOMAIN to_be_aligned = 1 .. Len(to_be_aligned) /\ Len(to_be_aligned) \in Nat
  BY <1>2, AppendedSequence
<1>4. next \in DOMAIN to_be_aligned
  BY <1>1, <1>2, <1>3
<1>5. CASE pairing' = pairing
  <2>1. StillToAlign'
    BY <1>1, <1>2, <1>3, <1>5 DEF StillToAlign
  <2>. QED
    BY <1>1, <1>2, <1>5, <2>1 DEF PairingInv, PostponedOnce, NoEntityTwice
<1>6. CASE \E elt : elt.entity = n /\ pairing' = Append(pairing, elt)
  <2>1. PICK elt : elt.entity = n /\ pairing' = Append(pairing, elt)
    BY <1>6
  <2>2. /\ IsSequence(pairing') /\ Len(pairing) \in Nat
        /\ DOMAIN pairing = 1 .. Len(pairing) /\ DOMAIN pairing' = 1 .. Len(pairing) + 1
        /\ \A m \in 1 .. Len(pairing) : pairing'[m] = pairing[m]
        /\ pairing'[Len(pairing) + 1] = elt
    BY <1>2, <2>1, AppendedSequence
  <2>3. \A m \in DOMAIN pairing : pairing[m].entity # n
    BY <1>1, <1>2, <1>4 DEF StillToAlign
  <2>4. NoEntityTwice'
    BY <1>2, <2>1, <2>3, OneMorePair DEF NoEntityTwice
  <2>5. StillToAlign'
    <3>1. \A m \in DOMAIN pairing' : m \in DOMAIN pairing \/ m = Len(pairing) + 1
      BY <2>2
    <3>2. \A m \in DOMAIN to_be_aligned : m >= next + 1 => m >= next /\ m # next
      BY <1>2, <1>3
    <3>3. \A m \in DOMAIN pairing' :
            \/ m \in DOMAIN pairing /\ pairing'[m].entity = pairing[m].entity
            \/ pairing'[m].entity = n
      BY <2>1, <2>2, <3>1
    <3>4. \A m \in DOMAIN to_be_aligned : m >= next + 1 => to_be_aligned[m] # n
      BY <1>1, <1>2, <1>4, <3>2 DEF PostponedOnce
    <3>. QED
      BY <1>1, <1>2, <3>2, <3>3, <3>4 DEF StillToAlign
  <2>. QED
    BY <1>1, <1>2, <2>2, <2>4, <2>5 DEF PairingInv, PostponedOnce
<1>. QED
  BY <1>5, <1>6

LEMMA NextPairing == PairingInv /\ [Next]_vars => PairingInv'
<1>. SUFFICES ASSUME PairingInv, [Next]_vars PROVE PairingInv'
  OBVIOUS
<1>1. CASE Extract
  <2>1. /\ phase = "extract" /\ phase' = "pair" /\ next' = next
        /\ pairing' = pairing /\ to_be_aligned' = to_be_aligned
    BY <1>1 DEF Extract
  <2>2. PairedBefore'
    BY <2>1 DEF PairingInv, PairedBefore
  <2>. QED
    BY <2>1, <2>2 DEF PairingInv, PostponedOnce, NoEntityTwice
<1>2. CASE ExtractFails \/ FinishFails
  BY <1>2 DEF ExtractFails, FinishFails, Raise, PairingInv, PostponedOnce, NoEntityTwice
<1>3. CASE PairNext
  BY <1>3, PairNextPairing
<1>4. CASE PairingEnds
  BY <1>4, PairingEndsPairing
<1>5. CASE AlignByType
  <2>1. PICK n \in DOMAIN ne_translation :
           /\ Aligning(n) /\ AlignedNext
           /\ \E elt : elt.entity = n /\ pairing' = Append(pairing, elt)
    BY <1>5 DEF AlignByType, Pair
  <2>. QED
    BY <2>1, AlignStepPairing
<1>6. CASE AlignPerson
  <2>1. PICK n \in DOMAIN ne_translation :
           /\ Aligning(n) /\ AlignedNext
           /\ \/ pairing' = pairing
              \/ \E elt : elt.entity = n /\ pairing' = Append(pairing, elt)
    BY <1>6 DEF AlignPerson, Pair, Skip
  <2>. QED
    BY <2>1, AlignStepPairing
<1>7. CASE AlignCardinal
  <2>1. PICK n \in DOMAIN ne_translation :
           /\ Aligning(n) /\ AlignedNext
           /\ \/ pairing' = pairing
              \/ \E elt : elt.entity = n /\ pairing' = Append(pairing, elt)
    BY <1>7 DEF AlignCardinal, Pair, Skip
  <2>. QED
    BY <2>1, AlignStepPairing
<1>8. CASE AlignFails
  <2>1. PICK n \in DOMAIN ne_translation : Aligning(n) /\ AlignedNext /\ pairing' = pairing
    BY <1>8 DEF AlignFails, Skip
  <2>. QED
    BY <2>1, AlignStepPairing
<1>9. CASE AlignmentEnds
  BY <1>9 DEF AlignmentEnds, PairingInv, PostponedOnce, NoEntityTwice
<1>10. CASE Finish
  BY <1>10 DEF Finish, PairingInv, PostponedOnce, NoEntityTwice
<1>11. CASE UNCHANGED vars
  BY <1>11 DEF vars, PairingInv, PairedBefore, StillToAlign, PostponedOnce, NoEntityTwice
<1>. QED
  BY <1>1, <1>2, <1>3, <1>4, <1>5, <1>6, <1>7, <1>8, <1>9, <1>10, <1>11 DEF Next

\* An entity of the translation is in one triple at most, by whichever of the six ways:
\* the two loops of extract_nes never pair the same one.
THEOREM PairedOnce == Spec => []NoEntityTwice
<1>1. PairingInv => NoEntityTwice
  BY DEF PairingInv
<1>. QED
  BY <1>1, InitPairing, NextPairing, PTL DEF Spec

-----------------------------------------------------------------------------
(***************************************************************************)
(* Finding and removing.                                                   *)
(***************************************************************************)

\* A set of numbers has a least one, and a greatest one if it is bounded.
LEMMA Least ==
  ASSUME NEW T, T \subseteq Nat, T # {}
  PROVE  Min(T) \in T /\ \A y \in T : Min(T) <= y
<1>1. PICK n \in T : \A m \in T : ~ (<<m, n>> \in OpToRel(<, Nat))
  BY NatLessThanWellFounded, WFMin
<1>2. \A m \in T : n <= m
  <2>1. SUFFICES ASSUME NEW m \in T, m < n PROVE FALSE
    OBVIOUS
  <2>2. m \in Nat /\ n \in Nat
    OBVIOUS
  <2>3. <<m, n>> \in OpToRel(<, Nat)
    BY <2>1, <2>2 DEF OpToRel
  <2>. QED
    BY <1>1, <2>3
<1>. QED
  BY <1>2 DEF Min

LEMMA Greatest ==
  ASSUME NEW T, NEW bound \in Nat, T \subseteq 0 .. bound, T # {}
  PROVE  Max(T) \in T /\ \A y \in T : y <= Max(T)
<1>. DEFINE U == {bound - x : x \in T}
<1>1. U \subseteq Nat /\ U # {}
  <2>1. \A x \in T : x \in 0 .. bound /\ bound - x \in Nat
    OBVIOUS
  <2>. QED
    BY <2>1
<1>2. PICK u \in U : \A v \in U : u <= v
  <2>. HIDE DEF U
  <2>. QED
    BY <1>1, Least
<1>3. PICK x \in T : u = bound - x
  BY <1>2
<1>4. \A y \in T : y <= x
  <2>1. TAKE y \in T
  <2>2. u <= bound - y
    BY <1>2
  <2>. QED
    BY <1>3, <2>2
<1>. QED
  BY <1>4 DEF Max

\* The first, and the last, of some places of a sequence.
LEMMA FirstPlace ==
  ASSUME NEW s, Len(s) \in Nat, NEW T, T \subseteq 1 .. Len(s)
  PROVE  LET at == IF T # {} THEN Min(T) ELSE 0
         IN  (at = 0 <=> T = {}) /\ (at # 0 => at \in T)
<1>. DEFINE at == IF T # {} THEN Min(T) ELSE 0
<1>1. CASE T # {}
  <2>1. T \subseteq Nat
    OBVIOUS
  <2>2. Min(T) \in T
    BY <1>1, <2>1, Least
  <2>3. Min(T) # 0
    BY <2>2
  <2>4. at = Min(T)
    BY <1>1
  <2>. HIDE DEF at
  <2>. QED
    BY <1>1, <2>2, <2>3, <2>4
<1>2. CASE T = {}
  BY <1>2
<1>. QED
  BY <1>1, <1>2

LEMMA LastPlace ==
  ASSUME NEW s, Len(s) \in Nat, NEW T, T \subseteq 1 .. Len(s)
  PROVE  LET at == IF T # {} THEN Max(T) ELSE 0
         IN  (at = 0 <=> T = {}) /\ (at # 0 => at \in T)
<1>. DEFINE at == IF T # {} THEN Max(T) ELSE 0
<1>1. CASE T # {}
  <2>1. T \subseteq 0 .. Len(s)
    OBVIOUS
  <2>2. Max(T) \in T
    BY <1>1, <2>1, Greatest
  <2>3. Max(T) # 0
    BY <2>2
  <2>4. at = Max(T)
    BY <1>1
  <2>. HIDE DEF at
  <2>. QED
    BY <1>1, <2>2, <2>3, <2>4
<1>2. CASE T = {}
  BY <1>2
<1>. QED
  BY <1>1, <1>2

Places(s, e) == {n \in DOMAIN s : s[n] = e}

LEMMA PlacesFinite ==
  ASSUME NEW s, IsSequence(s), NEW e
  PROVE  /\ Places(s, e) \subseteq 1 .. Len(s)
         /\ IsFiniteSet(Places(s, e)) /\ Cardinality(Places(s, e)) \in Nat
<1>1. Len(s) \in Nat /\ DOMAIN s = 1 .. Len(s)
  BY DEF IsSequence
<1>2. IsFiniteSet(1 .. Len(s)) /\ Places(s, e) \subseteq 1 .. Len(s)
  <2>1. 1 \in Int /\ Len(s) \in Int
    BY <1>1
  <2>. QED
    BY <1>1, <2>1, FS_Interval DEF Places
<1>. QED
  BY <1>2, FS_Subset, FS_CardinalityType

\* Removing the first of its kind leaves the others, each as often as it was.
LEMMA RemovedOnce ==
  ASSUME NEW s, IsSequence(s), NEW c, c \in ToSet(s)
  PROVE  LET r == RemoveFirst(s, c)
         IN  /\ IsSequence(r)
             /\ \A n \in DOMAIN r : \E m \in DOMAIN s : r[n] = s[m]
             /\ Cardinality(Places(s, c)) = Cardinality(Places(r, c)) + 1
             /\ \A e : e # c => Cardinality(Places(s, e)) = Cardinality(Places(r, e))
<1>. DEFINE I  == {i \in 1 .. Len(s) : s[i] = c}
            at == Min(I)
            r  == SubSeq(s, 1, at - 1) \o SubSeq(s, at + 1, Len(s))
            up == [i \in 1 .. Len(s) - 1 |-> IF i < at THEN i ELSE i + 1]
<1>1. PICK S : s \in Seq(S)
  BY DEF IsSequence
<1>2. Len(s) \in Nat /\ DOMAIN s = 1 .. Len(s)
  BY <1>1
<1>3. I # {}
  BY <1>2 DEF ToSet
<1>4. at \in 1 .. Len(s) /\ s[at] = c
  BY <1>2, <1>3, Least
<1>5. RemoveFirst(s, c) = r
  BY <1>2, <1>3 DEF RemoveFirst, RemoveAt, SelectInSeq
<1>. HIDE DEF I, at
<1>6. /\ r \in Seq(S) /\ Len(r) = Len(s) - 1 /\ DOMAIN r = 1 .. Len(s) - 1
      /\ \A i \in 1 .. Len(s) - 1 : r[i] = s[up[i]]
  <2>. DEFINE a == SubSeq(s, 1, at - 1)
              b == SubSeq(s, at + 1, Len(s))
  <2>1. /\ a \in Seq(S) /\ Len(a) = at - 1
        /\ \A i \in 1 .. at - 1 : a[i] = s[i]
    <3>1. 1 \in Int /\ at - 1 \in Int /\ \A i \in 1 .. at - 1 : s[i] \in S
      BY <1>1, <1>2, <1>4
    <3>2. /\ a \in Seq(S) /\ Len(a) = IF 1 <= at - 1 THEN (at - 1) - 1 + 1 ELSE 0
          /\ \A i \in 1 .. (at - 1) - 1 + 1 : a[i] = s[1 + i - 1]
      BY <3>1, SubSeqProperties
    <3>. HIDE DEF a
    <3>. QED
      BY <1>2, <1>4, <3>2
  <2>2. /\ b \in Seq(S) /\ Len(b) = Len(s) - at
        /\ \A i \in 1 .. Len(s) - at : b[i] = s[at + i]
    <3>1. at + 1 \in Int /\ Len(s) \in Int /\ \A i \in at + 1 .. Len(s) : s[i] \in S
      BY <1>1, <1>2, <1>4
    <3>2. /\ b \in Seq(S) /\ Len(b) = IF at + 1 <= Len(s) THEN Len(s) - (at + 1) + 1 ELSE 0
          /\ \A i \in 1 .. Len(s) - (at + 1) + 1 : b[i] = s[(at + 1) + i - 1]
      BY <3>1, SubSeqProperties
    <3>. HIDE DEF b
    <3>3. \A i \in 1 .. Len(s) - at :
            i \in 1 .. Len(s) - (at + 1) + 1 /\ (at + 1) + i - 1 = at + i
      BY <1>2, <1>4
    <3>4. Len(b) = Len(s) - at
      <4>1. at \in Nat /\ Len(s) \in Nat /\ at <= Len(s)
        BY <1>2, <1>4
      <4>2. (IF at + 1 <= Len(s) THEN Len(s) - (at + 1) + 1 ELSE 0) = Len(s) - at
        BY <4>1
      <4>. QED
        BY <3>2, <4>2
    <3>5. \A i \in 1 .. Len(s) - at : b[i] = s[at + i]
      BY <3>2, <3>3
    <3>. QED
      BY <3>2, <3>4, <3>5
  <2>. HIDE DEF a, b
  <2>3. /\ a \o b \in Seq(S) /\ Len(a \o b) = Len(s) - 1
        /\ \A i \in 1 .. Len(s) - 1 : (a \o b)[i] = IF i < at THEN a[i] ELSE b[i - (at - 1)]
    <3>1. /\ a \o b \in Seq(S) /\ Len(a \o b) = Len(a) + Len(b)
          /\ \A i \in 1 .. Len(a) + Len(b) :
               (a \o b)[i] = IF i <= Len(a) THEN a[i] ELSE b[i - Len(a)]
      BY <2>1, <2>2, ConcatProperties
    <3>2. Len(a) + Len(b) = Len(s) - 1 /\ \A i \in 1 .. Len(s) - 1 : i <= Len(a) <=> i < at
      BY <1>2, <1>4, <2>1, <2>2
    <3>. QED
      BY <2>1, <3>1, <3>2
  <2>4. \A i \in 1 .. Len(s) - 1 : (a \o b)[i] = s[up[i]]
    <3>1. TAKE i \in 1 .. Len(s) - 1
    <3>2. CASE i < at
      BY <1>2, <1>4, <2>1, <2>3, <3>2
    <3>3. CASE ~ (i < at)
      <4>1. i - (at - 1) \in 1 .. Len(s) - at /\ at + (i - (at - 1)) = i + 1
        BY <1>2, <1>4, <3>3
      <4>. QED
        BY <2>2, <2>3, <3>3, <4>1
    <3>. QED
      BY <3>2, <3>3
  <2>5. r = a \o b
    BY DEF a, b
  <2>. HIDE DEF r
  <2>6. DOMAIN r = 1 .. Len(s) - 1
    <3>1. r \in Seq(S) /\ Len(r) = Len(s) - 1
      BY <2>3, <2>5
    <3>. QED
      BY <3>1
  <2>. QED
    BY <2>3, <2>4, <2>5, <2>6
<1>. HIDE DEF r
<1>7. /\ \A i \in 1 .. Len(s) - 1 : up[i] \in 1 .. Len(s) /\ up[i] # at
      /\ \A i, j \in 1 .. Len(s) - 1 : up[i] = up[j] => i = j
      /\ \A k \in 1 .. Len(s) : k # at => \E i \in 1 .. Len(s) - 1 : up[i] = k
  <2>1. \A k \in 1 .. Len(s) : k # at => \E i \in 1 .. Len(s) - 1 : up[i] = k
    <3>1. SUFFICES ASSUME NEW k \in 1 .. Len(s), k # at
                   PROVE  \E i \in 1 .. Len(s) - 1 : up[i] = k
      OBVIOUS
    <3>2. CASE k < at
      <4>1. k \in 1 .. Len(s) - 1 /\ up[k] = k
        BY <1>2, <1>4, <3>2
      <4>. QED
        BY <4>1
    <3>3. CASE k > at
      <4>1. k - 1 \in 1 .. Len(s) - 1 /\ up[k - 1] = k
        BY <1>2, <1>4, <3>3
      <4>. QED
        BY <4>1
    <3>. QED
      BY <1>2, <1>4, <3>1, <3>2, <3>3
  <2>. QED
    BY <1>2, <1>4, <2>1
<1>. HIDE DEF up
<1>8. ASSUME NEW e
      PROVE  Cardinality(Places(s, e) \ {at}) = Cardinality(Places(r, e))
  <2>. DEFINE f == [i \in Places(r, e) |-> up[i]]
  <2>1. f \in [Places(r, e) -> Places(s, e) \ {at}]
    BY <1>2, <1>6, <1>7 DEF Places
  <2>2. \A i, j \in Places(r, e) : f[i] = f[j] => i = j
    BY <1>6, <1>7 DEF Places
  <2>3. \A k \in Places(s, e) \ {at} : \E i \in Places(r, e) : f[i] = k
    BY <1>2, <1>6, <1>7 DEF Places
  <2>4. IsFiniteSet(Places(r, e))
    BY <1>6, PlacesFinite DEF IsSequence
  <2>. HIDE DEF f
  <2>5. ExistsBijection(Places(r, e), Places(s, e) \ {at})
    BY <2>1, <2>2, <2>3
       DEF ExistsBijection, Bijection, Injection, Surjection, IsInjective
  <2>. QED
    BY <2>4, <2>5, FS_Bijection
<1>9. Cardinality(Places(s, c)) = Cardinality(Places(r, c)) + 1
  <2>1. at \in Places(s, c)
    BY <1>2, <1>4 DEF Places
  <2>2. Cardinality(Places(s, c) \ {at}) = Cardinality(Places(s, c)) - 1
        /\ Cardinality(Places(s, c)) \in Nat
    BY <2>1, PlacesFinite, FS_RemoveElement
  <2>. QED
    BY <1>8, <2>2
<1>10. ASSUME NEW e, e # c PROVE Cardinality(Places(s, e)) = Cardinality(Places(r, e))
  <2>1. Places(s, e) \ {at} = Places(s, e)
    BY <1>4, <1>10 DEF Places
  <2>. QED
    BY <1>8, <2>1
<1>11. IsSequence(r) /\ \A n \in DOMAIN r : \E m \in DOMAIN s : r[n] = s[m]
  BY <1>2, <1>6, <1>7 DEF IsSequence
<1>. QED
  BY <1>5, <1>9, <1>10, <1>11

-----------------------------------------------------------------------------
(***************************************************************************)
(* The entities that are found.                                            *)
(***************************************************************************)

EntityRight(e) ==
  /\ IsText(e.text) /\ IsFiniteSet(e.ids)
  /\ IsSequence(etrans(e)) /\ \A t \in ToSet(etrans(e)) : t # None

FoundIn(entities, text) ==
  /\ IsSequence(entities)
  /\ \A n \in DOMAIN entities : EntityRight(entities[n]) /\ Within(entities[n].text, text)

LEMMA ExtractedRight ==
  ASSUME NEW t, TaggedTextOK(t), NEW lang
  PROVE  FoundIn(extract_ne(t, lang), t.text)
<1>. DEFINE s        == extract_ne(t, lang)
            wikidata == t.wikidata
            K(text)   == {k \in DOMAIN wikidata : Within(k, text)}
            Ids(text) == UNION {wikidata[k].ids : k \in K(text)}
            trans(text) ==
              IF text \in DOMAIN wikidata THEN wikidata[text].translations
              ELSE IF clean_stopwords(text, lang) \in DOMAIN wikidata
              THEN wikidata[clean_stopwords(text, lang)].translations
              ELSE None
            entity(ne) == [text |-> ne.text, type |-> ne.type, ids |-> Ids(ne.text),
                           trans |-> trans(ne.text)]
<1>1. s = [n \in DOMAIN t.nes |-> entity(t.nes[n])]
  BY DEF extract_ne
<1>2. /\ DOMAIN t.nes = 1 .. Len(t.nes) /\ Len(t.nes) \in Nat
      /\ \A n \in DOMAIN t.nes : t.nes[n] \in ToSet(t.nes)
  BY DEF TaggedTextOK, ToSet
<1>3. ASSUME NEW text PROVE IsFiniteSet(Ids(text))
  <2>. DEFINE f == [k \in K(text) |-> wikidata[k].ids]
              T == {wikidata[k].ids : k \in K(text)}
  <2>1. IsFiniteSet(K(text))
    BY FS_Subset DEF TaggedTextOK
  <2>2. f \in Surjection(K(text), T)
    BY DEF Surjection
  <2>3. IsFiniteSet(T)
    <3>. HIDE DEF f, T
    <3>. QED
      BY <2>1, <2>2, FS_Surjection DEF ExistsSurjection
  <2>4. \A ids \in T : IsFiniteSet(ids)
    BY DEF TaggedTextOK
  <2>. HIDE DEF f, T
  <2>5. IsFiniteSet(UNION T)
    BY <2>3, <2>4, FS_UNION
  <2>. QED
    BY <2>5 DEF T
<1>4. ASSUME NEW text, trans(text) # None
      PROVE  IsSequence(trans(text)) /\ \A x \in ToSet(trans(text)) : x # None
  <2>1. PICK k \in DOMAIN wikidata : trans(text) = wikidata[k].translations
    BY <1>4
  <2>2. wikidata[k].translations \in Seq(ToSet(wikidata[k].translations))
        /\ \A x \in ToSet(wikidata[k].translations) : x # None
    BY DEF TaggedTextOK, IsText
  <2>. QED
    BY <2>1, <2>2 DEF IsSequence
<1>. HIDE DEF Ids, trans
<1>5. ASSUME NEW ne \in ToSet(t.nes)
      PROVE  EntityRight(entity(ne)) /\ Within(entity(ne).text, t.text)
  <2>1. IsText(ne.text) /\ Within(ne.text, t.text)
    BY DEF TaggedTextOK
  <2>2. IsSequence(etrans(entity(ne))) /\ \A x \in ToSet(etrans(entity(ne))) : x # None
    <3>1. CASE trans(ne.text) = None
      <4>1. etrans(entity(ne)) = <<ne.text>>
        BY <3>1 DEF etrans
      <4>2. <<ne.text>> \in Seq({ne.text}) /\ ToSet(<<ne.text>>) = {ne.text}
        BY DEF ToSet
      <4>. QED
        BY <2>1, <4>1, <4>2 DEF IsText, IsSequence
    <3>2. CASE trans(ne.text) # None
      <4>1. etrans(entity(ne)) = trans(ne.text)
        BY <3>2 DEF etrans
      <4>. QED
        BY <1>4, <3>2, <4>1
    <3>. QED
      BY <3>1, <3>2
  <2>. QED
    BY <1>3, <2>1, <2>2 DEF EntityRight
<1>. HIDE DEF entity
<1>6. s \in [1 .. Len(t.nes) -> {entity(t.nes[n]) : n \in DOMAIN t.nes}]
  BY <1>1, <1>2
<1>7. IsSequence(s)
  <2>. DEFINE S == {entity(t.nes[n]) : n \in DOMAIN t.nes}
  <2>. HIDE DEF S, s
  <2>1. s \in Seq(S)
    BY <1>2, <1>6 DEF S
  <2>. QED
    BY <2>1 DEF IsSequence
<1>8. \A n \in DOMAIN s : s[n] = entity(t.nes[n]) /\ t.nes[n] \in ToSet(t.nes)
  BY <1>1, <1>2
<1>. HIDE DEF s
<1>9. FoundIn(s, t.text)
  BY <1>5, <1>7, <1>8 DEF FoundIn
<1>. QED
  BY <1>9 DEF s

\* The entity of the transcript that is chosen has the most ids in common.
LEMMA MostInCommon ==
  ASSUME NEW text, FoundIn(ne_transcript, text), NEW e, IsFiniteSet(e.ids)
  PROVE  /\ ByIds(e) # 0 => /\ ByIds(e) \in DOMAIN ne_transcript
                            /\ \A m \in DOMAIN ne_transcript : Common(e, m) <= Common(e, ByIds(e))
         /\ ByIds(e) = 0 => \A m \in DOMAIN ne_transcript : ne_transcript[m].ids \cap e.ids = {}
<1>. DEFINE places == {n \in DOMAIN ne_transcript :
                         Common(e, n) > 0 /\ \A m \in DOMAIN ne_transcript : Common(e, m) <= Common(e, n)}
            V == {Common(e, n) : n \in DOMAIN ne_transcript}
            bound == Cardinality(e.ids)
<1>1. /\ Len(ne_transcript) \in Nat /\ DOMAIN ne_transcript = 1 .. Len(ne_transcript)
      /\ bound \in Nat
  BY FS_CardinalityType DEF FoundIn, IsSequence
<1>2. ASSUME NEW n \in DOMAIN ne_transcript
      PROVE  /\ Common(e, n) \in 0 .. bound
             /\ Common(e, n) = 0 => ne_transcript[n].ids \cap e.ids = {}
  <2>. DEFINE both == e.ids \cap ne_transcript[n].ids
  <2>1. both \subseteq e.ids
    OBVIOUS
  <2>2. IsFiniteSet(both) /\ Cardinality(both) <= bound /\ Cardinality(both) \in Nat
    BY <2>1, FS_Subset, FS_CardinalityType
  <2>3. Cardinality(both) = 0 => both = {}
    BY <2>2, FS_EmptySet
  <2>4. Common(e, n) = Cardinality(both)
    BY DEF Common
  <2>5. ne_transcript[n].ids \cap e.ids = both
    OBVIOUS
  <2>. HIDE DEF both, bound
  <2>. QED
    BY <1>1, <2>2, <2>3, <2>4, <2>5
<1>3. ASSUME NEW n \in DOMAIN ne_transcript, Common(e, n) # 0 PROVE places # {}
  <2>1. V \subseteq 0 .. bound /\ V # {}
    BY <1>2, <1>3
  <2>2. PICK v \in V : \A y \in V : y <= v
    <3>. HIDE DEF V, bound
    <3>. QED
      BY <1>1, <2>1, Greatest
  <2>3. PICK best \in DOMAIN ne_transcript : v = Common(e, best)
    BY <2>2
  <2>4. \A m \in DOMAIN ne_transcript : Common(e, m) <= Common(e, best)
    BY <2>2, <2>3
  <2>5. Common(e, best) > 0
    <3>1. Common(e, n) <= Common(e, best)
      BY <2>4
    <3>2. Common(e, n) \in Nat /\ Common(e, best) \in Nat
      BY <1>1, <1>2
    <3>. QED
      BY <1>3, <3>1, <3>2
  <2>. QED
    BY <2>4, <2>5
<1>4. CASE places = {}
  <2>1. ByIds(e) = 0
    BY <1>4 DEF ByIds, First
  <2>. QED
    BY <1>2, <1>3, <1>4, <2>1
<1>5. CASE places # {}
  <2>1. places \subseteq Nat
    BY <1>1
  <2>2. ByIds(e) = Min(places)
    BY <1>5 DEF ByIds, First, Min
  <2>3. Min(places) \in places
    <3>. HIDE DEF places
    <3>. QED
      BY <1>5, <2>1, Least
  <2>4. ByIds(e) # 0
    BY <1>1, <2>2, <2>3
  <2>. QED
    BY <2>2, <2>3, <2>4
<1>. QED
  BY <1>4, <1>5

LEMMA FoundByText ==
  ASSUME NEW text, FoundIn(ne_transcript, text), NEW e
  PROVE  /\ ByText(e) # 0 => ByText(e) \in DOMAIN ne_transcript
         /\ ByText(e) = 0 => \A m \in DOMAIN ne_transcript : ne_transcript[m].text \notin ToSet(etrans(e))
<1>. DEFINE I == {i \in 1 .. Len(ne_transcript) : ne_transcript[i].text \in ToSet(etrans(e))}
<1>1. Len(ne_transcript) \in Nat /\ DOMAIN ne_transcript = 1 .. Len(ne_transcript)
  BY DEF FoundIn, IsSequence
<1>2. ByText(e) = IF I # {} THEN Max(I) ELSE 0
  BY DEF ByText, SelectLastInSeq
<1>3. I \subseteq 1 .. Len(ne_transcript)
  OBVIOUS
<1>4. (ByText(e) = 0 <=> I = {}) /\ (ByText(e) # 0 => ByText(e) \in I)
  <2>. HIDE DEF I
  <2>. QED
    BY <1>1, <1>2, <1>3, LastPlace
<1>. QED
  BY <1>1, <1>4

LEMMA MatchedExactly ==
  ASSUME NEW e, EntityRight(e)
  PROVE  LET match == do_exact_match(e) IN
         /\ match # None => Within(match, request.transcript.text)
         /\ match = None => \A t \in ToSet(etrans(e)) : ~ Within(t, request.transcript.text)
<1>. DEFINE s == etrans(e)
            I == {i \in 1 .. Len(s) : Within(s[i], request.transcript.text)}
            n == IF I # {} THEN Min(I) ELSE 0
<1>1. Len(s) \in Nat /\ DOMAIN s = 1 .. Len(s) /\ \A t \in ToSet(s) : t # None
  BY DEF EntityRight, IsSequence
<1>2. do_exact_match(e) = IF n = 0 THEN None ELSE s[n]
  BY DEF do_exact_match, SelectInSeq
<1>3. I \subseteq 1 .. Len(s)
  OBVIOUS
<1>. HIDE DEF s
<1>4. (n = 0 <=> I = {}) /\ (n # 0 => n \in I)
  <2>. HIDE DEF I
  <2>. QED
    BY <1>1, <1>3, FirstPlace
<1>. HIDE DEF n
<1>5. CASE n = 0
  <2>1. \A t \in ToSet(s) : ~ Within(t, request.transcript.text)
    BY <1>1, <1>4, <1>5 DEF ToSet
  <2>. QED
    BY <1>2, <1>5, <2>1 DEF s
<1>6. CASE n # 0
  <2>1. n \in DOMAIN s /\ Within(s[n], request.transcript.text)
    BY <1>1, <1>4, <1>6
  <2>2. s[n] # None
    BY <1>1, <2>1 DEF ToSet
  <2>. QED
    BY <1>2, <1>6, <2>1, <2>2
<1>. QED
  BY <1>5, <1>6

-----------------------------------------------------------------------------
(***************************************************************************)
(* What the pairing keeps of them.                                         *)
(***************************************************************************)

EntitiesFound ==
  /\ RequestOK(request)
  /\ FoundIn(ne_transcript, request.transcript.text)
  /\ FoundIn(ne_translation, request.translation.text)

\* An entity that was paired by its ids had none better that is still there, ...
BestChosen ==
  \A n \in DOMAIN pairing : pairing[n].how = "ids" =>
    \A m \in DOMAIN ne_transcript :
      LET ids == ne_translation[pairing[n].entity].ids
      IN  Cardinality(ne_transcript[m].ids \cap ids) <= Cardinality(pairing[n].with.ids \cap ids)

\* ... and for one that was postponed there is nothing.
NothingFits ==
  \A n \in DOMAIN to_be_aligned :
    LET e == ne_translation[to_be_aligned[n]]
    IN  /\ \A m \in DOMAIN ne_transcript :
             ne_transcript[m].ids \cap e.ids = {} /\ ne_transcript[m].text \notin ToSet(etrans(e))
        /\ \A t \in ToSet(etrans(e)) : ~ Within(t, request.transcript.text)

\* The places of the triples that an entity of the transcript was used up for.
UsedFor(p, e) == {n \in DOMAIN p : p[n].how \in {"ids", "text"} /\ p[n].with = e}

AllThere ==
  phase \in {"pair", "align", "finish", "done"} =>
    \A e \in ToSet(extract_ne(request.transcript, request.src_lang)) :
      Cardinality(Places(extract_ne(request.transcript, request.src_lang), e)) =
        Cardinality(Places(ne_transcript, e)) + Cardinality(UsedFor(pairing, e))

ResultInv == EntitiesFound /\ BestChosen /\ NothingFits /\ AllThere

LEMMA UsedOnceMore ==
  ASSUME NEW p, IsSequence(p), NEW x, NEW e
  PROVE  /\ Cardinality(UsedFor(p, e)) \in Nat
         /\ Cardinality(UsedFor(Append(p, x), e)) =
              IF x.how \in {"ids", "text"} /\ x.with = e THEN Cardinality(UsedFor(p, e)) + 1
              ELSE Cardinality(UsedFor(p, e))
<1>. DEFINE A == Append(p, x)
<1>1. /\ Len(p) \in Nat /\ DOMAIN p = 1 .. Len(p) /\ DOMAIN A = 1 .. Len(p) + 1
      /\ \A n \in 1 .. Len(p) : A[n] = p[n]
      /\ A[Len(p) + 1] = x
  BY AppendedSequence
<1>. HIDE DEF A
<1>2. /\ IsFiniteSet(UsedFor(p, e)) /\ Cardinality(UsedFor(p, e)) \in Nat
      /\ Len(p) + 1 \notin UsedFor(p, e)
  <2>1. UsedFor(p, e) \subseteq 1 .. Len(p) /\ Len(p) + 1 \notin 1 .. Len(p)
    BY <1>1 DEF UsedFor
  <2>2. 1 \in Int /\ Len(p) \in Int
    BY <1>1
  <2>. QED
    BY <2>1, <2>2, FS_Interval, FS_Subset, FS_CardinalityType
<1>3. UsedFor(A, e) = IF x.how \in {"ids", "text"} /\ x.with = e
                      THEN UsedFor(p, e) \cup {Len(p) + 1} ELSE UsedFor(p, e)
  <2>1. \A n \in DOMAIN A : (n \in DOMAIN p /\ A[n] = p[n]) \/ n = Len(p) + 1
    BY <1>1
  <2>2. DOMAIN p \subseteq DOMAIN A /\ Len(p) + 1 \in DOMAIN A
    BY <1>1
  <2>. QED
    BY <1>1, <2>1, <2>2 DEF UsedFor
<1>4. Cardinality(UsedFor(A, e)) =
        IF x.how \in {"ids", "text"} /\ x.with = e THEN Cardinality(UsedFor(p, e)) + 1
        ELSE Cardinality(UsedFor(p, e))
  BY <1>2, <1>3, FS_AddElement
<1>. QED
  BY <1>2, <1>4 DEF A

\* A triple for which no entity of the transcript is used up.
LEMMA OtherPair ==
  ASSUME ResultInv, IsSequence(pairing), phase \in {"pair", "align"}, phase' = phase,
         UNCHANGED <<request, ne_transcript, ne_translation, to_be_aligned>>,
         NEW elt, pairing' = Append(pairing, elt), elt.how \notin {"ids", "text"}
  PROVE  ResultInv'
<1>1. EntitiesFound' /\ NothingFits'
  BY DEF ResultInv, EntitiesFound, NothingFits
<1>2. BestChosen'
  <2>1. /\ Len(pairing) \in Nat
        /\ DOMAIN pairing = 1 .. Len(pairing) /\ DOMAIN pairing' = 1 .. Len(pairing) + 1
        /\ \A n \in 1 .. Len(pairing) : pairing'[n] = pairing[n]
        /\ pairing'[Len(pairing) + 1] = elt
    BY AppendedSequence
  <2>2. \A n \in DOMAIN pairing' : pairing'[n].how = "ids" => n \in DOMAIN pairing /\ pairing'[n] = pairing[n]
    BY <2>1
  <2>. QED
    BY <2>2 DEF ResultInv, BestChosen
<1>3. AllThere'
  BY UsedOnceMore DEF ResultInv, AllThere
<1>. QED
  BY <1>1, <1>2, <1>3 DEF ResultInv

LEMMA PairNextResult ==
  ASSUME ResultInv, PairingInv, PairNext
  PROVE  ResultInv'
<1>. DEFINE e       == ne_translation[next]
            found   == IF ByIds(e) # 0 THEN ByIds(e) ELSE ByText(e)
            current == ne_transcript[found]
            match   == do_exact_match(e)
            how     == IF ByIds(e) # 0 THEN "ids" ELSE "text"
<1>1. /\ phase = "pair" /\ phase' = phase
      /\ UNCHANGED <<request, ne_translation>>
      /\ next \in Nat \ {0} /\ next <= Len(ne_translation)
  BY DEF PairNext, PairingInv
<1>2. /\ IsSequence(pairing) /\ IsSequence(to_be_aligned)
      /\ FoundIn(ne_transcript, request.transcript.text)
  BY DEF PairingInv, ResultInv, EntitiesFound
<1>3. EntityRight(e)
  <2>1. DOMAIN ne_translation = 1 .. Len(ne_translation) /\ Len(ne_translation) \in Nat
    BY DEF ResultInv, EntitiesFound, FoundIn, IsSequence
  <2>. QED
    BY <1>1, <2>1 DEF ResultInv, EntitiesFound, FoundIn
<1>4. CASE found # 0
  <2>1. /\ ne_transcript' = RemoveFirst(ne_transcript, current)
        /\ paired' = Append(paired, Triple(current.text, e.text, e.type))
        /\ pairing' = Append(pairing, [how |-> how, entity |-> next, with |-> current])
        /\ to_be_aligned' = to_be_aligned
    BY <1>4 DEF PairNext, Pair, Postponed, remove
  <2>2. found \in DOMAIN ne_transcript
    BY <1>2, <1>3, <1>4, MostInCommon, FoundByText DEF EntityRight
  <2>3. how = "ids" => \A m \in DOMAIN ne_transcript :
                         Cardinality(ne_transcript[m].ids \cap e.ids) <= Cardinality(current.ids \cap e.ids)
    <3>1. SUFFICES ASSUME how = "ids", NEW m \in DOMAIN ne_transcript
                   PROVE  Cardinality(ne_transcript[m].ids \cap e.ids) <= Cardinality(current.ids \cap e.ids)
      OBVIOUS
    <3>2. ByIds(e) # 0 /\ found = ByIds(e)
      BY <3>1
    <3>3. Common(e, m) <= Common(e, found)
      BY <1>2, <1>3, <3>1, <3>2, MostInCommon DEF EntityRight
    <3>4. /\ ne_transcript[m].ids \cap e.ids = e.ids \cap ne_transcript[m].ids
          /\ current.ids \cap e.ids = e.ids \cap ne_transcript[found].ids
      OBVIOUS
    <3>. QED
      BY <3>3, <3>4 DEF Common
  <2>. HIDE DEF e, found, current, match, how
  <2>4. current \in ToSet(ne_transcript) /\ current = ne_transcript[found]
    BY <2>2 DEF ToSet, current
  <2>5. how \in {"ids", "text"}
    BY DEF how
  <2>6. /\ IsSequence(ne_transcript')
        /\ \A n \in DOMAIN ne_transcript' : \E m \in DOMAIN ne_transcript : ne_transcript'[n] = ne_transcript[m]
        /\ Cardinality(Places(ne_transcript, current)) = Cardinality(Places(ne_transcript', current)) + 1
        /\ \A x : x # current =>
             Cardinality(Places(ne_transcript, x)) = Cardinality(Places(ne_transcript', x))
    BY <1>2, <2>1, <2>4, RemovedOnce DEF FoundIn
  <2>7. EntitiesFound'
    BY <1>1, <2>6 DEF ResultInv, EntitiesFound, FoundIn
  <2>8. NothingFits'
    BY <1>1, <2>1, <2>6 DEF ResultInv, NothingFits
  <2>. DEFINE elt == [how |-> how, entity |-> next, with |-> current]
  <2>9. elt.how = how /\ elt.entity = next /\ elt.with = current /\ pairing' = Append(pairing, elt)
    BY <2>1
  <2>. HIDE DEF elt
  <2>10. BestChosen'
    <3>1. /\ Len(pairing) \in Nat
          /\ DOMAIN pairing = 1 .. Len(pairing) /\ DOMAIN pairing' = 1 .. Len(pairing) + 1
          /\ \A n \in 1 .. Len(pairing) : pairing'[n] = pairing[n]
          /\ pairing'[Len(pairing) + 1] = elt
      BY <1>2, <2>9, AppendedSequence
    <3>2. \A n \in DOMAIN pairing' : (n \in DOMAIN pairing /\ pairing'[n] = pairing[n]) \/ pairing'[n] = elt
      BY <3>1
    <3>3. ASSUME NEW n \in DOMAIN pairing', pairing'[n].how = "ids", NEW m \in DOMAIN ne_transcript'
          PROVE  LET ids == ne_translation[pairing'[n].entity].ids
                 IN  Cardinality(ne_transcript'[m].ids \cap ids)
                       <= Cardinality(pairing'[n].with.ids \cap ids)
      <4>1. PICK k \in DOMAIN ne_transcript : ne_transcript'[m] = ne_transcript[k]
        BY <2>6
      <4>2. CASE n \in DOMAIN pairing /\ pairing'[n] = pairing[n]
        BY <3>3, <4>1, <4>2 DEF ResultInv, BestChosen
      <4>3. CASE pairing'[n] = elt
        BY <2>3, <2>9, <3>3, <4>1, <4>3 DEF e
      <4>. QED
        BY <3>2, <4>2, <4>3
    <3>. QED
      BY <1>1, <3>3 DEF BestChosen
  <2>11. AllThere'
    <3>1. \A x : /\ Cardinality(UsedFor(pairing, x)) \in Nat
                 /\ Cardinality(UsedFor(pairing', x)) =
                      IF x = current THEN Cardinality(UsedFor(pairing, x)) + 1
                      ELSE Cardinality(UsedFor(pairing, x))
      BY <1>2, <2>5, <2>9, UsedOnceMore
    <3>2. \A x : Cardinality(Places(ne_transcript', x)) \in Nat
      BY <2>6, PlacesFinite
    <3>3. \A x : Cardinality(Places(ne_transcript', x)) + Cardinality(UsedFor(pairing', x))
                   = Cardinality(Places(ne_transcript, x)) + Cardinality(UsedFor(pairing, x))
      <4>1. TAKE x
      <4>2. CASE x = current
        BY <2>6, <3>1, <3>2, <4>2
      <4>3. CASE x # current
        BY <2>6, <3>1, <3>2, <4>3
      <4>. QED
        BY <4>2, <4>3
    <3>. QED
      BY <1>1, <3>3 DEF ResultInv, AllThere
  <2>. QED
    BY <2>7, <2>8, <2>10, <2>11 DEF ResultInv
<1>5. CASE found = 0 /\ match # None
  <2>1. /\ UNCHANGED <<ne_transcript, to_be_aligned>>
        /\ pairing' = Append(pairing, [how |-> "exact", entity |-> next, with |-> None])
    BY <1>5 DEF PairNext, Pair, Postponed
  <2>. HIDE DEF e, found, match
  <2>. DEFINE elt == [how |-> "exact", entity |-> next, with |-> None]
  <2>2. elt.how \notin {"ids", "text"} /\ pairing' = Append(pairing, elt)
    BY <2>1
  <2>. HIDE DEF elt
  <2>. QED
    BY <1>1, <1>2, <2>1, <2>2, OtherPair
<1>6. CASE found = 0 /\ match = None
  <2>1. /\ UNCHANGED <<ne_transcript, paired, pairing>>
        /\ to_be_aligned' = Append(to_be_aligned, next)
    BY <1>6 DEF PairNext, Postponed
  <2>2. /\ \A m \in DOMAIN ne_transcript :
             ne_transcript[m].ids \cap e.ids = {} /\ ne_transcript[m].text \notin ToSet(etrans(e))
        /\ \A t \in ToSet(etrans(e)) : ~ Within(t, request.transcript.text)
    <3>1. ByIds(e) = 0 /\ ByText(e) = 0
      BY <1>2, <1>3, <1>6, MostInCommon DEF EntityRight
    <3>. QED
      BY <1>2, <1>3, <1>6, <3>1, MostInCommon, FoundByText, MatchedExactly DEF EntityRight
  <2>. HIDE DEF found, match
  <2>3. NothingFits'
    <3>1. /\ Len(to_be_aligned) \in Nat
          /\ DOMAIN to_be_aligned = 1 .. Len(to_be_aligned)
          /\ DOMAIN to_be_aligned' = 1 .. Len(to_be_aligned) + 1
          /\ \A n \in 1 .. Len(to_be_aligned) : to_be_aligned'[n] = to_be_aligned[n]
          /\ to_be_aligned'[Len(to_be_aligned) + 1] = next
      BY <1>2, <2>1, AppendedSequence
    <3>2. \A n \in DOMAIN to_be_aligned' :
            (n \in DOMAIN to_be_aligned /\ to_be_aligned'[n] = to_be_aligned[n])
              \/ to_be_aligned'[n] = next
      BY <3>1
    <3>. QED
      BY <1>1, <2>1, <2>2, <3>2 DEF ResultInv, NothingFits
  <2>. QED
    BY <1>1, <2>1, <2>3 DEF ResultInv, EntitiesFound, BestChosen, AllThere
<1>. QED
  BY <1>4, <1>5, <1>6

LEMMA InitResult == Init => ResultInv
<1>. SUFFICES ASSUME Init PROVE ResultInv
  OBVIOUS
<1>1. /\ request \in Requests /\ phase = "extract" /\ ne_transcript = << >> /\ ne_translation = << >>
      /\ to_be_aligned = << >> /\ paired = << >> /\ pairing = << >>
  BY DEF Init
<1>2. IsSequence(<< >>) /\ DOMAIN << >> = {}
  BY DEF IsSequence
<1>3. RequestOK(request)
  BY <1>1, RequestsAssumption
<1>. QED
  BY <1>1, <1>2, <1>3
     DEF ResultInv, EntitiesFound, FoundIn, BestChosen, NothingFits, AllThere

LEMMA ExtractResult ==
  ASSUME ResultInv, PairingInv, Extract
  PROVE  ResultInv'
<1>. DEFINE all == extract_ne(request.transcript, request.src_lang)
<1>1. /\ phase = "extract" /\ phase' = "pair" /\ UNCHANGED <<request, to_be_aligned, paired, pairing>>
      /\ ne_transcript' = all
      /\ ne_translation' = extract_ne(request.translation, request.tgt_lang)
  BY DEF Extract
<1>2. pairing = << >> /\ to_be_aligned = << >> /\ IsSequence(<< >>)
  BY <1>1 DEF PairingInv, IsSequence
<1>3. EntitiesFound'
  BY <1>1, ExtractedRight DEF ResultInv, EntitiesFound, RequestOK
<1>. HIDE DEF all
<1>4. BestChosen' /\ NothingFits'
  BY <1>1, <1>2 DEF BestChosen, NothingFits
<1>5. AllThere'
  <2>1. \A e : Cardinality(Places(all, e)) \in Nat
    BY <1>1, <1>3, PlacesFinite DEF EntitiesFound, FoundIn
  <2>2. \A e : UsedFor(pairing, e) = {}
    BY <1>2 DEF UsedFor
  <2>3. \A e : Cardinality(UsedFor(pairing', e)) = 0
    BY <1>1, <2>2, FS_EmptySet
  <2>4. \A e : Cardinality(Places(all, e)) =
                 Cardinality(Places(ne_transcript', e)) + Cardinality(UsedFor(pairing', e))
    BY <1>1, <2>1, <2>3
  <2>. QED
    BY <1>1, <2>4 DEF AllThere, all
<1>. QED
  BY <1>3, <1>4, <1>5 DEF ResultInv

\* A step of the second loop makes a triple without using up an entity, or none.
LEMMA AlignStepResult ==
  ASSUME ResultInv, IsSequence(pairing), NEW n, Aligning(n), AlignedNext,
         \/ pairing' = pairing
         \/ \E elt : pairing' = Append(pairing, elt) /\ elt.how \notin {"ids", "text"}
  PROVE  ResultInv'
<1>1. /\ phase = "align" /\ phase' = phase
      /\ UNCHANGED <<request, ne_transcript, ne_translation, to_be_aligned>>
  BY DEF Aligning, AlignedNext
<1>2. CASE pairing' = pairing
  BY <1>1, <1>2 DEF ResultInv, EntitiesFound, BestChosen, NothingFits, AllThere
<1>3. CASE \E elt : pairing' = Append(pairing, elt) /\ elt.how \notin {"ids", "text"}
  BY <1>1, <1>3, OtherPair
<1>. QED
  BY <1>2, <1>3

LEMMA AlignResult ==
  ASSUME ResultInv, IsSequence(pairing),
         AlignByType \/ AlignPerson \/ AlignCardinal \/ AlignFails
  PROVE  ResultInv'
<1>1. PICK n \in DOMAIN ne_translation :
         /\ Aligning(n) /\ AlignedNext
         /\ \/ pairing' = pairing
            \/ \E how \in {"type", "fuzzy", "cardinal"} : \E se :
                 pairing' = Append(pairing, [how |-> how, entity |-> n, with |-> se])
  <2>1. CASE AlignByType
    BY <2>1 DEF AlignByType, Pair
  <2>2. CASE AlignPerson
    BY <2>2 DEF AlignPerson, Pair, Skip
  <2>3. CASE AlignCardinal
    BY <2>3 DEF AlignCardinal, Pair, Skip
  <2>4. CASE AlignFails
    BY <2>4 DEF AlignFails, Skip
  <2>. QED
    BY <2>1, <2>2, <2>3, <2>4
<1>2. \/ pairing' = pairing
      \/ \E elt : pairing' = Append(pairing, elt) /\ elt.how \notin {"ids", "text"}
  <2>1. ASSUME NEW how \in {"type", "fuzzy", "cardinal"}, NEW se,
               pairing' = Append(pairing, [how |-> how, entity |-> n, with |-> se])
        PROVE  \E elt : pairing' = Append(pairing, elt) /\ elt.how \notin {"ids", "text"}
    <3>. DEFINE elt == [how |-> how, entity |-> n, with |-> se]
    <3>1. pairing' = Append(pairing, elt) /\ elt.how \notin {"ids", "text"}
      BY <2>1
    <3>. HIDE DEF elt
    <3>. QED
      BY <3>1
  <2>. QED
    BY <1>1, <2>1
<1>. QED
  BY <1>1, <1>2, AlignStepResult

LEMMA NextResult == ResultInv /\ PairingInv /\ [Next]_vars => ResultInv'
<1>. SUFFICES ASSUME ResultInv, PairingInv, [Next]_vars PROVE ResultInv'
  OBVIOUS
<1>. USE DEF ResultInv
<1>1. CASE Extract
  BY <1>1, ExtractResult
<1>2. CASE PairNext
  BY <1>2, PairNextResult
<1>3. CASE AlignByType \/ AlignPerson \/ AlignCardinal \/ AlignFails
  BY <1>3, AlignResult DEF PairingInv
<1>4. CASE PairingEnds \/ AlignmentEnds
  BY <1>4 DEF PairingEnds, AlignmentEnds,
              EntitiesFound, BestChosen, NothingFits, AllThere
<1>5. CASE Finish
  BY <1>5 DEF Finish, EntitiesFound, BestChosen, NothingFits, AllThere
<1>6. CASE ExtractFails \/ FinishFails
  BY <1>6 DEF ExtractFails, FinishFails, Raise,
              EntitiesFound, BestChosen, NothingFits, AllThere
<1>7. CASE UNCHANGED vars
  BY <1>7 DEF vars, EntitiesFound, BestChosen, NothingFits, AllThere
<1>. QED
  BY <1>1, <1>2, <1>3, <1>4, <1>5, <1>6, <1>7 DEF Next

LEMMA ResultAlways == Spec => []ResultInv
<1>. QED
  BY InitResult, NextResult, InitPairing, NextPairing, PTL DEF Spec

\* No entity of the transcript goes astray: each is still there or was used up by one triple,
\* as often as it was found, although a removal takes the first that is equal.
THEOREM NoneGoesAstray == Spec => []NothingIsLost
<1>1. ResultInv => NothingIsLost
  BY DEF ResultInv, AllThere, NothingIsLost, CountIn, Places, UsedFor
<1>. QED
  BY <1>1, ResultAlways, PTL

\* What is paired by ids is paired with the best that was there, and what is postponed has
\* nothing to be paired with, also after later entities have taken theirs.
THEOREM NoneIsOverlooked == Spec => []NothingOverlooked
<1>1. ResultInv => NothingOverlooked
  BY DEF ResultInv, BestChosen, NothingFits, NothingOverlooked, ToSet
<1>. QED
  BY <1>1, ResultAlways, PTL

-----------------------------------------------------------------------------
(***************************************************************************)
(* What the two loops leave without a triple.                              *)
(***************************************************************************)

HasTriple(n)   == \E k \in DOMAIN pairing : pairing[k].entity = n
IsPostponed(n) == \E m \in DOMAIN to_be_aligned : to_be_aligned[m] = n
NotAlone(n)    ==
  Cardinality({m \in DOMAIN ne_transcript : ne_transcript[m].type = ne_translation[n].type}) # 1

\* The first loop has no entity behind it that it neither paired nor postponed, ...
FirstLoop ==
  /\ phase = "extract" => next = 1
  /\ phase \in {"pair", "align", "finish", "done"} =>
       \A n \in DOMAIN ne_translation :
         (phase = "pair" => n < next) => HasTriple(n) \/ IsPostponed(n)

\* ... and the second one none whose type would have told its partner.
SecondLoop ==
  phase \in {"align", "finish", "done"} =>
    \A m \in DOMAIN to_be_aligned :
      (phase = "align" => m < next) => HasTriple(to_be_aligned[m]) \/ NotAlone(to_be_aligned[m])

SeenInv == FirstLoop /\ SecondLoop

\* A triple more leaves those there are.
LEMMA TriplesStay ==
  ASSUME IsSequence(pairing), NEW elt, pairing' = Append(pairing, elt)
  PROVE  /\ \A n : HasTriple(n) => HasTriple(n)'
         /\ HasTriple(elt.entity)'
<1>1. /\ Len(pairing) \in Nat
      /\ DOMAIN pairing = 1 .. Len(pairing) /\ DOMAIN pairing' = 1 .. Len(pairing) + 1
      /\ \A k \in 1 .. Len(pairing) : pairing'[k] = pairing[k]
      /\ pairing'[Len(pairing) + 1] = elt
  BY AppendedSequence
<1>2. DOMAIN pairing \subseteq DOMAIN pairing' /\ Len(pairing) + 1 \in DOMAIN pairing'
  BY <1>1
<1>. QED
  BY <1>1, <1>2 DEF HasTriple

LEMMA PairNextSeen ==
  ASSUME SeenInv, PairingInv, IsSequence(ne_translation), PairNext
  PROVE  SeenInv'
<1>0. PICK at : at = next
  OBVIOUS
<1>1. /\ phase = "pair" /\ phase' = "pair" /\ next' = next + 1 /\ next \in Nat
      /\ UNCHANGED ne_translation
      /\ DOMAIN ne_translation \subseteq Nat
  <2>1. DOMAIN ne_translation \subseteq Nat
    BY AppendedSequence
  <2>. QED
    BY <2>1 DEF PairNext, PairingInv
<1>2. \/ /\ \E elt : elt.entity = at /\ pairing' = Append(pairing, elt)
         /\ to_be_aligned' = to_be_aligned
      \/ /\ pairing' = pairing
         /\ to_be_aligned' = Append(to_be_aligned, at)
  BY <1>0, PairNextStep
<1>3. IsSequence(pairing) /\ IsSequence(to_be_aligned)
  BY DEF PairingInv
<1>4. \A n : HasTriple(n) => HasTriple(n)'
  <2>1. CASE pairing' = pairing
    BY <2>1 DEF HasTriple
  <2>2. CASE \E elt : elt.entity = at /\ pairing' = Append(pairing, elt)
    BY <1>3, <2>2, TriplesStay
  <2>. QED
    BY <1>2, <2>1, <2>2
<1>5. /\ \A n : IsPostponed(n) => IsPostponed(n)'
      /\ HasTriple(at)' \/ IsPostponed(at)'
  <2>1. CASE \E elt : /\ elt.entity = at /\ pairing' = Append(pairing, elt)
                      /\ to_be_aligned' = to_be_aligned
    <3>1. PICK elt : /\ elt.entity = at /\ pairing' = Append(pairing, elt)
                     /\ to_be_aligned' = to_be_aligned
      BY <2>1
    <3>2. HasTriple(at)'
      BY <1>3, <3>1, TriplesStay
    <3>. QED
      BY <3>1, <3>2 DEF IsPostponed
  <2>2. CASE to_be_aligned' = Append(to_be_aligned, at)
    <3>1. /\ Len(to_be_aligned) \in Nat
          /\ DOMAIN to_be_aligned = 1 .. Len(to_be_aligned)
          /\ DOMAIN to_be_aligned' = 1 .. Len(to_be_aligned) + 1
          /\ \A m \in 1 .. Len(to_be_aligned) : to_be_aligned'[m] = to_be_aligned[m]
          /\ to_be_aligned'[Len(to_be_aligned) + 1] = at
      BY <1>3, <2>2, AppendedSequence
    <3>2. DOMAIN to_be_aligned \subseteq DOMAIN to_be_aligned'
          /\ Len(to_be_aligned) + 1 \in DOMAIN to_be_aligned'
      BY <3>1
    <3>. QED
      BY <3>1, <3>2 DEF IsPostponed
  <2>. QED
    BY <1>2, <2>1, <2>2
<1>6. FirstLoop'
  <2>1. SUFFICES ASSUME NEW n \in DOMAIN ne_translation, n < next + 1
                 PROVE  (HasTriple(n) \/ IsPostponed(n))'
    BY <1>1 DEF FirstLoop
  <2>2. CASE n = at
    BY <1>5, <2>2
  <2>3. CASE n # at
    <3>1. n < next
      BY <1>0, <1>1, <2>1, <2>3
    <3>. QED
      BY <1>1, <1>4, <1>5, <3>1 DEF SeenInv, FirstLoop
  <2>. QED
    BY <2>2, <2>3
<1>. QED
  BY <1>1, <1>6 DEF SeenInv, SecondLoop

\* A step of the second loop pairs the entity it is at, unless its type is not enough.
LEMMA AlignSeen ==
  ASSUME SeenInv, PairingInv, AlignByType \/ AlignPerson \/ AlignCardinal \/ AlignFails
  PROVE  SeenInv'
<1>1. PICK n \in DOMAIN ne_translation :
         /\ Aligning(n) /\ AlignedNext
         /\ \/ NotAlone(n) /\ pairing' = pairing
            \/ \E how, se : pairing' = Append(pairing, [how |-> how, entity |-> n, with |-> se])
  <2>1. CASE AlignByType
    BY <2>1 DEF AlignByType, Pair
  <2>2. CASE AlignPerson
    BY <2>2 DEF AlignPerson, Pair, Skip, same_type, NotAlone
  <2>3. CASE AlignCardinal
    BY <2>3 DEF AlignCardinal, Pair, Skip, same_type, NotAlone
  <2>4. CASE AlignFails
    BY <2>4 DEF AlignFails, Skip, same_type, NotAlone
  <2>. QED
    BY <2>1, <2>2, <2>3, <2>4
<1>2. /\ phase = "align" /\ phase' = "align" /\ next' = next + 1 /\ next \in Nat
      /\ UNCHANGED <<ne_transcript, ne_translation, to_be_aligned>>
      /\ n = to_be_aligned[next] /\ IsSequence(pairing)
      /\ DOMAIN to_be_aligned \subseteq Nat
  <2>1. DOMAIN to_be_aligned \subseteq Nat
    BY AppendedSequence DEF PairingInv
  <2>. QED
    BY <1>1, <2>1 DEF Aligning, AlignedNext, PairingInv
<1>3. /\ \A m : HasTriple(m) => HasTriple(m)'
      /\ HasTriple(n)' \/ NotAlone(n)
  <2>1. CASE NotAlone(n) /\ pairing' = pairing
    BY <2>1 DEF HasTriple
  <2>2. CASE \E how, se : pairing' = Append(pairing, [how |-> how, entity |-> n, with |-> se])
    <3>1. PICK how, se : pairing' = Append(pairing, [how |-> how, entity |-> n, with |-> se])
      BY <2>2
    <3>. DEFINE elt == [how |-> how, entity |-> n, with |-> se]
    <3>2. elt.entity = n /\ pairing' = Append(pairing, elt)
      BY <3>1
    <3>. HIDE DEF elt
    <3>. QED
      BY <1>2, <3>2, TriplesStay
  <2>. QED
    BY <1>1, <2>1, <2>2
<1>4. \A m : IsPostponed(m) => IsPostponed(m)'
  BY <1>2 DEF IsPostponed
<1>5. \A m : NotAlone(m) => NotAlone(m)'
  BY <1>2 DEF NotAlone
<1>6. FirstLoop'
  BY <1>2, <1>3, <1>4 DEF SeenInv, FirstLoop
<1>7. SecondLoop'
  <2>1. SUFFICES ASSUME NEW m \in DOMAIN to_be_aligned, m < next + 1
                 PROVE  (HasTriple(to_be_aligned[m]) \/ NotAlone(to_be_aligned[m]))'
    BY <1>2 DEF SecondLoop
  <2>2. CASE m = next
    BY <1>2, <1>3, <1>5, <2>2
  <2>3. CASE m # next
    <3>1. m < next
      BY <1>2, <2>1, <2>3
    <3>2. HasTriple(to_be_aligned[m]) \/ NotAlone(to_be_aligned[m])
      BY <1>2, <3>1 DEF SeenInv, SecondLoop
    <3>. QED
      BY <1>2, <1>3, <1>5, <3>2
  <2>. QED
    BY <2>2, <2>3
<1>. QED
  BY <1>6, <1>7 DEF SeenInv

\* A loop that ends has been at all of its entities.
LEMMA LoopEndsSeen ==
  ASSUME SeenInv, PairingInv, IsSequence(ne_translation), PairingEnds \/ AlignmentEnds
  PROVE  SeenInv'
<1>1. UNCHANGED <<ne_transcript, ne_translation, to_be_aligned, pairing>>
  BY DEF PairingEnds, AlignmentEnds
<1>2. /\ \A n : HasTriple(n) <=> HasTriple(n)'
      /\ \A n : IsPostponed(n) <=> IsPostponed(n)'
      /\ \A n : NotAlone(n) <=> NotAlone(n)'
  BY <1>1 DEF HasTriple, IsPostponed, NotAlone
<1>3. /\ DOMAIN ne_translation = 1 .. Len(ne_translation) /\ Len(ne_translation) \in Nat
      /\ DOMAIN to_be_aligned = 1 .. Len(to_be_aligned) /\ Len(to_be_aligned) \in Nat
      /\ next \in Nat
  BY AppendedSequence DEF PairingInv
<1>4. CASE PairingEnds
  <2>1. /\ phase = "pair" /\ phase' = "align" /\ next' = 1 /\ next > Len(ne_translation)
    BY <1>4 DEF PairingEnds
  <2>2. \A n \in DOMAIN ne_translation : n < next
    BY <1>3, <2>1
  <2>3. FirstLoop'
    BY <1>1, <1>2, <2>1, <2>2 DEF SeenInv, FirstLoop
  <2>4. \A m \in DOMAIN to_be_aligned : ~(m < 1)
    BY <1>3
  <2>. QED
    BY <1>1, <2>1, <2>3, <2>4 DEF SeenInv, SecondLoop
<1>5. CASE AlignmentEnds
  <2>1. /\ phase = "align" /\ phase' = "finish" /\ next > Len(to_be_aligned)
    BY <1>5 DEF AlignmentEnds
  <2>2. \A m \in DOMAIN to_be_aligned : m < next
    BY <1>3, <2>1
  <2>3. FirstLoop'
    BY <1>1, <1>2, <2>1 DEF SeenInv, FirstLoop
  <2>4. SecondLoop'
    BY <1>1, <1>2, <2>1, <2>2 DEF SeenInv, SecondLoop
  <2>. QED
    BY <2>3, <2>4 DEF SeenInv
<1>. QED
  BY <1>4, <1>5

LEMMA NextSeen == SeenInv /\ PairingInv /\ ResultInv /\ [Next]_vars => SeenInv'
<1>. SUFFICES ASSUME SeenInv, PairingInv, ResultInv, [Next]_vars PROVE SeenInv'
  OBVIOUS
<1>1. CASE Extract
  <2>1. /\ phase' = "pair" /\ next' = 1 /\ ne_translation' = extract_ne(request.translation, request.tgt_lang)
    BY <1>1 DEF Extract, SeenInv, FirstLoop
  <2>2. IsSequence(ne_translation')
    BY <2>1, ExtractedRight DEF ResultInv, EntitiesFound, RequestOK, FoundIn
  <2>3. DOMAIN ne_translation' = 1 .. Len(ne_translation')
    BY <2>2 DEF IsSequence
  <2>4. \A n \in DOMAIN ne_translation' : ~(n < 1)
    BY <2>3
  <2>. QED
    BY <2>1, <2>4 DEF SeenInv, FirstLoop, SecondLoop
<1>2. CASE PairNext
  BY <1>2, PairNextSeen DEF ResultInv, EntitiesFound, FoundIn
<1>3. CASE AlignByType \/ AlignPerson \/ AlignCardinal \/ AlignFails
  BY <1>3, AlignSeen
<1>4. CASE PairingEnds \/ AlignmentEnds
  BY <1>4, LoopEndsSeen DEF ResultInv, EntitiesFound, FoundIn
<1>5. CASE Finish
  <2>1. /\ phase = "finish" /\ phase' = "done"
        /\ UNCHANGED <<ne_transcript, ne_translation, to_be_aligned, pairing>>
    BY <1>5 DEF Finish
  <2>. QED
    BY <2>1 DEF SeenInv, FirstLoop, SecondLoop, HasTriple, IsPostponed, NotAlone
<1>6. CASE ExtractFails \/ FinishFails
  BY <1>6 DEF ExtractFails, FinishFails, Raise, SeenInv, FirstLoop, SecondLoop
<1>7. CASE UNCHANGED vars
  BY <1>7 DEF vars, SeenInv, FirstLoop, SecondLoop, HasTriple, IsPostponed, NotAlone
<1>. QED
  BY <1>1, <1>2, <1>3, <1>4, <1>5, <1>6, <1>7 DEF Next

LEMMA InitSeen == Init => SeenInv
<1>. QED
  BY DEF Init, SeenInv, FirstLoop, SecondLoop

\* An entity of the translation that has no triple in the end went through both loops of
\* extract_nes, and what was left of the transcript had none of its type, or several: the
\* only one of a type is never passed over for a fuzzy match or a number.
THEOREM NoneIsLeftOut == Spec => []NoneIsForgotten
<1>1. SeenInv => NoneIsForgotten
  <2>. SUFFICES ASSUME SeenInv, phase \in {"finish", "done"}, NEW n \in DOMAIN ne_translation
                PROVE  \/ \E p \in ToSet(pairing) : p.entity = n
                       \/ /\ n \in ToSet(to_be_aligned)
                          /\ CountIn(ne_transcript, LAMBDA x : x.type = ne_translation[n].type) # 1
    BY DEF NoneIsForgotten
  <2>1. HasTriple(n) \/ IsPostponed(n)
    BY DEF SeenInv, FirstLoop
  <2>2. CASE HasTriple(n)
    BY <2>2 DEF HasTriple, ToSet
  <2>3. CASE IsPostponed(n) /\ ~HasTriple(n)
    <3>1. NotAlone(n) /\ n \in ToSet(to_be_aligned)
      BY <2>3 DEF SeenInv, SecondLoop, IsPostponed, ToSet
    <3>. QED
      BY <3>1 DEF NotAlone, CountIn
  <2>. QED
    BY <2>1, <2>2, <2>3
<1>. QED
  BY <1>1, InitSeen, NextSeen, InitResult, NextResult, InitPairing, NextPairing, PTL DEF Spec

-----------------------------------------------------------------------------
(***************************************************************************)
(* Induction over a fold: FoldLeft makes the result for a set of places    *)
(* of the one without the greatest.                                        *)
(***************************************************************************)

\* The greatest of some places.
LEMMA GreatestOf ==
  ASSUME NEW n \in Nat, NEW s, s \subseteq 1 .. n, s # {}
  PROVE  Max(s) \in s /\ Max(s) \in 1 .. n
<1>1. s \subseteq 0 .. n
  OBVIOUS
<1>2. Max(s) \in s
  BY <1>1, Greatest, Zenon
<1>. QED
  BY <1>2, Zenon

\* Induction over the steps of a fold: iter has the results for the first places.
LEMMA FoldStays ==
  ASSUME NEW n \in Nat, NEW V, NEW iter,
         iter[{}] \in V,
         \A s \in SUBSET (1 .. n) : s # {} /\ iter[s \ {Max(s)}] \in V => iter[s] \in V
  PROVE  iter[1 .. n] \in V
<1>. DEFINE T == {m \in 0 .. n : ~ (iter[1 .. m] \in V)}
<1>1. SUFFICES ASSUME iter[1 .. n] \notin V PROVE FALSE
  OBVIOUS
<1>2. n \in T /\ T \subseteq Nat /\ T # {}
  BY <1>1
<1>. DEFINE m == Min(T)
<1>3. m \in T /\ \A y \in T : m <= y
  <2>. HIDE DEF T
  <2>. QED
    BY <1>2, Least
<1>4. m \in 0 .. n /\ iter[1 .. m] \notin V /\ \A k \in 0 .. n : k < m => iter[1 .. k] \in V
  <2>1. m \in 0 .. n /\ iter[1 .. m] \notin V
    BY <1>3
  <2>2. ASSUME NEW k \in 0 .. n, k < m PROVE iter[1 .. k] \in V
    <3>1. k \notin T
      BY <1>3, <2>1, <2>2
    <3>. QED
      BY <3>1
  <2>. QED
    BY <2>1, <2>2
<1>. HIDE DEF m, T
<1>5. m # 0
  <2>1. 1 .. 0 = {}
    OBVIOUS
  <2>. QED
    BY <1>4, <2>1
<1>6. m - 1 \in 0 .. n /\ m - 1 < m /\ 1 .. m \in SUBSET (1 .. n) /\ 1 .. m # {} /\ 1 .. m \subseteq 0 .. m
  BY <1>4, <1>5
<1>7. Max(1 .. m) = m
  <2>. DEFINE D == 1 .. m
  <2>0. D \subseteq 0 .. m /\ m \in Nat /\ D # {}
    BY <1>4, <1>6
  <2>1. Max(D) \in D /\ \A y \in D : y <= Max(D)
    <3>. HIDE DEF D
    <3>. QED
      BY <2>0, Greatest
  <2>2. m \in 1 .. m
    BY <1>4, <1>5
  <2>. QED
    BY <2>1, <2>2, <1>4
<1>8. (1 .. m) \ {m} = 1 .. m - 1
  BY <1>4, <1>5
<1>. QED
  BY <1>4, <1>6, <1>7, <1>8

\* h has the results of G for the first places, from base on.
Results(h, n, V, base, G) ==
  /\ h \in [SUBSET (1 .. n) -> V]
  /\ \A s \in SUBSET (1 .. n) :
       h[s] = IF s = {} THEN base ELSE G[<<h[s \ {Max(s)}], Max(s)>>]

\* There are such results, whatever one step makes of those in V.
LEMMA FoldExists ==
  ASSUME NEW n \in Nat, NEW V, NEW base \in V, NEW G \in [V \X (1 .. n) -> V]
  PROVE  \E h : Results(h, n, V, base, G)
<1>. DEFINE T == {m \in 0 .. n : ~ \E h : Results(h, m, V, base, G)}
<1>1. SUFFICES ASSUME ~ \E h : Results(h, n, V, base, G) PROVE FALSE
  OBVIOUS
<1>0. \A k : k \in T <=> k \in 0 .. n /\ ~ \E h : Results(h, k, V, base, G)
  BY Zenon
<1>2. n \in T /\ T \subseteq Nat /\ T # {}
  <2>1. n \in 0 .. n
    OBVIOUS
  <2>2. n \in T
    BY <1>0, <1>1, <2>1, Zenon
  <2>3. T \subseteq Nat
    <3>1. T \subseteq 0 .. n
      BY <1>0, Zenon
    <3>2. 0 .. n \subseteq Nat
      OBVIOUS
    <3>. QED
      BY <3>1, <3>2, Zenon
  <2>. QED
    BY <2>2, <2>3, Zenon
<1>. HIDE DEF T
<1>. DEFINE m == Min(T)
<1>3. m \in T /\ \A y \in T : m <= y
    BY <1>2, Least
<1>4. /\ m \in 0 .. n /\ ~ \E h : Results(h, m, V, base, G)
      /\ \A k \in 0 .. n : k < m => \E h : Results(h, k, V, base, G)
  <2>1. m \in 0 .. n /\ ~ \E h : Results(h, m, V, base, G)
    BY <1>0, <1>3, Zenon
  <2>2. ASSUME NEW k \in 0 .. n, k < m PROVE \E h : Results(h, k, V, base, G)
    <3>1. k \notin T
      <4>. HIDE DEF m
      <4>. QED
        BY <1>3, <2>1, <2>2
    <3>. QED
      BY <1>0, <3>1, Zenon
  <2>. QED
    BY <2>1, <2>2
<1>. HIDE DEF m
<1>5. CASE m = 0
  <2>. DEFINE h == [s \in SUBSET (1 .. m) |-> base]
  <2>1. 1 .. m = {}
    BY <1>5
  <2>2. h \in [SUBSET (1 .. m) -> V] /\ \A s \in SUBSET (1 .. m) : s = {} /\ h[s] = base
    BY <2>1
  <2>. HIDE DEF h
  <2>3. Results(h, m, V, base, G)
    BY <2>2 DEF Results
  <2>. QED
    BY <1>4, <2>2, <2>3
<1>6. CASE m # 0
  <2>1. m - 1 \in 0 .. n /\ m - 1 < m /\ m \in 1 .. n
    BY <1>4, <1>6
  <2>2. PICK g : Results(g, m - 1, V, base, G)
    BY <1>4, <2>1
  <2>. DEFINE h == [s \in SUBSET (1 .. m) |->
                      IF m \in s THEN G[<<g[s \ {m}], m>>] ELSE g[s]]
  <2>3. ASSUME NEW s \in SUBSET (1 .. m), m \in s
        PROVE  Max(s) = m /\ s \ {m} \in SUBSET (1 .. m - 1)
    <3>1. m \in Nat /\ s # {} /\ s \subseteq 0 .. m
      <4>1. m \in Nat /\ 1 .. m \subseteq 0 .. m
        BY <2>1
      <4>. QED
        BY <2>3, <4>1
    <3>2. Max(s) \in s /\ \A y \in s : y <= Max(s)
      BY <3>1, Greatest, Zenon
    <3>3. Max(s) = m
      <4>1. Max(s) \in 0 .. m /\ m <= Max(s)
        BY <2>3, <3>1, <3>2, Zenon
      <4>. QED
        BY <3>1, <4>1
    <3>. QED
      BY <2>1, <3>3
  <2>4. ASSUME NEW s \in SUBSET (1 .. m), m \notin s
        PROVE  s \in SUBSET (1 .. m - 1)
    BY <2>1, <2>4
  <2>5. ASSUME NEW s \in SUBSET (1 .. m), s # {}, m \notin s
        PROVE  s \ {Max(s)} \in SUBSET (1 .. m) /\ m \notin s \ {Max(s)}
    BY <2>5
  <2>6. ASSUME NEW s \in SUBSET (1 .. m)
        PROVE  h[s] = IF m \in s THEN G[<<g[s \ {m}], m>>] ELSE g[s]
    OBVIOUS
  <2>7. ASSUME NEW s \in SUBSET (1 .. m) PROVE h[s] \in V
    <3>1. CASE m \in s
      <4>1. g[s \ {m}] \in V
        BY <2>2, <2>3, <3>1 DEF Results
      <4>. QED
        BY <2>1, <2>6, <3>1, <4>1
    <3>2. CASE m \notin s
      BY <2>2, <2>4, <2>6, <3>2 DEF Results
    <3>. QED
      BY <3>1, <3>2
  <2>8. h \in [SUBSET (1 .. m) -> V]
    BY <2>7
  <2>. HIDE DEF h
  <2>9. ASSUME NEW s \in SUBSET (1 .. m)
        PROVE  h[s] = IF s = {} THEN base ELSE G[<<h[s \ {Max(s)}], Max(s)>>]
    <3>1. CASE m \in s
      <4>1. Max(s) = m /\ s \ {m} \in SUBSET (1 .. m) /\ m \notin s \ {m} /\ s # {}
        BY <2>3, <3>1
      <4>2. h[s \ {m}] = g[s \ {m}]
        BY <2>6, <4>1
      <4>. QED
        BY <2>6, <3>1, <4>1, <4>2
    <3>2. CASE m \notin s /\ s # {}
      <4>1. h[s] = g[s] /\ s \in SUBSET (1 .. m - 1)
        BY <2>4, <2>6, <3>2
      <4>2. h[s \ {Max(s)}] = g[s \ {Max(s)}]
        BY <2>5, <2>6, <3>2
      <4>3. g[s] = G[<<g[s \ {Max(s)}], Max(s)>>]
        BY <2>2, <3>2, <4>1 DEF Results
      <4>. QED
        BY <3>2, <4>1, <4>2, <4>3
    <3>3. CASE m \notin s /\ s = {}
      <4>1. h[s] = g[s] /\ s \in SUBSET (1 .. m - 1)
        BY <2>4, <2>6, <3>3
      <4>2. g[s] = base
        BY <2>2, <3>3, <4>1 DEF Results
      <4>. QED
        BY <3>3, <4>1, <4>2
    <3>. QED
      BY <3>1, <3>2, <3>3
  <2>10. Results(h, m, V, base, G)
    BY <2>8, <2>9 DEF Results
  <2>. QED
    BY <1>4, <2>8, <2>10
<1>. QED
  BY <1>5, <1>6

-----------------------------------------------------------------------------
(***************************************************************************)
(* No text becomes empty: the stopwords, and the terms of a dictionary.    *)
(***************************************************************************)

Words(x) == IsSequence(x) /\ x # << >>

\* The stopwords leave at least one unit of a text.
LEMMA CleanedText ==
  ASSUME NEW lang \in DOMAIN Stopwords, NEW text, Words(text)
  PROVE  Words(clean_stopwords(text, lang))
<1>0. PICK S : text \in Seq(S)
  BY DEF Words, IsSequence
<1>. DEFINE sws == Stopwords[lang]
            n   == Len(sws)
            V   == {t \in Seq(S) : t # << >>}
            Step(t, i) == IF Len(t) > 1 /\ Head(t) = sws[i] THEN Tail(t) ELSE t
            Is(iter) == iter = [s \in SUBSET (1 .. n) |->
                                  IF s = {} THEN text ELSE Step(iter[s \ {Max(s)}], Max(s))]
            it  == CHOOSE iter : Is(iter)
<1>1. n \in Nat /\ DOMAIN sws = 1 .. n
  BY StopwordsAssumption
<1>2. text \in V
  BY <1>0 DEF Words
<1>3. \A t \in V, i \in 1 .. n : Step(t, i) \in V
  <2>1. TAKE t \in V, i \in 1 .. n
  <2>2. t \in Seq(S) /\ t # << >> /\ Len(t) \in Nat
    OBVIOUS
  <2>3. CASE Len(t) > 1 /\ Head(t) = sws[i]
    <3>1. Tail(t) \in Seq(S) /\ Len(Tail(t)) = Len(t) - 1
      BY <2>2
    <3>2. Tail(t) # << >>
      <4>1. Len(<< >>) = 0 /\ Len(Tail(t)) # 0
        BY <2>2, <2>3, <3>1
      <4>. QED
        BY <4>1, Zenon
    <3>. QED
      BY <2>3, <3>1, <3>2
  <2>4. CASE ~ (Len(t) > 1 /\ Head(t) = sws[i])
    BY <2>4
  <2>. QED
    BY <2>3, <2>4
<1>4. clean_stopwords(text, lang) = it[1 .. n]
  BY <1>1, Zenon DEF clean_stopwords, FoldLeft, MapThenFoldSet
<1>. HIDE DEF V, Step, n
<1>5. Is(it)
  <2>. DEFINE G == [p \in V \X (1 .. n) |-> Step(p[1], p[2])]
  <2>1. G \in [V \X (1 .. n) -> V] /\ \A t \in V, i \in 1 .. n : G[<<t, i>>] = Step(t, i)
    BY <1>3
  <2>. HIDE DEF G
  <2>0. n \in Nat /\ text \in V /\ G \in [V \X (1 .. n) -> V]
    BY <1>1, <1>2, <2>1, Zenon
  <2>2. PICK h : Results(h, n, V, text, G)
    BY <2>0, FoldExists
  <2>3. ASSUME NEW s \in SUBSET (1 .. n)
        PROVE  h[s] = IF s = {} THEN text ELSE Step(h[s \ {Max(s)}], Max(s))
    <3>1. CASE s = {}
      BY <2>2, <3>1 DEF Results
    <3>2. CASE s # {}
      <4>1. Max(s) \in 1 .. n
        BY <1>1, <3>2, GreatestOf
      <4>2. h[s \ {Max(s)}] \in V
        BY <2>2 DEF Results
      <4>. QED
        BY <2>1, <2>2, <3>2, <4>1, <4>2 DEF Results
    <3>. QED
      BY <3>1, <3>2
  <2>4. Is(h)
    BY <2>2, <2>3 DEF Results
  <2>. HIDE DEF Is
  <2>. QED
    BY <2>4, Zenon
<1>6. \A s \in SUBSET (1 .. n) : s # {} /\ it[s \ {Max(s)}] \in V => it[s] \in V
  <2>1. TAKE s \in SUBSET (1 .. n)
  <2>2. HAVE s # {} /\ it[s \ {Max(s)}] \in V
  <2>3. Max(s) \in 1 .. n
    BY <1>1, <2>2, GreatestOf
  <2>4. it[s] = Step(it[s \ {Max(s)}], Max(s))
    <3>. HIDE DEF it
    <3>. QED
      BY <1>5, <2>2, Zenon
  <2>. HIDE DEF it
  <2>. QED
    BY <1>3, <2>2, <2>3, <2>4
<1>7. it[{}] \in V
  <2>. HIDE DEF it
  <2>. QED
    BY <1>2, <1>5
<1>8. it[1 .. n] \in V
  <2>. HIDE DEF it, Is
  <2>. QED
    BY <1>1, <1>6, <1>7, FoldStays
<1>. QED
  BY <1>4, <1>8 DEF V, Words, IsSequence

\* A triple or a term has two sides.
Sides(p) == {"src", "tgt"} \subseteq DOMAIN p /\ Words(p.src) /\ Words(p.tgt)

AllSides(pairs) == IsSequence(pairs) /\ \A n \in DOMAIN pairs : Sides(pairs[n])

LEMMA StopwordsRemoved ==
  ASSUME NEW pairs, AllSides(pairs),
         pairs = << >> \/ {request.src_lang, request.tgt_lang} \subseteq DOMAIN Stopwords
  PROVE  AllSides(remove_stopwords(pairs)) /\ Len(remove_stopwords(pairs)) = Len(pairs)
<1>. DEFINE r == remove_stopwords(pairs)
            new(p) == [p EXCEPT !.src = clean_stopwords(@, request.src_lang),
                                !.tgt = clean_stopwords(@, request.tgt_lang)]
<1>1. r = [n \in DOMAIN pairs |-> new(pairs[n])]
  BY DEF remove_stopwords
<1>2. Len(pairs) \in Nat /\ DOMAIN pairs = 1 .. Len(pairs)
  BY DEF AllSides, IsSequence
<1>3. ASSUME NEW n \in DOMAIN pairs PROVE Sides(r[n])
  <2>1. Sides(pairs[n]) /\ {request.src_lang, request.tgt_lang} \subseteq DOMAIN Stopwords
    BY <1>2 DEF AllSides
  <2>. DEFINE p == pairs[n]
              a == clean_stopwords(p.src, request.src_lang)
              b == clean_stopwords(p.tgt, request.tgt_lang)
  <2>2. Words(a) /\ Words(b)
    BY <2>1, CleanedText DEF Sides
  <2>3. r[n] = [p EXCEPT !.src = a, !.tgt = b]
    BY <1>1
  <2>. HIDE DEF p, a, b, r
  <2>4. {"src", "tgt"} \subseteq DOMAIN p
    BY <2>1 DEF Sides, p
  <2>5. DOMAIN r[n] = DOMAIN p /\ r[n].src = a /\ r[n].tgt = b
    BY <2>3, <2>4
  <2>. QED
    BY <2>2, <2>4, <2>5 DEF Sides
<1>4. IsSequence(r) /\ Len(r) = Len(pairs) /\ DOMAIN r = DOMAIN pairs
  <2>. DEFINE T == {r[n] : n \in DOMAIN pairs}
  <2>1. r \in [1 .. Len(pairs) -> T]
    BY <1>1, <1>2
  <2>2. r \in Seq(T) /\ Len(r) = Len(pairs)
    <3>. HIDE DEF r, T
    <3>. QED
      BY <1>2, <2>1
  <2>. QED
    BY <1>1, <2>2 DEF IsSequence
<1>. QED
  BY <1>3, <1>4 DEF AllSides

\* What is found and what the dictionary has is not the empty text, which is in every text.
NothingEmpty(r) ==
  /\ \A t \in {r.transcript, r.translation} : \A k \in DOMAIN t.wikidata :
       << >> \notin ToSet(t.wikidata[k].translations)
  /\ \A n \in DOMAIN r.dictionary : << >> \notin ToSet(r.dictionary[n].ts)

LEMMA DictionaryWords ==
  ASSUME RequestOK(request), NothingEmpty(request), NEW i \in DOMAIN request.dictionary
  PROVE  LET entry == request.dictionary[i]
         IN  /\ Words(entry.s) /\ 1 \in DOMAIN entry.ts
             /\ \A j \in DOMAIN entry.ts : Words(entry.ts[j])
<1>. DEFINE entry == request.dictionary[i]
<1>1. /\ IsText(entry.s) /\ entry.s # << >>
      /\ entry.ts \in Seq(ToSet(entry.ts)) /\ entry.ts # << >>
      /\ \A text \in ToSet(entry.ts) : IsText(text)
  BY DEF RequestOK
<1>2. << >> \notin ToSet(entry.ts)
  BY DEF NothingEmpty
<1>. HIDE DEF entry
<1>3. Words(entry.s)
  BY <1>1 DEF IsText, Words, IsSequence
<1>4. 1 \in DOMAIN entry.ts
  BY <1>1
<1>5. ASSUME NEW j \in DOMAIN entry.ts PROVE Words(entry.ts[j])
  <2>1. entry.ts[j] \in ToSet(entry.ts)
    BY <1>5 DEF ToSet
  <2>2. IsText(entry.ts[j]) /\ entry.ts[j] # << >>
    BY <1>1, <1>2, <2>1, Zenon
  <2>. QED
    BY <2>2 DEF IsText, Words, IsSequence
<1>. QED
  BY <1>3, <1>4, <1>5 DEF entry

LEMMA AlternativeThere ==
  ASSUME RequestOK(request), NEW i \in DOMAIN request.dictionary
  PROVE  LET ts == request.dictionary[i].ts
             at == SelectInSeq(ts, LAMBDA t : Within(t, request.translation.text))
         IN  at # 0 => at \in DOMAIN ts /\ at \in Nat
<1>. DEFINE ts == request.dictionary[i].ts
            at == SelectInSeq(ts, LAMBDA t : Within(t, request.translation.text))
            I  == {j \in 1 .. Len(ts) : Within(ts[j], request.translation.text)}
<1>1. Len(ts) \in Nat /\ DOMAIN ts = 1 .. Len(ts)
  BY DEF RequestOK
<1>2. at = IF I # {} THEN Min(I) ELSE 0
  BY DEF SelectInSeq
<1>3. I \subseteq 1 .. Len(ts)
  OBVIOUS
<1>4. at # 0 => at \in I
  <2>. HIDE DEF I
  <2>. QED
    BY <1>1, <1>2, <1>3, FirstPlace
<1>. QED
  BY <1>1, <1>3, <1>4

\* The terms of the transcript have both sides.
LEMMA SourceTermsFound ==
  ASSUME RequestOK(request), NothingEmpty(request)
  PROVE  AllSides(extract_terms_from_source)
<1>. DEFINE d == request.dictionary
            n == Len(d)
            U == {p \in {[src |-> d[q[1]].s, tgt |-> d[q[1]].ts[q[2]]] : q \in (1 .. n) \X Nat} : Sides(p)}
            V == Seq(U)
            Step(found, i) == IF Within(d[i].s, request.transcript.text) /\ d[i].alike
                              THEN Append(found, [src |-> d[i].s, tgt |-> d[i].ts[1]]) ELSE found
            Is(iter) == iter = [s \in SUBSET (1 .. n) |->
                                  IF s = {} THEN << >> ELSE Step(iter[s \ {Max(s)}], Max(s))]
            it == CHOOSE iter : Is(iter)
<1>1. n \in Nat /\ DOMAIN d = 1 .. n
  BY DEF RequestOK
<1>2. << >> \in V
  OBVIOUS
<1>3. \A found \in V, i \in 1 .. n : Step(found, i) \in V
  <2>1. TAKE found \in V, i \in 1 .. n
  <2>2. Words(d[i].s) /\ Words(d[i].ts[1])
    BY <1>1, DictionaryWords
  <2>3. [src |-> d[i].s, tgt |-> d[i].ts[1]] \in U
    <3>1. <<i, 1>> \in (1 .. n) \X Nat
      BY <1>1
    <3>2. [src |-> d[i].s, tgt |-> d[i].ts[1]] \in
             {[src |-> d[q[1]].s, tgt |-> d[q[1]].ts[q[2]]] : q \in (1 .. n) \X Nat}
      BY <3>1
    <3>. DEFINE p == [src |-> d[i].s, tgt |-> d[i].ts[1]]
    <3>3. p.src = d[i].s /\ p.tgt = d[i].ts[1] /\ DOMAIN p = {"src", "tgt"}
      OBVIOUS
    <3>4. Sides(p)
      <4>. HIDE DEF p
      <4>. QED
        BY <2>2, <3>3 DEF Sides
    <3>. QED
      BY <3>2, <3>4
  <2>. HIDE DEF U
  <2>. QED
    BY <2>3
<1>4. extract_terms_from_source = it[1 .. n]
  BY <1>1, Zenon DEF extract_terms_from_source, FoldLeft, MapThenFoldSet
<1>. HIDE DEF V, Step, n
<1>5. Is(it)
  <2>. DEFINE G == [p \in V \X (1 .. n) |-> Step(p[1], p[2])]
  <2>1. G \in [V \X (1 .. n) -> V] /\ \A t \in V, i \in 1 .. n : G[<<t, i>>] = Step(t, i)
    BY <1>3
  <2>. HIDE DEF G
  <2>0. n \in Nat /\ << >> \in V /\ G \in [V \X (1 .. n) -> V]
    BY <1>1, <1>2, <2>1, Zenon
  <2>2. PICK h : Results(h, n, V, << >>, G)
    BY <2>0, FoldExists
  <2>3. ASSUME NEW s \in SUBSET (1 .. n)
        PROVE  h[s] = IF s = {} THEN << >> ELSE Step(h[s \ {Max(s)}], Max(s))
    <3>1. CASE s = {}
      BY <2>2, <3>1 DEF Results
    <3>2. CASE s # {}
      <4>1. Max(s) \in 1 .. n
        BY <1>1, <3>2, GreatestOf
      <4>2. h[s \ {Max(s)}] \in V
        BY <2>2 DEF Results
      <4>. QED
        BY <2>1, <2>2, <3>2, <4>1, <4>2 DEF Results
    <3>. QED
      BY <3>1, <3>2
  <2>4. Is(h)
    BY <2>2, <2>3 DEF Results
  <2>. HIDE DEF Is
  <2>. QED
    BY <2>4, Zenon
<1>6. \A s \in SUBSET (1 .. n) : s # {} /\ it[s \ {Max(s)}] \in V => it[s] \in V
  <2>1. TAKE s \in SUBSET (1 .. n)
  <2>2. HAVE s # {} /\ it[s \ {Max(s)}] \in V
  <2>3. Max(s) \in 1 .. n
    BY <1>1, <2>2, GreatestOf
  <2>4. it[s] = Step(it[s \ {Max(s)}], Max(s))
    <3>. HIDE DEF it
    <3>. QED
      BY <1>5, <2>2, Zenon
  <2>. HIDE DEF it
  <2>. QED
    BY <1>3, <2>2, <2>3, <2>4
<1>7. it[{}] \in V
  <2>. HIDE DEF it
  <2>. QED
    BY <1>2, <1>5
<1>8. it[1 .. n] \in V
  <2>. HIDE DEF it, Is
  <2>. QED
    BY <1>1, <1>6, <1>7, FoldStays
<1>9. it[1 .. n] \in Seq(U)
  BY <1>8 DEF V
<1>. HIDE DEF it, U
<1>10. \A p \in U : Sides(p)
  BY DEF U
<1>. QED
  BY <1>4, <1>9, <1>10 DEF AllSides, IsSequence

\* So have those of both texts.
LEMMA BothTermsFound ==
  ASSUME RequestOK(request), NothingEmpty(request)
  PROVE  AllSides(extract_terms)
<1>. DEFINE d == request.dictionary
            n == Len(d)
            U == {p \in {[src |-> d[q[1]].s, tgt |-> d[q[1]].ts[q[2]]] : q \in (1 .. n) \X Nat} : Sides(p)}
            V == Seq(U)
            There(entry) == SelectInSeq(entry.ts, LAMBDA t : Within(t, request.translation.text))
            Step(found, i) ==
              IF Within(d[i].s, request.transcript.text) /\ d[i].alike /\ There(d[i]) # 0
              THEN Append(found, [src |-> d[i].s, tgt |-> d[i].ts[There(d[i])]]) ELSE found
            Is(iter) == iter = [s \in SUBSET (1 .. n) |->
                                  IF s = {} THEN << >> ELSE Step(iter[s \ {Max(s)}], Max(s))]
            it == CHOOSE iter : Is(iter)
<1>1. n \in Nat /\ DOMAIN d = 1 .. n
  BY DEF RequestOK
<1>2. << >> \in V
  OBVIOUS
<1>3. \A found \in V, i \in 1 .. n : Step(found, i) \in V
  <2>1. TAKE found \in V, i \in 1 .. n
  <2>2. CASE There(d[i]) # 0
    <3>1. There(d[i]) \in DOMAIN d[i].ts /\ There(d[i]) \in Nat
      BY <1>1, <2>2, AlternativeThere
    <3>. HIDE DEF There
    <3>2. Words(d[i].s) /\ Words(d[i].ts[There(d[i])])
      BY <1>1, <3>1, DictionaryWords
    <3>3. [src |-> d[i].s, tgt |-> d[i].ts[There(d[i])]] \in U
      <4>1. <<i, There(d[i])>> \in (1 .. n) \X Nat
        BY <3>1
      <4>2. [src |-> d[i].s, tgt |-> d[i].ts[There(d[i])]] \in
               {[src |-> d[q[1]].s, tgt |-> d[q[1]].ts[q[2]]] : q \in (1 .. n) \X Nat}
        BY <4>1
      <4>. DEFINE p == [src |-> d[i].s, tgt |-> d[i].ts[There(d[i])]]
      <4>3. p.src = d[i].s /\ p.tgt = d[i].ts[There(d[i])] /\ DOMAIN p = {"src", "tgt"}
        OBVIOUS
      <4>4. Sides(p)
        <5>. HIDE DEF p
        <5>. QED
          BY <3>2, <4>3 DEF Sides
      <4>. QED
        BY <4>2, <4>4
    <3>. HIDE DEF U
    <3>. QED
      BY <3>3
  <2>3. CASE There(d[i]) = 0
    BY <2>3
  <2>. QED
    BY <2>2, <2>3
<1>4. extract_terms = it[1 .. n]
  BY <1>1, Zenon DEF extract_terms, FoldLeft, MapThenFoldSet
<1>. HIDE DEF V, Step, n
<1>5. Is(it)
  <2>. DEFINE G == [p \in V \X (1 .. n) |-> Step(p[1], p[2])]
  <2>1. G \in [V \X (1 .. n) -> V] /\ \A t \in V, i \in 1 .. n : G[<<t, i>>] = Step(t, i)
    BY <1>3
  <2>. HIDE DEF G
  <2>0. n \in Nat /\ << >> \in V /\ G \in [V \X (1 .. n) -> V]
    BY <1>1, <1>2, <2>1, Zenon
  <2>2. PICK h : Results(h, n, V, << >>, G)
    BY <2>0, FoldExists
  <2>3. ASSUME NEW s \in SUBSET (1 .. n)
        PROVE  h[s] = IF s = {} THEN << >> ELSE Step(h[s \ {Max(s)}], Max(s))
    <3>1. CASE s = {}
      BY <2>2, <3>1 DEF Results
    <3>2. CASE s # {}
      <4>1. Max(s) \in 1 .. n
        BY <1>1, <3>2, GreatestOf
      <4>2. h[s \ {Max(s)}] \in V
        BY <2>2 DEF Results
      <4>. QED
        BY <2>1, <2>2, <3>2, <4>1, <4>2 DEF Results
    <3>. QED
      BY <3>1, <3>2
  <2>4. Is(h)
    BY <2>2, <2>3 DEF Results
  <2>. HIDE DEF Is
  <2>. QED
    BY <2>4, Zenon
<1>6. \A s \in SUBSET (1 .. n) : s # {} /\ it[s \ {Max(s)}] \in V => it[s] \in V
  <2>1. TAKE s \in SUBSET (1 .. n)
  <2>2. HAVE s # {} /\ it[s \ {Max(s)}] \in V
  <2>3. Max(s) \in 1 .. n
    BY <1>1, <2>2, GreatestOf
  <2>4. it[s] = Step(it[s \ {Max(s)}], Max(s))
    <3>. HIDE DEF it
    <3>. QED
      BY <1>5, <2>2, Zenon
  <2>. HIDE DEF it
  <2>. QED
    BY <1>3, <2>2, <2>3, <2>4
<1>7. it[{}] \in V
  <2>. HIDE DEF it
  <2>. QED
    BY <1>2, <1>5
<1>8. it[1 .. n] \in V
  <2>. HIDE DEF it, Is
  <2>. QED
    BY <1>1, <1>6, <1>7, FoldStays
<1>9. it[1 .. n] \in Seq(U)
  BY <1>8 DEF V
<1>. HIDE DEF it, U
<1>10. \A p \in U : Sides(p)
  BY DEF U
<1>. QED
  BY <1>4, <1>9, <1>10 DEF AllSides, IsSequence

LEMMA TermsFound ==
  ASSUME RequestOK(request), NothingEmpty(request)
  PROVE  AllSides(Terms)
<1>. QED
  BY SourceTermsFound, BothTermsFound DEF Terms

-----------------------------------------------------------------------------
(***************************************************************************)
(* The types.                                                              *)
(***************************************************************************)

\* An entity, its text and what it may be in the other language.
EntityTyped(e) == Entity(e) /\ Words(e.text) /\ \A t \in ToSet(etrans(e)) : Words(t)

LEMMA ExtractedTyped ==
  ASSUME NEW t, TaggedTextOK(t), \A k \in DOMAIN t.wikidata : << >> \notin ToSet(t.wikidata[k].translations),
         NEW lang
  PROVE  \A n \in DOMAIN extract_ne(t, lang) : EntityTyped(extract_ne(t, lang)[n])
<1>. DEFINE s        == extract_ne(t, lang)
            wikidata == t.wikidata
            Ids(text) == UNION {wikidata[k].ids : k \in {k \in DOMAIN wikidata : Within(k, text)}}
            trans(text) ==
              IF text \in DOMAIN wikidata THEN wikidata[text].translations
              ELSE IF clean_stopwords(text, lang) \in DOMAIN wikidata
              THEN wikidata[clean_stopwords(text, lang)].translations
              ELSE None
            entity(ne) == [text |-> ne.text, type |-> ne.type, ids |-> Ids(ne.text),
                           trans |-> trans(ne.text)]
<1>1. s = [n \in DOMAIN t.nes |-> entity(t.nes[n])]
  BY DEF extract_ne
<1>2. ASSUME NEW k \in DOMAIN wikidata, NEW x \in ToSet(wikidata[k].translations)
      PROVE  Words(x)
  <2>1. IsText(x) /\ x # << >>
    BY <1>2 DEF TaggedTextOK
  <2>. QED
    BY <2>1 DEF IsText, Words, IsSequence
<1>3. ASSUME NEW text PROVE trans(text) = None \/ \A x \in ToSet(trans(text)) : Words(x)
  BY <1>2
<1>4. SUFFICES ASSUME NEW n \in DOMAIN s PROVE EntityTyped(s[n])
  OBVIOUS
<1>5. n \in DOMAIN t.nes /\ s[n] = entity(t.nes[n]) /\ t.nes[n] \in ToSet(t.nes)
  <2>1. n \in DOMAIN t.nes /\ s[n] = entity(t.nes[n])
    BY <1>1, <1>4
  <2>. QED
    BY <2>1 DEF ToSet
<1>6. Words(t.nes[n].text)
  BY <1>5 DEF TaggedTextOK, IsText, Words, IsSequence
<1>. DEFINE e == entity(t.nes[n])
<1>7. /\ DOMAIN e = {"text", "type", "ids", "trans"}
      /\ e.text = t.nes[n].text /\ e.trans = trans(t.nes[n].text)
  OBVIOUS
<1>. HIDE DEF s, e, trans, entity
<1>8. \A x \in ToSet(etrans(e)) : Words(x)
  <2>1. CASE e.trans = None
    <3>1. etrans(e) = <<e.text>>
      BY <2>1 DEF etrans
    <3>2. \A x \in ToSet(<<e.text>>) : x = e.text
      BY DEF ToSet
    <3>. QED
      BY <1>6, <1>7, <3>1, <3>2
  <2>2. CASE e.trans # None
    <3>1. etrans(e) = trans(t.nes[n].text)
      BY <1>7, <2>2 DEF etrans
    <3>. QED
      BY <1>3, <1>7, <2>2, <3>1
  <2>. QED
    BY <2>1, <2>2
<1>9. s[n] = e
  BY <1>5 DEF e
<1>. QED
  BY <1>6, <1>7, <1>8, <1>9 DEF EntityTyped, Entity

\* Everything has its type, and the entities left for the second loop are not more than ...
Typed ==
  /\ request \in Requests
  /\ phase \in {"extract", "pair", "align", "finish", "done", "error"}
  /\ \A n \in DOMAIN ne_transcript : EntityTyped(ne_transcript[n])
  /\ \A n \in DOMAIN ne_translation : EntityTyped(ne_translation[n])
  /\ AllSides(paired) /\ Len(paired) = Len(pairing)
  /\ AllSides(terms)
  /\ \A n \in DOMAIN pairing :
       /\ pairing[n].how \in {"ids", "text", "exact", "type", "fuzzy", "cardinal"}
       /\ pairing[n].entity \in 1 .. Len(ne_translation)

\* ... those the first one has been at.
Counted ==
  /\ next \in 1 .. Len(ne_translation) + 1
  /\ phase = "extract" => next = 1 /\ ne_translation = << >>
  /\ phase = "pair" => Len(to_be_aligned) < next
  /\ Len(to_be_aligned) <= Len(ne_translation)
  /\ \A m \in DOMAIN to_be_aligned : to_be_aligned[m] \in 1 .. Len(ne_translation)

TypeInv == Typed /\ Counted

LEMMA InitTyped == Init => TypeInv
<1>. SUFFICES ASSUME Init PROVE TypeInv
  OBVIOUS
<1>1. /\ request \in Requests /\ phase = "extract" /\ ne_transcript = << >> /\ ne_translation = << >>
      /\ next = 1 /\ to_be_aligned = << >> /\ paired = << >> /\ terms = << >> /\ pairing = << >>
  BY DEF Init
<1>2. IsSequence(<< >>) /\ DOMAIN << >> = {} /\ Len(<< >>) = 0
  BY DEF IsSequence
<1>. QED
  BY <1>1, <1>2 DEF TypeInv, Typed, Counted, AllSides

\* A triple more.
LEMMA TypedOneMore ==
  ASSUME Typed, IsSequence(pairing), phase' \in {"pair", "align"},
         UNCHANGED <<request, ne_translation, terms>>,
         \A n \in DOMAIN ne_transcript' : EntityTyped(ne_transcript'[n]),
         NEW triple, paired' = Append(paired, triple), Sides(triple),
         NEW elt, pairing' = Append(pairing, elt),
         elt.how \in {"ids", "text", "exact", "type", "fuzzy", "cardinal"},
         elt.entity \in 1 .. Len(ne_translation)
  PROVE  Typed'
<1>1. IsSequence(paired) /\ Len(paired) = Len(pairing)
  BY DEF Typed, AllSides
<1>2. /\ IsSequence(paired') /\ Len(paired) \in Nat
      /\ DOMAIN paired' = 1 .. Len(paired) + 1 /\ DOMAIN pairing' = 1 .. Len(paired) + 1
      /\ DOMAIN paired = 1 .. Len(paired) /\ DOMAIN pairing = 1 .. Len(paired)
      /\ \A n \in 1 .. Len(paired) : paired'[n] = paired[n] /\ pairing'[n] = pairing[n]
      /\ paired'[Len(paired) + 1] = triple /\ pairing'[Len(paired) + 1] = elt
      /\ Len(paired') = Len(pairing')
  <2>1. Len(paired') = Len(paired) + 1 /\ Len(pairing') = Len(pairing) + 1
    BY <1>1 DEF IsSequence
  <2>. QED
    BY <1>1, <2>1, AppendedSequence
<1>3. \A n \in 1 .. Len(paired) + 1 : n \in 1 .. Len(paired) \/ n = Len(paired) + 1
  BY <1>2
<1>4. AllSides(paired')
  BY <1>2, <1>3 DEF Typed, AllSides
<1>5. \A n \in DOMAIN pairing' :
        /\ pairing'[n].how \in {"ids", "text", "exact", "type", "fuzzy", "cardinal"}
        /\ pairing'[n].entity \in 1 .. Len(ne_translation)
  BY <1>2, <1>3 DEF Typed
<1>. QED
  BY <1>2, <1>4, <1>5 DEF Typed

LEMMA SidesOfTriple ==
  ASSUME NEW a, NEW b, NEW type, Words(a), Words(b)
  PROVE  Sides(Triple(a, b, type))
<1>. DEFINE p == Triple(a, b, type)
<1>1. p.src = a /\ p.tgt = b /\ DOMAIN p = {"src", "tgt", "type"}
  BY DEF Triple
<1>. HIDE DEF p
<1>2. Sides(p)
  BY <1>1 DEF Sides
<1>. QED
  BY <1>2 DEF p

\* What is matched exactly is one of the entity's translations.
LEMMA MatchIsWords ==
  ASSUME NEW e, EntityRight(e), EntityTyped(e), do_exact_match(e) # None
  PROVE  Words(do_exact_match(e))
<1>. DEFINE s == etrans(e)
            I == {i \in 1 .. Len(s) : Within(s[i], request.transcript.text)}
            n == IF I # {} THEN Min(I) ELSE 0
<1>1. Len(s) \in Nat /\ DOMAIN s = 1 .. Len(s) /\ \A t \in ToSet(s) : Words(t)
  BY DEF EntityRight, EntityTyped, IsSequence
<1>2. do_exact_match(e) = IF n = 0 THEN None ELSE s[n]
  BY DEF do_exact_match, SelectInSeq
<1>3. I \subseteq 1 .. Len(s)
  OBVIOUS
<1>. HIDE DEF s
<1>4. n # 0 => n \in I
  <2>. HIDE DEF I
  <2>. QED
    BY <1>1, <1>3, FirstPlace
<1>. HIDE DEF n
<1>5. n # 0 /\ n \in DOMAIN s
  BY <1>1, <1>2, <1>4
<1>6. s[n] \in ToSet(s)
  BY <1>5 DEF ToSet
<1>. QED
  BY <1>1, <1>2, <1>5, <1>6

LEMMA PairNextTyped ==
  ASSUME TypeInv, ResultInv, PairingInv, PairNext
  PROVE  TypeInv'
<1>. DEFINE e       == ne_translation[next]
            found   == IF ByIds(e) # 0 THEN ByIds(e) ELSE ByText(e)
            current == ne_transcript[found]
            match   == do_exact_match(e)
            how     == IF ByIds(e) # 0 THEN "ids" ELSE "text"
<1>1. /\ phase = "pair" /\ phase' = phase /\ next' = next + 1
      /\ UNCHANGED <<request, ne_translation, terms>>
      /\ next \in Nat \ {0} /\ next <= Len(ne_translation)
  BY DEF PairNext, PairingInv
<1>2. /\ IsSequence(pairing) /\ IsSequence(to_be_aligned) /\ IsSequence(ne_transcript)
      /\ FoundIn(ne_transcript, request.transcript.text)
  BY DEF PairingInv, ResultInv, EntitiesFound, FoundIn
<1>3. next \in DOMAIN ne_translation /\ next \in 1 .. Len(ne_translation) /\ Len(ne_translation) \in Nat
  <2>1. DOMAIN ne_translation = 1 .. Len(ne_translation) /\ Len(ne_translation) \in Nat
    BY DEF ResultInv, EntitiesFound, FoundIn, IsSequence
  <2>. QED
    BY <1>1, <2>1
<1>4. EntityRight(e) /\ EntityTyped(e)
  BY <1>3 DEF ResultInv, EntitiesFound, FoundIn, TypeInv, Typed
<1>5. Words(e.text) /\ Typed /\ Counted
  BY <1>4 DEF EntityTyped, TypeInv
<1>6. Counted'
  <2>1. to_be_aligned' = to_be_aligned \/ to_be_aligned' = Append(to_be_aligned, next)
    BY DEF PairNext
  <2>2. /\ Len(to_be_aligned) \in Nat
        /\ DOMAIN to_be_aligned = 1 .. Len(to_be_aligned)
    BY <1>2, AppendedSequence
  <2>3. CASE to_be_aligned' = to_be_aligned
    BY <1>1, <1>3, <1>5, <2>2, <2>3 DEF Counted
  <2>4. CASE to_be_aligned' = Append(to_be_aligned, next)
    <3>1. /\ Len(to_be_aligned') = Len(to_be_aligned) + 1
          /\ DOMAIN to_be_aligned' = 1 .. Len(to_be_aligned) + 1
          /\ \A n \in 1 .. Len(to_be_aligned) : to_be_aligned'[n] = to_be_aligned[n]
          /\ to_be_aligned'[Len(to_be_aligned) + 1] = next
      <4>1. Len(to_be_aligned') = Len(to_be_aligned) + 1
        BY <1>2, <2>4 DEF IsSequence
      <4>. QED
        BY <1>2, <2>4, <4>1, AppendedSequence
    <3>2. \A n \in DOMAIN to_be_aligned' : n \in DOMAIN to_be_aligned \/ n = Len(to_be_aligned) + 1
      BY <2>2, <3>1
    <3>3. \A n \in DOMAIN to_be_aligned' : to_be_aligned'[n] \in 1 .. Len(ne_translation)
      BY <1>3, <1>5, <2>2, <3>1, <3>2 DEF Counted
    <3>4. Len(to_be_aligned) < next
      BY <1>1, <1>5 DEF Counted
    <3>. QED
      BY <1>1, <1>3, <2>2, <3>1, <3>3, <3>4 DEF Counted
  <2>. QED
    BY <2>1, <2>3, <2>4
<1>7. CASE found # 0
  <2>1. /\ ne_transcript' = RemoveFirst(ne_transcript, current)
        /\ paired' = Append(paired, Triple(current.text, e.text, e.type))
        /\ pairing' = Append(pairing, [how |-> how, entity |-> next, with |-> current])
    BY <1>7 DEF PairNext, Pair, remove
  <2>2. found \in DOMAIN ne_transcript
    BY <1>2, <1>4, <1>7, MostInCommon, FoundByText DEF EntityRight
  <2>3. current \in ToSet(ne_transcript) /\ EntityTyped(current)
    BY <1>5, <2>2 DEF ToSet, Typed
  <2>4. \A n \in DOMAIN ne_transcript' : EntityTyped(ne_transcript'[n])
    <3>. HIDE DEF current
    <3>1. \A n \in DOMAIN ne_transcript' : \E m \in DOMAIN ne_transcript : ne_transcript'[n] = ne_transcript[m]
      BY <1>2, <2>1, <2>3, RemovedOnce
    <3>. QED
      BY <1>5, <3>1 DEF Typed
  <2>5. Sides(Triple(current.text, e.text, e.type))
    BY <1>5, <2>3, SidesOfTriple DEF EntityTyped
  <2>. DEFINE elt == [how |-> how, entity |-> next, with |-> current]
  <2>6. elt.how \in {"ids", "text"} /\ elt.entity = next /\ pairing' = Append(pairing, elt)
    BY <2>1
  <2>. HIDE DEF elt, e, found, current, how
  <2>7. Typed'
    BY <1>1, <1>2, <1>3, <1>5, <2>1, <2>4, <2>5, <2>6, TypedOneMore
  <2>. QED
    BY <1>6, <2>7 DEF TypeInv
<1>8. CASE found = 0 /\ match # None
  <2>1. /\ ne_transcript' = ne_transcript
        /\ paired' = Append(paired, Triple(match, e.text, e.type))
        /\ pairing' = Append(pairing, [how |-> "exact", entity |-> next, with |-> None])
    BY <1>8 DEF PairNext, Pair
  <2>2. Sides(Triple(match, e.text, e.type))
    BY <1>4, <1>5, <1>8, MatchIsWords, SidesOfTriple
  <2>. DEFINE elt == [how |-> "exact", entity |-> next, with |-> None]
  <2>3. elt.how = "exact" /\ elt.entity = next /\ pairing' = Append(pairing, elt)
    BY <2>1
  <2>. HIDE DEF elt, e, found, match
  <2>4. \A n \in DOMAIN ne_transcript' : EntityTyped(ne_transcript'[n])
    BY <1>5, <2>1 DEF Typed
  <2>5. Typed'
    BY <1>1, <1>2, <1>3, <1>5, <2>1, <2>2, <2>3, <2>4, TypedOneMore
  <2>. QED
    BY <1>6, <2>5 DEF TypeInv
<1>9. CASE found = 0 /\ match = None
  <2>1. UNCHANGED <<ne_transcript, paired, pairing>>
    BY <1>9 DEF PairNext
  <2>2. Typed'
    BY <1>1, <1>5, <2>1 DEF Typed
  <2>. QED
    BY <1>6, <2>2 DEF TypeInv
<1>. QED
  BY <1>7, <1>8, <1>9

\* A step of the second loop makes a triple, or none.
LEMMA AlignStepTyped ==
  ASSUME TypeInv, ResultInv, PairingInv, NEW n \in DOMAIN ne_translation, Aligning(n), AlignedNext,
         \/ UNCHANGED <<paired, pairing>>
         \/ \E triple, elt :
              /\ paired' = Append(paired, triple) /\ pairing' = Append(pairing, elt)
              /\ Sides(triple) /\ elt.entity = n
              /\ elt.how \in {"type", "fuzzy", "cardinal"}
  PROVE  TypeInv'
<1>1. /\ phase = "align" /\ phase' = phase /\ next' = next + 1 /\ next <= Len(to_be_aligned)
      /\ UNCHANGED <<request, ne_transcript, ne_translation, to_be_aligned, terms>>
  BY DEF Aligning, AlignedNext
<1>2. Typed /\ Counted /\ IsSequence(pairing)
  BY DEF TypeInv, PairingInv
<1>3. DOMAIN ne_translation = 1 .. Len(ne_translation) /\ Len(ne_translation) \in Nat
  BY DEF ResultInv, EntitiesFound, FoundIn, IsSequence
<1>4. Len(to_be_aligned) \in Nat
  BY DEF PairingInv, IsSequence
<1>5. Counted'
  BY <1>1, <1>2, <1>3, <1>4 DEF Counted
<1>6. CASE UNCHANGED <<paired, pairing>>
  <2>1. Typed'
    BY <1>1, <1>2, <1>6 DEF Typed
  <2>. QED
    BY <1>5, <2>1 DEF TypeInv
<1>7. CASE \E triple, elt :
             /\ paired' = Append(paired, triple) /\ pairing' = Append(pairing, elt)
             /\ Sides(triple) /\ elt.entity = n
             /\ elt.how \in {"type", "fuzzy", "cardinal"}
  <2>1. PICK triple, elt :
             /\ paired' = Append(paired, triple) /\ pairing' = Append(pairing, elt)
             /\ Sides(triple) /\ elt.entity = n
             /\ elt.how \in {"type", "fuzzy", "cardinal"}
    BY <1>7
  <2>2. \A m \in DOMAIN ne_transcript' : EntityTyped(ne_transcript'[m])
    BY <1>1, <1>2 DEF Typed
  <2>3. phase' \in {"pair", "align"}
    BY <1>1
  <2>4. elt.entity \in 1 .. Len(ne_translation)
    BY <1>3, <2>1
  <2>5. elt.how \in {"ids", "text", "exact", "type", "fuzzy", "cardinal"}
    BY <2>1
  <2>6. Typed'
    BY <1>1, <1>2, <2>1, <2>2, <2>3, <2>4, <2>5, TypedOneMore
  <2>. QED
    BY <1>5, <2>6 DEF TypeInv
<1>. QED
  BY <1>6, <1>7

\* As many words of the transcript as an entity has are at least one.
LEMMA SomeWords ==
  ASSUME NEW text, IsSequence(text), NEW words, Words(words),
         NEW i \in 0 .. Len(text) - Len(words)
  PROVE  Words(SubSeq(text, i + 1, i + Len(words)))
<1>. DEFINE k == SubSeq(text, i + 1, i + Len(words))
            l == Len(words)
<1>1. PICK S : text \in Seq(S)
  BY DEF IsSequence
<1>2. l \in Nat /\ l > 0
  <2>1. PICK T : words \in Seq(T)
    BY DEF Words, IsSequence
  <2>. QED
    BY <2>1 DEF Words
<1>. HIDE DEF l
<1>3. i \in Nat /\ i + 1 \in Int /\ i + l \in Int /\ i + l <= Len(text) /\ Len(text) \in Nat
  BY <1>1, <1>2 DEF l
<1>4. \A j \in i + 1 .. i + l : text[j] \in S
  BY <1>1, <1>3
<1>5. k \in Seq(S) /\ Len(k) = IF i + 1 <= i + l THEN (i + l) - (i + 1) + 1 ELSE 0
  BY <1>3, <1>4, SubSeqProperties DEF l
<1>. HIDE DEF k
<1>6. Len(k) = l
  BY <1>2, <1>3, <1>5
<1>7. k # << >>
  BY <1>2, <1>6
<1>. QED
  BY <1>5, <1>7 DEF Words, IsSequence, k, l

LEMMA AlignTyped ==
  ASSUME TypeInv, ResultInv, PairingInv,
         AlignByType \/ AlignPerson \/ AlignCardinal \/ AlignFails
  PROVE  TypeInv'
<1>0. /\ \A n \in DOMAIN ne_transcript : Words(ne_transcript[n].text)
      /\ \A n \in DOMAIN ne_translation : Words(ne_translation[n].text)
  BY DEF TypeInv, Typed, EntityTyped
<1>1. CASE AlignByType
  <2>1. PICK n \in DOMAIN ne_translation, m \in DOMAIN ne_transcript :
          /\ Aligning(n) /\ AlignedNext
          /\ Pair(Triple(ne_transcript[m].text, ne_translation[n].text, ne_translation[n].type),
                  "type", n, ne_transcript[m])
    BY <1>1 DEF AlignByType
  <2>. DEFINE triple == Triple(ne_transcript[m].text, ne_translation[n].text, ne_translation[n].type)
              elt    == [how |-> "type", entity |-> n, with |-> ne_transcript[m]]
  <2>2. /\ paired' = Append(paired, triple) /\ pairing' = Append(pairing, elt)
        /\ elt.how = "type" /\ elt.entity = n
    BY <2>1 DEF Pair
  <2>3. Sides(triple)
    BY <1>0, SidesOfTriple
  <2>. HIDE DEF triple, elt
  <2>. QED
    BY <2>1, <2>2, <2>3, AlignStepTyped
<1>2. CASE AlignPerson
  <2>1. PICK n \in DOMAIN ne_translation :
          /\ Aligning(n) /\ AlignedNext
          /\ \/ \E i \in 0 .. Len(request.transcript.tagged) - Len(ne_translation[n].text) :
                  Pair(Triple(SubSeq(request.transcript.tagged, i + 1, i + Len(ne_translation[n].text)),
                              ne_translation[n].text, ne_translation[n].type), "fuzzy", n, None)
             \/ UNCHANGED <<paired, pairing>>
    BY <1>2 DEF AlignPerson, Skip
  <2>2. ASSUME NEW i \in 0 .. Len(request.transcript.tagged) - Len(ne_translation[n].text),
               Pair(Triple(SubSeq(request.transcript.tagged, i + 1, i + Len(ne_translation[n].text)),
                           ne_translation[n].text, ne_translation[n].type), "fuzzy", n, None)
        PROVE  TypeInv'
    <3>. DEFINE words  == SubSeq(request.transcript.tagged, i + 1, i + Len(ne_translation[n].text))
                triple == Triple(words, ne_translation[n].text, ne_translation[n].type)
                elt    == [how |-> "fuzzy", entity |-> n, with |-> None]
    <3>1. /\ paired' = Append(paired, triple) /\ pairing' = Append(pairing, elt)
          /\ elt.how = "fuzzy" /\ elt.entity = n
      BY <2>2 DEF Pair
    <3>2. IsSequence(request.transcript.tagged)
      BY DEF ResultInv, EntitiesFound, RequestOK, TaggedTextOK, IsText, IsSequence
    <3>3. Words(words)
      BY <1>0, <2>2, <3>2, SomeWords
    <3>. HIDE DEF words
    <3>4. Sides(triple)
      BY <1>0, <3>3, SidesOfTriple
    <3>. HIDE DEF triple, elt
    <3>. QED
      BY <2>1, <3>1, <3>4, AlignStepTyped
  <2>. QED
    BY <2>1, <2>2, AlignStepTyped
<1>3. CASE AlignCardinal
  <2>1. PICK n \in DOMAIN ne_translation :
          /\ Aligning(n) /\ AlignedNext
          /\ \/ \E m \in DOMAIN ne_transcript :
                  Pair(Triple(ne_translation[n].text, ne_transcript[m].text, ne_translation[n].type),
                       "cardinal", n, ne_transcript[m])
             \/ UNCHANGED <<paired, pairing>>
    BY <1>3 DEF AlignCardinal, Skip, same_type
  <2>2. ASSUME NEW m \in DOMAIN ne_transcript,
               Pair(Triple(ne_translation[n].text, ne_transcript[m].text, ne_translation[n].type),
                    "cardinal", n, ne_transcript[m])
        PROVE  TypeInv'
    <3>. DEFINE triple == Triple(ne_translation[n].text, ne_transcript[m].text, ne_translation[n].type)
                elt    == [how |-> "cardinal", entity |-> n, with |-> ne_transcript[m]]
    <3>1. /\ paired' = Append(paired, triple) /\ pairing' = Append(pairing, elt)
          /\ elt.how = "cardinal" /\ elt.entity = n
      BY <2>2 DEF Pair
    <3>2. Sides(triple)
      BY <1>0, SidesOfTriple
    <3>. HIDE DEF triple, elt
    <3>. QED
      BY <2>1, <3>1, <3>2, AlignStepTyped
  <2>. QED
    BY <2>1, <2>2, AlignStepTyped
<1>4. CASE AlignFails
  <2>1. PICK n \in DOMAIN ne_translation :
          Aligning(n) /\ AlignedNext /\ UNCHANGED <<paired, pairing>>
    BY <1>4 DEF AlignFails, Skip
  <2>. QED
    BY <2>1, AlignStepTyped
<1>. QED
  BY <1>1, <1>2, <1>3, <1>4

LEMMA ExtractIsTyped ==
  ASSUME TypeInv, ResultInv, PairingInv, NothingEmpty(request), Extract
  PROVE  TypeInv'
<1>1. /\ phase = "extract" /\ phase' = "pair"
      /\ UNCHANGED <<request, next, to_be_aligned, paired, terms, pairing>>
      /\ ne_transcript' = extract_ne(request.transcript, request.src_lang)
      /\ ne_translation' = extract_ne(request.translation, request.tgt_lang)
  BY DEF Extract
<1>2. pairing = << >> /\ to_be_aligned = << >> /\ next = 1
  BY <1>1 DEF PairingInv, TypeInv, Counted
<1>3. TaggedTextOK(request.transcript) /\ TaggedTextOK(request.translation)
  BY DEF ResultInv, EntitiesFound, RequestOK
<1>4. /\ \A n \in DOMAIN ne_transcript' : EntityTyped(ne_transcript'[n])
      /\ \A n \in DOMAIN ne_translation' : EntityTyped(ne_translation'[n])
  BY <1>1, <1>3, ExtractedTyped DEF NothingEmpty
<1>5. Len(ne_translation') \in Nat
  BY <1>1, <1>3, ExtractedRight DEF FoundIn, IsSequence
<1>6. DOMAIN << >> = {} /\ Len(<< >>) = 0
  OBVIOUS
<1>7. Counted'
  BY <1>1, <1>2, <1>5, <1>6 DEF Counted
<1>8. Typed'
  BY <1>1, <1>2, <1>4, <1>6 DEF TypeInv, Typed
<1>. QED
  BY <1>7, <1>8 DEF TypeInv

LEMMA FinishTyped ==
  ASSUME TypeInv, ResultInv, NothingEmpty(request), Finish
  PROVE  TypeInv'
<1>1. /\ terms' = remove_stopwords(Terms) /\ paired' = remove_stopwords(paired) /\ phase' = "done"
      /\ phase = "finish" /\ PairsSupported
      /\ UNCHANGED <<request, ne_transcript, ne_translation, next, to_be_aligned, pairing>>
  BY DEF Finish
<1>2. AllSides(Terms)
  BY TermsFound DEF ResultInv, EntitiesFound
<1>3. AllSides(paired) /\ Len(paired) = Len(pairing)
  BY DEF TypeInv, Typed
<1>4. \/ Terms = << >> /\ paired = << >>
      \/ {request.src_lang, request.tgt_lang} \subseteq DOMAIN Stopwords
  BY <1>1 DEF PairsSupported
<1>5. AllSides(terms') /\ AllSides(paired') /\ Len(paired') = Len(pairing')
  BY <1>1, <1>2, <1>3, <1>4, StopwordsRemoved
<1>6. Typed'
  BY <1>1, <1>5 DEF TypeInv, Typed
<1>7. Counted'
  BY <1>1 DEF TypeInv, Counted
<1>. QED
  BY <1>6, <1>7 DEF TypeInv

LEMMA NextTyped ==
  ASSUME \A r \in Requests : NothingEmpty(r)
  PROVE  TypeInv /\ ResultInv /\ PairingInv /\ [Next]_vars => TypeInv'
<1>. SUFFICES ASSUME TypeInv, ResultInv, PairingInv, [Next]_vars PROVE TypeInv'
  OBVIOUS
<1>0. NothingEmpty(request)
  BY DEF TypeInv, Typed
<1>1. CASE Extract
  BY <1>0, <1>1, ExtractIsTyped
<1>2. CASE PairNext
  BY <1>2, PairNextTyped
<1>3. CASE AlignByType \/ AlignPerson \/ AlignCardinal \/ AlignFails
  BY <1>3, AlignTyped
<1>4. CASE PairingEnds
  <2>1. Len(ne_translation) \in Nat
    BY DEF ResultInv, EntitiesFound, FoundIn, IsSequence
  <2>. QED
    BY <1>4, <2>1 DEF PairingEnds, TypeInv, Typed, Counted
<1>5. CASE AlignmentEnds
  BY <1>5 DEF AlignmentEnds, TypeInv, Typed, Counted
<1>6. CASE Finish
  BY <1>0, <1>6, FinishTyped
<1>7. CASE ExtractFails \/ FinishFails
  BY <1>7 DEF ExtractFails, FinishFails, Raise, TypeInv, Typed, Counted
<1>8. CASE UNCHANGED vars
  BY <1>8 DEF vars, TypeInv, Typed, Counted
<1>. QED
  BY <1>1, <1>2, <1>3, <1>4, <1>5, <1>6, <1>7, <1>8 DEF Next

LEMMA TypedMeansTypeOK == TypeInv /\ ResultInv /\ PairingInv => TypeOK
<1>. SUFFICES ASSUME TypeInv, ResultInv, PairingInv PROVE TypeOK
  OBVIOUS
<1>1. RequestOK(request) /\ phase \in {"extract", "pair", "align", "finish", "done", "error"}
  BY DEF ResultInv, EntitiesFound, TypeInv, Typed
<1>2. \A e \in ToSet(ne_transcript) \cup ToSet(ne_translation) : Entity(e)
  BY DEF TypeInv, Typed, EntityTyped, ToSet
<1>3. ToSet(to_be_aligned) \subseteq 1 .. Len(ne_translation) /\ next \in 1 .. Len(ne_translation) + 1
  BY DEF TypeInv, Counted, ToSet
<1>4. Len(paired) = Len(pairing)
  BY DEF TypeInv, Typed
<1>5. \A p \in ToSet(paired) \cup ToSet(terms) : p.src # << >> /\ p.tgt # << >>
  BY DEF TypeInv, Typed, AllSides, Sides, Words, ToSet
<1>6. \A p \in ToSet(pairing) :
         /\ p.how \in {"ids", "text", "exact", "type", "fuzzy", "cardinal"}
         /\ p.entity \in 1 .. Len(ne_translation)
  BY DEF TypeInv, Typed, ToSet
<1>. QED
  BY <1>1, <1>2, <1>3, <1>4, <1>5, <1>6 DEF TypeOK

\* The variables have their types, and a side of a triple or of a term is never empty: the
\* removal of stopwords leaves a text that is nothing but a stopword, wherever it comes from.
\* An empty alternative of a dictionary or an empty translation is in every text, and
\* would be a side.
THEOREM TypeCorrect ==
  ASSUME \A r \in Requests : NothingEmpty(r)
  PROVE  Spec => []TypeOK
<1>. QED
  BY InitTyped, NextTyped, InitResult, NextResult, InitPairing, NextPairing, TypedMeansTypeOK,
     PTL DEF Spec

=============================================================================
