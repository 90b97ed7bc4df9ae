--------------------------- MODULE LocalJSONLProofs ---------------------------
(***************************************************************************)
(* Theorems about LocalJSONL, for all steps, sizes, buffers and readers:   *)
(* what a file decodes to grows at its end only, so what has been settled  *)
(* stays, and the backend implements StepLog.                              *)
(***************************************************************************)
EXTENDS LocalJSONL, FiniteSetTheorems, SequenceTheorems, TLAPS

-----------------------------------------------------------------------------
(* What a text decodes to.                                                 *)

Units == {u \in Steps \X Nat : u[2] \in 1..Size[u[1]] + 1}

\* The ends of a text are finitely many positions of it.
LEMMA EndsFinite ==
  ASSUME NEW t \in Seq(Units)
  PROVE  /\ Ends(t) \in SUBSET (1..Len(t)) /\ IsFiniteSet(Ends(t))
         /\ Cardinality(Ends(t)) \in Nat
<1>1. Ends(t) \in SUBSET (1..Len(t))
  BY DEF Ends
<1>2. IsFiniteSet(1..Len(t))
  BY FS_Interval
<1>3. QED
  BY <1>1, <1>2, FS_Subset, FS_CardinalityType

\* A text that follows adds ends behind those that are there.
LEMMA EndsConcat ==
  ASSUME NEW t \in Seq(Units), NEW u \in Seq(Units)
  PROVE  /\ t \o u \in Seq(Units)
         /\ \A i \in Ends(t \o u) : i \in Ends(t) <=> i <= Len(t)
         /\ Ends(t) \subseteq Ends(t \o u)
         /\ \A i \in Ends(t) : (t \o u)[i] = t[i]
<1>1. t \o u \in Seq(Units) /\ Len(t \o u) = Len(t) + Len(u)
  OBVIOUS
<1>2. \A i \in 1..Len(t) : (t \o u)[i] = t[i]
  OBVIOUS
<1>3. QED
  BY <1>1, <1>2 DEF Ends

\* The rank of an end is the same in the longer text, and at most their number;
\* the ends that follow rank behind.
LEMMA RankConcat ==
  ASSUME NEW t \in Seq(Units), NEW u \in Seq(Units)
  PROVE  /\ \A i \in Ends(t) : /\ Rank(Ends(t \o u), i) = Rank(Ends(t), i)
                               /\ Rank(Ends(t), i) <= Cardinality(Ends(t))
         /\ \A i \in Ends(t \o u) \ Ends(t) :
              Rank(Ends(t \o u), i) \in Nat /\ Rank(Ends(t \o u), i) > Cardinality(Ends(t))
<1> DEFINE A == Ends(t)
           B == Ends(t \o u)
<1>0. t \o u \in Seq(Units)
  BY EndsConcat
<1>1. /\ IsFiniteSet(A) /\ Cardinality(A) \in Nat /\ A \subseteq 1..Len(t)
      /\ IsFiniteSet(B) /\ Cardinality(B) \in Nat /\ B \subseteq 1..Len(t \o u)
      /\ A \subseteq B /\ \A i \in B : i \in A <=> i <= Len(t)
  BY <1>0, EndsFinite, EndsConcat
<1> HIDE DEF A, B
<1>2. ASSUME NEW i \in A
      PROVE  Rank(B, i) = Rank(A, i) /\ Rank(A, i) <= Cardinality(A)
  <2>1. {j \in B : j <= i} = {j \in A : j <= i}
    <3>1. \A j \in B : j <= i => j \in A
      BY <1>1, Len(t) \in Nat
    <3>2. QED
      BY <1>1, <3>1
  <2>2. {j \in A : j <= i} \in SUBSET A
    OBVIOUS
  <2>3. QED
    BY <1>1, <2>1, <2>2, FS_Subset DEF Rank
<1>3. ASSUME NEW i \in B \ A
      PROVE  Rank(B, i) \in Nat /\ Rank(B, i) > Cardinality(A)
  <2> DEFINE upTo == {j \in B : j <= i}
  <2>1. upTo \in SUBSET B /\ A \in SUBSET upTo /\ i \in upTo /\ i \notin A
    BY <1>1
  <2>2. IsFiniteSet(upTo) /\ Cardinality(upTo) \in Nat
    BY <1>1, <2>1, FS_Subset, FS_CardinalityType
  <2>3. Cardinality(A) <= Cardinality(upTo) /\ Cardinality(A) # Cardinality(upTo)
    BY <2>1, <2>2, FS_Subset
  <2>4. QED
    BY <1>1, <2>2, <2>3 DEF Rank
<1>4. QED
  BY <1>2, <1>3 DEF A, B

\* There is an end of every rank up to their number.
LEMMA EndOfEachRank ==
  ASSUME NEW t \in Seq(Units), NEW k \in 1..Cardinality(Ends(t))
  PROVE  \E i \in Ends(t) : Rank(Ends(t), i) = k
<1> DEFINE A == Ends(t)
           n == Cardinality(A)
           rank == [i \in A |-> Rank(A, i)]
<1>1. IsFiniteSet(A) /\ n \in Nat /\ A \subseteq Nat
  BY EndsFinite
<1> HIDE DEF A
<1>2. ASSUME NEW i \in A
      PROVE  /\ IsFiniteSet({j \in A : j <= i}) /\ {j \in A : j <= i} \in SUBSET A
             /\ Rank(A, i) \in 1..n
  <2>1. {j \in A : j <= i} \in SUBSET A
    OBVIOUS
  <2>2. /\ IsFiniteSet({j \in A : j <= i}) /\ Rank(A, i) \in Nat /\ Rank(A, i) <= n
    BY <1>1, <2>1, FS_Subset, FS_CardinalityType DEF Rank
  <2>3. i \in {j \in A : j <= i}
    BY <1>1
  <2>4. Rank(A, i) # 0
    BY <2>2, <2>3, FS_EmptySet DEF Rank
  <2>5. QED
    BY <1>1, <2>1, <2>2, <2>4
<1>3. ASSUME NEW i \in A, NEW j \in A, i < j
      PROVE  Rank(A, i) # Rank(A, j)
  <2> DEFINE below == {l \in A : l <= i}
             upTo == {l \in A : l <= j}
  <2>1. below \in SUBSET upTo /\ j \in upTo /\ j \notin below
    <3>1. i \in Nat /\ j \in Nat /\ \A l \in A : l \in Nat
      BY <1>1
    <3>2. \A l \in A : l <= i => l <= j
      BY <1>3, <3>1
    <3>3. j <= j /\ ~(j <= i)
      BY <1>3, <3>1
    <3>4. QED
      BY <3>2, <3>3
  <2>2. IsFiniteSet(upTo)
    BY <1>2
  <2>3. Cardinality(below) # Cardinality(upTo)
    BY <2>1, <2>2, FS_Subset
  <2>4. QED
    BY <2>3 DEF Rank
<1>4. rank \in Injection(A, 1..n)
  <2>1. rank \in [A -> 1..n]
    BY <1>2
  <2>2. \A i \in A, j \in A : rank[i] = rank[j] => i = j
    BY <1>1, <1>3
  <2>3. QED
    BY <2>1, <2>2 DEF Injection, IsInjective
<1>5. IsFiniteSet(1..n) /\ Cardinality(1..n) = n
  BY <1>1, FS_Interval
<1>6. rank \in Surjection(A, 1..n)
  BY <1>4, <1>5, FS_Injection
<1>7. QED
  BY <1>6 DEF Surjection, A

\* The step of each line is the one of an end.
LEMMA LinesTyped ==
  ASSUME NEW t \in Seq(Units)
  PROVE  /\ Lines(t) \in Seq(Steps)
         /\ Len(Lines(t)) = Cardinality(Ends(t))
<1> DEFINE nth(k) == CHOOSE i \in Ends(t) : Rank(Ends(t), i) = k
<1>1. /\ Cardinality(Ends(t)) \in Nat
      /\ Ends(t) \subseteq 1..Len(t)
  BY EndsFinite
<1>2. Lines(t) = [k \in 1..Cardinality(Ends(t)) |-> t[nth(k)][1]]
  BY DEF Lines
<1>3. \A k \in 1..Cardinality(Ends(t)) : nth(k) \in Ends(t)
  BY EndOfEachRank
<1> HIDE DEF nth
<1>4. \A k \in 1..Cardinality(Ends(t)) : t[nth(k)][1] \in Steps
  BY <1>1, <1>3 DEF Units
<1>5. QED
  BY <1>1, <1>2, <1>4

\* A prefix, element by element.
LEMMA PrefixByElement ==
  ASSUME NEW S, NEW s \in Seq(S), NEW t \in Seq(S)
  PROVE  IsPrefix(s, t) <=> Len(s) <= Len(t) /\ \A k \in 1..Len(s) : t[k] = s[k]
<1>1. SubSeq(s, 1, Len(s)) = s
  BY SubSeqFull
<1>2. ASSUME Len(s) <= Len(t)
      PROVE  /\ SubSeq(t, 1, Len(s)) \in Seq(S) /\ Len(SubSeq(t, 1, Len(s))) = Len(s)
             /\ \A k \in 1..Len(s) : SubSeq(t, 1, Len(s))[k] = t[k]
  BY <1>2
<1>3. QED
  BY <1>1, <1>2, SeqEqual DEF IsPrefix

\* What a text decodes to is the beginning of what a longer one decodes to.
LEMMA LinesConcat ==
  ASSUME NEW t \in Seq(Units), NEW u \in Seq(Units)
  PROVE  IsPrefix(Lines(t), Lines(t \o u))
<1> DEFINE A == Ends(t)
           B == Ends(t \o u)
           nthA(k) == CHOOSE i \in A : Rank(A, i) = k
           nthB(k) == CHOOSE i \in B : Rank(B, i) = k
<1>1. /\ Cardinality(A) \in Nat /\ Cardinality(B) \in Nat
      /\ A \subseteq B /\ Cardinality(A) <= Cardinality(B)
      /\ A \subseteq 1..Len(t) /\ t \o u \in Seq(Units)
  BY EndsFinite, EndsConcat, FS_Subset
<1>2. /\ Lines(t) = [k \in 1..Cardinality(A) |-> t[nthA(k)][1]]
      /\ Lines(t \o u) = [k \in 1..Cardinality(B) |-> (t \o u)[nthB(k)][1]]
  BY DEF Lines
<1>3. ASSUME NEW k \in 1..Cardinality(A)
      PROVE  nthA(k) \in A /\ nthB(k) = nthA(k)
  <2>1. nthA(k) \in A
    BY EndOfEachRank
  <2>2. \A i : (i \in B /\ Rank(B, i) = k) <=> (i \in A /\ Rank(A, i) = k)
    BY <1>1, RankConcat
  <2>3. QED
    BY <2>1, <2>2
<1>4. \A k \in 1..Cardinality(A) : (t \o u)[nthA(k)] = t[nthA(k)]
  BY <1>1, <1>3, EndsConcat
<1>5. /\ Lines(t) \in Seq(Steps) /\ Len(Lines(t)) = Cardinality(A)
      /\ Lines(t \o u) \in Seq(Steps) /\ Len(Lines(t \o u)) = Cardinality(B)
  BY <1>1, LinesTyped
<1> HIDE DEF A, B, nthA, nthB
<1>6. \A k \in 1..Cardinality(A) : Lines(t \o u)[k] = Lines(t)[k]
  <2> TAKE k \in 1..Cardinality(A)
  <2>1. k \in 1..Cardinality(B)
    BY <1>1
  <2>2. Lines(t)[k] = t[nthA(k)][1]
    BY <1>2
  <2>3. Lines(t \o u)[k] = (t \o u)[nthB(k)][1]
    BY <1>2, <2>1
  <2>4. QED
    BY <1>3, <1>4, <2>2, <2>3
<1>7. QED
  BY <1>1, <1>5, <1>6, PrefixByElement

\* A text with one end adds one line.
LEMMA LinesAppend ==
  ASSUME NEW t \in Seq(Units), NEW u \in Seq(Units), NEW p, Ends(u) = {p}
  PROVE  Lines(t \o u) = Append(Lines(t), u[p][1])
<1> DEFINE A == Ends(t)
           B == Ends(t \o u)
           q == Len(t) + p
           nthB(k) == CHOOSE i \in B : Rank(B, i) = k
<1>1. p \in 1..Len(u) /\ q \in Nat /\ q > Len(t)
  BY EndsFinite
<1>2. B = A \cup {q} /\ (t \o u)[q] = u[p] /\ q \notin A
  <2>1. t \o u \in Seq(Units) /\ Len(t \o u) = Len(t) + Len(u)
    OBVIOUS
  <2>2. \A i \in 1..Len(u) : (t \o u)[Len(t) + i] = u[i]
    OBVIOUS
  <2>3. ASSUME NEW i \in 1..Len(u)
        PROVE  i \in Ends(u) <=> Len(t) + i \in B
    <3>1. Len(t) + i \in 1..Len(t \o u) /\ (t \o u)[Len(t) + i] = u[i]
      BY <2>1, <2>2
    <3>2. QED
      BY <2>1, <3>1 DEF Ends
  <2>4. B \subseteq 1..Len(t \o u) /\ \A i \in B : i \in A <=> i <= Len(t)
    BY <2>1, EndsConcat, EndsFinite
  <2>5. q \in B /\ (t \o u)[q] = u[p]
    BY <1>1, <2>2, <2>3
  <2>6. ASSUME NEW i \in B, i \notin A
        PROVE  i = q
    <3>1. i - Len(t) \in 1..Len(u) /\ Len(t) + (i - Len(t)) = i
      BY <2>1, <2>4, <2>6
    <3>2. i - Len(t) \in Ends(u)
      BY <2>3, <3>1
    <3>3. QED
      BY <3>1, <3>2
  <2>7. q \notin A
    BY <1>1, <2>4, <2>5
  <2>8. A \subseteq B
    BY EndsConcat
  <2> HIDE DEF A, B, q
  <2>9. QED
    BY <2>5, <2>6, <2>7, <2>8
<1>3. /\ IsFiniteSet(A) /\ Cardinality(A) \in Nat
      /\ Cardinality(B) = Cardinality(A) + 1
  BY <1>2, EndsFinite, FS_AddElement
<1>4. /\ Lines(t) \in Seq(Steps) /\ Len(Lines(t)) = Cardinality(A)
      /\ Lines(t \o u) \in Seq(Steps) /\ Len(Lines(t \o u)) = Cardinality(B)
  BY LinesTyped, EndsConcat
<1>5. nthB(Cardinality(A) + 1) = q
  <2>1. \E i \in B : Rank(B, i) = Cardinality(A) + 1
    <3>1. Cardinality(A) + 1 \in 1..Cardinality(B) /\ t \o u \in Seq(Units)
      BY <1>3, EndsConcat
    <3>2. QED
      BY <3>1, EndOfEachRank
  <2>2. \A i \in A : Rank(B, i) # Cardinality(A) + 1
    BY <1>3, RankConcat, EndsFinite
  <2>3. QED
    BY <1>2, <2>1, <2>2
<1>6. IsPrefix(Lines(t), Lines(t \o u))
  BY LinesConcat
<1> HIDE DEF A, B, nthB, q
<1>7. Lines(t \o u)[Cardinality(A) + 1] = u[p][1]
  <2>1. Cardinality(A) + 1 \in 1..Cardinality(B)
    BY <1>3
  <2>2. Lines(t \o u) = [k \in 1..Cardinality(B) |-> (t \o u)[nthB(k)][1]]
    BY DEF Lines, B, nthB
  <2>3. QED
    BY <1>2, <1>5, <2>1, <2>2
<1>8. \A k \in 1..Len(Lines(t)) : Lines(t \o u)[k] = Lines(t)[k]
  BY <1>4, <1>6, PrefixByElement
<1>9. QED
  <2>1. u[p][1] \in Steps
    BY <1>1 DEF Units
  <2>2. QED
    BY <1>3, <1>4, <1>7, <1>8, <2>1, SeqEqual
-----------------------------------------------------------------------------
(* What a method does to file and buffer.                                  *)

Contents == [disk: Seq(Units), buf: Seq(Units)]

\* The file grows at its end and the text follows what there was, within the
\* buffer's limit.
Extends(v, w, text) ==
  /\ v \in Contents /\ Len(v.buf) <= FlushBytes
  /\ v.disk \o v.buf = (w.disk \o w.buf) \o text
  /\ \E more \in Seq(Units) : v.disk = w.disk \o more

\* What becomes of a record of file and buffer when its buffer is replaced.
LEMMA NewBuffer ==
  ASSUME NEW w \in Contents, NEW b
  PROVE  [w EXCEPT !.buf = b] = [disk |-> w.disk, buf |-> b]
  BY DEF Contents

\* It does not matter which of three texts are put together first.
LEMMA Texts ==
  ASSUME NEW s \in Seq(Units), NEW t \in Seq(Units), NEW u \in Seq(Units)
  PROVE  (s \o t) \o u = s \o (t \o u)
  BY ConcatAssociative

\* The empty text.
LEMMA NoText ==
  ASSUME NEW s \in Seq(Units)
  PROVE  s \o <<>> = s /\ <<>> \in Seq(Units)
  BY ConcatEmptySeq, EmptySeq

\* A text in two parts, after what is in file and buffer.
InParts(s, t, p, r) ==
  /\ t \o p \in Seq(Units) /\ s \o (t \o p) \in Seq(Units)
  /\ (t \o p) \o r \in Seq(Units) /\ (s \o (t \o p)) \o r \in Seq(Units)
  /\ (s \o (t \o p)) \o r = (s \o t) \o (p \o r)
  /\ (s \o (t \o p)) \o r = s \o ((t \o p) \o r)

LEMMA TextInParts ==
  ASSUME NEW s \in Seq(Units), NEW t \in Seq(Units), NEW p \in Seq(Units), NEW r \in Seq(Units)
  PROVE  InParts(s, t, p, r)
<1>1. /\ t \o p \in Seq(Units) /\ s \o t \in Seq(Units) /\ p \o r \in Seq(Units)
      /\ s \o (t \o p) \in Seq(Units) /\ (t \o p) \o r \in Seq(Units)
      /\ (s \o (t \o p)) \o r \in Seq(Units)
  OBVIOUS
<1>2. s \o (t \o p) = (s \o t) \o p
  BY Texts
<1>3. ((s \o t) \o p) \o r = (s \o t) \o (p \o r)
  <2> DEFINE st == s \o t
  <2>1. st \in Seq(Units)
    BY <1>1
  <2> HIDE DEF st
  <2>2. (st \o p) \o r = st \o (p \o r)
    BY <2>1, Texts
  <2>3. QED
    BY <2>2 DEF st
<1>4. (s \o (t \o p)) \o r = s \o ((t \o p) \o r)
  <2> DEFINE tp == t \o p
  <2>1. tp \in Seq(Units)
    BY <1>1
  <2> HIDE DEF tp
  <2>2. (s \o tp) \o r = s \o (tp \o r)
    BY <2>1, Texts
  <2>3. QED
    BY <2>2 DEF tp
<1>5. QED
  BY <1>1, <1>2, <1>3, <1>4 DEF InParts

\* A text is its two parts.
LEMMA PartsOfText ==
  ASSUME NEW text \in Seq(Units), NEW n \in 0..Len(text)
  PROVE  /\ SubSeq(text, 1, n) \in Seq(Units) /\ SubSeq(text, n + 1, Len(text)) \in Seq(Units)
         /\ SubSeq(text, 1, n) \o SubSeq(text, n + 1, Len(text)) = text
<1> DEFINE p == SubSeq(text, 1, n)
           r == SubSeq(text, n + 1, Len(text))
<1>1. /\ p \in Seq(Units) /\ Len(p) = n /\ \A i \in 1..n : p[i] = text[i]
      /\ r \in Seq(Units) /\ Len(r) = Len(text) - n
      /\ \A i \in 1..Len(text) - n : r[i] = text[n + i]
  OBVIOUS
<1> HIDE DEF p, r
<1>2. /\ p \o r \in Seq(Units) /\ Len(p \o r) = Len(text)
      /\ \A i \in 1..Len(text) : (p \o r)[i] = text[i]
  <2>1. /\ p \o r \in Seq(Units) /\ Len(p \o r) = Len(p) + Len(r)
        /\ \A i \in 1..Len(p) + Len(r) :
             (p \o r)[i] = IF i <= Len(p) THEN p[i] ELSE r[i - Len(p)]
    BY <1>1, ConcatProperties
  <2>2. \A i \in 1..Len(text) : i <= n \/ i - n \in 1..Len(text) - n
    OBVIOUS
  <2>3. ASSUME NEW i \in 1..Len(text)
        PROVE  (p \o r)[i] = text[i]
    <3>1. CASE i <= n
      BY <1>1, <2>1, <3>1
    <3>2. CASE ~(i <= n)
      <4>1. i - n \in 1..Len(text) - n /\ n + (i - n) = i
        BY <3>2
      <4>2. r[i - n] = text[i]
        BY <1>1, <4>1
      <4>3. QED
        BY <1>1, <2>1, <3>2, <4>2
    <3>3. QED
      BY <3>1, <3>2
  <2>4. QED
    BY <1>1, <2>1, <2>3
<1>3. p \o r = text
  BY <1>2, SeqEqual
<1>4. QED
  BY <1>1, <1>3 DEF p, r

\* What it takes for file and buffer to extend those of w by a text.
LEMMA ExtendsIntro ==
  ASSUME NEW w, NEW text, NEW d \in Seq(Units), NEW f \in Seq(Units),
         Len(f) <= FlushBytes, d \o f = (w.disk \o w.buf) \o text,
         NEW more \in Seq(Units), d = w.disk \o more
  PROVE  Extends([disk |-> d, buf |-> f], w, text)
  BY DEF Extends, Contents

\* The line of a step is a text with one end.
LEMMA OneLine ==
  ASSUME NEW s \in Steps
  PROVE  /\ Text(s) \in Seq(Units) /\ Newline(s) \in Units
         /\ Text(s) \o <<Newline(s)>> \in Seq(Units)
         /\ Ends(Text(s) \o <<Newline(s)>>) = {Size[s]}
         /\ (Text(s) \o <<Newline(s)>>)[Size[s]][1] = s
<1> DEFINE line == Text(s) \o <<Newline(s)>>
<1>1. Size[s] \in Nat \ {0}
  BY SizeAssumption
<1>2. /\ Text(s) \in Seq(Units) /\ Len(Text(s)) = Size[s]
      /\ \A k \in 1..Size[s] : Text(s)[k] = <<s, k>>
  <2>1. \A k \in 1..Size[s] : <<s, k>> \in Units
    BY <1>1 DEF Units
  <2>2. QED
    BY <1>1, <2>1 DEF Text
<1>3. Newline(s) \in Units
  BY <1>1 DEF Newline, Units
<1>4. /\ line \in Seq(Units) /\ Len(line) = Size[s] + 1
      /\ \A k \in 1..Size[s] + 1 : line[k] = <<s, k>>
  BY <1>1, <1>2, <1>3 DEF Newline
<1> HIDE DEF line
<1>5. Ends(line) = {Size[s]} /\ line[Size[s]][1] = s
  BY <1>1, <1>4 DEF Ends
<1>6. QED
  BY <1>2, <1>3, <1>4, <1>5 DEF line

\* Writer.Flush.
LEMMA FlushExtends ==
  ASSUME NEW w \in Contents
  PROVE  Extends(FlushAll(w), w, <<>>) /\ FlushAll(w).buf = <<>>
<1>1. FlushAll(w) \in Contents /\ Len(FlushAll(w).buf) <= FlushBytes
  BY FlushBytesAssumption, EmptySeq DEF FlushAll, Contents
<1>2. w.disk \o w.buf \in Seq(Units)
  BY DEF Contents
<1>3. (w.disk \o w.buf) \o <<>> = w.disk \o w.buf
  BY <1>2, Texts
<1>4. QED
  BY <1>1, <1>3 DEF Extends, FlushAll, Contents

\* Writer.Write, in each of its four cases.
LEMMA PutExtends ==
  ASSUME NEW w \in Contents, Len(w.buf) <= FlushBytes, NEW text \in Seq(Units)
  PROVE  Extends(Put(w, text), w, text)
<1> DEFINE d == w.disk
           f == w.buf
           room  == FlushBytes - Len(f)
           part  == SubSeq(text, 1, room)
           rest  == SubSeq(text, room + 1, Len(text))
           first == FlushAll([w EXCEPT !.buf = @ \o part])
<1>1. /\ d \in Seq(Units) /\ f \in Seq(Units)
      /\ room \in Nat /\ FlushBytes \in Nat /\ Len(text) \in Nat /\ <<>> \in Seq(Units)
      /\ Len(<<>>) <= FlushBytes
  BY FlushBytesAssumption, EmptySeq DEF Contents
<1>2. CASE Len(text) <= room
  <2>1. Put(w, text) = [disk |-> d, buf |-> f \o text]
    BY <1>2, NewBuffer DEF Put
  <2> HIDE DEF d, f
  <2>2. f \o text \in Seq(Units) /\ Len(f \o text) <= FlushBytes
    BY <1>1, <1>2
  <2>3. d \o (f \o text) = (d \o f) \o text /\ d = d \o <<>>
    BY <1>1, Texts, NoText
  <2>4. QED
    BY <1>1, <2>1, <2>2, <2>3, ExtendsIntro DEF d, f
<1>3. CASE Len(text) > room /\ f = <<>>
  <2>1. Put(w, text) = [disk |-> d \o text, buf |-> <<>>]
    <3>1. Put(w, text) = [w EXCEPT !.disk = d \o text]
      BY <1>1, <1>3 DEF Put
    <3>2. w.buf = <<>>
      BY <1>3
    <3>3. QED
      BY <3>1, <3>2 DEF Contents
  <2> HIDE DEF d, f
  <2>2. d \o text \in Seq(Units)
    BY <1>1
  <2>3. (d \o text) \o <<>> = (d \o f) \o text
    BY <1>1, <1>3, <2>2, NoText
  <2>4. QED
    BY <1>1, <2>1, <2>2, <2>3, ExtendsIntro DEF d, f
<1>4. CASE Len(text) > room /\ f # <<>>
  <2>1. /\ part \in Seq(Units) /\ rest \in Seq(Units) /\ part \o rest = text
    <3> HIDE DEF f, room
    <3>1. room \in 0..Len(text)
      BY <1>1, <1>4
    <3>2. QED
      BY <3>1, PartsOfText
  <2>2. first = [disk |-> d \o (f \o part), buf |-> <<>>]
    BY NewBuffer DEF FlushAll
  <2>3. Put(w, text) = IF Len(rest) > FlushBytes THEN [first EXCEPT !.disk = @ \o rest]
                       ELSE [first EXCEPT !.buf = rest]
    BY <1>1, <1>4 DEF Put
  <2>4. Put(w, text) = IF Len(rest) > FlushBytes
                       THEN [disk |-> (d \o (f \o part)) \o rest, buf |-> <<>>]
                       ELSE [disk |-> d \o (f \o part), buf |-> rest]
    <3> HIDE DEF d, f, rest, part, first
    <3>1. QED
      BY <2>2, <2>3
  <2> HIDE DEF d, f, rest, part
  <2>5. /\ f \o part \in Seq(Units) /\ d \o (f \o part) \in Seq(Units)
        /\ (f \o part) \o rest \in Seq(Units) /\ (d \o (f \o part)) \o rest \in Seq(Units)
        /\ (d \o (f \o part)) \o rest = (d \o f) \o text
        /\ (d \o (f \o part)) \o rest = d \o ((f \o part) \o rest)
    <3>1. (d \o f) \o (part \o rest) = (d \o f) \o text
      BY <2>1
    <3>2. QED
      <4>1. d \in Seq(Units) /\ f \in Seq(Units) /\ part \in Seq(Units) /\ rest \in Seq(Units)
        BY <1>1, <2>1
      <4>2. /\ f \o part \in Seq(Units) /\ d \o (f \o part) \in Seq(Units)
            /\ (f \o part) \o rest \in Seq(Units) /\ (d \o (f \o part)) \o rest \in Seq(Units)
            /\ (d \o (f \o part)) \o rest = (d \o f) \o (part \o rest)
            /\ (d \o (f \o part)) \o rest = d \o ((f \o part) \o rest)
        <5>1. InParts(d, f, part, rest)
          BY ONLY <4>1, TextInParts
        <5>2. QED
          BY <5>1 DEF InParts
      <4>3. QED
        BY <3>1, <4>2
  <2>6. CASE Len(rest) > FlushBytes
    <3>1. ((d \o (f \o part)) \o rest) \o <<>> = (d \o f) \o text
      BY <2>5, NoText
    <3>2. QED
      BY <1>1, <2>4, <2>5, <2>6, <3>1, ExtendsIntro DEF d, f
  <2>7. CASE ~(Len(rest) > FlushBytes)
    <3>1. Len(rest) <= FlushBytes
      BY <1>1, <2>1, <2>7
    <3>2. QED
      BY <1>1, <2>1, <2>4, <2>5, <2>7, <3>1, ExtendsIntro DEF d, f
  <2>8. QED
    BY <2>6, <2>7
<1>5. QED
  BY <1>1, <1>2, <1>3, <1>4

\* Writer.WriteByte.
LEMMA PutByteExtends ==
  ASSUME NEW w \in Contents, Len(w.buf) <= FlushBytes, NEW b \in Units
  PROVE  Extends(PutByte(w, b), w, <<b>>)
<1> DEFINE ready == IF Len(w.buf) = FlushBytes THEN FlushAll(w) ELSE w
<1>1. /\ w.disk \in Seq(Units) /\ w.buf \in Seq(Units) /\ w = [disk |-> w.disk, buf |-> w.buf]
      /\ FlushBytes \in Nat \ {0} /\ <<b>> \in Seq(Units)
  BY FlushBytesAssumption DEF Contents
<1>2. /\ ready \in Contents /\ Len(ready.buf) < FlushBytes
      /\ ready.disk \o ready.buf = w.disk \o w.buf
      /\ \E more \in Seq(Units) : ready.disk = w.disk \o more
  <2>1. CASE Len(w.buf) = FlushBytes
    <3>1. w.disk \o w.buf \in Seq(Units) /\ (w.disk \o w.buf) \o <<>> = w.disk \o w.buf
      BY <1>1, NoText
    <3>2. ready = [disk |-> w.disk \o w.buf, buf |-> <<>>]
      BY <2>1 DEF FlushAll
    <3>3. Len(<<>>) < FlushBytes /\ <<>> \in Seq(Units)
      BY <1>1, EmptySeq
    <3> HIDE DEF ready
    <3>4. QED
      BY <1>1, <3>1, <3>2, <3>3 DEF Contents
  <2>2. CASE Len(w.buf) # FlushBytes
    <3>1. w.disk \o <<>> = w.disk /\ <<>> \in Seq(Units)
      BY <1>1, NoText
    <3>2. ready = w /\ Len(w.buf) < FlushBytes
      BY <1>1, <2>2
    <3> HIDE DEF ready
    <3>3. QED
      BY <3>1, <3>2
  <2>3. QED
    BY <2>1, <2>2
<1>3. PutByte(w, b) = [ready EXCEPT !.buf = Append(@, b)]
  BY DEF PutByte
<1> HIDE DEF ready
<1>4. PutByte(w, b) = [disk |-> ready.disk, buf |-> ready.buf \o <<b>>]
  <2>1. Append(ready.buf, b) = ready.buf \o <<b>>
    BY <1>2 DEF Contents
  <2>2. QED
    BY <1>2, <1>3, <2>1, NewBuffer
<1>5. /\ ready.disk \in Seq(Units) /\ ready.buf \in Seq(Units)
      /\ ready.buf \o <<b>> \in Seq(Units) /\ Len(ready.buf \o <<b>>) <= FlushBytes
  BY <1>1, <1>2 DEF Contents
<1>6. ready.disk \o (ready.buf \o <<b>>) = (ready.disk \o ready.buf) \o <<b>>
  <2> DEFINE d == ready.disk
             f == ready.buf
             one == <<b>>
  <2>1. d \in Seq(Units) /\ f \in Seq(Units) /\ one \in Seq(Units)
    BY <1>1, <1>5
  <2> HIDE DEF d, f, one
  <2>2. d \o (f \o one) = (d \o f) \o one
    BY <2>1, Texts
  <2>3. QED
    BY <2>2 DEF d, f, one
<1>7. QED
  <2> DEFINE v == [disk |-> ready.disk, buf |-> ready.buf \o <<b>>]
  <2>1. v \in Contents /\ v.disk = ready.disk /\ v.buf = ready.buf \o <<b>>
    BY <1>5 DEF Contents
  <2> HIDE DEF v
  <2>2. Extends(v, w, <<b>>)
    BY <1>2, <1>5, <1>6, <2>1 DEF Extends
  <2>3. QED
    BY <1>4, <2>2 DEF v

\* LocalJSONL.Write: the text and the newline.
LEMMA LineExtends ==
  ASSUME NEW w \in Contents, Len(w.buf) <= FlushBytes, NEW s \in Steps
  PROVE  Extends(PutByte(Put(w, Text(s)), Newline(s)), w, Text(s) \o <<Newline(s)>>)
<1> DEFINE v == Put(w, Text(s))
           x == PutByte(v, Newline(s))
<1>1. /\ Text(s) \in Seq(Units) /\ Newline(s) \in Units /\ <<Newline(s)>> \in Seq(Units)
      /\ w.disk \in Seq(Units) /\ w.disk \o w.buf \in Seq(Units)
  <2>1. Text(s) \in Seq(Units) /\ Newline(s) \in Units
    BY OneLine
  <2>2. <<Newline(s)>> \in Seq(Units)
    BY <2>1
  <2>3. w.disk \in Seq(Units) /\ w.buf \in Seq(Units)
    BY DEF Contents
  <2>4. QED
    BY <2>1, <2>2, <2>3, Texts
<1>2. Extends(v, w, Text(s))
  BY <1>1, PutExtends
<1>3. Extends(x, v, <<Newline(s)>>)
  BY <1>1, <1>2, PutByteExtends DEF Extends
<1> HIDE DEF v, x
<1>4. x.disk \o x.buf = (w.disk \o w.buf) \o (Text(s) \o <<Newline(s)>>)
  <2>1. x.disk \o x.buf = ((w.disk \o w.buf) \o Text(s)) \o <<Newline(s)>>
    BY <1>2, <1>3 DEF Extends
  <2>2. QED
    <3> DEFINE line == Text(s)
               one  == <<Newline(s)>>
               all  == w.disk \o w.buf
    <3>1. line \in Seq(Units) /\ one \in Seq(Units) /\ all \in Seq(Units)
      BY <1>1
    <3> HIDE DEF line, one, all
    <3>2. (all \o line) \o one = all \o (line \o one)
      BY <3>1, Texts
    <3>3. QED
      BY <2>1, <3>2 DEF line, one, all
<1>5. \E more \in Seq(Units) : x.disk = w.disk \o more
  <2>1. PICK m \in Seq(Units) : v.disk = w.disk \o m
    BY <1>2 DEF Extends
  <2>2. PICK n \in Seq(Units) : x.disk = v.disk \o n
    BY <1>3 DEF Extends
  <2>3. x.disk = (w.disk \o m) \o n
    BY <2>1, <2>2
  <2>4. x.disk = w.disk \o (m \o n) /\ m \o n \in Seq(Units)
    <3> DEFINE d == w.disk
    <3>1. d \in Seq(Units)
      BY <1>1
    <3> HIDE DEF d
    <3>2. (d \o m) \o n = d \o (m \o n)
      BY <3>1, Texts
    <3>3. QED
      BY <2>3, <3>2 DEF d
  <2>5. QED
    BY <2>4
<1>6. QED
  BY <1>3, <1>4, <1>5 DEF Extends, v, x

-----------------------------------------------------------------------------
(* The invariant.                                                          *)

\* Only a rollout with an entry in b.files is buffered, and Close leaves no
\* entry and lets none be made.
BufferInv ==
  /\ buf # <<>> => open
  /\ closed => ~open

\* File and buffer hold texts, the buffer no more than it has room for.
FileInv == disk \in Seq(Units) /\ buf \in Seq(Units) /\ Len(buf) <= FlushBytes

\* A reader between flush and copy finds in the file what it is to find.
ReaderInv ==
  /\ reading \in [Readers -> {"idle", "flushed", "done"}]
  /\ copied \in [Readers -> Seq(Units)]
  /\ floor \in [Readers -> Seq(Steps)]
  /\ \A r \in Readers : reading[r] = "flushed" => Len(floor[r]) <= Len(Lines(disk))

Inv ==
  /\ open \in BOOLEAN /\ closed \in BOOLEAN /\ up \in BOOLEAN
  /\ BufferInv
  /\ FileInv
  /\ ReaderInv
  /\ settled \in Seq(Steps)
  /\ SettledSurvives

\* What the steps do to the file: nothing, all of the buffer to its end, or a
\* line to file and buffer.
Still   == disk' = disk /\ buf' = buf
Flushed == disk' = disk \o buf /\ buf' = <<>>
Gains(s) ==
  Extends([disk |-> disk', buf |-> buf'], [disk |-> disk, buf |-> buf], Text(s) \o <<Newline(s)>>)

\* The file grows at its end only.
Grown == FileInv' /\ IsPrefix(Lines(disk), Lines(disk'))

\* What there is of the lines in the file is there with the buffer as well.
LEMMA WrittenTyped ==
  ASSUME FileInv
  PROVE  /\ Lines(disk) \in Seq(Steps) /\ Written \in Seq(Steps)
         /\ IsPrefix(Lines(disk), Written)
  BY LinesTyped, LinesConcat, EndsConcat DEF FileInv, Written

\* A method that leaves the file alone.
LEMMA StillStep ==
  ASSUME FileInv, Still
  PROVE  Grown /\ Written' = Written
<1>1. IsPrefix(Lines(disk), Lines(disk))
  BY WrittenTyped, PrefixByElement
<1>2. QED
  BY <1>1 DEF FileInv, Still, Grown, Written

\* A flush: what was written is in the file.
LEMMA FlushedStep ==
  ASSUME FileInv, Flushed
  PROVE  Grown /\ Written' = Written /\ Lines(disk') = Written
<1>1. /\ disk \in Seq(Units) /\ buf \in Seq(Units) /\ disk \o buf \in Seq(Units)
      /\ <<>> \in Seq(Units) /\ Len(<<>>) <= FlushBytes
  BY EmptySeq, FlushBytesAssumption DEF FileInv
<1>2. disk' \o buf' = disk \o buf
  BY <1>1, NoText DEF Flushed
<1>3. IsPrefix(Lines(disk), Lines(disk'))
  BY <1>1, LinesConcat DEF Flushed
<1>4. QED
  BY <1>1, <1>2, <1>3 DEF FileInv, Flushed, Grown, Written

\* Becomes(FlushAll(Now)) is a flush; without an entry there is nothing to do.
LEMMA FlushIsFlushed ==
  ASSUME FileInv, BufferInv
  PROVE  /\ Becomes(FlushAll(Now)) => Flushed
         /\ Becomes(IF open THEN FlushAll(Now) ELSE Now) => Flushed
         /\ Release => Flushed
         /\ ~open /\ UNCHANGED file => Flushed
<1>1. ~open => buf = <<>> /\ disk \o buf = disk
  BY NoText DEF FileInv, BufferInv
<1>2. QED
  BY <1>1 DEF Becomes, FlushAll, Now, Release, Flushed, file

\* A line more.
LEMMA GainsStep ==
  ASSUME FileInv, NEW s \in Steps, Gains(s)
  PROVE  /\ Grown
         /\ Written' = Append(Written, s)
         /\ IsPrefix(Lines(disk'), Written')
<1> DEFINE line == Text(s) \o <<Newline(s)>>
<1>1. /\ line \in Seq(Units) /\ Ends(line) = {Size[s]} /\ line[Size[s]][1] = s
  BY OneLine
<1> HIDE DEF line
<1>2. /\ disk' \in Seq(Units) /\ buf' \in Seq(Units) /\ Len(buf') <= FlushBytes
      /\ disk' \o buf' = (disk \o buf) \o line
      /\ \E more \in Seq(Units) : disk' = disk \o more
  BY DEF Gains, Extends, Contents, line
<1>3. disk \in Seq(Units) /\ disk \o buf \in Seq(Units)
  BY DEF FileInv
<1>4. Lines((disk \o buf) \o line) = Append(Lines(disk \o buf), s)
  <2> DEFINE all == disk \o buf
  <2>1. all \in Seq(Units)
    BY <1>3
  <2> HIDE DEF all
  <2>2. Lines(all \o line) = Append(Lines(all), s)
    BY <1>1, <2>1, LinesAppend
  <2>3. QED
    BY <2>2 DEF all
<1>5. IsPrefix(Lines(disk), Lines(disk'))
  BY <1>2, <1>3, LinesConcat
<1>6. IsPrefix(Lines(disk'), Lines(disk' \o buf'))
  BY <1>2, LinesConcat
<1>7. QED
  BY <1>2, <1>4, <1>5, <1>6 DEF FileInv, Grown, Written

\* LocalJSONL.Write.
LEMMA WriteGains ==
  ASSUME FileInv, NEW s \in Steps, Write(s)
  PROVE  Gains(s)
<1>1. Now \in Contents /\ Len(Now.buf) <= FlushBytes
  BY DEF FileInv, Now, Contents
<1> DEFINE w == PutByte(Put(Now, Text(s)), Newline(s))
<1>2. Extends(w, Now, Text(s) \o <<Newline(s)>>)
  BY <1>1, LineExtends
<1>3. disk' = w.disk /\ buf' = w.buf
  BY DEF Write, Becomes
<1> HIDE DEF w
<1>4. w = [disk |-> disk', buf |-> buf']
  BY <1>2, <1>3 DEF Extends, Contents
<1>5. QED
  BY <1>2, <1>4 DEF Gains, Now

\* Each method does one of the three.
LEMMA EachMethod ==
  ASSUME Inv, [Next]_vars
  PROVE  \/ \E s \in Steps : Write(s) /\ Gains(s)
         \/ (FlushLoop \/ Flush \/ Finalize \/ Close) /\ Flushed
         \/ \E r \in Readers : ReadFlush(r) /\ Flushed
         \/ \E r \in Readers : ReadCopy(r) /\ Still
         \/ Crash
         \/ UNCHANGED vars
<1>1. FileInv /\ BufferInv
  BY DEF Inv
<1>2. ASSUME NEW s \in Steps, Write(s)
      PROVE  Gains(s)
  BY <1>1, <1>2, WriteGains
<1>3. CASE FlushLoop
  BY <1>1, <1>3, FlushIsFlushed DEF FlushLoop
<1>4. CASE Flush
  BY <1>1, <1>4, FlushIsFlushed DEF Flush
<1>5. CASE Finalize
  BY <1>1, <1>5, FlushIsFlushed DEF Finalize
<1>6. CASE Close
  BY <1>1, <1>6, FlushIsFlushed DEF Close
<1>7. ASSUME NEW r \in Readers, ReadFlush(r)
      PROVE  Flushed
  BY <1>1, <1>7, FlushIsFlushed DEF ReadFlush, Observable
<1>8. ASSUME NEW r \in Readers, ReadCopy(r)
      PROVE  Still
  BY <1>8 DEF ReadCopy, file, Still
<1>9. QED
  BY <1>2, <1>3, <1>4, <1>5, <1>6, <1>7, <1>8 DEF Next

\* An empty file has no lines.
LEMMA NothingDecoded == Lines(<<>>) = <<>>
<1>1. Ends(<<>>) = {} /\ Cardinality(Ends(<<>>)) = 0
  BY FS_EmptySet DEF Ends
<1>2. QED
  BY <1>1 DEF Lines

\* Nothing is written at first.
LEMMA NothingAtFirst == Init => Inv /\ Lines(disk) = <<>> /\ Written = <<>>
<1> SUFFICES ASSUME Init PROVE Inv /\ Lines(disk) = <<>> /\ Written = <<>>
  OBVIOUS
<1>1. Lines(<<>>) = <<>>
  BY NothingDecoded
<1>2. <<>> \in Seq(Units) /\ <<>> \in Seq(Steps) /\ Len(<<>>) <= FlushBytes /\ <<>> \o <<>> = <<>>
  BY NoText, EmptySeq, FlushBytesAssumption
<1>3. FileInv /\ BufferInv /\ ReaderInv
  BY <1>2 DEF Init, FileInv, BufferInv, ReaderInv
<1>4. Lines(disk) = <<>> /\ Written = <<>>
  BY <1>1, <1>2 DEF Init, Written
<1>5. SettledSurvives
  BY <1>2, <1>4 DEF Init, SettledSurvives, IsPrefix
<1>6. QED
  BY <1>2, <1>3, <1>4, <1>5 DEF Init, Inv

\* A prefix of what was in the file is one of what is.
LEMMA PrefixGrows ==
  ASSUME FileInv, Grown, NEW s \in Seq(Steps), IsPrefix(s, Lines(disk))
  PROVE  IsPrefix(s, Lines(disk')) /\ Len(s) <= Len(Lines(disk'))
<1>1. Lines(disk) \in Seq(Steps) /\ Lines(disk') \in Seq(Steps)
  BY LinesTyped DEF FileInv, Grown
<1>2. /\ Len(s) <= Len(Lines(disk)) /\ \A k \in 1..Len(s) : Lines(disk)[k] = s[k]
  BY <1>1, PrefixByElement
<1>3. /\ Len(Lines(disk)) <= Len(Lines(disk'))
      /\ \A k \in 1..Len(Lines(disk)) : Lines(disk')[k] = Lines(disk)[k]
  BY <1>1, PrefixByElement DEF Grown
<1>4. /\ Len(s) <= Len(Lines(disk')) /\ \A k \in 1..Len(s) : Lines(disk')[k] = s[k]
  BY <1>1, <1>2, <1>3
<1>5. QED
  BY <1>1, <1>4, PrefixByElement

\* What the readers wait for is still in a file that has grown.
LEMMA ReadersKept ==
  ASSUME FileInv, ReaderInv, Grown, UNCHANGED reader
  PROVE  ReaderInv'
<1>1. Len(Lines(disk)) <= Len(Lines(disk')) /\ Len(Lines(disk)) \in Nat /\ Len(Lines(disk')) \in Nat
  BY LinesTyped DEF Grown, FileInv, IsPrefix
<1>2. \A r \in Readers : Len(floor[r]) \in Nat
  BY DEF ReaderInv
<1>3. QED
  BY <1>1, <1>2 DEF ReaderInv, reader

\* Every method preserves it.
LEMMA InvStep == Inv /\ [Next]_vars => Inv'
<1> SUFFICES ASSUME Inv, [Next]_vars PROVE Inv'
  OBVIOUS
<1> USE DEF Inv
<1>0. Written \in Seq(Steps) /\ IsPrefix(Lines(disk), Written) /\ IsPrefix(Written, Written)
  BY WrittenTyped, PrefixByElement
<1>1. ASSUME NEW s \in Steps, Write(s), Gains(s)
      PROVE  Inv'
  <2>1. Grown
    BY <1>1, GainsStep
  <2>2. ReaderInv' /\ SettledSurvives'
    BY <1>1, <2>1, ReadersKept, PrefixGrows DEF Write, SettledSurvives
  <2>3. BufferInv'
    BY <1>1 DEF Write, MayWrite, BufferInv
  <2>4. QED
    BY <1>1, <2>1, <2>2, <2>3 DEF Write, MayWrite, Grown
<1>2. ASSUME Flushed
      PROVE  /\ Grown /\ FileInv' /\ Written' = Written
             /\ IsPrefix(Written, Lines(disk')) /\ IsPrefix(settled, Lines(disk'))
             /\ UNCHANGED reader => ReaderInv'
  BY <1>0, <1>2, FlushedStep, ReadersKept, PrefixGrows DEF Grown, SettledSurvives
<1>3. CASE FlushLoop /\ Flushed
  BY <1>2, <1>3 DEF FlushLoop, BufferInv, SettledSurvives, Flushed
<1>4. CASE Flush /\ Flushed
  BY <1>0, <1>2, <1>4 DEF Flush, BufferInv, SettledSurvives, Flushed
<1>5. CASE Finalize /\ Flushed
  BY <1>0, <1>2, <1>5 DEF Finalize, Release, file, BufferInv, SettledSurvives, Flushed
<1>6. CASE Close /\ Flushed
  BY <1>0, <1>2, <1>6 DEF Close, Release, file, BufferInv, SettledSurvives, Flushed
<1>7. ASSUME NEW r \in Readers, ReadFlush(r), Flushed
      PROVE  Inv'
  <2>1. Len(Written) <= Len(Lines(disk')) /\ Lines(disk') = Written
    BY <1>0, <1>7, FlushedStep
  <2>2. ReaderInv'
    <3>1. Len(Lines(disk)) <= Len(Lines(disk')) /\ Len(Lines(disk)) \in Nat /\ Len(Lines(disk')) \in Nat
      BY <1>0, <2>1, WrittenTyped DEF IsPrefix
    <3>2. \A q \in Readers : Len(floor[q]) \in Nat
      BY DEF ReaderInv
    <3>3. QED
      BY <1>0, <1>7, <2>1, <3>1, <3>2 DEF ReadFlush, ReaderInv
  <2>3. QED
    BY <1>2, <1>7, <2>2 DEF ReadFlush, BufferInv, SettledSurvives, Flushed
<1>8. ASSUME NEW r \in Readers, ReadCopy(r), Still
      PROVE  Inv'
  BY <1>8 DEF ReadCopy, file, FileInv, ReaderInv, BufferInv, SettledSurvives
<1>9. CASE Crash
  <2>1. FileInv' /\ Lines(disk') = Lines(disk)
    BY <1>9, NoText, FlushBytesAssumption, Len(<<>>) = 0 DEF Crash, FileInv
  <2>2. <<>> \in Seq(Units) /\ <<>> \in Seq(Steps)
    BY EmptySeq
  <2>3. ReaderInv'
    BY <1>9, <2>2 DEF Crash, ReaderInv
  <2>4. BufferInv' /\ SettledSurvives'
    BY <1>9 DEF Crash, BufferInv, SettledSurvives
  <2>5. QED
    BY <1>9, <2>1, <2>3, <2>4 DEF Crash
<1>10. CASE UNCHANGED vars
  BY <1>10 DEF vars, file, reader, FileInv, ReaderInv, BufferInv, SettledSurvives
<1>11. QED
  BY <1>1, <1>3, <1>4, <1>5, <1>6, <1>7, <1>8, <1>9, <1>10, EachMethod

\* The invariant holds throughout.
LEMMA InvHolds == Spec => []Inv
  BY NothingAtFirst, InvStep, PTL DEF Spec

-----------------------------------------------------------------------------
(* The theorems.                                                           *)

\* File, buffer and readers hold what the code declares: parts of lines, no
\* more in the buffer than its size (local.go:28-60).
THEOREM TypeCorrect == Spec => []TypeOK
<1>1. Inv => TypeOK
  <2> SUFFICES ASSUME Inv PROVE TypeOK
    OBVIOUS
  <2>1. disk \o buf \in Seq(Units)
    BY DEF Inv, FileInv
  <2>2. \A u \in Range(disk \o buf) : u \in Units
    BY <2>1 DEF Range
  <2>3. \A u \in Units : u[1] \in Steps /\ u[2] \in 1..Size[u[1]] + 1
    BY DEF Units
  <2>4. QED
    BY <2>2, <2>3 DEF Inv, FileInv, BufferInv, ReaderInv, TypeOK
<1>2. QED
  BY <1>1, InvHolds, PTL

\* What had been written when a pause, a completion or a shutdown flushed is in
\* the file, whatever is written, flushed and read afterwards, and whenever the
\* process dies (local.go:85-89, 113-190).
THEOREM SettledStaysOnDisk == Spec => []SettledSurvives
<1>1. Inv => SettledSurvives
  BY DEF Inv
<1>2. QED
  BY <1>1, InvHolds, PTL

\* After Close nothing is left in memory that nobody would ever flush
\* (local.go:85-89, 168-190), whatever Write, Flush, Finalize and Read race it.
THEOREM CloseFlushes == Spec => []ClosedHoldsNothing
<1>1. Inv => ClosedHoldsNothing
  BY DEF Inv, BufferInv, ClosedHoldsNothing
<1>2. QED
  BY <1>1, InvHolds, PTL

-----------------------------------------------------------------------------
(* The refinement.                                                         *)

\* The empty backend is the empty log.
LEMMA StoreInit == Init => Store!Init
<1>1. Len(<<>>) = 0
  OBVIOUS
<1>2. QED
  BY <1>1, NothingAtFirst DEF Init, Store!Init

\* Every method is a step of the log, or none.
LEMMA StoreStep == Inv /\ [Next]_vars => [Store!Next]_(Store!vars)
<1> SUFFICES ASSUME Inv, [Next]_vars PROVE [Store!Next]_(Store!vars)
  OBVIOUS
<1>0. /\ FileInv /\ ReaderInv
      /\ Lines(disk) \in Seq(Steps) /\ Written \in Seq(Steps)
      /\ IsPrefix(Lines(disk), Written) /\ Len(Lines(disk)) <= Len(Written)
  BY WrittenTyped DEF Inv, IsPrefix
<1>1. ASSUME NEW s \in Steps, Write(s), Gains(s)
      PROVE  Store!Write(s)
  <2>1. Written' = Append(Written, s)
    BY <1>0, <1>1, GainsStep
  <2>2. Len(Lines(disk)) <= Len(Lines(disk')) /\ Len(Lines(disk')) <= Len(Written')
    BY <1>0, <1>1, GainsStep DEF Grown, IsPrefix
  <2>3. Len(Lines(disk')) \in Len(Lines(disk))..Len(Written')
    <3>1. Lines(disk') \in Seq(Steps) /\ Written' \in Seq(Steps)
      BY <1>0, <1>1, <2>1, GainsStep, LinesTyped DEF Grown, FileInv
    <3>2. QED
      BY <1>0, <2>2, <3>1
  <2>4. UNCHANGED reader
    BY <1>1 DEF Write
  <2>5. QED
    BY <2>1, <2>3, <2>4 DEF Store!Write, reader
<1>2. ASSUME Flushed
      PROVE  Len(Lines(disk')) = Len(Written) /\ Written' = Written
  BY <1>0, <1>2, FlushedStep
<1>3. ASSUME FlushLoop \/ Flush \/ Finalize \/ Close, Flushed
      PROVE  Store!Sync
  <2>1. UNCHANGED reader
    BY <1>3 DEF FlushLoop, Flush, Finalize, Close
  <2>2. QED
    BY <1>2, <1>3, <2>1 DEF Store!Sync, reader
<1>4. ASSUME NEW r \in Readers, ReadFlush(r), Flushed
      PROVE  Store!BeginRead(r)
  BY <1>0, <1>2, <1>4 DEF ReadFlush, ReaderInv, Store!BeginRead
<1>5. ASSUME NEW r \in Readers, ReadCopy(r), Still
      PROVE  Store!EndRead(r)
  <2>1. Written' = Written /\ Lines(disk') = Lines(disk)
    BY <1>0, <1>5, StillStep DEF Still
  <2>2. Len(Lines(disk)) \in Len(floor[r])..Len(Written)
    BY <1>0, <1>5 DEF ReadCopy, ReaderInv
  <2>3. [q \in Readers |-> Len(Lines(copied'[q]))]
          = [[q \in Readers |-> Len(Lines(copied[q]))] EXCEPT ![r] = Len(Lines(disk))]
    BY <1>0, <1>5 DEF ReadCopy, ReaderInv
  <2>4. [q \in Readers |-> IF reading'[q] = "flushed" THEN "reading" ELSE reading'[q]]
          = [[q \in Readers |-> IF reading[q] = "flushed" THEN "reading" ELSE reading[q]]
               EXCEPT ![r] = "done"]
    BY <1>0, <1>5 DEF ReadCopy, ReaderInv
  <2>5. QED
    BY <1>5, <2>1, <2>2, <2>3, <2>4 DEF ReadCopy, Store!EndRead
<1>6. CASE Crash
  <2>1. disk' = disk /\ buf' = <<>> /\ disk' \o buf' = disk
    BY <1>0, <1>6, NoText DEF Crash, FileInv
  <2>2. Written' = Lines(disk) /\ Lines(disk') = Lines(disk)
    BY <2>1 DEF Written
  <2>3. Lines(disk) = SubSeq(Written, 1, Len(Lines(disk)))
    BY <1>0, SubSeqFull DEF IsPrefix
  <2>4. Len(Lines(<<>>)) = 0 /\ Len(<<>>) = 0
    BY NothingDecoded
  <2>5. /\ [r \in Readers |-> IF reading'[r] = "flushed" THEN "reading" ELSE reading'[r]]
             = [r \in Readers |-> "idle"]
        /\ [r \in Readers |-> Len(floor'[r])] = [r \in Readers |-> 0]
        /\ [r \in Readers |-> Len(Lines(copied'[r]))] = [r \in Readers |-> 0]
    BY <1>6, <2>4 DEF Crash
  <2>6. Store!Crash
    BY <2>2, <2>3, <2>5 DEF Store!Crash
  <2>7. QED
    BY <2>6 DEF Store!Next
<1>7. CASE UNCHANGED vars
  BY <1>7 DEF vars, file, reader, Written, Store!vars
<1>8. QED
  BY <1>1, <1>3, <1>4, <1>5, <1>6, <1>7, EachMethod DEF Store!Next

\* The backend is a StepLog (backend.go:30-62, local.go): appended in order,
\* nothing stable lost, each read at least what it is to find. That no step is
\* lost when the process lives is EventuallyOnDisk, which needs fairness.
THEOREM Implements == Spec => ImplementsStepLog
<1>1. Spec => Store!Spec
  BY StoreInit, StoreStep, InvHolds, PTL DEF Spec, Store!Spec
<1>2. QED
  BY <1>1 DEF ImplementsStepLog

=============================================================================
