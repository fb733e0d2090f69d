--------------------------- MODULE TextFieldsProofs ---------------------------
(***************************************************************************)
(* The text fields of the shell, proved for any characters of one to four  *)
(* bytes and one or two UTF-16 units, any texts and any ranges the input   *)
(* method may ask for.                                                     *)
(*                                                                         *)
(* Both offsets grow from character to character, so a boundary has one    *)
(* number of characters and one offset of each kind; what is clamped is on *)
(* a boundary, and what is put between two boundaries is between two       *)
(* boundaries of the new text.  The invariant says that every field that   *)
(* has a text keeps to it (Fits), except the address while it is not       *)
(* edited, which ensure_browser_address_edit clamps before it is used.     *)
(***************************************************************************)
EXTENDS TextFields, NaturalInduction, SequenceTheorems, TLAPS

Texts == Seq(Chars)

\* The widths of the beginnings of a text: their first value, their steps and
\* their type.
LEMMA WidthsStep ==
  ASSUME NEW w \in [Chars -> Nat], NEW t \in Texts
  PROVE  /\ Widths(w, t) \in [0..Len(t) -> Nat]
         /\ Widths(w, t)[0] = 0
         /\ \A i \in 1..Len(t) : Widths(w, t)[i] = Widths(w, t)[i - 1] + w[t[i]]
  <1> DEFINE n == Len(t)
             step == [i \in Nat |-> [s \in Nat |-> IF i \in 1..n THEN s + w[t[i]] ELSE s]]
             Body(f) == [i \in 0..n |-> IF i = 0 THEN 0 ELSE f[i - 1] + w[t[i]]]
             g == Widths(w, t)
  <1>0. n \in Nat /\ \A i \in 1..n : w[t[i]] \in Nat
    <2>1. \A i \in 1..n : t[i] \in Chars
      BY ElementOfSeq DEF Texts
    <2> QED  BY <2>1 DEF Texts
  <1>1. step \in [Nat -> [Nat -> Nat]]
    BY <1>0
  <1>2. PICK f \in [0..n -> Nat] : Follows(f, 0, step, n)
    <2> HIDE DEF step, n
    <2> QED  BY <1>0, <1>1, FiniteRecursion
  <1>3. f = Body(f)
    <2>1. ASSUME NEW i \in 0..n PROVE f[i] = Body(f)[i]
      <3>1. CASE i = 0
        BY <1>2, <3>1 DEF Follows
      <3>2. CASE i # 0
        <4>1. i \in 1..n /\ i \in Nat /\ i - 1 \in 0..n
          BY <1>0, <3>2
        <4>2. f[i] = step[i][f[i - 1]]
          <5> HIDE DEF step
          <5> QED  BY <1>2, <4>1 DEF Follows
        <4>3. f[i - 1] \in Nat
          BY <4>1
        <4> QED  BY <3>2, <4>1, <4>2, <4>3
      <3> QED  BY <3>1, <3>2
    <2>2. f = [i \in 0..n |-> f[i]]
      OBVIOUS
    <2> QED  BY <2>1, <2>2
  <1>4. g = Body(g)
    BY <1>3 DEF Widths
  <1>5. g[0] = 0 /\ \A i \in 1..n : g[i] = g[i - 1] + w[t[i]]
    <2>1. ASSUME NEW i \in 1..n PROVE Body(g)[i] = g[i - 1] + w[t[i]]
      <3> HIDE DEF g
      <3>1. i \in 0..n /\ i # 0
        BY <1>0
      <3> QED  BY <3>1
    <2>2. Body(g)[0] = 0
      BY <1>0
    <2> HIDE DEF g, Body
    <2> QED  BY <1>4, <2>1, <2>2
  <1> DEFINE T == {i \in 0..n : g[i] \in Nat}
  <1>6. 0..n \subseteq T
    <2> HIDE DEF g
    <2>1. 0 \in T
      BY <1>0, <1>5
    <2>2. ASSUME NEW i \in 1..n, i - 1 \in T PROVE i \in T
      BY <1>0, <1>5, <2>2
    <2> HIDE DEF T
    <2> QED  BY <1>0, <2>1, <2>2, BoundedInduction
  <1>7. g \in [0..n -> Nat]
    <2> HIDE DEF g
    <2>1. g = [i \in 0..n |-> IF i = 0 THEN 0 ELSE g[i - 1] + w[t[i]]]
      BY <1>4
    <2> QED  BY <1>6, <2>1
  <1> QED  BY <1>5, <1>7

\* What sanitize_*_insert_text leaves of a text is a text.
LEMMA SanitizedType ==
  ASSUME NEW t \in Texts
  PROVE  Sanitized(t) \in Texts
  <1> DEFINE n == Len(t)
             Next1(s, i) == IF t[i] = Newline THEN s ELSE Append(s, t[i])
             step == [i \in Nat |-> [s \in Texts |-> IF i \in 1..n THEN Next1(s, i) ELSE s]]
             Body(f) == [i \in 0..n |-> IF i = 0 THEN <<>>
                                        ELSE IF t[i] = Newline THEN f[i - 1]
                                             ELSE Append(f[i - 1], t[i])]
             g == SanitizedUpTo(t)
  <1>0. /\ n \in Nat /\ <<>> \in Texts
        /\ \A i \in 1..n : \A s \in Texts : Next1(s, i) \in Texts
    <2>1. \A i \in 1..n : t[i] \in Chars
      BY ElementOfSeq DEF Texts
    <2> QED  BY <2>1 DEF Texts
  <1> HIDE DEF Next1
  <1>1. step \in [Nat -> [Texts -> Texts]]
    BY <1>0
  <1>2. PICK f \in [0..n -> Texts] : Follows(f, <<>>, step, n)
    <2> HIDE DEF step, n
    <2> QED  BY <1>0, <1>1, FiniteRecursion
  <1>3. f = Body(f)
    <2>1. ASSUME NEW i \in 0..n PROVE f[i] = Body(f)[i]
      <3>1. CASE i = 0
        BY <1>2, <3>1 DEF Follows
      <3>2. CASE i # 0
        <4>1. i \in 1..n /\ i \in Nat /\ i - 1 \in 0..n
          BY <1>0, <3>2
        <4>2. f[i] = step[i][f[i - 1]]
          <5> HIDE DEF step
          <5> QED  BY <1>2, <4>1 DEF Follows
        <4>3. f[i - 1] \in Texts
          BY <4>1
        <4>4. f[i] = Next1(f[i - 1], i)
          BY <4>1, <4>2, <4>3
        <4> QED  BY <3>2, <4>4 DEF Next1
      <3> QED  BY <3>1, <3>2
    <2>2. f = [i \in 0..n |-> f[i]]
      OBVIOUS
    <2> QED  BY <2>1, <2>2
  <1>4. g = Body(g)
    BY <1>3 DEF SanitizedUpTo
  <1>5. g[0] = <<>> /\ \A i \in 1..n : g[i] = Next1(g[i - 1], i)
    <2>1. ASSUME NEW i \in 1..n PROVE Body(g)[i] = Next1(g[i - 1], i)
      <3> HIDE DEF g
      <3>1. i \in 0..n /\ i # 0
        BY <1>0
      <3> QED  BY <3>1 DEF Next1
    <2>2. Body(g)[0] = <<>>
      BY <1>0
    <2> HIDE DEF g, Body
    <2> QED  BY <1>4, <2>1, <2>2
  <1> DEFINE T == {i \in 0..n : g[i] \in Texts}
  <1>6. 0..n \subseteq T
    <2> HIDE DEF g
    <2>1. 0 \in T
      BY <1>0, <1>5
    <2>2. ASSUME NEW i \in 1..n, i - 1 \in T PROVE i \in T
      BY <1>0, <1>5, <2>2
    <2> HIDE DEF T
    <2> QED  BY <1>0, <2>1, <2>2, BoundedInduction
  <1> HIDE DEF g
  <1> QED  BY <1>0, <1>6 DEF Sanitized, g

-----------------------------------------------------------------------------
\* A text within another: the widths add up.
LEMMA WidthsAdd ==
  ASSUME NEW w \in [Chars -> Nat], NEW t \in Texts, NEW s \in Texts, NEW m \in 0..Len(t),
         m + Len(s) <= Len(t), \A i \in 1..Len(s) : t[m + i] = s[i]
  PROVE  \A i \in 0..Len(s) : Widths(w, t)[m + i] = Widths(w, t)[m] + Widths(w, s)[i]
  <1> DEFINE n == Len(s)
             f == Widths(w, t)
             g == Widths(w, s)
             T == {i \in 0..n : f[m + i] = f[m] + g[i]}
  <1>1. n \in Nat /\ Len(t) \in Nat /\ m \in Nat
    BY DEF Texts
  <1>2. /\ f \in [0..Len(t) -> Nat]
        /\ \A i \in 1..Len(t) : f[i] = f[i - 1] + w[t[i]]
    BY WidthsStep
  <1>3. /\ g \in [0..n -> Nat] /\ g[0] = 0
        /\ \A i \in 1..n : g[i] = g[i - 1] + w[s[i]]
    BY WidthsStep
  <1>4. \A i \in 1..n : w[s[i]] \in Nat
    <2>1. \A i \in 1..n : s[i] \in Chars
      BY ElementOfSeq DEF Texts
    <2> QED  BY <2>1
  <1> HIDE DEF f, g
  <1>5. 0 \in T
    <2>1. m + 0 = m /\ f[m] \in Nat /\ 0 \in 0..n
      BY <1>1, <1>2
    <2>2. f[m] = f[m] + g[0]
      BY <1>3, <2>1
    <2> QED  BY <2>1, <2>2
  <1>6. ASSUME NEW i \in 1..n, i - 1 \in T PROVE i \in T
    <2>1. m + i \in 1..Len(t) /\ (m + i) - 1 = m + (i - 1) /\ i \in 0..n /\ i - 1 \in 0..n
      BY <1>1
    <2>2. f[m + i] = f[m + (i - 1)] + w[s[i]]
      BY <1>2, <2>1
    <2>3. f[m] \in Nat /\ g[i - 1] \in Nat /\ w[s[i]] \in Nat
      BY <1>2, <1>3, <1>4, <2>1
    <2>4. g[i] = g[i - 1] + w[s[i]] /\ f[m + (i - 1)] = f[m] + g[i - 1]
      BY <1>3, <1>6
    <2>5. f[m + i] = f[m] + g[i]
      BY <2>2, <2>3, <2>4
    <2> QED  BY <2>1, <2>5
  <1>7. 0..n \subseteq T
    <2> HIDE DEF T, n
    <2> QED  BY <1>1, <1>5, <1>6, BoundedInduction
  <1> QED  BY <1>7 DEF f, g

\* The width of the beginning of a text by itself is its width within the text.
LEMMA PrefixWidth ==
  ASSUME NEW w \in [Chars -> Nat], NEW t \in Texts, NEW k \in 0..Len(t)
  PROVE  Total(w, SubSeq(t, 1, k)) = Widths(w, t)[k]
  <1> DEFINE s == SubSeq(t, 1, k)
  <1>1. s \in Texts /\ Len(s) = k /\ k \in Nat /\ Len(t) \in Nat /\ \A i \in 1..k : s[i] = t[i]
    BY DEF Texts
  <1> HIDE DEF s
  <1>2. Widths(w, t)[0 + k] = Widths(w, t)[0] + Widths(w, s)[k]
    <2>1. 0 \in 0..Len(t) /\ 0 + Len(s) <= Len(t) /\ k \in 0..Len(s)
      BY <1>1
    <2>2. \A i \in 1..Len(s) : t[0 + i] = s[i]
      BY <1>1
    <2> QED  BY <1>1, <2>1, <2>2, WidthsAdd
  <1>3. Widths(w, t)[0] = 0 /\ Widths(w, s)[k] \in Nat /\ 0 + k = k
    BY <1>1, WidthsStep
  <1> QED  BY <1>1, <1>2, <1>3 DEF Total, s

\* Every character is at least one byte and one unit wide.
LEMMA WidthsGrow ==
  ASSUME NEW w \in [Chars -> Nat], \A c \in Chars : w[c] >= 1, NEW t \in Texts
  PROVE  \A i, j \in 0..Len(t) : i < j => Widths(w, t)[i] < Widths(w, t)[j]
  <1> DEFINE n == Len(t)
             f == Widths(w, t)
             T == {j \in 0..n : \A i \in 0..n : i < j => f[i] < f[j]}
  <1>1. n \in Nat
    BY DEF Texts
  <1>2. f \in [0..n -> Nat] /\ \A i \in 1..n : f[i] = f[i - 1] + w[t[i]]
    BY WidthsStep
  <1>3. \A i \in 1..n : w[t[i]] \in Nat /\ w[t[i]] >= 1
    BY ElementOfSeq DEF Texts
  <1> HIDE DEF f, n
  <1>4. 0 \in T
    BY <1>1
  <1>5. ASSUME NEW j \in 1..n, j - 1 \in T PROVE j \in T
    <2>1. j \in 0..n /\ j - 1 \in 0..n
      BY <1>1
    <2>2. f[j - 1] < f[j] /\ f[j - 1] \in Nat /\ f[j] \in Nat
      BY <1>2, <1>3, <2>1
    <2>3. ASSUME NEW i \in 0..n, i < j PROVE f[i] < f[j]
      <3>1. f[i] \in Nat /\ (i = j - 1 \/ i < j - 1)
        BY <1>1, <1>2, <2>3
      <3> QED  BY <1>5, <2>2, <3>1
    <2> QED  BY <2>1, <2>3
  <1>6. 0..n \subseteq T
    <2> HIDE DEF T
    <2> QED  BY <1>1, <1>4, <1>5, BoundedInduction
  <1> QED  BY <1>6 DEF f, n

\* The two ways to count, from the first character to the last.
LEMMA OffsetsGrow ==
  ASSUME NEW t \in Texts
  PROVE  /\ ByteAt(t, 0) = 0
         /\ \A k \in 0..Len(t) : /\ ByteAt(t, k) = Widths(Bytes, t)[k] /\ ByteAt(t, k) \in Nat
                                 /\ UnitAt(t, k) \in Nat
         /\ \A i, j \in 0..Len(t) : i < j => ByteAt(t, i) < ByteAt(t, j) /\ UnitAt(t, i) < UnitAt(t, j)
  <1>1. Bytes \in [Chars -> Nat] /\ \A c \in Chars : Bytes[c] >= 1
    BY WidthsAssumption
  <1>2. Units \in [Chars -> Nat] /\ \A c \in Chars : Units[c] >= 1
    BY WidthsAssumption
  <1>3. \A k \in 0..Len(t) : /\ ByteAt(t, k) = Widths(Bytes, t)[k]
                             /\ UnitAt(t, k) = Widths(Units, t)[k]
    BY <1>1, <1>2, PrefixWidth DEF ByteAt, UnitAt
  <1>4. 0 \in 0..Len(t)
    BY DEF Texts
  <1>5. /\ Widths(Bytes, t) \in [0..Len(t) -> Nat] /\ Widths(Bytes, t)[0] = 0
        /\ \A i, j \in 0..Len(t) : i < j => Widths(Bytes, t)[i] < Widths(Bytes, t)[j]
    BY <1>1, WidthsStep, WidthsGrow
  <1>6. /\ Widths(Units, t) \in [0..Len(t) -> Nat]
        /\ \A i, j \in 0..Len(t) : i < j => Widths(Units, t)[i] < Widths(Units, t)[j]
    BY <1>2, WidthsStep, WidthsGrow
  <1> QED  BY <1>3, <1>4, <1>5, <1>6

\* The minimum and the maximum of a set of numbers.
LEMMA MinIs ==
  ASSUME NEW T \in SUBSET Nat, T # {}
  PROVE  Min(T) \in T /\ \A y \in T : Min(T) <= y
  BY Least DEF Min

LEMMA MaxIs ==
  ASSUME NEW T \in SUBSET Nat, T # {}, NEW b \in Nat, \A y \in T : y <= b
  PROVE  Max(T) \in T /\ \A y \in T : y <= Max(T)
  <1>1. PICK x \in T : \A y \in T : x >= y
    BY Greatest
  <1> QED  BY <1>1 DEF Max

\* The boundaries of a text are from 0 to its length in bytes.
LEMMA BoundariesAre ==
  ASSUME NEW t \in Texts
  PROVE  /\ Boundaries(t) \in SUBSET Nat /\ 0 \in Boundaries(t) /\ ByteAt(t, Len(t)) \in Boundaries(t)
         /\ \A b \in Boundaries(t) : b <= ByteAt(t, Len(t))
  <1>1. Len(t) \in 0..Len(t) /\ 0 \in 0..Len(t) /\ Len(t) \in Nat
    BY DEF Texts
  <1>2. \A k \in 0..Len(t) : k = Len(t) \/ k < Len(t)
    BY <1>1
  <1> QED  BY <1>1, <1>2, OffsetsGrow DEF Boundaries

\* clamp_to_char_boundary finds a boundary, and leaves a boundary alone.
LEMMA Clamped ==
  ASSUME NEW t \in Texts, NEW o \in Nat
  PROVE  /\ Clamp(t, o) \in Boundaries(t) /\ Clamp(t, o) \in Nat /\ Clamp(t, o) <= o
         /\ o \in Boundaries(t) => Clamp(t, o) = o
  <1> DEFINE T == {b \in Boundaries(t) : b <= o}
  <1>1. T \in SUBSET Nat /\ 0 \in T /\ \A y \in T : y <= o
    BY BoundariesAre
  <1>2. Max(T) \in T /\ \A y \in T : y <= Max(T)
    <2> HIDE DEF T
    <2> QED  BY <1>1, MaxIs
  <1> QED  BY <1>1, <1>2 DEF Clamp

\* clamp_*_range gives a range that can be sliced, and leaves such a range alone.
LEMMA RangesClamped ==
  ASSUME NEW t \in Texts, NEW r, r.start \in Nat, r.end \in Nat
  PROVE  /\ Sliceable(t, ClampRange(t, r))
         /\ ClampRange(t, r) = Span(ClampRange(t, r).start, ClampRange(t, r).end)
         /\ Sliceable(t, r) /\ r = Span(r.start, r.end) => ClampRange(t, r) = r
  <1>1. /\ Clamp(t, r.start) \in Boundaries(t) /\ Clamp(t, r.start) \in Nat
        /\ Clamp(t, r.end) \in Boundaries(t) /\ Clamp(t, r.end) \in Nat
        /\ r.start \in Boundaries(t) => Clamp(t, r.start) = r.start
        /\ r.end \in Boundaries(t) => Clamp(t, r.end) = r.end
    BY Clamped
  <1> QED  BY <1>1 DEF ClampRange, Sliceable, Span

\* previous_text_boundary and next_text_boundary give offsets.
LEMMA Neighbours ==
  ASSUME NEW t \in Texts, NEW o \in Nat
  PROVE  Previous(t, o) \in Nat /\ Following(t, o) \in Nat
  <1>1. Clamp(t, o) \in Nat
    BY Clamped
  <1> DEFINE P == {0} \cup {b \in Boundaries(t) : b < Clamp(t, o)}
             F == {ByteAt(t, Len(t))} \cup {b \in Boundaries(t) : b > Clamp(t, o)}
  <1>2. P \in SUBSET Nat /\ P # {} /\ \A y \in P : y <= Clamp(t, o)
    BY <1>1, BoundariesAre
  <1>3. F \in SUBSET Nat /\ F # {}
    BY BoundariesAre
  <1>4. Max(P) \in Nat /\ Min(F) \in Nat
    <2> HIDE DEF P, F
    <2> QED  BY <1>1, <1>2, <1>3, MaxIs, MinIs
  <1> QED  BY <1>4 DEF Previous, Following

-----------------------------------------------------------------------------
\* A boundary is after a number of characters, and one only.
LEMMA CharsAre ==
  ASSUME NEW t \in Texts
  PROVE  /\ \A o \in Boundaries(t) : CharsUpTo(t, o) \in 0..Len(t) /\ ByteAt(t, CharsUpTo(t, o)) = o
         /\ \A k \in 0..Len(t) : CharsUpTo(t, ByteAt(t, k)) = k
  <1>1. ASSUME NEW o \in Boundaries(t)
        PROVE  CharsUpTo(t, o) \in 0..Len(t) /\ ByteAt(t, CharsUpTo(t, o)) = o
    BY DEF Boundaries, CharsUpTo
  <1>2. ASSUME NEW k \in 0..Len(t) PROVE CharsUpTo(t, ByteAt(t, k)) = k
    <2> DEFINE j == CharsUpTo(t, ByteAt(t, k))
    <2>1. j \in 0..Len(t) /\ ByteAt(t, j) = ByteAt(t, k)
      BY <1>1 DEF Boundaries
    <2> HIDE DEF j
    <2>2. ~(j < k) /\ ~(k < j) /\ j \in Int /\ k \in Int
      BY <2>1, OffsetsGrow DEF Texts
    <2> QED  BY <2>2 DEF j
  <1> QED  BY <1>1, <1>2

\* What is put in the place of a range is between its start and its new end.
LEMMA Spliced ==
  ASSUME NEW t \in Texts, NEW r, Sliceable(t, r), NEW new \in Texts
  PROVE  LET u == Splice(t, r, new)
             there == Span(r.start, r.start + Total(Bytes, new))
         IN  u \in Texts /\ Sliceable(u, there) /\ Slice(u, there) = new
  <1> DEFINE u == Splice(t, r, new)
             k == CharsUpTo(t, r.start)
             m == CharsUpTo(t, r.end)
             a == SubSeq(t, 1, k)
             c == SubSeq(t, m + 1, Len(t))
             n == Len(new)
             end == r.start + Total(Bytes, new)
  <1>1. /\ k \in 0..Len(t) /\ ByteAt(t, k) = r.start /\ m \in 0..Len(t)
        /\ Len(t) \in Nat /\ n \in Nat
    BY CharsAre DEF Sliceable, Texts
  <1>2. /\ a \in Texts /\ Len(a) = k
        /\ c \in Texts /\ Len(c) \in Nat
    <2> HIDE DEF k, m
    <2>1. \A i \in 1..Len(t) : t[i] \in Chars
      BY ElementOfSeq DEF Texts
    <2>2. SubSeq(t, 1, k) \in Seq(Chars) /\ Len(SubSeq(t, 1, k)) = k
      BY <1>1, <2>1, SubSeqProperties
    <2>3. SubSeq(t, m + 1, Len(t)) \in Seq(Chars)
      BY <1>1, <2>1, SubSeqProperties
    <2> QED  BY <2>2, <2>3 DEF Texts
  <1>3. u = (a \o new) \o c
    BY DEF Splice
  <1>4. Total(Bytes, a) = r.start
    BY <1>1 DEF ByteAt
  <1> HIDE DEF k, m, a, c, u
  <1>5. /\ u \in Texts /\ Len(u) = k + n + Len(c)
        /\ \A i \in 1..k : u[0 + i] = a[i]
        /\ \A i \in 1..n : u[k + i] = new[i]
    <2>1. /\ a \o new \in Texts /\ Len(a \o new) = k + n
          /\ \A i \in 1..(k + n) : (a \o new)[i] = IF i <= k THEN a[i] ELSE new[i - k]
      BY <1>1, <1>2, ConcatProperties DEF Texts
    <2>2. /\ u \in Texts /\ Len(u) = (k + n) + Len(c)
          /\ \A i \in 1..((k + n) + Len(c)) : u[i] = IF i <= k + n THEN (a \o new)[i] ELSE c[i - (k + n)]
      <3> DEFINE b == a \o new
      <3>1. b \in Seq(Chars) /\ c \in Seq(Chars) /\ Len(b) = k + n
        BY <2>1, <1>2 DEF Texts
      <3>2. u = b \o c
        BY <1>3
      <3> HIDE DEF b
      <3>3. /\ u \in Seq(Chars) /\ Len(u) = (k + n) + Len(c)
            /\ \A i \in 1..((k + n) + Len(c)) : u[i] = IF i <= k + n THEN b[i] ELSE c[i - (k + n)]
        <4>1. /\ b \o c \in Seq(Chars) /\ Len(b \o c) = Len(b) + Len(c)
              /\ \A i \in 1..(Len(b) + Len(c)) :
                   (b \o c)[i] = IF i <= Len(b) THEN b[i] ELSE c[i - Len(b)]
          BY <3>1, ConcatProperties
        <4> QED  BY <3>1, <3>2, <4>1
      <3> QED  BY <3>3 DEF b, Texts
    <2>3. ASSUME NEW i \in 1..k PROVE u[0 + i] = a[i]
      BY <1>1, <1>2, <2>1, <2>2
    <2>4. ASSUME NEW i \in 1..n PROVE u[k + i] = new[i]
      <3>1. k + i \in 1..(k + n) /\ k + i \in 1..((k + n) + Len(c)) /\ (k + i) - k = i
        BY <1>1, <1>2
      <3>2. ~(k + i <= k) /\ k + i <= k + n
        BY <1>1
      <3> QED  BY <2>1, <2>2, <3>1, <3>2
    <2> QED  BY <1>1, <1>2, <2>2, <2>3, <2>4
  <1> HIDE DEF n
  <1>6. Bytes \in [Chars -> Nat]
    BY WidthsAssumption
  <1>7. ByteAt(u, k) = r.start /\ ByteAt(u, k + n) = end
    <2>1. k \in 0..Len(u) /\ k + n \in 0..Len(u) /\ 0 \in 0..Len(u) /\ 0 + k = k
      BY <1>1, <1>2, <1>5
    <2>2. Widths(Bytes, u)[0 + k] = Widths(Bytes, u)[0] + Widths(Bytes, a)[k]
      <3>1. 0 + Len(a) <= Len(u) /\ k \in 0..Len(a) /\ \A i \in 1..Len(a) : u[0 + i] = a[i]
        BY <1>1, <1>2, <1>5
      <3> QED  BY <1>2, <1>5, <1>6, <2>1, <3>1, WidthsAdd
    <2>3. Widths(Bytes, u)[k + n] = Widths(Bytes, u)[k] + Widths(Bytes, new)[n]
      <3>1. k + n <= Len(u) /\ n \in 0..n /\ \A i \in 1..n : u[k + i] = new[i]
        BY <1>1, <1>2, <1>5
      <3>2. k + Len(new) <= Len(u) /\ k \in 0..Len(u) /\ \A i \in 1..Len(new) : u[k + i] = new[i]
        BY <2>1, <3>1 DEF n
      <3>3. \A i \in 0..Len(new) : Widths(Bytes, u)[k + i] = Widths(Bytes, u)[k] + Widths(Bytes, new)[i]
        BY <1>5, <1>6, <3>2, WidthsAdd
      <3> QED  BY <3>1, <3>3 DEF n
    <2>4. Widths(Bytes, u)[0] = 0 /\ Widths(Bytes, a)[k] \in Nat
      <3>1. Widths(Bytes, u)[0] = 0
        BY <1>5, <1>6, WidthsStep
      <3>2. Widths(Bytes, a) \in [0..Len(a) -> Nat]
        BY <1>2, <1>6, WidthsStep
      <3>3. k \in 0..Len(a)
        BY <1>1, <1>2
      <3> QED  BY <3>1, <3>2, <3>3
    <2>5. ByteAt(u, k) = Widths(Bytes, u)[k] /\ ByteAt(u, k + n) = Widths(Bytes, u)[k + n]
      BY <1>5, <2>1, OffsetsGrow
    <2> QED  BY <1>2, <1>4, <2>1, <2>2, <2>3, <2>4, <2>5 DEF Total, n
  <1>8. k \in 0..Len(u) /\ k + n \in 0..Len(u)
    BY <1>1, <1>2, <1>5
  <1> HIDE DEF end
  <1>9. Sliceable(u, Span(r.start, end))
    <2>1. ByteAt(u, k) <= ByteAt(u, k + n)
      <3>1. n = 0 \/ k < k + n
        BY <1>1
      <3>2. k + 0 = k /\ ByteAt(u, k) \in Nat /\ ByteAt(u, k + n) \in Nat
        BY <1>1, <1>5, <1>8, OffsetsGrow
      <3> QED  BY <1>5, <1>8, <3>1, <3>2, OffsetsGrow
    <2> QED  BY <1>7, <1>8, <2>1 DEF Sliceable, Boundaries, Span
  <1>10. Slice(u, Span(r.start, end)) = new
    <2>1. CharsUpTo(u, r.start) = k /\ CharsUpTo(u, end) = k + n
      BY <1>5, <1>7, <1>8, CharsAre
    <2>2. Slice(u, Span(r.start, end)) = SubSeq(u, k + 1, k + n)
      BY <2>1 DEF Slice, Span
    <2> DEFINE s == SubSeq(u, k + 1, k + n)
    <2>3. \A i \in (k + 1)..(k + n) : u[i] \in Chars
      <3>1. \A i \in (k + 1)..(k + n) : i \in 1..Len(u)
        BY <1>1, <1>8
      <3> QED  BY <1>5, <3>1, ElementOfSeq DEF Texts
    <2>4. /\ s \in Seq(Chars)
          /\ Len(s) = IF k + 1 <= k + n THEN (k + n) - (k + 1) + 1 ELSE 0
          /\ \A i \in 1..((k + n) - (k + 1) + 1) : s[i] = u[(k + 1) + i - 1]
      <3>1. k + 1 \in Int /\ k + n \in Int
        BY <1>1
      <3> QED  BY <2>3, <3>1, SubSeqProperties
    <2> HIDE DEF s
    <2>5. Len(s) = n /\ \A i \in 1..n : s[i] = new[i]
      <3>1. (k + n) - (k + 1) + 1 = n /\ (k + 1 <= k + n <=> n # 0)
        BY <1>1
      <3>2. \A i \in 1..n : (k + 1) + i - 1 = k + i
        BY <1>1
      <3> QED  BY <1>1, <1>5, <2>4, <3>1, <3>2
    <2>6. s = new
      BY <2>4, <2>5, SeqEqual DEF Texts, n
    <2> QED  BY <2>2, <2>6 DEF s
  <1> QED  BY <1>5, <1>9, <1>10 DEF u, end

-----------------------------------------------------------------------------
\* offset_from_utf16 gives a boundary.
LEMMA FromUtf16Is ==
  ASSUME NEW t \in Texts, NEW o \in Nat
  PROVE  FromUtf16(t, o) \in Boundaries(t) /\ FromUtf16(t, o) \in Nat
  <1> DEFINE T == {Len(t)} \cup {k \in 0..Len(t) : UnitAt(t, k) >= o}
  <1>1. Len(t) \in Nat /\ T \in SUBSET (0..Len(t)) /\ T # {}
    BY DEF Texts
  <1>2. Min(T) \in 0..Len(t)
    <2>1. T \in SUBSET Nat
      BY <1>1
    <2> HIDE DEF T
    <2> QED  BY <1>1, <2>1, MinIs
  <1> HIDE DEF T
  <1>3. ByteAt(t, Min(T)) \in Boundaries(t)
    BY <1>2 DEF Boundaries
  <1> QED  BY <1>3, BoundariesAre DEF FromUtf16, T

\* A range in UTF-16 units is taken to offsets.
LEMMA RangesFromUtf16 ==
  ASSUME NEW t \in Texts, NEW r, r.start \in Nat, r.end \in Nat
  PROVE  /\ RangeFromUtf16(t, r).start \in Nat
         /\ RangeFromUtf16(t, r).end \in Nat
  BY FromUtf16Is DEF RangeFromUtf16, Span

\* There and back: a boundary is found again.
LEMMA ThereAndBack ==
  ASSUME NEW t \in Texts, NEW o \in Boundaries(t)
  PROVE  FromUtf16(t, ToUtf16(t, o)) = o
  <1>1. PICK k \in 0..Len(t) : ByteAt(t, k) = o
    BY DEF Boundaries
  <1>0. Len(t) \in Nat /\ k \in Nat /\ o \in Nat
    BY BoundariesAre DEF Texts
  <1> DEFINE there == {j \in 0..Len(t) : ByteAt(t, j) >= Clamp(t, o)}
             back == {Len(t)} \cup {j \in 0..Len(t) : UnitAt(t, j) >= UnitAt(t, k)}
  <1>2. \A j \in 0..Len(t) : (ByteAt(t, j) >= o <=> j >= k) /\ (UnitAt(t, j) >= UnitAt(t, k) <=> j >= k)
    <2> SUFFICES ASSUME NEW j \in 0..Len(t)
                 PROVE  (ByteAt(t, j) >= o <=> j >= k) /\ (UnitAt(t, j) >= UnitAt(t, k) <=> j >= k)
      OBVIOUS
    <2>1. /\ ByteAt(t, j) \in Nat /\ UnitAt(t, j) \in Nat /\ UnitAt(t, k) \in Nat /\ j \in Nat
          /\ j < k => ByteAt(t, j) < ByteAt(t, k) /\ UnitAt(t, j) < UnitAt(t, k)
          /\ k < j => ByteAt(t, k) < ByteAt(t, j) /\ UnitAt(t, k) < UnitAt(t, j)
      BY <1>0, OffsetsGrow
    <2>2. j < k \/ j = k \/ k < j
      BY <1>0, <2>1
    <2> QED  BY <1>0, <1>1, <2>1, <2>2
  <1>3. Clamp(t, o) = o
    BY <1>0, Clamped
  <1>4. there = k..Len(t) /\ back = k..Len(t)
    BY <1>0, <1>2, <1>3
  <1>5. Min(k..Len(t)) = k
    <2>1. k..Len(t) \in SUBSET Nat /\ k \in k..Len(t) /\ \A j \in k..Len(t) : k <= j
      BY <1>0
    <2>2. Min(k..Len(t)) \in k..Len(t) /\ Min(k..Len(t)) <= k
      BY <2>1, MinIs
    <2> QED  BY <1>0, <2>2
  <1>6. ToUtf16(t, o) = UnitAt(t, k)
    BY <1>4, <1>5 DEF ToUtf16
  <1> QED  BY <1>1, <1>4, <1>5, <1>6 DEF FromUtf16

Ranges == [start : Nat, end : Nat]

\* A range on boundaries, told in UTF-16 and asked back, is found again.
LEMMA SelectionThereAndBack ==
  ASSUME NEW t \in Texts, NEW r \in Ranges, Sliceable(t, r)
  PROVE  RangeFromUtf16(t, RangeToUtf16(t, r)) = ClampRange(t, r)
  <1>1. r.start \in Boundaries(t) /\ r.end \in Boundaries(t) /\ r.start \in Nat /\ r.end \in Nat
    BY BoundariesAre DEF Sliceable
  <1>2. RangeFromUtf16(t, RangeToUtf16(t, r)) = Span(r.start, r.end)
    BY <1>1, ThereAndBack DEF RangeFromUtf16, RangeToUtf16, Span
  <1>3. ClampRange(t, r) = r
    BY <1>1, RangesClamped DEF Span, Ranges
  <1> QED  BY <1>2, <1>3 DEF Span, Ranges

-----------------------------------------------------------------------------
\* A range on boundaries, and a field that fits its text.
OnText(t, r) == r \in Ranges /\ Sliceable(t, r)
Fields == [text : Texts \cup {None}, sel : Ranges, reversed : BOOLEAN,
           marked : Ranges \cup {None}, composed : Texts \cup {None}]
Fits(f) ==
  /\ f \in Fields /\ f.text \in Texts
  /\ OnText(f.text, f.sel)
  /\ Marking(f) => OnText(f.text, f.marked) /\ Slice(f.text, f.marked) = f.composed

\* What is on the text: what is clamped, and what two boundaries bound.
LEMMA OnTextIs ==
  ASSUME NEW t \in Texts
  PROVE  /\ \A r : OnText(t, r) => r.start \in Nat /\ r.end \in Nat
                                   /\ r.start \in Boundaries(t) /\ r.end \in Boundaries(t)
         /\ \A r : r.start \in Nat /\ r.end \in Nat => OnText(t, ClampRange(t, r))
         /\ \A i, j \in Boundaries(t) : i <= j => OnText(t, Span(i, j))
  <1>1. ASSUME NEW r, OnText(t, r)
        PROVE  r.start \in Nat /\ r.end \in Nat /\ r.start \in Boundaries(t) /\ r.end \in Boundaries(t)
    BY <1>1, BoundariesAre DEF OnText, Sliceable
  <1>2. ASSUME NEW r, r.start \in Nat, r.end \in Nat PROVE OnText(t, ClampRange(t, r))
    BY <1>2, RangesClamped, Clamped DEF OnText, ClampRange, Span, Ranges
  <1>3. ASSUME NEW i \in Boundaries(t), NEW j \in Boundaries(t), i <= j PROVE OnText(t, Span(i, j))
    BY <1>3, BoundariesAre DEF OnText, Sliceable, Span, Ranges
  <1> QED  BY <1>1, <1>2, <1>3

Choosing(f, s, b) == [f EXCEPT !.sel = s, !.reversed = b]
ChoosingOnly(f, s, b) ==
  [f EXCEPT !.sel = s, !.reversed = b, !.marked = None, !.composed = None]
Replacing(f, t) == [f EXCEPT !.text = t, !.marked = None, !.composed = None]

\* What writing some fields of the record leaves.
LEMMA Chosen ==
  ASSUME NEW f \in Fields, NEW s \in Ranges, NEW b \in BOOLEAN,
         NEW g, g = Choosing(f, s, b)
  PROVE  /\ g \in Fields /\ g.text = f.text /\ g.sel = s
         /\ g.marked = f.marked /\ g.composed = f.composed
  BY DEF Fields, Choosing

LEMMA Unmarking ==
  ASSUME NEW f \in Fields, NEW g, g = [f EXCEPT !.marked = None, !.composed = None]
  PROVE  /\ g \in Fields /\ g.text = f.text /\ g.sel = f.sel
         /\ g.marked = None
  BY DEF Fields

LEMMA ChosenUnmarked ==
  ASSUME NEW f \in Fields, NEW s \in Ranges, NEW b \in BOOLEAN,
         NEW g, g = ChoosingOnly(f, s, b)
  PROVE  /\ g \in Fields /\ g.text = f.text /\ g.sel = s
         /\ g.marked = None
  BY DEF Fields, ChoosingOnly

LEMMA Replaced ==
  ASSUME NEW f \in Fields, NEW t \in Texts,
         NEW g, g = Replacing(f, t)
  PROVE  /\ g \in Fields /\ g.text = t /\ g.sel = f.sel
         /\ g.marked = None
  BY DEF Fields, Replacing

\* The edits one by one keep a field on its text.
LEMMA AllSelected ==
  ASSUME NEW f \in Fields, f.text \in Texts
  PROVE  Fits(SelectAll(f))
  <1> DEFINE s == Span(0, ByteAt(f.text, Len(f.text)))
  <1>1. OnText(f.text, s)
    BY BoundariesAre, OnTextIs
  <1> HIDE DEF s
  <1>2. SelectAll(f) = ChoosingOnly(f, s, FALSE)
    BY DEF SelectAll, ChoosingOnly, s
  <1>3. s \in Ranges
    BY <1>1 DEF OnText
  <1> DEFINE g == SelectAll(f)
  <1>4. g \in Fields /\ g.text = f.text /\ g.sel = s /\ g.marked = None
    <2> DEFINE b == FALSE
    <2>1. g = ChoosingOnly(f, s, b) /\ b \in BOOLEAN
      BY <1>2
    <2> HIDE DEF g, s, b
    <2> QED  BY <1>3, <2>1, ChosenUnmarked
  <1> QED  BY <1>1, <1>4 DEF Fits, Marking, g

LEMMA Moved ==
  ASSUME NEW f, Fits(f), NEW o \in Boundaries(f.text)
  PROVE  Fits(MoveTo(f, o))
  <1> DEFINE s == Span(o, o)
  <1>1. OnText(f.text, s)
    BY BoundariesAre, OnTextIs DEF Fits
  <1> HIDE DEF s
  <1>2. MoveTo(f, o) = Choosing(f, s, FALSE)
    BY DEF MoveTo, Choosing, s
  <1>3. s \in Ranges
    BY <1>1 DEF OnText
  <1> DEFINE g == MoveTo(f, o)
  <1>4. /\ g \in Fields /\ g.text = f.text /\ g.sel = s
        /\ g.marked = f.marked /\ g.composed = f.composed
    <2> DEFINE b == FALSE
    <2>1. g = Choosing(f, s, b) /\ f \in Fields /\ b \in BOOLEAN
      BY <1>2 DEF Fits
    <2> HIDE DEF g, s, b
    <2> QED  BY <1>3, <2>1, Chosen
  <1> QED  BY <1>1, <1>4 DEF Fits, Marking, g

LEMMA Selected ==
  ASSUME NEW f, Fits(f), NEW o \in Boundaries(f.text)
  PROVE  Fits(SelectTo(f, o))
  <1>0. /\ f.text \in Texts /\ Boundaries(f.text) \in SUBSET Nat
        /\ f.sel.start \in Boundaries(f.text) /\ f.sel.end \in Boundaries(f.text)
    BY OnTextIs, BoundariesAre DEF Fits
  <1>1. PICK i \in Boundaries(f.text), j \in Boundaries(f.text), back \in BOOLEAN :
          /\ i <= j
          /\ SelectTo(f, o) = ChoosingOnly(f, Span(i, j), back)
    <2> DEFINE i == IF f.reversed THEN o ELSE f.sel.start
               j == IF f.reversed THEN f.sel.end ELSE o
    <2>1. i \in Boundaries(f.text) /\ j \in Boundaries(f.text) /\ i \in Nat /\ j \in Nat
      BY <1>0
    <2> DEFINE r == IF f.reversed THEN Span(o, f.sel.end) ELSE Span(f.sel.start, o)
    <2>2. r.start = i /\ r.end = j /\ r = Span(i, j)
      BY DEF Span
    <2> DEFINE s == IF r.end < r.start THEN Span(r.end, r.start) ELSE r
               b == IF r.end < r.start THEN ~f.reversed ELSE f.reversed
    <2>3. SelectTo(f, o) = ChoosingOnly(f, s, b)
      BY DEF SelectTo, ChoosingOnly
    <2>4. b \in BOOLEAN
      BY DEF Fits, Fields
    <2> HIDE DEF b
    <2>5. s = IF j < i THEN Span(j, i) ELSE Span(i, j)
      <3> HIDE DEF i, j, r
      <3> QED  BY <2>2
    <2> HIDE DEF i, j, s
    <2>6. CASE j < i
      BY <2>1, <2>3, <2>4, <2>5, <2>6
    <2>7. CASE ~(j < i)
      BY <2>1, <2>3, <2>4, <2>5, <2>7
    <2> QED  BY <2>6, <2>7
  <1>2. OnText(f.text, Span(i, j))
    BY <1>0, <1>1, OnTextIs
  <1> DEFINE s == Span(i, j)
             g == SelectTo(f, o)
  <1>3. s \in Ranges
    BY <1>2 DEF OnText
  <1>4. g \in Fields /\ g.text = f.text /\ g.sel = s /\ g.marked = None
    BY <1>1, <1>3, ChosenUnmarked DEF Fits
  <1> QED  BY <1>0, <1>2, <1>4 DEF Fits, Marking

LEMMA UnmarkedFits ==
  ASSUME NEW f, Fits(f)
  PROVE  Fits(Unmarked(f))
  <1> DEFINE g == Unmarked(f)
  <1>1. g \in Fields /\ g.text = f.text /\ g.sel = f.sel /\ g.marked = None
    BY Unmarking DEF Unmarked, Fits
  <1> QED  BY <1>1 DEF Fits, Marking

\* A range the input method or a key may name.
IsRange(r) == r = None \/ (r.start \in Nat /\ r.end \in Nat)

\* What an insertion takes the place of is on the text.
LEMMA Targeted ==
  ASSUME NEW f, Fits(f), NEW asked, IsRange(asked)
  PROVE  OnText(f.text, Target(f, asked))
  <1>1. f.text \in Texts /\ f.sel.start \in Nat /\ f.sel.end \in Nat
    BY OnTextIs DEF Fits
  <1>2. Marking(f) => f.marked.start \in Nat /\ f.marked.end \in Nat
    BY <1>1, OnTextIs DEF Fits
  <1> DEFINE r == CASE asked # None -> asked
                    [] asked = None /\ Marking(f) -> f.marked
                    [] OTHER -> f.sel
  <1>3. r.start \in Nat /\ r.end \in Nat
    <2>1. CASE asked # None
      BY <2>1 DEF IsRange
    <2>2. CASE asked = None /\ Marking(f)
      BY <1>2, <2>2
    <2>3. CASE asked = None /\ ~Marking(f)
      BY <1>1, <2>3
    <2> QED  BY <2>1, <2>2, <2>3
  <1>4. Target(f, asked) = ClampRange(f.text, r)
    BY DEF Target
  <1> HIDE DEF r
  <1> QED  BY <1>1, <1>3, <1>4, OnTextIs

\* An insertion leaves the cursor at the end of what was inserted, and no mark.
LEMMA Inserted ==
  ASSUME NEW f, Fits(f), NEW asked, IsRange(asked), NEW new \in Texts
  PROVE  Fits(Insert(f, asked, new))
  <1> DEFINE r == Target(f, asked)
             t == Sanitized(new)
             u == Splice(f.text, r, t)
             end == r.start + Total(Bytes, t)
  <1>1. OnText(f.text, r) /\ f.text \in Texts /\ t \in Texts
    BY Targeted, SanitizedType DEF Fits
  <1> HIDE DEF r, t
  <1>2. u \in Texts /\ Sliceable(u, Span(r.start, end))
    BY <1>1, Spliced DEF OnText
  <1> DEFINE s == Span(end, end)
             h == MoveTo(f, end)
             g == Insert(f, asked, new)
  <1>3. g = Replacing(h, u)
    BY DEF Insert, Replacing, r, t
  <1>5. h = Choosing(f, s, FALSE)
    BY DEF MoveTo, Choosing
  <1> HIDE DEF u, end, h, g
  <1>4. OnText(u, Span(end, end))
    <2>1. end \in Boundaries(u) /\ end \in Nat
      BY <1>2, BoundariesAre DEF Sliceable, Span
    <2> QED  BY <1>2, <2>1, OnTextIs
  <1>6. s \in Ranges
    BY <1>4 DEF OnText
  <1>7. h \in Fields /\ h.sel = s
    BY <1>5, <1>6, Chosen DEF Fits
  <1>8. g \in Fields /\ g.text = u /\ g.sel = s /\ g.marked = None
    BY <1>2, <1>3, <1>7, Replaced
  <1> QED  BY <1>2, <1>4, <1>8 DEF Fits, Marking, g

\* What the input method composes is marked where it stands in the new text.
LEMMA Composed ==
  ASSUME NEW f, Fits(f), NEW asked, IsRange(asked), NEW new \in Texts, NEW chosen, IsRange(chosen)
  PROVE  Fits(InsertMarked(f, asked, new, chosen))
  <1> DEFINE q == AskedRange(f, asked)
             r == Target(f, q)
             t == Sanitized(new)
             u == Splice(f.text, r, t)
             end == r.start + Total(Bytes, t)
             c == IF chosen = None THEN Span(end, end)
                  ELSE LET n == RangeFromUtf16(t, chosen)
                       IN  Span(r.start + n.start, r.start + n.end)
  <1>0. f.text \in Texts
    BY DEF Fits
  <1>1. IsRange(q)
    BY <1>0, RangesFromUtf16 DEF IsRange, AskedRange
  <1> HIDE DEF q
  <1>2. OnText(f.text, r) /\ t \in Texts
    BY <1>1, Targeted, SanitizedType
  <1> HIDE DEF r, t
  <1>3. u \in Texts /\ Sliceable(u, Span(r.start, end)) /\ Slice(u, Span(r.start, end)) = t
    BY <1>0, <1>2, Spliced DEF OnText
  <1>4. r.start \in Nat /\ end \in Nat
    BY <1>0, <1>2, <1>3, BoundariesAre, OnTextIs DEF Sliceable, Span
  <1> HIDE DEF u, end
  <1>5. c.start \in Nat /\ c.end \in Nat
    <2>1. CASE chosen = None
      BY <1>4, <2>1 DEF Span
    <2>2. CASE chosen # None
      <3> DEFINE n == RangeFromUtf16(t, chosen)
      <3>1. n.start \in Nat /\ n.end \in Nat
        BY <1>2, <2>2, RangesFromUtf16 DEF IsRange
      <3> HIDE DEF n
      <3>2. c = Span(r.start + n.start, r.start + n.end)
        BY <2>2 DEF n
      <3> HIDE DEF c
      <3> QED  BY <1>4, <3>1, <3>2 DEF Span
    <2> QED  BY <2>1, <2>2
  <1>6. InsertMarked(f, asked, new, chosen) =
          [text |-> u, sel |-> ClampRange(u, c), reversed |-> FALSE,
           marked |-> IF t = <<>> THEN None ELSE Span(r.start, end),
           composed |-> IF t = <<>> THEN None ELSE t]
    BY DEF InsertMarked, q, r, t, u, end, Span
  <1> HIDE DEF c
  <1>7. OnText(u, ClampRange(u, c)) /\ OnText(u, Span(r.start, end))
    BY <1>3, <1>4, <1>5, OnTextIs DEF OnText, Span, Ranges
  <1> QED  BY <1>2, <1>3, <1>6, <1>7 DEF Fits, Fields, OnText, Marking

-----------------------------------------------------------------------------
\* The texts the field starts from.
LEMMA PlainTexts ==
  /\ <<>> \in Texts
  /\ \A t \in Typed : t \in Texts
  /\ \A u \in Urls : u \in Texts
  BY InputsAssumption DEF Texts

\* What trim leaves of a text is a text.
LEMMA TrimmedType ==
  ASSUME NEW t \in Texts
  PROVE  Trimmed(t) \in Texts
  <1> DEFINE kept == {k \in 1..Len(t) : t[k] \notin {Space, Newline}}
  <1>1. CASE kept = {}
    BY <1>1, PlainTexts DEF Trimmed
  <1>2. CASE kept # {}
    <2>1. Len(t) \in Nat /\ kept \in SUBSET Nat /\ \A k \in kept : k <= Len(t) /\ k \in 1..Len(t)
      BY DEF Texts
    <2>2. Min(kept) \in kept /\ Max(kept) \in kept
      <3> HIDE DEF kept
      <3> QED  BY <1>2, <2>1, MinIs, MaxIs
    <2>3. Trimmed(t) = SubSeq(t, Min(kept), Max(kept))
      BY <1>2 DEF Trimmed
    <2> HIDE DEF kept
    <2>4. Min(kept) \in 1..Len(t) /\ Max(kept) \in 1..Len(t)
      BY <2>1, <2>2
    <2>5. \A i \in Min(kept)..Max(kept) : t[i] \in Chars
      <3>1. \A i \in Min(kept)..Max(kept) : i \in 1..Len(t)
        BY <2>1, <2>4
      <3> QED  BY <3>1, ElementOfSeq DEF Texts
    <2>6. SubSeq(t, Min(kept), Max(kept)) \in Seq(Chars)
      <3>1. Min(kept) \in Int /\ Max(kept) \in Int
        BY <2>4
      <3> QED  BY <2>5, <3>1, SubSeqProperties
    <2> QED  BY <2>3, <2>6 DEF Texts
  <1> QED  BY <1>1, <1>2

\* Every edit of a field that fits its text fits the new text, and slices only
\* on characters.
Good(e) == Fits(e.field) /\ ~Panics(e)

\* An edit that slices nothing, and one that slices on characters, is good.
LEMMA NoSlices ==
  ASSUME NEW f, NEW g, Fits(g)
  PROVE  Good(Edited(f, g, {}))
  BY DEF Good, Panics, Edited

LEMMA Slices ==
  ASSUME NEW f, NEW g, Fits(g), NEW rs, \A r \in rs : Sliceable(f.text, r)
  PROVE  Good(Edited(f, g, rs))
  <1>1. \A s \in {<<f.text, r>> : r \in rs} : Sliceable(s[1], s[2])
    OBVIOUS
  <1> QED  BY <1>1 DEF Good, Panics, Edited

\* Insertions, wherever they are asked for.
LEMMA InsertEditIsGood ==
  ASSUME NEW f, Fits(f), NEW asked, IsRange(asked), NEW new \in Texts
  PROVE  Good(InsertEdit(f, asked, new))
  <1>1. Fits(Insert(f, asked, new)) /\ \A q \in {Target(f, asked)} : Sliceable(f.text, q)
    BY Inserted, Targeted DEF OnText
  <1> QED  BY <1>1, Slices DEF InsertEdit

\* The offsets and ranges the keys name are offsets and ranges of the text.
LEMMA FieldOffsets ==
  ASSUME NEW f, Fits(f)
  PROVE  /\ f.text \in Texts
         /\ Cursor(f) \in Nat
         /\ \A o \in Moves(f) : Clamp(f.text, o) \in Boundaries(f.text)
         /\ IsRange(Before(f)) /\ IsRange(After(f)) /\ IsRange(f.sel) /\ IsRange(None)
  <1>1. f.text \in Texts /\ f.sel.start \in Nat /\ f.sel.end \in Nat
    BY OnTextIs DEF Fits
  <1>2. Cursor(f) \in Nat
    BY <1>1 DEF Cursor
  <1>3. Previous(f.text, Cursor(f)) \in Nat /\ Following(f.text, Cursor(f)) \in Nat
    BY <1>1, <1>2, Neighbours
  <1>4. \A o \in Moves(f) : o \in Nat
    BY <1>1, <1>3, BoundariesAre DEF Moves
  <1>5. IsRange(Before(f)) /\ IsRange(After(f))
    BY <1>1, <1>2, <1>3 DEF IsRange, Before, After, Span
  <1> QED  BY <1>1, <1>2, <1>4, <1>5, Clamped DEF IsRange

\* Whatever the key, whatever the input method asks for, wherever the click.
LEMMA KeyEditsAreGood ==
  ASSUME NEW f, Fits(f), NEW e \in KeyEdits(f)
  PROVE  Good(e)
  <1>0. f.text \in Texts
    BY DEF Fits
  <1>1. CASE e \in {Edited(f, SelectAll(f), {}), Edited(f, f, IF IsEmpty(f.sel) THEN {} ELSE {f.sel})}
    <2>1. Fits(SelectAll(f))
      BY <1>0, AllSelected DEF Fits
    <2>2. Good(Edited(f, SelectAll(f), {}))
      BY <2>1, NoSlices
    <2>3. Good(Edited(f, f, IF IsEmpty(f.sel) THEN {} ELSE {f.sel}))
      <3>1. \A r \in IF IsEmpty(f.sel) THEN {} ELSE {f.sel} : Sliceable(f.text, r)
        BY DEF Fits, OnText
      <3> QED  BY <3>1, Slices
    <2> QED  BY <1>1, <2>2, <2>3
  <1>3. CASE e \in {InsertEdit(f, r, <<>>) : r \in {Before(f), After(f)}}
    BY <1>3, FieldOffsets, InsertEditIsGood, PlainTexts
  <1>4. CASE e = Edited(f, Insert(f, f.sel, <<>>), {f.sel, Target(f, f.sel)})
    <2>1. IsRange(f.sel) /\ Sliceable(f.text, f.sel)
      BY FieldOffsets DEF Fits, OnText
    <2>2. Fits(Insert(f, f.sel, <<>>)) /\ Sliceable(f.text, Target(f, f.sel))
      BY <2>1, Inserted, Targeted, PlainTexts DEF OnText
    <2>3. \A q \in {f.sel, Target(f, f.sel)} : Sliceable(f.text, q)
      BY <2>1, <2>2
    <2> QED  BY <1>4, <2>2, <2>3, Slices
  <1>5. CASE e \in {InsertEdit(f, None, t) : t \in {Trimmed(t) : t \in Typed} \cup Typed}
    <2>1. PICK t \in {Trimmed(t) : t \in Typed} \cup Typed : e = InsertEdit(f, None, t)
      BY <1>5
    <2>2. t \in Texts
      BY PlainTexts, TrimmedType
    <2> QED  BY <2>1, <2>2, FieldOffsets, InsertEditIsGood
  <1>6. ASSUME NEW o \in Moves(f), NEW m, m = Clamp(f.text, o),
               e = Edited(f, MoveTo(f, m), {}) \/ e = Edited(f, SelectTo(f, m), {})
        PROVE  Good(e)
    <2>1. m \in Boundaries(f.text)
      BY <1>6, FieldOffsets
    <2>2. Fits(MoveTo(f, m)) /\ Fits(SelectTo(f, m))
      BY <2>1, Moved, Selected
    <2> QED  BY <1>6, <2>2, NoSlices
  <1> QED  BY <1>1, <1>3, <1>4, <1>5, <1>6 DEF KeyEdits

LEMMA ImeEditsAreGood ==
  ASSUME NEW f, Fits(f), NEW e \in ImeEdits(f)
  PROVE  Good(e)
  <1>0. f.text \in Texts
    BY DEF Fits
  <1>1. \A r \in Asked \cup {None} : IsRange(r)
    BY InputsAssumption DEF IsRange
  <1>2. ASSUME NEW r \in Asked \cup {None}
        PROVE  IsRange(AskedRange(f, r))
    BY <1>0, <1>1, RangesFromUtf16 DEF IsRange, AskedRange
  <1>3. CASE e = Edited(f, Unmarked(f), {})
    BY <1>3, UnmarkedFits, NoSlices
  <1>4. ASSUME NEW t \in Typed, NEW r \in Asked \cup {None}
        PROVE  Good(InsertEdit(f, AskedRange(f, r), t))
    BY <1>2, PlainTexts, InsertEditIsGood
  <1>5. ASSUME NEW t \in Typed, NEW r \in Asked \cup {None}, NEW c \in Asked \cup {None},
               e = Edited(f, InsertMarked(f, r, t, c), {})
        PROVE  Good(e)
    BY <1>1, <1>5, PlainTexts, Composed, NoSlices
  <1>6. ASSUME NEW r \in Asked
        PROVE  Good(Read(f, r))
    <2>1. /\ RangeFromUtf16(f.text, r).start \in Nat
          /\ RangeFromUtf16(f.text, r).end \in Nat
      BY <1>0, InputsAssumption, RangesFromUtf16
    <2>2. \A q \in {ClampRange(f.text, RangeFromUtf16(f.text, r))} : Sliceable(f.text, q)
      BY <1>0, <2>1, RangesClamped
    <2> QED  BY <2>2, Slices DEF Read
  <1>7. CASE e \in {InsertEdit(f, AskedRange(f, r), t) : t \in Typed, r \in Asked \cup {None}}
    BY <1>4, <1>7
  <1>8. CASE e \in {Edited(f, InsertMarked(f, r, t, c), {})
                     : t \in Typed, r \in Asked \cup {None}, c \in Asked \cup {None}}
    BY <1>5, <1>8
  <1> QED  BY <1>3, <1>6, <1>7, <1>8 DEF ImeEdits

LEMMA EditsAreGood ==
  ASSUME NEW f, Fits(f), NEW e \in Bounded(f)
  PROVE  Good(e)
  <1>1. e \in KeyEdits(f) \/ e \in ImeEdits(f) \/ e \in ClickEdits(f)
    BY DEF Bounded, Edits
  <1>2. CASE e \in ClickEdits(f)
    <2>1. PICK o \in Boundaries(f.text) : e = Edited(f, MoveTo(f, o), {})
      BY <1>2 DEF ClickEdits
    <2> QED  BY <2>1, Moved, NoSlices
  <1> QED  BY <1>1, <1>2, KeyEditsAreGood, ImeEditsAreGood

-----------------------------------------------------------------------------
Clamping(f, s, b, m) == [f EXCEPT !.sel = s, !.reversed = b, !.marked = m]
Retexting(f, t) == [f EXCEPT !.text = t]

\* Two more ways to write fields of the record.
LEMMA ClampingLeaves ==
  ASSUME NEW f \in Fields, NEW s \in Ranges, NEW b \in BOOLEAN, NEW m \in Ranges \cup {None},
         NEW g, g = Clamping(f, s, b, m)
  PROVE  /\ g \in Fields /\ g.text = f.text /\ g.sel = s
         /\ g.marked = m /\ g.composed = f.composed
  BY DEF Fields, Clamping

LEMMA RetextingLeaves ==
  ASSUME NEW f \in Fields, NEW t \in Texts, NEW g, g = Retexting(f, t)
  PROVE  /\ g \in Fields /\ g.text = t /\ g.sel = f.sel
         /\ g.marked = f.marked /\ g.composed = f.composed
  BY DEF Fields, Retexting

\* A new edit has nothing marked.
LEMMA NewEdits ==
  ASSUME NEW t \in Texts \cup {None}
  PROVE  Edit(t) \in Fields /\ Edit(t).text = t /\ ~Marking(Edit(t))
  BY DEF Edit, Span, Fields, Ranges, Marking

\* clamp_to_text makes a selection fit and leaves a mark that fits as it is.
LEMMA ClampEditFits ==
  ASSUME NEW f \in Fields, f.text \in Texts,
         Marking(f) => OnText(f.text, f.marked) /\ Slice(f.text, f.marked) = f.composed
  PROVE  Fits(ClampEdit(f)) /\ (Marking(ClampEdit(f)) => Marking(f))
  <1> DEFINE i == Clamp(f.text, f.sel.start)
             j == Clamp(f.text, f.sel.end)
             s == IF i <= j THEN Span(i, j) ELSE Span(j, i)
             b == IF i <= j THEN f.reversed ELSE ~f.reversed
             m == IF f.marked = None THEN None ELSE ClampRange(f.text, f.marked)
             g == ClampEdit(f)
  <1>1. g = Clamping(f, s, b, m)
    BY DEF ClampEdit, Clamping
  <1>2. b \in BOOLEAN
    BY DEF Fields
  <1>3. f.sel.start \in Nat /\ f.sel.end \in Nat
    BY DEF Fields, Ranges
  <1>4. s = ClampRange(f.text, f.sel)
    BY DEF ClampRange
  <1> HIDE DEF b, s, i, j
  <1>5. OnText(f.text, s)
    BY <1>3, <1>4, OnTextIs
  <1>6. m = f.marked
    <2>1. CASE f.marked # None
      <3>1. OnText(f.text, f.marked)
        BY <2>1 DEF Marking
      <3>2. ClampRange(f.text, f.marked) = f.marked
        <4> DEFINE r == f.marked
        <4>1. r \in Ranges /\ Sliceable(f.text, r)
          BY <3>1 DEF OnText
        <4> HIDE DEF r
        <4>2. r.start \in Nat /\ r.end \in Nat
          BY <4>1 DEF Ranges
        <4>3. r = Span(r.start, r.end)
          BY <4>1 DEF Ranges, Span
        <4>4. ClampRange(f.text, r) = r
          BY <4>1, <4>2, <4>3, RangesClamped
        <4> QED  BY <4>4 DEF r
      <3> QED  BY <2>1, <3>2
    <2> QED  BY <2>1
  <1>7. s \in Ranges /\ m \in Ranges \cup {None}
    BY <1>5, <1>6 DEF OnText, Fields
  <1> HIDE DEF m, g
  <1>8. /\ g \in Fields /\ g.text = f.text /\ g.sel = s
        /\ g.marked = m /\ g.composed = f.composed
    BY <1>1, <1>2, <1>7, ClampingLeaves
  <1> QED  BY <1>5, <1>6, <1>8 DEF Fits, Marking, g

-----------------------------------------------------------------------------
\* The invariant.
TextsFit ==
  /\ url \in Texts /\ names \in [Workspaces -> Texts] /\ open \subseteq Workspaces
  /\ address \in Fields /\ (Marking(address) => Fits(address))
  /\ rename \in [workspace : Workspaces \cup {None}, edit : Fields]
  /\ rename.edit.text # None => Fits(rename.edit)
  /\ Marking(rename.edit) \/ rename.workspace # None => Fits(rename.edit)
  /\ ~panicked

\* No text is told from every text.
LEMMA NoneIsNoText == None \notin Texts
  BY InputsAssumption DEF Texts

\* ensure_browser_address_edit makes the address an edit that fits what is shown,
\* and marks nothing: with no text typed nothing is marked, so the address the
\* page has moved to meanwhile takes the place of no composition.
LEMMA EnsuredFits ==
  ASSUME TextsFit
  PROVE  AddressShown \in Texts /\ Fits(Ensured) /\ (Marking(Ensured) => Marking(address))
  <1> DEFINE t == AddressShown
             g == Retexting(address, t)
  <1>1. t \in Texts
    BY DEF AddressShown, TextsFit, Fields
  <1> HIDE DEF t
  <1>2. /\ g \in Fields /\ g.text = t /\ g.sel = address.sel
        /\ g.marked = address.marked /\ g.composed = address.composed
    BY <1>1, RetextingLeaves DEF TextsFit
  <1>3. Marking(address) => t = address.text
    BY NoneIsNoText DEF TextsFit, Fits, AddressShown, t
  <1>4. Ensured = ClampEdit(g)
    BY DEF Ensured, Retexting, t
  <1> HIDE DEF g
  <1>5. Marking(g) => OnText(g.text, g.marked) /\ Slice(g.text, g.marked) = g.composed
    BY <1>2, <1>3 DEF Marking, TextsFit, Fits
  <1>6. Marking(g) => Marking(address)
    BY <1>2 DEF Marking
  <1> QED  BY <1>1, <1>2, <1>4, <1>5, <1>6, ClampEditFits DEF t

\* What Escape, Enter and an agent's navigation leave.
LEMMA NoEditIsPlain == NoEdit \in Fields /\ ~Marking(NoEdit) /\ NoEdit.text = None
  BY NewEdits DEF NoEdit

\* The invariant holds at first and through every action.
LEMMA InitFits == Init => TextsFit
  <1> SUFFICES ASSUME Init PROVE TextsFit
    OBVIOUS
  <1>1. url \in Texts /\ names \in [Workspaces -> Texts]
    BY InputsAssumption, PlainTexts DEF Init, Texts
  <1>2. rename.edit = NoEdit /\ rename.workspace = None
        /\ rename \in [workspace : Workspaces \cup {None}, edit : Fields]
    BY NoEditIsPlain DEF Init, NoRename
  <1> QED  BY <1>1, <1>2, NoEditIsPlain DEF Init, TextsFit

LEMMA NoRenameIsPlain ==
  /\ NoRename \in [workspace : Workspaces \cup {None}, edit : Fields]
  /\ NoRename.workspace = None /\ NoRename.edit.text = None /\ ~Marking(NoRename.edit)
  BY NoEditIsPlain DEF NoRename

LEMMA StepFits == TextsFit /\ [Next]_vars => TextsFit'
  <1> SUFFICES ASSUME TextsFit, [Next]_vars PROVE TextsFit'
    OBVIOUS
  <1>0. ASSUME UNCHANGED <<address>> PROVE (Marking(address) => Fits(address))'
    BY <1>0 DEF TextsFit
  <1>1. CASE EditAddress
    <2>1. PICK e \in Bounded(Ensured) : address' = e.field /\ panicked' = Panics(e)
      BY <1>1 DEF EditAddress
    <2>2. Good(e)
      BY <2>1, EnsuredFits, EditsAreGood
    <2>3. Fits(address') /\ ~panicked'
      BY <2>1, <2>2 DEF Good
    <2>4. address' \in Fields
      BY <2>3 DEF Fits
    <2> QED  BY <1>1, <2>3, <2>4 DEF EditAddress, TextsFit
  <1>2. CASE Cancel
    BY <1>2, NoEditIsPlain DEF Cancel, TextsFit
  <1>3. ASSUME NEW queued \in BOOLEAN, Go(queued) PROVE TextsFit'
    <2>1. CASE queued
      BY <1>3, <2>1, NoEditIsPlain, PlainTexts DEF Go, TextsFit
    <2>2. CASE ~queued
      <3> DEFINE f == Ensured
                 t == Trimmed(AddressShown)
                 g == Retexting(f, t)
      <3>1. f \in Fields /\ ~Marking(f) /\ t \in Texts
        BY <1>3, EnsuredFits, TrimmedType DEF Go, Fits
      <3>2. address' = g /\ url' = url
        BY <1>3, <2>2 DEF Go, Retexting
      <3> HIDE DEF f, t
      <3>3. g \in Fields /\ g.marked = f.marked
        BY <3>1, RetextingLeaves
      <3> HIDE DEF g
      <3>4. address' \in Fields /\ ~Marking(address')
        BY <3>1, <3>2, <3>3 DEF Marking
      <3> QED  BY <1>3, <3>2, <3>4 DEF Go, TextsFit
    <2> QED  BY <2>1, <2>2
  <1>4. CASE AgentNavigates
    BY <1>4, NoEditIsPlain, PlainTexts DEF AgentNavigates, TextsFit
  <1>5. CASE PageMoves
    BY <1>5, PlainTexts DEF PageMoves, TextsFit
  <1>6. CASE EditName
    <2>1. PICK e \in Bounded(rename.edit) :
            rename' = [rename EXCEPT !.edit = e.field] /\ panicked' = Panics(e)
      BY <1>6 DEF EditName
    <2>2. Good(e)
      BY <1>6, <2>1, EditsAreGood DEF EditName, TextsFit
    <2>3. Fits(e.field) /\ ~panicked' /\ e.field \in Fields
      BY <2>1, <2>2 DEF Good, Fits
    <2>4. /\ rename'.edit = e.field
          /\ rename' \in [workspace : Workspaces \cup {None}, edit : Fields]
      BY <2>1, <2>3 DEF TextsFit
    <2> QED  BY <1>6, <2>3, <2>4 DEF EditName, TextsFit
  <1>7. CASE CancelRename
    BY <1>7, NoRenameIsPlain DEF CancelRename, TextsFit
  <1>8. CASE Commit
    <2>1. Trimmed(rename.edit.text) \in Texts
      BY <1>8, TrimmedType DEF Commit, TextsFit, Fits
    <2>2. names' \in [Workspaces -> Texts]
      <3> DEFINE name == Trimmed(rename.edit.text)
      <3>1. names' = names \/ names' = [names EXCEPT ![Renamed] = name]
        BY <1>8 DEF Commit
      <3> HIDE DEF name
      <3> QED  BY <2>1, <3>1 DEF TextsFit, name
    <2> QED  BY <1>8, <2>2, NoRenameIsPlain DEF Commit, TextsFit
  <1>9. ASSUME NEW w \in Workspaces, Begin(w) PROVE TextsFit'
    <2> DEFINE f == Edit(names[w])
               g == SelectAll(f)
    <2>1. f \in Fields /\ f.text \in Texts
      BY NewEdits DEF TextsFit
    <2>2. Fits(g)
      BY <2>1, AllSelected
    <2>3. rename' = [workspace |-> w, edit |-> g]
      BY <1>9 DEF Begin
    <2> HIDE DEF f, g
    <2>4. rename'.edit = g /\ rename' \in [workspace : Workspaces \cup {None}, edit : Fields]
      BY <2>2, <2>3 DEF Fits
    <2> QED  BY <1>9, <2>2, <2>4 DEF Begin, TextsFit
  <1>10. ASSUME NEW w \in Workspaces, Close(w) PROVE TextsFit'
    BY <1>10, NoRenameIsPlain DEF Close, TextsFit
  <1>11. ASSUME NEW w \in Workspaces, Activate(w) PROVE TextsFit'
    BY <1>11 DEF Activate, TextsFit
  <1>12. CASE UNCHANGED vars
    BY <1>12 DEF vars, TextsFit
  <1> QED  BY <1>1, <1>2, <1>3, <1>4, <1>5, <1>6, <1>7, <1>8, <1>9, <1>10, <1>11, <1>12 DEF Next

\* Every field keeps to its text: the selection and the mark stand on characters,
\* the mark on what was composed, and every slice so far was on characters.
THEOREM TextsAlwaysFit == Spec => []TextsFit
  BY InitFits, StepFits, PTL DEF Spec

\* No sequence of edits, navigations and renames makes the shell slice a text
\* inside a character, whatever the widths of the characters, the texts and the
\* ranges the input method asks for.  (clamp_to_char_boundary)
THEOREM NeverInsideACharacter == Spec => []NeverPanics
  <1>1. TextsFit => NeverPanics
    BY DEF TextsFit, NeverPanics
  <1> QED  BY <1>1, TextsAlwaysFit, PTL

\* The selection told to the input method in UTF-16 and asked back is the
\* selection, for characters of any width.  (range_to_utf16, range_from_utf16)
THEOREM SelectionIsToldTruly == Spec => []ImeMeansTheSelection
  <1>1. TextsFit => ImeMeansTheSelection
    <2> SUFFICES ASSUME TextsFit,
                        NEW f \in {rename.edit} \cup (IF address.text = None THEN {} ELSE {Ensured}),
                        f.text # None
                 PROVE  RangeFromUtf16(f.text, RangeToUtf16(f.text, f.sel)) = ClampRange(f.text, f.sel)
      BY DEF ImeMeansTheSelection
    <2>1. Fits(f)
      BY EnsuredFits DEF TextsFit
    <2>2. f.text \in Texts /\ f.sel \in Ranges /\ Sliceable(f.text, f.sel)
      BY <2>1 DEF Fits, OnText
    <2> QED  BY <2>2, SelectionThereAndBack
  <1> QED  BY <1>1, TextsAlwaysFit, PTL

\* What is marked is what the input method last composed, however the cursor and
\* the address move meanwhile.  (replace_and_mark_*, clamp_to_text)
THEOREM CompositionIsMarked == Spec => []MarkedIsComposed
  <1>1. TextsFit => MarkedIsComposed
    BY DEF TextsFit, MarkedIsComposed, Fits, OnText
  <1> QED  BY <1>1, TextsAlwaysFit, PTL

\* A workspace gets only the name typed for it, trimmed and not blank, whichever
\* workspaces are open, closed or in front.  (commit_workspace_rename_from_ui)
THEOREM NamesAreTyped == Spec => RenameIsWhatWasTyped
  <1> DEFINE A == \A w \in Workspaces : names'[w] # names[w] =>
                    /\ rename.workspace = w
                    /\ names'[w] = Trimmed(rename.edit.text)
                    /\ names'[w] # <<>>
  <1>1. TextsFit /\ [Next]_vars => [A]_vars
    <2> SUFFICES ASSUME TextsFit, [Next]_vars, NEW w \in Workspaces, names'[w] # names[w]
                 PROVE  /\ rename.workspace = w
                        /\ names'[w] = Trimmed(rename.edit.text)
                        /\ names'[w] # <<>>
      OBVIOUS
    <2>1. names' # names
      OBVIOUS
    <2>2. Commit
      BY <2>1 DEF Next, vars, EditAddress, Cancel, Go, AgentNavigates, PageMoves,
                  EditName, CancelRename, Begin, Close, Activate
    <2> DEFINE name == Trimmed(rename.edit.text)
    <2>3. names' = [names EXCEPT ![Renamed] = name] /\ name # <<>>
      BY <2>1, <2>2 DEF Commit
    <2> HIDE DEF name
    <2> QED  BY <2>3 DEF TextsFit, Renamed, name
  <1> QED  BY <1>1, TextsAlwaysFit, PTL DEF Spec, RenameIsWhatWasTyped
===============================================================================
