------------------------ MODULE BeforeRowsCsvProofs ------------------------
(***************************************************************************)
(* The CSV file of the before-rows reads back as those rows, for every     *)
(* artifact and every text.  The definitions it is about are recursive, so *)
(* the proof is by induction.  Induction is stated here for sets of        *)
(* numbers and sets of sequences rather than for predicates: the provers   *)
(* can instantiate a lemma with a set.                                     *)
(***************************************************************************)
EXTENDS BeforeRowsCsv, WellFoundedInduction, TLAPS

-----------------------------------------------------------------------------
(* Induction. *)

LEMMA LeastNumber ==
  ASSUME NEW T \in SUBSET Nat, T # {}
  PROVE  \E m \in T : \A k \in T : m <= k
<1> DEFINE R == OpToRel(<, Nat)
<1>1. IsWellFoundedOn(R, Nat)
  BY NatLessThanWellFounded
<1>2. \E x \in T : \A y \in T : ~ (<<y, x>> \in R)
  BY <1>1, WFMin
<1>3. \A x, y \in Nat : <<y, x>> \in R <=> y < x
  BY DEF OpToRel
<1> HIDE DEF R
<1>4. PICK x \in T : \A y \in T : ~ (<<y, x>> \in R)
  BY <1>2
<1>5. \A y \in T : ~(y < x)
  BY <1>3, <1>4
<1> QED
  BY <1>5

LEMMA SetInduction ==
  ASSUME NEW S \in SUBSET Nat, 0 \in S, \A n \in S : n + 1 \in S
  PROVE  S = Nat
<1> SUFFICES ASSUME Nat \ S # {} PROVE FALSE
  OBVIOUS
<1>1. PICK m \in Nat \ S : \A k \in Nat \ S : m <= k
  BY LeastNumber
<1> QED
  BY <1>1

LEMMA Appended ==
  ASSUME NEW A, NEW s \in Seq(A), NEW a \in A
  PROVE  /\ Append(s, a) \in Seq(A)
         /\ Len(Append(s, a)) = Len(s) + 1
         /\ Append(s, a)[Len(s) + 1] = a
         /\ \A i \in 1 .. Len(s) : Append(s, a)[i] = s[i]
OBVIOUS

IsLonger(u, t, c, n) ==
  /\ n = Len(t) /\ u = Append(t, c) /\ Len(u) = n + 1
  /\ DOMAIN t = 1 .. n /\ DOMAIN u = 1 .. n + 1
  /\ u[n + 1] = c /\ \A i \in 1 .. n : u[i] = t[i]

LEMMA Longer ==
  ASSUME NEW A, NEW t \in Seq(A), NEW c \in A
  PROVE  \E n \in Nat, u \in Seq(A) : IsLonger(u, t, c, n)
<1>1. PICK n \in Nat : n = Len(t) /\ DOMAIN t = 1 .. n
  OBVIOUS
<1>2. PICK u \in Seq(A) : u = Append(t, c) /\ Len(u) = n + 1
  BY <1>1, Appended
<1>3. DOMAIN u = 1 .. n + 1
  BY <1>2
<1>4. u[n + 1] = c /\ \A i \in 1 .. n : u[i] = t[i]
  BY <1>1, <1>2, Appended
<1> QED
  BY <1>1, <1>2, <1>3, <1>4 DEF IsLonger

LEMMA IsSequence ==
  ASSUME NEW A, NEW n \in Nat, NEW f \in [1 .. n -> A]
  PROVE  f \in Seq(A) /\ Len(f) = n
OBVIOUS

\* A sequence that goes on where a shorter one ends.
LEMMA Grown ==
  ASSUME NEW A, NEW n \in Nat, NEW f \in [1 .. n -> A], NEW g \in [1 .. n + 1 -> A],
         \A i \in 1 .. n : g[i] = f[i]
  PROVE  g = Append(f, g[n + 1]) /\ f \in Seq(A) /\ Len(f) = n
<1>1. f \in Seq(A) /\ Len(f) = n
  BY IsSequence
<1>2. g \in Seq(A) /\ Len(g) = n + 1
  BY IsSequence
<1>3. g[n + 1] \in A
  OBVIOUS
<1>4. /\ Append(f, g[n + 1]) \in Seq(A) /\ Len(Append(f, g[n + 1])) = n + 1
      /\ Append(f, g[n + 1])[n + 1] = g[n + 1]
      /\ \A i \in 1 .. n : Append(f, g[n + 1])[i] = f[i]
  BY <1>1, <1>3, Appended
<1>5. \A i \in 1 .. n + 1 : g[i] = Append(f, g[n + 1])[i]
  <2> SUFFICES ASSUME NEW i \in 1 .. n + 1, i # n + 1
               PROVE  g[i] = Append(f, g[n + 1])[i]
    BY <1>4
  <2>1. i \in 1 .. n
    OBVIOUS
  <2> QED
    BY <1>4, <2>1
<1> QED
  BY <1>1, <1>2, <1>4, <1>5

LEMMA LastApart ==
  ASSUME NEW A, NEW s \in Seq(A), s # << >>
  PROVE  \E t \in Seq(A), a \in A : s = Append(t, a) /\ Len(s) = Len(t) + 1
<1> DEFINE n == Len(s) - 1
           t == SubSeq(s, 1, n)
<1>1. Len(s) \in Nat \ {0} /\ n \in Nat
  OBVIOUS
<1>2. t \in Seq(A) /\ Len(t) = n /\ \A i \in 1 .. n : t[i] = s[i]
  <2>1. \A m \in 0 .. Len(s) : /\ SubSeq(s, 1, m) \in Seq(A)
                               /\ Len(SubSeq(s, 1, m)) = m
                               /\ \A i \in 1 .. m : SubSeq(s, 1, m)[i] = s[i]
    OBVIOUS
  <2> QED
    BY <1>1, <2>1
<1>3. s[Len(s)] \in A
  BY <1>1
<1> HIDE DEF t
<1>4. /\ Append(t, s[Len(s)]) \in Seq(A)
      /\ Len(Append(t, s[Len(s)])) = Len(s)
      /\ \A i \in 1 .. Len(s) : Append(t, s[Len(s)])[i] = s[i]
  BY <1>1, <1>2, <1>3
<1>5. s = Append(t, s[Len(s)])
  BY <1>4
<1> QED
  BY <1>1, <1>2, <1>3, <1>5

LEMMA SequenceInduction ==
  ASSUME NEW A, NEW S, << >> \in S, \A s \in S \cap Seq(A), a \in A : Append(s, a) \in S
  PROVE  Seq(A) \subseteq S
<1> DEFINE N == {n \in Nat : \A s \in Seq(A) : Len(s) = n => s \in S}
<1>1. 0 \in N
  <2>1. \A s \in Seq(A) : Len(s) = 0 => s = << >>
    OBVIOUS
  <2> QED
    BY <2>1
<1>2. ASSUME NEW n \in N PROVE n + 1 \in N
  <2>1. SUFFICES ASSUME NEW s \in Seq(A), Len(s) = n + 1 PROVE s \in S
    OBVIOUS
  <2>2. s # << >>
    BY <2>1
  <2>3. PICK t \in Seq(A), a \in A : s = Append(t, a) /\ Len(s) = Len(t) + 1
    BY <2>2, LastApart
  <2>4. Len(t) = n
    BY <2>1, <2>3
  <2> QED
    BY <2>3, <2>4
<1> HIDE DEF N
<1>3. N = Nat
  <2>1. N \in SUBSET Nat
    BY DEF N
  <2> QED
    BY <1>1, <1>2, <2>1, SetInduction
<1> QED
  BY <1>3 DEF N

\* A function defined by what it is at 0 and by how it goes on exists.
IsIteration(f, X, x, n, F) ==
  f \in [0 .. n -> X] /\ f[0] = x /\ \A i \in 1 .. n : f[i] = F[i][f[i - 1]]

LEMMA Iteration ==
  ASSUME NEW X, NEW x \in X, NEW n \in Nat, NEW F \in [1 .. n -> [X -> X]]
  PROVE  \E f : IsIteration(f, X, x, n, F)
<1> DEFINE Runs(m) == {f \in [0 .. m -> X] :
                         f[0] = x /\ \A i \in 1 .. m : f[i] = F[i][f[i - 1]]}
           N == {m \in Nat : m <= n => Runs(m) # {}}
<1>1. 0 \in N
  <2>1. [i \in 0 .. 0 |-> x] \in Runs(0)
    OBVIOUS
  <2> QED
    BY <2>1
<1>2. ASSUME NEW m \in N PROVE m + 1 \in N
  <2>1. SUFFICES ASSUME m + 1 <= n PROVE Runs(m + 1) # {}
    OBVIOUS
  <2>2. PICK f : f \in Runs(m)
    BY <2>1
  <2>3. f \in [0 .. m -> X] /\ F[m + 1] \in [X -> X]
    BY <2>1, <2>2
  <2> DEFINE g == [i \in 0 .. m + 1 |-> IF i = m + 1 THEN F[m + 1][f[m]] ELSE f[i]]
  <2>4. g \in [0 .. m + 1 -> X]
    BY <2>3
  <2>5. g[0] = x
    BY <2>2
  <2>6. ASSUME NEW i \in 1 .. m + 1 PROVE g[i] = F[i][g[i - 1]]
    BY <2>2
  <2> QED
    BY <2>4, <2>5, <2>6
<1> HIDE DEF N
<1>3. N = Nat
  <2>1. N \in SUBSET Nat
    BY DEF N
  <2> QED
    BY <1>1, <1>2, <2>1, SetInduction
<1> QED
  BY <1>3 DEF N, IsIteration

-----------------------------------------------------------------------------
(* Pieces of a text put together. *)

\* f[i] is what the first i pieces make.
PutTogether(f, A, ps) ==
  /\ f \in [1 .. Len(ps) -> Seq(A)]
  /\ f[1] = ps[1]
  /\ \A i \in 2 .. Len(ps) : f[i] = f[i - 1] \o ps[i]

IsFlattening(f, ps) ==
  f = [i \in 1 .. Len(ps) |-> IF i = 1 THEN ps[i] ELSE f[i - 1] \o ps[i]]

LEMMA FlattenDef ==
  ASSUME NEW ps, Len(ps) # 0, NEW f, IsFlattening(f, ps)
  PROVE  \E h : IsFlattening(h, ps) /\ FlattenSeq(ps) = h[Len(ps)]
<1> DEFINE h == CHOOSE g : IsFlattening(g, ps)
<1>1. FlattenSeq(ps) = h[Len(ps)]
  BY DEF FlattenSeq, IsFlattening
<1>2. IsFlattening(h, ps)
  OBVIOUS
<1> HIDE DEF h
<1> QED
  BY <1>1, <1>2

LEMMA FlattenValue ==
  ASSUME NEW A, NEW ps \in Seq(Seq(A)), Len(ps) # 0, NEW f, PutTogether(f, A, ps)
  PROVE  FlattenSeq(ps) = f[Len(ps)]
<1>1. PICK n \in Nat : n = Len(ps) /\ n # 0
  OBVIOUS
<1>2. f \in [1 .. n -> Seq(A)] /\ f[1] = ps[1] /\ \A i \in 2 .. n : f[i] = f[i - 1] \o ps[i]
  BY <1>1 DEF PutTogether
<1>3. IsFlattening(f, ps)
  <2>1. \A i \in 1 .. n : f[i] = IF i = 1 THEN ps[i] ELSE f[i - 1] \o ps[i]
    <3> SUFFICES ASSUME NEW i \in 1 .. n, i # 1 PROVE f[i] = f[i - 1] \o ps[i]
      BY <1>2
    <3>1. i \in 2 .. n
      OBVIOUS
    <3> QED
      BY <1>2, <3>1
  <2> QED
    BY <1>1, <1>2, <2>1 DEF IsFlattening
<1>4. PICK h : IsFlattening(h, ps) /\ FlattenSeq(ps) = h[n]
  BY <1>1, <1>3, FlattenDef
<1>5. /\ h[1] = ps[1]
      /\ \A i \in 2 .. n : h[i] = h[i - 1] \o ps[i]
  <2>1. h = [i \in 1 .. n |-> IF i = 1 THEN ps[i] ELSE h[i - 1] \o ps[i]]
    BY <1>1, <1>4 DEF IsFlattening
  <2>2. \A i \in 1 .. n : h[i] = IF i = 1 THEN ps[i] ELSE h[i - 1] \o ps[i]
    BY <2>1, Zenon
  <2>3. 1 \in 1 .. n /\ \A i \in 2 .. n : i \in 1 .. n /\ i # 1
    BY <1>1
  <2> QED
    BY <2>2, <2>3, Zenon
<1> DEFINE N == {k \in Nat : k + 1 <= n => h[k + 1] = f[k + 1]}
<1>6. 0 \in N
  BY <1>2, <1>5
<1>7. ASSUME NEW k \in N PROVE k + 1 \in N
  <2>1. SUFFICES ASSUME k + 2 <= n PROVE h[k + 2] = f[k + 2]
    OBVIOUS
  <2>2. h[k + 1] = f[k + 1] /\ k + 2 \in 2 .. n /\ (k + 2) - 1 = k + 1
    BY <2>1
  <2> QED
    BY <1>2, <1>5, <2>2, Zenon
<1> HIDE DEF N
<1>8. N = Nat
  <2>1. N \in SUBSET Nat
    BY DEF N
  <2> QED
    BY <1>6, <1>7, <2>1, SetInduction
<1>9. n - 1 \in N
  BY <1>1, <1>8
<1> QED
  BY <1>1, <1>4, <1>9 DEF N

LEMMA FlattenRun ==
  ASSUME NEW A, NEW ps \in Seq(Seq(A)), Len(ps) # 0
  PROVE  \E f : PutTogether(f, A, ps)
<1>n. PICK n \in Nat : n = Len(ps) /\ n # 0
  OBVIOUS
<1> DEFINE F == [i \in 1 .. n |-> [t \in Seq(A) |-> t \o ps[i]]]
<1>1. \A i \in 1 .. n : ps[i] \in Seq(A)
  BY <1>n
<1>2. F \in [1 .. n -> [Seq(A) -> Seq(A)]]
  BY <1>1
<1>3. << >> \in Seq(A)
  OBVIOUS
<1> HIDE DEF F
<1>4. PICK f : IsIteration(f, Seq(A), << >>, n, F)
  BY <1>2, <1>3, Iteration, Zenon
<1>i. f \in [0 .. n -> Seq(A)] /\ f[0] = << >> /\ \A i \in 1 .. n : f[i] = F[i][f[i - 1]]
  BY <1>4 DEF IsIteration
<1>5. \A i \in 1 .. n : f[i] = f[i - 1] \o ps[i]
  <2> SUFFICES ASSUME NEW i \in 1 .. n PROVE f[i] = f[i - 1] \o ps[i]
    OBVIOUS
  <2>1. f[i - 1] \in Seq(A)
    BY <1>i
  <2>2. F[i][f[i - 1]] = f[i - 1] \o ps[i]
    BY <2>1, Zenon DEF F
  <2> QED
    BY <1>i, <2>2
<1>6. f[1] = ps[1]
  <2>1. 1 \in 1 .. n /\ 1 - 1 = 0
    BY <1>n
  <2>2. f[1] = << >> \o ps[1] /\ ps[1] \in Seq(A)
    BY <1>1, <1>i, <1>5, <2>1
  <2> QED
    BY <2>2
<1> DEFINE g == [i \in 1 .. n |-> f[i]]
<1>7. g \in [1 .. n -> Seq(A)] /\ g[1] = ps[1]
  BY <1>n, <1>i, <1>6
<1>8. \A i \in 2 .. n : g[i] = g[i - 1] \o ps[i]
  <2> SUFFICES ASSUME NEW i \in 2 .. n PROVE g[i] = g[i - 1] \o ps[i]
    OBVIOUS
  <2>1. i \in 1 .. n /\ i - 1 \in 1 .. n
    OBVIOUS
  <2> QED
    BY <1>5, <2>1, Zenon
<1> HIDE DEF g
<1>9. PutTogether(g, A, ps)
  BY <1>n, <1>7, <1>8 DEF PutTogether
<1> QED
  BY <1>9

LEMMA FlattenEmpty == FlattenSeq(<< >>) = << >>
BY DEF FlattenSeq

\* FlattenSeq puts its pieces together in their order.
LEMMA FlattenAppend ==
  ASSUME NEW A, NEW ps \in Seq(Seq(A)), NEW p \in Seq(A)
  PROVE  FlattenSeq(Append(ps, p)) = IF ps = << >> THEN p ELSE FlattenSeq(ps) \o p
<1>1. /\ Append(ps, p) \in Seq(Seq(A)) /\ Len(Append(ps, p)) = Len(ps) + 1
      /\ Append(ps, p)[Len(ps) + 1] = p /\ \A i \in 1 .. Len(ps) : Append(ps, p)[i] = ps[i]
      /\ Len(ps) \in Nat /\ (ps = << >> <=> Len(ps) = 0)
  OBVIOUS
<1>2. PICK n \in Nat, qs \in Seq(Seq(A)) :
        /\ n = Len(ps) /\ qs = Append(ps, p) /\ Len(qs) = n + 1 /\ qs[n + 1] = p
        /\ \A i \in 1 .. n : qs[i] = ps[i]
        /\ ps = << >> <=> n = 0
  BY <1>1, Zenon
<1>3. Len(qs) # 0
  BY <1>2
<1>4. PICK f : PutTogether(f, A, qs)
  BY <1>2, <1>3, FlattenRun, Zenon
<1>f. /\ f \in [1 .. n + 1 -> Seq(A)] /\ f[1] = qs[1]
      /\ \A i \in 2 .. n + 1 : f[i] = f[i - 1] \o qs[i]
  BY <1>2, <1>4 DEF PutTogether
<1>5. FlattenSeq(qs) = f[n + 1]
  BY <1>2, <1>3, <1>4, FlattenValue, Zenon
<1>6. CASE n = 0
  <2>1. f[n + 1] = p
    BY <1>2, <1>f, <1>6
  <2> QED
    BY <1>2, <1>5, <1>6, <2>1
<1>7. CASE n > 0
  <2> DEFINE g == [i \in 1 .. n |-> f[i]]
  <2>1. Len(ps) # 0 /\ g[n] = f[n]
    BY <1>2, <1>7
  <2>2. PutTogether(g, A, ps)
    <3>1. g[1] = ps[1]
      BY <1>2, <1>f, <1>7
    <3>2. ASSUME NEW i \in 2 .. n PROVE g[i] = g[i - 1] \o ps[i]
      <4>1. i \in 2 .. n + 1 /\ i \in 1 .. n /\ i - 1 \in 1 .. n
        OBVIOUS
      <4>2. f[i] = f[i - 1] \o qs[i] /\ qs[i] = ps[i]
        BY <1>2, <1>f, <4>1
      <4> QED
        BY <4>1, <4>2, Zenon
    <3>3. g \in [1 .. n -> Seq(A)]
      BY <1>f
    <3> HIDE DEF g
    <3> QED
      BY <1>2, <3>1, <3>2, <3>3 DEF PutTogether
  <2>3. FlattenSeq(ps) = f[n]
    <3> HIDE DEF g
    <3>1. FlattenSeq(ps) = g[Len(ps)]
      BY <2>1, <2>2, FlattenValue, Zenon
    <3> QED
      BY <1>2, <2>1, <3>1
  <2>4. f[n + 1] = f[n] \o p
    <3>1. n + 1 \in 2 .. n + 1 /\ (n + 1) - 1 = n
      BY <1>7
    <3>2. f[n + 1] = f[(n + 1) - 1] \o qs[n + 1]
      BY <1>f, <3>1
    <3> QED
      BY <1>2, <3>1, <3>2
  <2>5. ps # << >>
    BY <1>2, <1>7
  <2> QED
    BY <1>2, <1>5, <2>3, <2>4, <2>5, Zenon
<1> QED
  BY <1>6, <1>7

LEMMA FlattenType ==
  ASSUME NEW A
  PROVE  \A ps \in Seq(Seq(A)) : FlattenSeq(ps) \in Seq(A)
<1> DEFINE S == {ps \in Seq(Seq(A)) : FlattenSeq(ps) \in Seq(A)}
<1>1. << >> \in S
  <2>1. << >> \in Seq(A) /\ << >> \in Seq(Seq(A))
    OBVIOUS
  <2> QED
    BY <2>1, FlattenEmpty
<1>2. ASSUME NEW ps \in S \cap Seq(Seq(A)), NEW p \in Seq(A) PROVE Append(ps, p) \in S
  <2>1. FlattenSeq(ps) \o p \in Seq(A) /\ Append(ps, p) \in Seq(Seq(A))
    OBVIOUS
  <2> QED
    BY <2>1, FlattenAppend
<1> HIDE DEF S
<1>3. Seq(Seq(A)) \subseteq S
  BY <1>1, <1>2, SequenceInduction
<1> QED
  BY <1>3 DEF S

-----------------------------------------------------------------------------
(* The reader, character by character. *)

ReaderState == [mode : {"field", "quoted", "closed", "malformed"}, cell : CsvText,
          line : Seq(CsvText), lines : Seq(Seq(CsvText))]

At(mode, cell, line, lines) == [mode |-> mode, cell |-> cell, line |-> line, lines |-> lines]

LEMMA ReadCharType ==
  ASSUME NEW s \in ReaderState, NEW c \in Character
  PROVE  ReadChar(s, c) \in ReaderState
<1>1. PICK m \in {"field", "quoted", "closed", "malformed"}, cell \in CsvText,
           line \in Seq(CsvText), lines \in Seq(Seq(CsvText)) : s = At(m, cell, line, lines)
  BY DEF ReaderState, At
<1>2. Append(cell, c) \in CsvText /\ << >> \in CsvText
  BY DEF CsvText
<1>3. << >> \in Seq(CsvText) /\ Append(line, cell) \in Seq(CsvText)
  OBVIOUS
<1>4. Append(lines, Append(line, cell)) \in Seq(Seq(CsvText))
  BY <1>3
<1>5. \A k \in {"field", "quoted", "closed", "malformed"}, x \in CsvText,
        y \in Seq(CsvText), z \in Seq(Seq(CsvText)) : At(k, x, y, z) \in ReaderState
  BY DEF ReaderState, At
<1>6. ReadChar(s, c) \in {At("quoted", cell, line, lines), At("closed", cell, line, lines),
                          At("quoted", Append(cell, c), line, lines),
                          At("field", << >>, Append(line, cell), lines),
                          At("field", << >>, << >>, Append(lines, Append(line, cell))),
                          At("malformed", cell, line, lines)}
  BY <1>1 DEF ReadChar, At
<1> QED
  BY <1>2, <1>3, <1>4, <1>5, <1>6

\* f[i] is where the reader is after i characters.
Reads(f, start, text) ==
  /\ f \in [0 .. Len(text) -> ReaderState]
  /\ f[0] = start
  /\ \A i \in 1 .. Len(text) : f[i] = ReadChar(f[i - 1], text[i])

IsReading(f, start, text) ==
  f = [n \in 0 .. Len(text) |-> IF n = 0 THEN start ELSE ReadChar(f[n - 1], text[n])]

LEMMA ReadDef ==
  ASSUME NEW start, NEW text, NEW f, IsReading(f, start, text)
  PROVE  \E h : IsReading(h, start, text) /\ ReadFrom(start, text) = h[Len(text)]
<1> DEFINE h == CHOOSE g : IsReading(g, start, text)
<1>1. ReadFrom(start, text) = h[Len(text)]
  BY DEF ReadFrom, IsReading
<1>2. IsReading(h, start, text)
  OBVIOUS
<1> HIDE DEF h
<1> QED
  BY <1>1, <1>2

LEMMA ReadValue ==
  ASSUME NEW start, NEW text \in CsvText, NEW f, Reads(f, start, text)
  PROVE  ReadFrom(start, text) = f[Len(text)]
<1>1. PICK n \in Nat : n = Len(text)
  BY DEF CsvText
<1>2. f \in [0 .. n -> ReaderState] /\ f[0] = start
      /\ \A i \in 1 .. n : f[i] = ReadChar(f[i - 1], text[i])
  BY <1>1 DEF Reads
<1>3. IsReading(f, start, text)
  <2>1. \A i \in 0 .. n : f[i] = IF i = 0 THEN start ELSE ReadChar(f[i - 1], text[i])
    <3> SUFFICES ASSUME NEW i \in 0 .. n, i # 0 PROVE f[i] = ReadChar(f[i - 1], text[i])
      BY <1>2
    <3>1. i \in 1 .. n
      OBVIOUS
    <3> QED
      BY <1>2, <3>1
  <2> QED
    BY <1>1, <1>2, <2>1 DEF IsReading
<1>4. PICK h : IsReading(h, start, text) /\ ReadFrom(start, text) = h[n]
  BY <1>1, <1>3, ReadDef
<1>5. h[0] = start /\ \A i \in 1 .. n : h[i] = ReadChar(h[i - 1], text[i])
  <2>1. h = [i \in 0 .. n |-> IF i = 0 THEN start ELSE ReadChar(h[i - 1], text[i])]
    BY <1>1, <1>4 DEF IsReading
  <2>2. \A i \in 0 .. n : h[i] = IF i = 0 THEN start ELSE ReadChar(h[i - 1], text[i])
    BY <2>1, Zenon
  <2>3. 0 \in 0 .. n /\ \A i \in 1 .. n : i \in 0 .. n /\ i # 0
    OBVIOUS
  <2> QED
    BY <2>2, <2>3, Zenon
<1> DEFINE N == {k \in Nat : k <= n => h[k] = f[k]}
<1>6. 0 \in N
  BY <1>2, <1>5
<1>7. ASSUME NEW k \in N PROVE k + 1 \in N
  <2>1. SUFFICES ASSUME k + 1 <= n PROVE h[k + 1] = f[k + 1]
    OBVIOUS
  <2>2. h[k] = f[k] /\ k + 1 \in 1 .. n /\ (k + 1) - 1 = k
    BY <2>1
  <2> QED
    BY <1>2, <1>5, <2>2, Zenon
<1> HIDE DEF N
<1>8. N = Nat
  <2>1. N \in SUBSET Nat
    BY DEF N
  <2> QED
    BY <1>6, <1>7, <2>1, SetInduction
<1>9. n \in N
  BY <1>8
<1> QED
  BY <1>1, <1>4, <1>9 DEF N

LEMMA ReadRun ==
  ASSUME NEW start \in ReaderState, NEW text \in CsvText
  PROVE  \E f : Reads(f, start, text)
<1>1. PICK n \in Nat : n = Len(text) /\ \A i \in 1 .. n : text[i] \in Character
  BY DEF CsvText
<1> DEFINE F == [i \in 1 .. n |-> [s \in ReaderState |-> ReadChar(s, text[i])]]
<1>2. F \in [1 .. n -> [ReaderState -> ReaderState]]
  BY <1>1, ReadCharType
<1> HIDE DEF F
<1>3. PICK f : IsIteration(f, ReaderState, start, n, F)
  BY <1>2, Iteration, Zenon
<1>4. f \in [0 .. n -> ReaderState] /\ f[0] = start /\ \A i \in 1 .. n : f[i] = F[i][f[i - 1]]
  BY <1>3 DEF IsIteration
<1>5. ASSUME NEW i \in 1 .. n PROVE f[i] = ReadChar(f[i - 1], text[i])
  <2>1. f[i - 1] \in ReaderState
    BY <1>4
  <2>2. F[i][f[i - 1]] = ReadChar(f[i - 1], text[i])
    BY <2>1, Zenon DEF F
  <2> QED
    BY <1>4, <2>2
<1> QED
  BY <1>1, <1>4, <1>5 DEF Reads

LEMMA ReadEmpty == ASSUME NEW s \in ReaderState PROVE ReadFrom(s, << >>) = s
<1>1. << >> \in CsvText /\ Len(<< >>) = 0
  BY DEF CsvText
<1>2. PICK f : Reads(f, s, << >>)
  BY <1>1, ReadRun
<1>3. ReadFrom(s, << >>) = f[Len(<< >>)]
  BY <1>1, <1>2, ReadValue, Zenon
<1>4. f[0] = s
  BY <1>2 DEF Reads
<1> QED
  BY <1>1, <1>3, <1>4

LEMMA ReadAppend ==
  ASSUME NEW s \in ReaderState, NEW text \in CsvText, NEW c \in Character
  PROVE  /\ ReadFrom(s, text) \in ReaderState
         /\ ReadFrom(s, Append(text, c)) = ReadChar(ReadFrom(s, text), c)
<1>1. /\ Append(text, c) \in CsvText /\ Len(Append(text, c)) = Len(text) + 1
      /\ Append(text, c)[Len(text) + 1] = c
      /\ \A i \in 1 .. Len(text) : Append(text, c)[i] = text[i]
      /\ Len(text) \in Nat
  BY DEF CsvText
<1>2. PICK n \in Nat, long \in CsvText :
        /\ n = Len(text) /\ long = Append(text, c) /\ Len(long) = n + 1 /\ long[n + 1] = c
        /\ \A i \in 1 .. n : long[i] = text[i]
  BY <1>1, Zenon
<1>3. PICK f : Reads(f, s, long)
  BY ReadRun
<1>4. /\ f \in [0 .. n + 1 -> ReaderState] /\ f[0] = s
      /\ \A i \in 1 .. n + 1 : f[i] = ReadChar(f[i - 1], long[i])
  BY <1>2, <1>3 DEF Reads
<1>5. ReadFrom(s, long) = f[n + 1]
  BY <1>2, <1>3, ReadValue, Zenon
<1> DEFINE g == [i \in 0 .. n |-> f[i]]
<1>6. g \in [0 .. n -> ReaderState] /\ g[0] = s /\ g[n] = f[n]
  BY <1>4
<1>7. ASSUME NEW i \in 1 .. n PROVE g[i] = ReadChar(g[i - 1], text[i])
  <2>1. i \in 0 .. n /\ i - 1 \in 0 .. n /\ i \in 1 .. n + 1
    OBVIOUS
  <2>2. f[i] = ReadChar(f[i - 1], text[i])
    BY <1>2, <1>4, <2>1
  <2> QED
    BY <2>1, <2>2, Zenon
<1> HIDE DEF g
<1>8. Reads(g, s, text)
  BY <1>2, <1>6, <1>7 DEF Reads
<1>9. ReadFrom(s, text) = g[n]
  BY <1>2, <1>8, ReadValue, Zenon
<1>10. f[n + 1] = ReadChar(f[n], c)
  <2>1. n + 1 \in 1 .. n + 1 /\ (n + 1) - 1 = n
    OBVIOUS
  <2> QED
    BY <1>2, <1>4, <2>1
<1>11. g[n] \in ReaderState
  BY <1>6
<1> QED
  BY <1>2, <1>5, <1>6, <1>9, <1>10, <1>11, Zenon

LEMMA ReadType ==
  ASSUME NEW s \in ReaderState, NEW text \in CsvText
  PROVE  ReadFrom(s, text) \in ReaderState
<1>1. PICK c : c \in Character
  BY CharacterAssumption
<1> QED
  BY <1>1, ReadAppend

\* A text is read by its parts.
LEMMA ReadParts ==
  ASSUME NEW s \in ReaderState, NEW t \in CsvText, NEW u \in CsvText
  PROVE  t \o u \in CsvText /\ ReadFrom(s, t \o u) = ReadFrom(ReadFrom(s, t), u)
<1> DEFINE S == {v \in CsvText : ReadFrom(s, t \o v) = ReadFrom(ReadFrom(s, t), v)}
<1>1. << >> \in S
  <2>1. t \o << >> = t /\ << >> \in CsvText
    BY DEF CsvText
  <2> QED
    BY <2>1, ReadType, ReadEmpty
<1>2. ASSUME NEW v \in S, NEW c \in Character PROVE Append(v, c) \in S
  <2>1. /\ t \o Append(v, c) = Append(t \o v, c)
        /\ t \o v \in CsvText /\ Append(v, c) \in CsvText
    BY DEF CsvText
  <2>2. ReadFrom(s, Append(t \o v, c)) = ReadChar(ReadFrom(s, t \o v), c)
    BY <2>1, ReadAppend
  <2>3. ReadFrom(ReadFrom(s, t), Append(v, c)) = ReadChar(ReadFrom(ReadFrom(s, t), v), c)
    BY ReadAppend, ReadType
  <2> QED
    BY <2>1, <2>2, <2>3
<1> HIDE DEF S
<1>3. Seq(Character) \subseteq S
  BY <1>1, <1>2, SequenceInduction
<1>4. t \o u \in CsvText
  BY DEF CsvText
<1> QED
  BY <1>3, <1>4 DEF S, CsvText

-----------------------------------------------------------------------------
(* A cell. *)

LEMMA FlattenMore ==
  ASSUME NEW A, NEW ps \in Seq(Seq(A)), NEW p \in Seq(A)
  PROVE  FlattenSeq(Append(ps, p)) = FlattenSeq(ps) \o p
<1>1. CASE ps = << >>
  <2>1. << >> \o p = p
    OBVIOUS
  <2> QED
    BY <1>1, <2>1, FlattenAppend, FlattenEmpty
<1> QED
  BY <1>1, FlattenAppend

LEMMA ReadOne ==
  ASSUME NEW s \in ReaderState, NEW c \in Character
  PROVE  <<c>> \in CsvText /\ ReadFrom(s, <<c>>) = ReadChar(s, c)
<1>1. << >> \in CsvText /\ <<c>> \in CsvText /\ Append(<< >>, c) = <<c>>
  BY DEF CsvText
<1> QED
  BY <1>1, ReadAppend, ReadEmpty

Twice(c) == IF c = "quote" THEN <<"quote", "quote">> ELSE <<c>>

LEMMA DoubledParts ==
  /\ Doubled(<< >>) = << >>
  /\ \A t \in CsvText, c \in Character :
       Doubled(t) \in CsvText /\ Doubled(Append(t, c)) = Doubled(t) \o Twice(c)
<1> DEFINE P(t) == [i \in DOMAIN t |-> Twice(t[i])]
<1>1. \A t : Doubled(t) = FlattenSeq(P(t))
  BY DEF Doubled, Twice
<1>2. P(<< >>) = << >>
  OBVIOUS
<1>3. \A c \in Character : Twice(c) \in CsvText
  BY CharacterAssumption DEF Twice, CsvText
<1>4. \A t \in CsvText : P(t) \in [1 .. Len(t) -> CsvText] /\ Len(t) \in Nat
  <2> SUFFICES ASSUME NEW t \in CsvText
               PROVE  P(t) \in [1 .. Len(t) -> CsvText] /\ Len(t) \in Nat
    OBVIOUS
  <2>1. DOMAIN t = 1 .. Len(t) /\ Len(t) \in Nat /\ \A i \in 1 .. Len(t) : t[i] \in Character
    BY DEF CsvText
  <2> QED
    BY <1>3, <2>1
<1>5. ASSUME NEW t \in CsvText, NEW c \in Character
      PROVE  P(Append(t, c)) = Append(P(t), Twice(c)) /\ P(t) \in Seq(CsvText)
  <2>1. PICK n \in Nat, u \in Seq(Character) : IsLonger(u, t, c, n)
    BY Longer DEF CsvText
  <2>2. P(t) \in [1 .. n -> CsvText] /\ P(u) \in [1 .. n + 1 -> CsvText]
    BY <1>4, <2>1 DEF CsvText, IsLonger
  <2>3. \A i \in 1 .. n : P(u)[i] = P(t)[i]
    <3>1. \A i \in 1 .. n : i \in 1 .. n + 1
      OBVIOUS
    <3> QED
      BY <2>1, <3>1, Zenon DEF IsLonger
  <2>4. P(u)[n + 1] = Twice(c)
    <3>1. n + 1 \in 1 .. n + 1
      OBVIOUS
    <3> QED
      BY <2>1, <3>1, Zenon DEF IsLonger
  <2> HIDE DEF P
  <2>5. P(u) = Append(P(t), P(u)[n + 1]) /\ P(t) \in Seq(CsvText)
    BY <2>2, <2>3, Grown
  <2> QED
    BY <2>1, <2>4, <2>5, Zenon DEF IsLonger
<1> HIDE DEF P
<1>6. \A t \in CsvText : Doubled(t) \in CsvText
  <2>1. \A t \in CsvText : P(t) \in Seq(Seq(Character))
    <3>1. PICK c : c \in Character
      BY CharacterAssumption
    <3> QED
      BY <1>5, <3>1 DEF CsvText
  <2> QED
    BY <1>1, <2>1, FlattenType DEF CsvText
<1>7. ASSUME NEW t \in CsvText, NEW c \in Character
      PROVE  Doubled(Append(t, c)) = Doubled(t) \o Twice(c)
  <2>1. Doubled(Append(t, c)) = FlattenSeq(Append(P(t), Twice(c)))
    BY <1>1, <1>5
  <2>2. P(t) \in Seq(Seq(Character)) /\ Twice(c) \in Seq(Character)
    BY <1>3, <1>5 DEF CsvText
  <2> QED
    BY <1>1, <2>1, <2>2, FlattenMore
<1> QED
  BY <1>1, <1>2, <1>6, <1>7, FlattenEmpty

\* What the quotes of a cell enclose reads back as its text.
LEMMA ReadDoubled ==
  ASSUME NEW line \in Seq(CsvText), NEW lines \in Seq(Seq(CsvText)), NEW text \in CsvText
  PROVE  ReadFrom(At("quoted", << >>, line, lines), Doubled(text)) = At("quoted", text, line, lines)
<1> DEFINE Q(t) == At("quoted", t, line, lines)
           C(t) == At("closed", t, line, lines)
           S == {t \in CsvText : ReadFrom(Q(<< >>), Doubled(t)) = Q(t)}
<1>1. \A t \in CsvText : Q(t) \in ReaderState /\ C(t) \in ReaderState
  BY DEF ReaderState, At
<1>2. << >> \in S
  <2>1. << >> \in CsvText
    BY DEF CsvText
  <2> QED
    BY <1>1, <2>1, DoubledParts, ReadEmpty
<1>3. ASSUME NEW t \in S, NEW c \in Character PROVE Append(t, c) \in S
  <2>1. Append(t, c) \in CsvText /\ t \in CsvText
    BY DEF CsvText
  <2>2. Twice(c) \in CsvText
    BY CharacterAssumption DEF Twice, CsvText
  <2>3. ReadFrom(Q(<< >>), Doubled(Append(t, c))) = ReadFrom(Q(t), Twice(c))
    <3>1. << >> \in CsvText /\ Doubled(t) \in CsvText
      BY <2>1, DoubledParts DEF CsvText
    <3>2. ReadFrom(Q(<< >>), Doubled(t) \o Twice(c)) =
            ReadFrom(ReadFrom(Q(<< >>), Doubled(t)), Twice(c))
      BY <1>1, <2>2, <3>1, ReadParts
    <3> QED
      BY <2>1, <3>2, DoubledParts
  <2>4. ReadFrom(Q(t), Twice(c)) = Q(Append(t, c))
    <3>1. CASE c = "quote"
      <4>1. Twice(c) = Append(<<c>>, c) /\ <<c>> \in CsvText
        BY <3>1 DEF Twice, CsvText
      <4>2. ReadFrom(Q(t), <<c>>) = ReadChar(Q(t), c)
        BY <1>1, <2>1, ReadOne
      <4>3. ReadFrom(Q(t), Twice(c)) = ReadChar(ReadChar(Q(t), c), c)
        BY <1>1, <2>1, <4>1, <4>2, ReadAppend
      <4>4. ReadChar(Q(t), c) = C(t)
        BY <3>1 DEF ReadChar, At
      <4>5. ReadChar(C(t), c) = Q(Append(t, c))
        BY <3>1 DEF ReadChar, At
      <4> QED
        BY <4>3, <4>4, <4>5
    <3>2. CASE c # "quote"
      <4>1. ReadFrom(Q(t), Twice(c)) = ReadChar(Q(t), c)
        BY <1>1, <2>1, <3>2, ReadOne DEF Twice
      <4>2. ReadChar(Q(t), c) = Q(Append(t, c))
        BY <3>2 DEF ReadChar, At
      <4> QED
        BY <4>1, <4>2
    <3> QED
      BY <3>1, <3>2
  <2> QED
    BY <2>1, <2>3, <2>4
<1> HIDE DEF S
<1>4. Seq(Character) \subseteq S
  BY <1>2, <1>3, SequenceInduction
<1> QED
  BY <1>4 DEF S, CsvText

CellValues == CsvText \cup {Null}

LEMMA ReadCell ==
  ASSUME NEW line \in Seq(CsvText), NEW lines \in Seq(Seq(CsvText)), NEW v \in CellValues
  PROVE  /\ csvCell(v) \in CsvText /\ TextOf(v) \in CsvText
         /\ ReadFrom(At("field", << >>, line, lines), csvCell(v)) =
              At("closed", TextOf(v), line, lines)
<1>1. TextOf(v) \in CsvText /\ << >> \in CsvText
  BY DEF TextOf, CellValues, CsvText
<1>2. Doubled(TextOf(v)) \in CsvText
  <2>1. PICK c : c \in Character
    BY CharacterAssumption
  <2> QED
    BY <1>1, <2>1, DoubledParts
<1>3. "quote" \in Character
  BY CharacterAssumption
<1> DEFINE q == <<"quote">>
           d == Doubled(TextOf(v))
           F == At("field", << >>, line, lines)
           Q(t) == At("quoted", t, line, lines)
<1>4. F \in ReaderState /\ Q(<< >>) \in ReaderState /\ Q(TextOf(v)) \in ReaderState
  BY <1>1 DEF At, ReaderState
<1>5. q \in CsvText /\ q \o d \in CsvText /\ (q \o d) \o q \in CsvText
  BY <1>2, <1>3 DEF CsvText
<1>6. ReadFrom(F, q) = Q(<< >>)
  <2>1. ReadFrom(F, q) = ReadChar(F, "quote")
    BY <1>3, <1>4, ReadOne
  <2> QED
    BY <2>1 DEF ReadChar, At
<1>7. ReadFrom(F, q \o d) = Q(TextOf(v))
  <2>1. ReadFrom(F, q \o d) = ReadFrom(ReadFrom(F, q), d)
    BY <1>2, <1>4, <1>5, ReadParts
  <2> QED
    BY <1>1, <1>6, <2>1, ReadDoubled
<1>8. ReadFrom(F, (q \o d) \o q) = ReadChar(Q(TextOf(v)), "quote")
  <2>1. ReadFrom(F, (q \o d) \o q) = ReadFrom(ReadFrom(F, q \o d), q)
    BY <1>4, <1>5, ReadParts
  <2> QED
    BY <1>3, <1>4, <1>7, <2>1, ReadOne
<1>9. ReadChar(Q(TextOf(v)), "quote") = At("closed", TextOf(v), line, lines)
  BY DEF ReadChar, At
<1>10. csvCell(v) = (q \o d) \o q
  BY DEF csvCell
<1> QED
  BY <1>1, <1>5, <1>8, <1>9, <1>10
-----------------------------------------------------------------------------
(* A line, and lines. *)

\* A separator goes before every text but the first.
LEMMA JoinedMore ==
  ASSUME NEW texts \in Seq(CsvText), NEW text \in CsvText, NEW separator \in Character
  PROVE  Joined(Append(texts, text), separator) =
           IF texts = << >> THEN text ELSE Joined(texts, separator) \o (<<separator>> \o text)
<1> DEFINE P(t) == [i \in DOMAIN t |-> IF i = 1 THEN t[i] ELSE <<separator>> \o t[i]]
<1>1. \A t : Joined(t, separator) = FlattenSeq(P(t))
  BY DEF Joined
<1>2. \A t \in CsvText : <<separator>> \o t \in CsvText
  BY DEF CsvText
<1>3. \A t \in Seq(CsvText) : P(t) \in [1 .. Len(t) -> CsvText]
  <2> SUFFICES ASSUME NEW t \in Seq(CsvText) PROVE P(t) \in [1 .. Len(t) -> CsvText]
    OBVIOUS
  <2>1. DOMAIN t = 1 .. Len(t) /\ \A i \in 1 .. Len(t) : t[i] \in CsvText
    OBVIOUS
  <2> QED
    BY <1>2, <2>1
<1>4. PICK n \in Nat, u \in Seq(CsvText) : IsLonger(u, texts, text, n)
  BY Longer
<1>5. P(texts) \in [1 .. n -> CsvText] /\ P(u) \in [1 .. n + 1 -> CsvText]
  BY <1>3, <1>4 DEF IsLonger
<1>6. \A i \in 1 .. n : P(u)[i] = P(texts)[i]
  <2>1. \A i \in 1 .. n : i \in 1 .. n + 1
    OBVIOUS
  <2> QED
    BY <1>4, <2>1, Zenon DEF IsLonger
<1>7. P(u)[n + 1] = IF n + 1 = 1 THEN text ELSE <<separator>> \o text
  <2>1. n + 1 \in 1 .. n + 1
    OBVIOUS
  <2> QED
    BY <1>4, <2>1, Zenon DEF IsLonger
<1>8. texts = << >> <=> n + 1 = 1
  BY <1>4 DEF IsLonger
<1>9. P(texts) = << >> <=> texts = << >>
  <2>1. Len(P(texts)) = n /\ P(texts) \in Seq(CsvText)
    <3> HIDE DEF P
    <3> QED
      BY <1>5, IsSequence
  <2> HIDE DEF P
  <2> QED
    BY <1>8, <2>1
<1> HIDE DEF P
<1>10. P(u) = Append(P(texts), P(u)[n + 1]) /\ P(texts) \in Seq(CsvText)
  BY <1>5, <1>6, Grown
<1>11. P(texts) \in Seq(Seq(Character)) /\ P(u)[n + 1] \in Seq(Character)
  BY <1>5, <1>10 DEF CsvText
<1>12. FlattenSeq(P(u)) = IF P(texts) = << >> THEN P(u)[n + 1]
                                              ELSE FlattenSeq(P(texts)) \o P(u)[n + 1]
  BY <1>10, <1>11, FlattenAppend
<1>13. u = Append(texts, text)
  BY <1>4 DEF IsLonger
<1> QED
  BY <1>1, <1>7, <1>8, <1>9, <1>12, <1>13

LEMMA JoinedType ==
  ASSUME NEW separator \in Character
  PROVE  \A texts \in Seq(CsvText) : Joined(texts, separator) \in CsvText
<1> DEFINE S == {texts \in Seq(CsvText) : Joined(texts, separator) \in CsvText}
<1>1. << >> \in S
  <2>1. Joined(<< >>, separator) = << >>
    BY FlattenEmpty DEF Joined
  <2>2. << >> \in CsvText /\ << >> \in Seq(CsvText)
    BY DEF CsvText
  <2> QED
    BY <2>1, <2>2
<1>2. ASSUME NEW texts \in S \cap Seq(CsvText), NEW text \in CsvText PROVE Append(texts, text) \in S
  <2>1. Joined(texts, separator) \o (<<separator>> \o text) \in CsvText
    BY DEF CsvText
  <2>2. Append(texts, text) \in Seq(CsvText)
    OBVIOUS
  <2> QED
    BY <2>1, <2>2, JoinedMore
<1> HIDE DEF S
<1>3. Seq(CsvText) \subseteq S
  BY <1>1, <1>2, SequenceInduction
<1> QED
  BY <1>3 DEF S

\* The texts of a line.
Texts(values) == [j \in DOMAIN values |-> TextOf(values[j])]

Cells(values) == [j \in DOMAIN values |-> csvCell(values[j])]

LEMMA TextsAndCells ==
  ASSUME NEW values \in Seq(CellValues), NEW v \in CellValues
  PROVE  /\ Texts(values) \in Seq(CsvText) /\ Cells(values) \in Seq(CsvText)
         /\ Texts(Append(values, v)) = Append(Texts(values), TextOf(v))
         /\ Cells(Append(values, v)) = Append(Cells(values), csvCell(v))
         /\ Cells(values) = << >> <=> values = << >>
<1>1. \A x \in CellValues : csvCell(x) \in CsvText /\ TextOf(x) \in CsvText
  <2>1. << >> \in Seq(CsvText) /\ << >> \in Seq(Seq(CsvText))
    OBVIOUS
  <2> QED
    BY <2>1, ReadCell
<1>2. ASSUME NEW vs \in Seq(CellValues)
      PROVE  Texts(vs) \in [1 .. Len(vs) -> CsvText] /\ Cells(vs) \in [1 .. Len(vs) -> CsvText]
  <2>1. DOMAIN vs = 1 .. Len(vs) /\ \A i \in 1 .. Len(vs) : vs[i] \in CellValues
    OBVIOUS
  <2> QED
    BY <1>1, <2>1 DEF Texts, Cells
<1>3. PICK n \in Nat, u \in Seq(CellValues) : IsLonger(u, values, v, n)
  BY Longer
<1>4. /\ Texts(values) \in [1 .. n -> CsvText] /\ Cells(values) \in [1 .. n -> CsvText]
      /\ Texts(u) \in [1 .. n + 1 -> CsvText] /\ Cells(u) \in [1 .. n + 1 -> CsvText]
  BY <1>2, <1>3 DEF IsLonger
<1>5. \A i \in 1 .. n : Texts(u)[i] = Texts(values)[i] /\ Cells(u)[i] = Cells(values)[i]
  <2>1. \A i \in 1 .. n : i \in 1 .. n + 1
    OBVIOUS
  <2> QED
    BY <1>3, <2>1, Zenon DEF IsLonger, Texts, Cells
<1>6. Texts(u)[n + 1] = TextOf(v) /\ Cells(u)[n + 1] = csvCell(v)
  <2>1. n + 1 \in 1 .. n + 1
    OBVIOUS
  <2> QED
    BY <1>3, <2>1, Zenon DEF IsLonger, Texts, Cells
<1>7. Texts(u) = Append(Texts(values), Texts(u)[n + 1]) /\ Texts(values) \in Seq(CsvText)
  BY <1>4, <1>5, Grown
<1>8. /\ Cells(u) = Append(Cells(values), Cells(u)[n + 1]) /\ Cells(values) \in Seq(CsvText)
      /\ Len(Cells(values)) = n
  BY <1>4, <1>5, Grown
<1>9. u = Append(values, v) /\ Len(values) = n
  BY <1>3 DEF IsLonger
<1>10. Cells(values) = << >> <=> values = << >>
  BY <1>8, <1>9
<1> QED
  BY <1>6, <1>7, <1>8, <1>9, <1>10

LineStart(lines) == At("field", << >>, << >>, lines)

\* A line with a value reads back as its texts.
LEMMA ReadLine ==
  ASSUME NEW values \in Seq(CellValues), NEW v \in CellValues, NEW lines \in Seq(Seq(CsvText))
  PROVE  /\ CsvLine(Append(values, v)) \in CsvText
         /\ ReadFrom(LineStart(lines), CsvLine(Append(values, v))) =
              At("closed", TextOf(v), Texts(values), lines)
<1> DEFINE S == {vs \in Seq(CellValues) : \A x \in CellValues :
                   /\ CsvLine(Append(vs, x)) \in CsvText
                   /\ ReadFrom(LineStart(lines), CsvLine(Append(vs, x))) =
                        At("closed", TextOf(x), Texts(vs), lines)}
<1>e. << >> \in Seq(CsvText) /\ << >> \in CsvText /\ << >> \in Seq(CellValues)
  BY DEF CsvText
<1>c. "comma" \in Character
  BY CharacterAssumption
<1>m. \A vs \in Seq(CellValues), x \in CellValues :
        CsvLine(Append(vs, x)) =
          IF vs = << >> THEN csvCell(x) ELSE CsvLine(vs) \o (<<"comma">> \o csvCell(x))
  <2>1. \A vs : CsvLine(vs) = Joined(Cells(vs), "comma")
    BY DEF CsvLine, Cells
  <2> SUFFICES ASSUME NEW vs \in Seq(CellValues), NEW x \in CellValues
               PROVE  CsvLine(Append(vs, x)) =
                        IF vs = << >> THEN csvCell(x)
                                      ELSE CsvLine(vs) \o (<<"comma">> \o csvCell(x))
    OBVIOUS
  <2> HIDE DEF S
  <2>2. csvCell(x) \in CsvText
    BY <1>e, ReadCell
  <2>3. /\ Cells(vs) \in Seq(CsvText) /\ Cells(Append(vs, x)) = Append(Cells(vs), csvCell(x))
        /\ Cells(vs) = << >> <=> vs = << >>
    BY TextsAndCells
  <2>4. Joined(Append(Cells(vs), csvCell(x)), "comma") =
          IF Cells(vs) = << >>
            THEN csvCell(x) ELSE Joined(Cells(vs), "comma") \o (<<"comma">> \o csvCell(x))
    BY <1>c, <2>2, <2>3, JoinedMore
  <2> QED
    BY <2>1, <2>3, <2>4
<1>1. << >> \in S
  <2> SUFFICES ASSUME NEW x \in CellValues
               PROVE  /\ CsvLine(Append(<< >>, x)) \in CsvText
                      /\ ReadFrom(LineStart(lines), CsvLine(Append(<< >>, x))) =
                           At("closed", TextOf(x), Texts(<< >>), lines)
    BY <1>e
  <2>1. CsvLine(Append(<< >>, x)) = csvCell(x)
    BY <1>e, <1>m
  <2>2. Texts(<< >>) = << >>
    BY DEF Texts
  <2> QED
    BY <1>e, <2>1, <2>2, ReadCell DEF LineStart
<1>2. ASSUME NEW vs \in S \cap Seq(CellValues), NEW w \in CellValues PROVE Append(vs, w) \in S
  <2> DEFINE vw == Append(vs, w)
  <2>1. vw \in Seq(CellValues) /\ vw # << >>
    OBVIOUS
  <2>2. /\ CsvLine(vw) \in CsvText
        /\ ReadFrom(LineStart(lines), CsvLine(vw)) = At("closed", TextOf(w), Texts(vs), lines)
    OBVIOUS
  <2>3. Texts(vw) = Append(Texts(vs), TextOf(w)) /\ Texts(vw) \in Seq(CsvText)
        /\ Texts(vs) \in Seq(CsvText) /\ TextOf(w) \in CsvText
    BY <1>e, <2>1, TextsAndCells, ReadCell
  <2> HIDE DEF S
  <2> SUFFICES ASSUME NEW x \in CellValues
               PROVE  /\ CsvLine(Append(vw, x)) \in CsvText
                      /\ ReadFrom(LineStart(lines), CsvLine(Append(vw, x))) =
                           At("closed", TextOf(x), Texts(vw), lines)
    BY <2>1 DEF S
  <2> HIDE DEF vw
  <2>4. CsvLine(Append(vw, x)) = CsvLine(vw) \o (<<"comma">> \o csvCell(x))
    BY <1>m, <2>1
  <2>5. csvCell(x) \in CsvText
        /\ ReadFrom(At("field", << >>, Texts(vw), lines), csvCell(x)) =
             At("closed", TextOf(x), Texts(vw), lines)
    BY <2>3, ReadCell
  <2>6. /\ LineStart(lines) \in ReaderState
        /\ At("closed", TextOf(w), Texts(vs), lines) \in ReaderState
    BY <1>e, <2>3 DEF LineStart, At, ReaderState
  <2>7. /\ <<"comma">> \in CsvText
        /\ ReadFrom(At("closed", TextOf(w), Texts(vs), lines), <<"comma">>) =
             At("field", << >>, Texts(vw), lines)
    <3>1. /\ <<"comma">> \in CsvText
          /\ ReadFrom(At("closed", TextOf(w), Texts(vs), lines), <<"comma">>) =
               ReadChar(At("closed", TextOf(w), Texts(vs), lines), "comma")
      BY <1>c, <2>6, ReadOne
    <3>2. ReadChar(At("closed", TextOf(w), Texts(vs), lines), "comma") =
            At("field", << >>, Append(Texts(vs), TextOf(w)), lines)
      BY DEF ReadChar, At
    <3> QED
      BY <2>3, <3>1, <3>2
  <2>8. /\ <<"comma">> \o csvCell(x) \in CsvText
        /\ ReadFrom(At("closed", TextOf(w), Texts(vs), lines), <<"comma">> \o csvCell(x)) =
             At("closed", TextOf(x), Texts(vw), lines)
    BY <2>5, <2>6, <2>7, ReadParts
  <2>9. /\ CsvLine(vw) \o (<<"comma">> \o csvCell(x)) \in CsvText
        /\ ReadFrom(LineStart(lines), CsvLine(vw) \o (<<"comma">> \o csvCell(x))) =
             At("closed", TextOf(x), Texts(vw), lines)
    BY <2>2, <2>6, <2>8, ReadParts
  <2> QED
    BY <2>4, <2>9
<1> HIDE DEF S
<1>3. Seq(CellValues) \subseteq S
  BY <1>1, <1>2, SequenceInduction
<1> QED
  BY <1>3 DEF S
Rows == {values \in Seq(CellValues) : values # << >>}

\* The text of lines, without the newline of the last one.
Written(rows) == Joined([i \in DOMAIN rows |-> CsvLine(rows[i])], "newline")

AllTexts(rows) == [i \in DOMAIN rows |-> Texts(rows[i])]

\* A line and its newline read back as one more line.
LEMMA ReadWholeLine ==
  ASSUME NEW row \in Rows, NEW lines \in Seq(Seq(CsvText))
  PROVE  /\ CsvLine(row) \in CsvText /\ Texts(row) \in Seq(CsvText)
         /\ CsvLine(row) \o <<"newline">> \in CsvText
         /\ ReadFrom(LineStart(lines), CsvLine(row) \o <<"newline">>) =
              LineStart(Append(lines, Texts(row)))
<1>1. row \in Seq(CellValues) /\ row # << >>
  BY DEF Rows
<1>2. PICK values \in Seq(CellValues), v \in CellValues : row = Append(values, v)
  BY <1>1, LastApart
<1>3. << >> \in Seq(CsvText) /\ << >> \in CsvText /\ "newline" \in Character
  BY CharacterAssumption DEF CsvText
<1>4. Texts(row) = Append(Texts(values), TextOf(v)) /\ Texts(values) \in Seq(CsvText)
      /\ TextOf(v) \in CsvText
  BY <1>2, <1>3, TextsAndCells, ReadCell
<1>5. /\ CsvLine(row) \in CsvText
      /\ ReadFrom(LineStart(lines), CsvLine(row)) = At("closed", TextOf(v), Texts(values), lines)
  BY <1>2, ReadLine
<1>6. /\ LineStart(lines) \in ReaderState
      /\ At("closed", TextOf(v), Texts(values), lines) \in ReaderState
  BY <1>3, <1>4 DEF LineStart, At, ReaderState
<1>7. /\ <<"newline">> \in CsvText
      /\ ReadFrom(At("closed", TextOf(v), Texts(values), lines), <<"newline">>) =
           ReadChar(At("closed", TextOf(v), Texts(values), lines), "newline")
  BY <1>3, <1>6, ReadOne
<1>8. ReadChar(At("closed", TextOf(v), Texts(values), lines), "newline") =
        LineStart(Append(lines, Append(Texts(values), TextOf(v))))
  BY DEF ReadChar, At, LineStart
<1>9. /\ CsvLine(row) \o <<"newline">> \in CsvText
      /\ ReadFrom(LineStart(lines), CsvLine(row) \o <<"newline">>) =
           ReadFrom(ReadFrom(LineStart(lines), CsvLine(row)), <<"newline">>)
  BY <1>5, <1>6, <1>7, ReadParts
<1> QED
  BY <1>4, <1>5, <1>7, <1>8, <1>9

LEMMA LinesMore ==
  ASSUME NEW rows \in Seq(Rows), NEW row \in Rows
  PROVE  /\ Written(Append(rows, row)) =
              IF rows = << >> THEN CsvLine(row)
                              ELSE Written(rows) \o (<<"newline">> \o CsvLine(row))
         /\ Written(rows) \in CsvText
         /\ AllTexts(Append(rows, row)) = Append(AllTexts(rows), Texts(row))
         /\ AllTexts(rows) \in Seq(Seq(CsvText))
<1> DEFINE L(t) == [i \in DOMAIN t |-> CsvLine(t[i])]
<1>1. \A r \in Rows : CsvLine(r) \in CsvText /\ Texts(r) \in Seq(CsvText)
  <2>1. << >> \in Seq(Seq(CsvText))
    OBVIOUS
  <2> QED
    BY <2>1, ReadWholeLine
<1>2. ASSUME NEW t \in Seq(Rows)
      PROVE  L(t) \in [1 .. Len(t) -> CsvText] /\ AllTexts(t) \in [1 .. Len(t) -> Seq(CsvText)]
  <2>1. DOMAIN t = 1 .. Len(t) /\ \A i \in 1 .. Len(t) : t[i] \in Rows
    OBVIOUS
  <2> QED
    BY <1>1, <2>1 DEF AllTexts
<1>3. PICK n \in Nat, u \in Seq(Rows) : IsLonger(u, rows, row, n)
  BY Longer
<1>4. /\ L(rows) \in [1 .. n -> CsvText] /\ AllTexts(rows) \in [1 .. n -> Seq(CsvText)]
      /\ L(u) \in [1 .. n + 1 -> CsvText] /\ AllTexts(u) \in [1 .. n + 1 -> Seq(CsvText)]
  BY <1>2, <1>3 DEF IsLonger
<1>5. \A i \in 1 .. n : L(u)[i] = L(rows)[i] /\ AllTexts(u)[i] = AllTexts(rows)[i]
  <2>1. \A i \in 1 .. n : i \in 1 .. n + 1
    OBVIOUS
  <2> QED
    BY <1>3, <2>1, Zenon DEF IsLonger, AllTexts
<1>6. L(u)[n + 1] = CsvLine(row) /\ AllTexts(u)[n + 1] = Texts(row)
  <2>1. n + 1 \in 1 .. n + 1
    OBVIOUS
  <2> QED
    BY <1>3, <2>1, Zenon DEF IsLonger, AllTexts
<1>7. \A t : Written(t) = Joined(L(t), "newline")
  BY DEF Written
<1> HIDE DEF L
<1>8. L(u) = Append(L(rows), L(u)[n + 1]) /\ L(rows) \in Seq(CsvText) /\ Len(L(rows)) = n
  BY <1>4, <1>5, Grown
<1>9. AllTexts(u) = Append(AllTexts(rows), AllTexts(u)[n + 1])
      /\ AllTexts(rows) \in Seq(Seq(CsvText))
  BY <1>4, <1>5, Grown
<1>10. u = Append(rows, row) /\ Len(rows) = n
  BY <1>3 DEF IsLonger
<1>11. L(rows) = << >> <=> rows = << >>
  BY <1>8, <1>10
<1>12. "newline" \in Character /\ CsvLine(row) \in CsvText
  BY <1>1, CharacterAssumption
<1>13. Joined(Append(L(rows), CsvLine(row)), "newline") =
         IF L(rows) = << >> THEN CsvLine(row)
                            ELSE Joined(L(rows), "newline") \o (<<"newline">> \o CsvLine(row))
  BY <1>8, <1>12, JoinedMore
<1>14. Joined(L(rows), "newline") \in CsvText
  BY <1>8, <1>12, JoinedType
<1> QED
  BY <1>6, <1>7, <1>8, <1>9, <1>10, <1>11, <1>13, <1>14

\* Named, for the provers normalise \o when they meet it.
Concat(x, y) == x \o y

LEMMA ConcatIs ==
  ASSUME NEW A, NEW x \in Seq(A), NEW y \in Seq(A)
  PROVE  /\ Concat(x, y) \in Seq(A)
         /\ Len(Concat(x, y)) = Len(x) + Len(y)
         /\ \A i \in 1 .. Len(x) : Concat(x, y)[i] = x[i]
         /\ \A i \in Len(x) + 1 .. Len(x) + Len(y) : Concat(x, y)[i] = y[i - Len(x)]
BY DEF Concat

IsCat(u, x, y, n, m) ==
  /\ u = Concat(x, y) /\ Len(u) = n + m
  /\ \A i \in 1 .. n : u[i] = x[i]
  /\ \A i \in n + 1 .. n + m : u[i] = y[i - n]

LEMMA HasCat ==
  ASSUME NEW A, NEW x \in Seq(A), NEW y \in Seq(A), NEW n, n = Len(x), NEW m, m = Len(y)
  PROVE  \E u \in Seq(A) : IsCat(u, x, y, n, m)
<1>1. Concat(x, y) \in Seq(A)
  BY ConcatIs
<1>2. IsCat(Concat(x, y), x, y, n, m)
  <2>1. Len(Concat(x, y)) = Len(x) + Len(y)
    BY ConcatIs
  <2>2. \A i \in 1 .. Len(x) : Concat(x, y)[i] = x[i]
    BY ConcatIs
  <2>3. \A i \in Len(x) + 1 .. Len(x) + Len(y) : Concat(x, y)[i] = y[i - Len(x)]
    BY ConcatIs
  <2> QED
    BY <2>1, <2>2, <2>3 DEF IsCat
<1> QED
  BY <1>1, <1>2

LEMMA Associative ==
  ASSUME NEW A, NEW x \in Seq(A), NEW y \in Seq(A), NEW z \in Seq(A)
  PROVE  Concat(Concat(x, y), z) = Concat(x, Concat(y, z))
<1>1. PICK n \in Nat, m \in Nat, k \in Nat : n = Len(x) /\ m = Len(y) /\ k = Len(z)
  OBVIOUS
<1>2. PICK xy \in Seq(A) : IsCat(xy, x, y, n, m)
  BY <1>1, HasCat
<1>3. PICK yz \in Seq(A) : IsCat(yz, y, z, m, k)
  BY <1>1, HasCat
<1>4. PICK l \in Seq(A) : IsCat(l, xy, z, n + m, k)
  <2>1. n + m = Len(xy)
    BY <1>2 DEF IsCat
  <2> QED
    BY <1>1, <2>1, HasCat
<1>5. PICK r \in Seq(A) : IsCat(r, x, yz, n, m + k)
  <2>1. m + k = Len(yz)
    BY <1>3 DEF IsCat
  <2> QED
    BY <1>1, <2>1, HasCat
<1>6. ASSUME NEW i \in 1 .. n + m + k PROVE l[i] = r[i]
  <2>1. CASE i <= n
    BY <1>2, <1>4, <1>5, <2>1 DEF IsCat
  <2>2. CASE i > n /\ i <= n + m
    <3>1. i - n \in 1 .. m
      BY <2>2
    <3> QED
      BY <1>2, <1>3, <1>4, <1>5, <2>2, <3>1 DEF IsCat
  <2>3. CASE i > n + m
    <3>1. i - n \in m + 1 .. m + k /\ (i - n) - m = i - (n + m) /\ i \in n + 1 .. n + (m + k)
          /\ i \in (n + m) + 1 .. (n + m) + k
      BY <2>3
    <3> QED
      BY <1>3, <1>4, <1>5, <3>1 DEF IsCat
  <2> QED
    BY <2>1, <2>2, <2>3
<1>7. Len(l) = n + m + k /\ Len(r) = n + m + k
  BY <1>4, <1>5 DEF IsCat
<1>8. l = r
  BY <1>6, <1>7
<1> QED
  BY <1>2, <1>3, <1>4, <1>5, <1>8 DEF IsCat

LEMMA Regrouped ==
  ASSUME NEW A, NEW a \in Seq(A), NEW b \in Seq(A), NEW c \in Seq(A), NEW d \in Seq(A)
  PROVE  Concat(Concat(a, Concat(b, c)), d) = Concat(Concat(a, b), Concat(c, d))
<1>1. \A x, y \in Seq(A) : Concat(x, y) \in Seq(A)
  BY ConcatIs
<1>2. \A x, y, z \in Seq(A) : Concat(Concat(x, y), z) = Concat(x, Concat(y, z))
  BY Associative
<1> QED
  BY <1>1, <1>2

\* Lines, one at least, read back as their texts.
LEMMA ReadLines ==
  ASSUME NEW rows \in Seq(Rows), rows # << >>
  PROVE  ReadFrom(LineStart(<< >>), Written(rows) \o <<"newline">>) = LineStart(AllTexts(rows))
<1> DEFINE S == {t \in Seq(Rows) : t # << >> =>
                   ReadFrom(LineStart(<< >>), Written(t) \o <<"newline">>) = LineStart(AllTexts(t))}
<1>1. << >> \in S
  OBVIOUS
<1>2. ASSUME NEW t \in S \cap Seq(Rows), NEW row \in Rows PROVE Append(t, row) \in S
  <2>1. Append(t, row) \in Seq(Rows) /\ t \in Seq(Rows)
    OBVIOUS
  <2>2. AllTexts(Append(t, row)) = Append(AllTexts(t), Texts(row))
        /\ AllTexts(t) \in Seq(Seq(CsvText)) /\ Written(t) \in CsvText
    BY LinesMore
  <2>3. /\ CsvLine(row) \in CsvText /\ CsvLine(row) \o <<"newline">> \in CsvText
        /\ ReadFrom(LineStart(AllTexts(t)), CsvLine(row) \o <<"newline">>) =
             LineStart(Append(AllTexts(t), Texts(row)))
    BY <2>2, ReadWholeLine
  <2>4. CASE t = << >>
    <3>1. Written(Append(t, row)) = CsvLine(row)
      BY <2>1, <2>4, LinesMore
    <3>2. AllTexts(t) = << >>
      BY <2>4 DEF AllTexts
    <3> QED
      BY <2>1, <2>2, <2>3, <3>1, <3>2
  <2>5. CASE t # << >>
    <3>1. ReadFrom(LineStart(<< >>), Written(t) \o <<"newline">>) = LineStart(AllTexts(t))
      BY <2>5
    <3>2. Written(Append(t, row)) = Written(t) \o (<<"newline">> \o CsvLine(row))
      BY <2>1, <2>5, LinesMore
    <3>3. <<"newline">> \in CsvText /\ LineStart(<< >>) \in ReaderState
      <4>1. << >> \in CsvText /\ << >> \in Seq(CsvText) /\ << >> \in Seq(Seq(CsvText))
        BY DEF CsvText
      <4> QED
        BY <4>1, CharacterAssumption DEF CsvText, LineStart, At, ReaderState
    <3>4. Written(Append(t, row)) \o <<"newline">> =
            (Written(t) \o <<"newline">>) \o (CsvLine(row) \o <<"newline">>)
      <4>1. /\ Written(t) \in Seq(Character) /\ <<"newline">> \in Seq(Character)
            /\ CsvLine(row) \in Seq(Character)
        BY <2>2, <2>3, <3>3 DEF CsvText
      <4>2. (Written(t) \o (<<"newline">> \o CsvLine(row))) \o <<"newline">> =
              (Written(t) \o <<"newline">>) \o (CsvLine(row) \o <<"newline">>)
        <5> DEFINE a == Written(t)
                   b == <<"newline">>
                   c == CsvLine(row)
        <5>1. a \in Seq(Character) /\ b \in Seq(Character) /\ c \in Seq(Character)
          BY <4>1
        <5> HIDE DEF a, b, c
        <5>2. Concat(Concat(a, Concat(b, c)), b) = Concat(Concat(a, b), Concat(c, b))
          BY <5>1, Regrouped
        <5>3. (a \o (b \o c)) \o b = (a \o b) \o (c \o b)
          BY <5>2, Zenon DEF Concat
        <5> QED
          BY <5>3, Zenon DEF a, b, c
      <4> QED
        BY <3>2, <4>2
    <3>5. Written(t) \o <<"newline">> \in CsvText
      BY <2>2, <3>3 DEF CsvText
    <3>6. ReadFrom(LineStart(<< >>), Written(Append(t, row)) \o <<"newline">>) =
            ReadFrom(LineStart(AllTexts(t)), CsvLine(row) \o <<"newline">>)
      <4>1. ReadFrom(LineStart(<< >>),
                     (Written(t) \o <<"newline">>) \o (CsvLine(row) \o <<"newline">>))
              = ReadFrom(ReadFrom(LineStart(<< >>), Written(t) \o <<"newline">>),
                         CsvLine(row) \o <<"newline">>)
        BY <2>3, <3>3, <3>5, ReadParts
      <4> QED
        BY <3>1, <3>4, <4>1
    <3> QED
      BY <2>1, <2>2, <2>3, <3>6
  <2> QED
    BY <2>4, <2>5
<1> HIDE DEF S
<1>3. Seq(Rows) \subseteq S
  BY <1>1, <1>2, SequenceInduction
<1> QED
  BY <1>3 DEF S
-----------------------------------------------------------------------------
(* The columns. *)

\* s holds exactly what is in T.
Holds(s, A, T) ==
  /\ s \in Seq(A)
  /\ \A i \in DOMAIN s : s[i] \in T
  /\ \A x \in T : \E i \in DOMAIN s : s[i] = x

LEMMA HoldsNothing == ASSUME NEW A PROVE Holds(<< >>, A, {})
<1>1. << >> \in Seq(A) /\ DOMAIN << >> = {}
  OBVIOUS
<1> QED
  BY <1>1 DEF Holds

LEMMA HoldsMore ==
  ASSUME NEW A, NEW T \in SUBSET A, NEW s, Holds(s, A, T), NEW x \in A
  PROVE  Holds(Append(s, x), A, T \cup {x})
<1>1. PICK n \in Nat, u \in Seq(A) : IsLonger(u, s, x, n)
  BY Longer DEF Holds
<1>2. ASSUME NEW i \in DOMAIN u PROVE u[i] \in T \cup {x}
  BY <1>1 DEF IsLonger, Holds
<1>3. ASSUME NEW y \in T \cup {x} PROVE \E i \in DOMAIN u : u[i] = y
  <2>1. CASE y = x
    <3>1. n + 1 \in DOMAIN u /\ u[n + 1] = y
      BY <1>1, <2>1 DEF IsLonger
    <3> QED
      BY <3>1
  <2>2. CASE y \in T
    <3>1. PICK i \in DOMAIN s : s[i] = y
      BY <2>2 DEF Holds
    <3>2. i \in 1 .. n /\ i \in 1 .. n + 1
      BY <1>1 DEF IsLonger
    <3> QED
      BY <1>1, <3>1, <3>2 DEF IsLonger
  <2> QED
    BY <2>1, <2>2
<1> QED
  BY <1>1, <1>2, <1>3 DEF IsLonger, Holds

LEMMA InjectiveMore ==
  ASSUME NEW A, NEW s \in Seq(A), NEW x \in A, IsInjective(s), \A i \in DOMAIN s : s[i] # x
  PROVE  IsInjective(Append(s, x))
<1>1. PICK n \in Nat, u \in Seq(A) : IsLonger(u, s, x, n)
  BY Longer
<1>2. ASSUME NEW i \in DOMAIN u, NEW j \in DOMAIN u, u[i] = u[j] PROVE i = j
  BY <1>1, <1>2 DEF IsLonger, IsInjective
<1> QED
  BY <1>1, <1>2 DEF IsLonger, IsInjective

LEMMA OneMore ==
  ASSUME NEW A, NEW s \in Seq(A), NEW x \in A
  PROVE  s \o <<x>> = Append(s, x) /\ s \o << >> = s
OBVIOUS

\* A text is listed where it is met for the first time.
LEMMA OnceMore ==
  ASSUME NEW texts \in Seq(CsvText), NEW text \in CsvText
  PROVE  Once(Append(texts, text)) =
           Once(texts) \o (IF \E i \in DOMAIN texts : texts[i] = text THEN << >> ELSE <<text>>)
<1> DEFINE P(t) == [n \in DOMAIN t |->
                      IF \E m \in 1 .. n - 1 : t[m] = t[n] THEN << >> ELSE <<t[n]>>]
<1>1. \A t : Once(t) = FlattenSeq(P(t))
  BY DEF Once
<1>2. \A x \in CsvText : <<x>> \in Seq(CsvText) /\ << >> \in Seq(CsvText)
  OBVIOUS
<1>3. \A t \in Seq(CsvText) : P(t) \in [1 .. Len(t) -> Seq(CsvText)]
  <2> SUFFICES ASSUME NEW t \in Seq(CsvText) PROVE P(t) \in [1 .. Len(t) -> Seq(CsvText)]
    OBVIOUS
  <2>1. DOMAIN t = 1 .. Len(t) /\ \A i \in 1 .. Len(t) : t[i] \in CsvText
    OBVIOUS
  <2> QED
    BY <1>2, <2>1
<1>4. PICK n \in Nat, u \in Seq(CsvText) : IsLonger(u, texts, text, n)
  BY Longer
<1>5. P(texts) \in [1 .. n -> Seq(CsvText)] /\ P(u) \in [1 .. n + 1 -> Seq(CsvText)]
  BY <1>3, <1>4 DEF IsLonger
<1>6. ASSUME NEW i \in 1 .. n PROVE P(u)[i] = P(texts)[i]
  <2>1. i \in DOMAIN texts /\ i \in DOMAIN u
    BY <1>4 DEF IsLonger
  <2>2. \A m \in 1 .. i - 1 : u[m] = texts[m]
    BY <1>4 DEF IsLonger
  <2>3. u[i] = texts[i]
    BY <1>4 DEF IsLonger
  <2>4. P(u)[i] = IF \E m \in 1 .. i - 1 : u[m] = u[i] THEN << >> ELSE <<u[i]>>
    BY <2>1, Zenon
  <2>5. P(texts)[i] = IF \E m \in 1 .. i - 1 : texts[m] = texts[i] THEN << >> ELSE <<texts[i]>>
    BY <2>1, Zenon
  <2> HIDE DEF P
  <2> QED
    BY <2>2, <2>3, <2>4, <2>5
<1>7. P(u)[n + 1] = IF \E i \in DOMAIN texts : texts[i] = text THEN << >> ELSE <<text>>
  <2>1. n + 1 \in DOMAIN u /\ (n + 1) - 1 = n
    BY <1>4 DEF IsLonger
  <2>2. P(u)[n + 1] = IF \E m \in 1 .. (n + 1) - 1 : u[m] = u[n + 1] THEN << >> ELSE <<u[n + 1]>>
    BY <2>1, Zenon
  <2>3. u[n + 1] = text /\ DOMAIN texts = 1 .. n /\ \A m \in 1 .. n : u[m] = texts[m]
    BY <1>4 DEF IsLonger
  <2> HIDE DEF P
  <2> QED
    BY <2>1, <2>2, <2>3
<1> HIDE DEF P
<1>8. P(u) = Append(P(texts), P(u)[n + 1]) /\ P(texts) \in Seq(Seq(CsvText))
  BY <1>5, <1>6, Grown
<1>9. P(u)[n + 1] \in Seq(CsvText)
  BY <1>5
<1>10. FlattenSeq(Append(P(texts), P(u)[n + 1])) = FlattenSeq(P(texts)) \o P(u)[n + 1]
  BY <1>8, <1>9, FlattenMore
<1>11. u = Append(texts, text)
  BY <1>4 DEF IsLonger
<1> QED
  BY <1>1, <1>7, <1>8, <1>10, <1>11

\* Once lists the texts there are, each once.
LEMMA OnceIs ==
  ASSUME NEW texts \in Seq(CsvText)
  PROVE  /\ Holds(Once(texts), CsvText, {texts[i] : i \in DOMAIN texts})
         /\ IsInjective(Once(texts))
<1> DEFINE In(t) == {t[i] : i \in DOMAIN t}
           S == {t \in Seq(CsvText) : Holds(Once(t), CsvText, In(t)) /\ IsInjective(Once(t))}
<1>1. << >> \in S
  <2>1. Once(<< >>) = << >>
    BY FlattenEmpty DEF Once
  <2>2. In(<< >>) = {} /\ << >> \in Seq(CsvText)
    OBVIOUS
  <2>3. IsInjective(<< >>)
    BY DEF IsInjective
  <2> HIDE DEF In
  <2> QED
    BY <2>1, <2>2, <2>3, HoldsNothing
<1>2. ASSUME NEW t \in S \cap Seq(CsvText), NEW x \in CsvText PROVE Append(t, x) \in S
  <2>1. Holds(Once(t), CsvText, In(t)) /\ IsInjective(Once(t)) /\ Append(t, x) \in Seq(CsvText)
    OBVIOUS
  <2>2. In(t) \in SUBSET CsvText
    OBVIOUS
  <2>3. In(Append(t, x)) = In(t) \cup {x}
    <3>1. PICK n \in Nat, u \in Seq(CsvText) : IsLonger(u, t, x, n)
      BY Longer
    <3>2. In(u) = In(t) \cup {x}
      <4>1. DOMAIN u = DOMAIN t \cup {n + 1}
        BY <3>1 DEF IsLonger
      <4>2. u[n + 1] = x /\ \A i \in DOMAIN t : u[i] = t[i]
        BY <3>1 DEF IsLonger
      <4> QED
        BY <4>1, <4>2
    <3> QED
      BY <3>1, <3>2 DEF IsLonger
  <2>4. Once(t) \in Seq(CsvText) /\ \A i \in DOMAIN Once(t) : Once(t)[i] \in In(t)
    BY <2>1 DEF Holds
  <2> HIDE DEF S
  <2>5. CASE x \in In(t)
    <3>1. \E i \in DOMAIN t : t[i] = x
      BY <2>5
    <3>2. Once(Append(t, x)) = Once(t) \o << >>
      BY <3>1, OnceMore
    <3>3. Once(Append(t, x)) = Once(t)
      BY <2>4, <3>2, OneMore
    <3>4. In(Append(t, x)) = In(t)
      BY <2>3, <2>5
    <3> HIDE DEF In
    <3> QED
      BY <2>1, <3>3, <3>4 DEF S
  <2>6. CASE x \notin In(t)
    <3>1. ~ \E i \in DOMAIN t : t[i] = x
      BY <2>6
    <3>2. Once(Append(t, x)) = Once(t) \o <<x>>
      BY <3>1, OnceMore
    <3>3. Once(Append(t, x)) = Append(Once(t), x)
      BY <2>4, <3>2, OneMore
    <3>4. \A i \in DOMAIN Once(t) : Once(t)[i] # x
      BY <2>4, <2>6
    <3> HIDE DEF In
    <3>5. IsInjective(Append(Once(t), x))
      BY <2>1, <2>4, <3>4, InjectiveMore
    <3>6. Holds(Append(Once(t), x), CsvText, In(t) \cup {x})
      BY <2>1, <2>2, HoldsMore
    <3> QED
      BY <2>1, <2>3, <3>3, <3>5, <3>6 DEF S
  <2> QED
    BY <2>5, <2>6
<1> HIDE DEF S
<1>3. Seq(CsvText) \subseteq S
  BY <1>1, <1>2, SequenceInduction
<1> QED
  BY <1>3 DEF S

LEMMA HoldsBoth ==
  ASSUME NEW A, NEW T, NEW U, NEW s, NEW t, Holds(s, A, T), Holds(t, A, U)
  PROVE  Holds(s \o t, A, T \cup U)
<1>1. PICK n \in Nat, m \in Nat : n = Len(s) /\ m = Len(t)
  BY DEF Holds
<1>2. s \in Seq(A) /\ t \in Seq(A)
  BY DEF Holds
<1>3. PICK u \in Seq(A) : IsCat(u, s, t, n, m)
  BY <1>1, <1>2, HasCat
<1>4. DOMAIN u = 1 .. n + m /\ DOMAIN s = 1 .. n /\ DOMAIN t = 1 .. m
  BY <1>1, <1>2, <1>3 DEF IsCat
<1>5. ASSUME NEW i \in DOMAIN u PROVE u[i] \in T \cup U
  <2>1. CASE i <= n
    BY <1>3, <1>4, <2>1 DEF IsCat, Holds
  <2>2. CASE i > n
    <3>1. i - n \in 1 .. m /\ i \in n + 1 .. n + m
      BY <1>4, <2>2
    <3> QED
      BY <1>3, <1>4, <3>1 DEF IsCat, Holds
  <2> QED
    BY <1>4, <2>1, <2>2
<1>6. ASSUME NEW x \in T PROVE \E i \in DOMAIN u : u[i] = x
  <2>1. PICK i \in 1 .. n : s[i] = x
    BY <1>4 DEF Holds
  <2>2. i \in DOMAIN u /\ u[i] = x
    BY <1>3, <1>4, <2>1 DEF IsCat
  <2> QED
    BY <2>2
<1>7. ASSUME NEW x \in U PROVE \E i \in DOMAIN u : u[i] = x
  <2>1. PICK i \in 1 .. m : t[i] = x
    BY <1>4 DEF Holds
  <2>2. n + i \in n + 1 .. n + m /\ (n + i) - n = i
    OBVIOUS
  <2>3. n + i \in DOMAIN u /\ u[n + i] = x
    BY <1>3, <1>4, <2>1, <2>2 DEF IsCat
  <2> QED
    BY <2>3
<1>8. Holds(u, A, T \cup U)
  BY <1>5, <1>6, <1>7 DEF Holds
<1>9. u = s \o t
  BY <1>3, Zenon DEF IsCat, Concat
<1> QED
  BY <1>8, <1>9, Zenon

\* The pieces put together hold what they hold.
LEMMA FlattenHolds ==
  ASSUME NEW A, NEW ps \in Seq(Seq(A))
  PROVE  Holds(FlattenSeq(ps), A, UNION {{ps[i][k] : k \in DOMAIN ps[i]} : i \in DOMAIN ps})
<1> DEFINE One(p) == {p[k] : k \in DOMAIN p}
           All(qs) == UNION {One(qs[i]) : i \in DOMAIN qs}
           S == {qs \in Seq(Seq(A)) : Holds(FlattenSeq(qs), A, All(qs))}
<1>1. << >> \in S
  <2>1. All(<< >>) = {}
    OBVIOUS
  <2>2. << >> \in Seq(Seq(A))
    OBVIOUS
  <2> HIDE DEF All
  <2> QED
    BY <2>1, <2>2, FlattenEmpty, HoldsNothing
<1>2. ASSUME NEW qs \in S \cap Seq(Seq(A)), NEW q \in Seq(A) PROVE Append(qs, q) \in S
  <2>1. Append(qs, q) \in Seq(Seq(A)) /\ Holds(FlattenSeq(qs), A, All(qs))
    OBVIOUS
  <2>2. All(Append(qs, q)) = All(qs) \cup One(q)
    <3>1. PICK n \in Nat, u \in Seq(Seq(A)) : IsLonger(u, qs, q, n)
      BY Longer
    <3>2. DOMAIN u = DOMAIN qs \cup {n + 1}
      BY <3>1 DEF IsLonger
    <3>3. u[n + 1] = q /\ \A i \in DOMAIN qs : u[i] = qs[i]
      BY <3>1 DEF IsLonger
    <3>4. u = Append(qs, q)
      BY <3>1 DEF IsLonger
    <3> HIDE DEF One
    <3>5. All(u) = All(qs) \cup One(q)
      BY <3>2, <3>3
    <3> QED
      BY <3>4, <3>5
  <2>3. Holds(q, A, One(q))
    BY DEF Holds
  <2>4. FlattenSeq(Append(qs, q)) = FlattenSeq(qs) \o q
    BY FlattenMore
  <2> HIDE DEF S, All, One
  <2>5. Holds(FlattenSeq(qs) \o q, A, All(qs) \cup One(q))
    BY <2>1, <2>3, HoldsBoth
  <2> QED
    BY <2>1, <2>2, <2>4, <2>5 DEF S
<1> HIDE DEF S
<1>3. Seq(Seq(A)) \subseteq S
  BY <1>1, <1>2, SequenceInduction
<1> QED
  BY <1>3 DEF S
-----------------------------------------------------------------------------
(* The file. *)

\* u is t with x before it.
IsHeaded(u, x, t, n) ==
  /\ Len(u) = n + 1 /\ DOMAIN u = 1 .. n + 1 /\ u[1] = x
  /\ \A i \in 1 .. n : u[i + 1] = t[i]

LEMMA Headed ==
  ASSUME NEW A, NEW t \in Seq(A), NEW x \in A, NEW n \in Nat, n = Len(t)
  PROVE  <<x>> \o t \in Seq(A) /\ IsHeaded(<<x>> \o t, x, t, n)
<1>1. <<x>> \in Seq(A) /\ Len(<<x>>) = 1 /\ <<x>>[1] = x
  OBVIOUS
<1>2. PICK u \in Seq(A) : IsCat(u, <<x>>, t, 1, n)
  BY <1>1, HasCat
<1>3. Len(u) = n + 1 /\ u[1] = x
  BY <1>1, <1>2 DEF IsCat
<1>4. ASSUME NEW i \in 1 .. n PROVE u[i + 1] = t[i]
  <2>1. i + 1 \in 1 + 1 .. 1 + n /\ (i + 1) - 1 = i
    OBVIOUS
  <2> QED
    BY <1>2, <2>1 DEF IsCat
<1>5. IsHeaded(u, x, t, n)
  BY <1>3, <1>4 DEF IsHeaded
<1>6. u = <<x>> \o t
  BY <1>2, Zenon DEF IsCat, Concat
<1> QED
  BY <1>5, <1>6, Zenon

KeysOf(rs) == [i \in DOMAIN rs |-> rs[i].keys]

LEMMA ColumnsAre ==
  ASSUME NEW rs, IsBeforeRows(rs)
  PROVE  /\ Columns(rs) \in Seq(CsvText) /\ Columns(rs) # << >>
         /\ IsInjective(Columns(rs))
         /\ \A i \in DOMAIN Columns(rs) : \E r \in DOMAIN rs : Contains(rs[r].keys, Columns(rs)[i])
         /\ \A r \in DOMAIN rs : \A k \in DOMAIN rs[r].keys : Contains(Columns(rs), rs[r].keys[k])
<1>1. PICK n \in Nat : n = Len(rs) /\ DOMAIN rs = 1 .. n
  BY DEF IsBeforeRows
<1>2. KeysOf(rs) \in Seq(Seq(CsvText)) /\ DOMAIN KeysOf(rs) = DOMAIN rs
  <2>1. KeysOf(rs) \in [1 .. n -> Seq(CsvText)]
    BY <1>1 DEF KeysOf, IsBeforeRows
  <2> QED
    BY <1>1, <2>1, IsSequence
<1>3. \A r \in DOMAIN rs : KeysOf(rs)[r] = rs[r].keys
  BY DEF KeysOf
<1> DEFINE K == UNION {{KeysOf(rs)[r][k] : k \in DOMAIN KeysOf(rs)[r]} : r \in DOMAIN KeysOf(rs)}
           F == FlattenSeq(KeysOf(rs))
           In == {F[i] : i \in DOMAIN F}
<1>4. Holds(F, CsvText, K)
  BY <1>2, FlattenHolds
<1>5. \A x : x \in K <=> \E r \in DOMAIN rs : \E k \in DOMAIN rs[r].keys : x = rs[r].keys[k]
  BY <1>2, <1>3
<1> HIDE DEF F, K
<1>6. F \in Seq(CsvText) /\ In = K
  BY <1>4 DEF Holds
<1>7. Holds(Once(F), CsvText, In) /\ IsInjective(Once(F))
  BY <1>6, OnceIs
<1>8. Columns(rs) = Once(F)
  BY DEF Columns, F, KeysOf
<1> HIDE DEF In
<1>9. PICK c \in Seq(CsvText) : c = Columns(rs) /\ DOMAIN c = 1 .. Len(c)
  BY <1>7, <1>8 DEF Holds
<1>10. /\ \A i \in DOMAIN c : c[i] \in K
       /\ \A x \in K : \E i \in DOMAIN c : c[i] = x
  BY <1>6, <1>7, <1>8, <1>9 DEF Holds
<1>11. c # << >>
  <2>1. PICK r \in DOMAIN rs : rs[r].keys # << >> /\ rs[r].keys \in Seq(CsvText)
    BY DEF IsBeforeRows
  <2>2. 1 \in DOMAIN rs[r].keys
    BY <2>1
  <2>3. rs[r].keys[1] \in K
    BY <1>5, <2>2
  <2> QED
    BY <1>10, <2>3
<1>12. ASSUME NEW i \in DOMAIN c PROVE \E r \in DOMAIN rs : Contains(rs[r].keys, c[i])
  <2>1. PICK r \in DOMAIN rs : \E k \in DOMAIN rs[r].keys : c[i] = rs[r].keys[k]
    BY <1>5, <1>10
  <2>2. rs[r].keys \in Seq(CsvText)
    BY DEF IsBeforeRows
  <2> QED
    BY <2>1, <2>2 DEF Contains
<1>13. ASSUME NEW r \in DOMAIN rs, NEW k \in DOMAIN rs[r].keys PROVE Contains(c, rs[r].keys[k])
  BY <1>5, <1>9, <1>10 DEF Contains
<1> QED
  BY <1>7, <1>8, <1>9, <1>11, <1>12, <1>13

\* The file "Download before rows CSV" writes holds the rows: it reads back as
\* them whatever quotes, commas and newlines their texts and keys hold.
THEOREM FileReadsBack ==
  ASSUME NEW rs, IsBeforeRows(rs)
  PROVE  ReadsBack(beforeRowsCsv(rs), rs)
<1>1. PICK n \in Nat : n = Len(rs) /\ DOMAIN rs = 1 .. n
  BY DEF IsBeforeRows
<1>2. PICK c : c = Columns(rs) /\ c \in Seq(CsvText) /\ c # << >> /\ IsInjective(c)
  BY ColumnsAre
<1> DEFINE RowValues(r) == [j \in DOMAIN c |-> Value(rs[r], c[j])]
           body == [r \in DOMAIN rs |-> RowValues(r)]
           rows == <<c>> \o body
           text == [r \in DOMAIN rs |-> CsvLine(RowValues(r))]
           texts == <<CsvLine(c)>> \o text
<1>3. c \in Rows
  <2>1. c \in Seq(CellValues)
    BY <1>2 DEF CellValues
  <2> QED
    BY <1>2, <2>1 DEF Rows
<1>4. ASSUME NEW r \in DOMAIN rs PROVE RowValues(r) \in Rows
  <2>1. \A j \in DOMAIN c : Value(rs[r], c[j]) \in CellValues
    BY DEF Value, CellValues, IsBeforeRows
  <2>2. PICK m \in Nat : m = Len(c) /\ DOMAIN c = 1 .. m /\ m # 0
    BY <1>2
  <2>3. RowValues(r) \in [1 .. m -> CellValues]
    BY <2>1, <2>2
  <2>4. RowValues(r) \in Seq(CellValues) /\ Len(RowValues(r)) = m
    <3> HIDE DEF RowValues
    <3> QED
      BY <2>3, IsSequence
  <2> HIDE DEF RowValues
  <2> QED
    BY <2>2, <2>4 DEF Rows
<1>5. body \in Seq(Rows) /\ Len(body) = n
  <2>1. body \in [1 .. n -> Rows]
    <3> HIDE DEF RowValues
    <3> QED
      BY <1>1, <1>4
  <2> HIDE DEF body
  <2> QED
    BY <2>1, IsSequence
<1>6. \A r \in Rows : CsvLine(r) \in CsvText
  <2>1. << >> \in Seq(Seq(CsvText))
    OBVIOUS
  <2> QED
    BY <2>1, ReadWholeLine
<1>7. text \in Seq(CsvText) /\ Len(text) = n
  <2>1. text \in [1 .. n -> CsvText]
    <3> HIDE DEF RowValues
    <3> QED
      BY <1>1, <1>4, <1>6
  <2> HIDE DEF text
  <2> QED
    BY <2>1, IsSequence
<1>8. rows \in Seq(Rows) /\ IsHeaded(rows, c, body, n)
  <2> HIDE DEF body
  <2> QED
    BY <1>3, <1>5, Headed
<1>9. texts \in Seq(CsvText) /\ IsHeaded(texts, CsvLine(c), text, n)
  <2>1. CsvLine(c) \in CsvText
    BY <1>3, <1>6
  <2> HIDE DEF text
  <2> QED
    BY <1>7, <2>1, Headed
<1>10. ASSUME NEW r \in DOMAIN rs PROVE body[r] = RowValues(r) /\ text[r] = CsvLine(RowValues(r))
  <2> HIDE DEF RowValues
  <2> QED
    BY Zenon
<1>11. beforeRowsCsv(rs) = Joined(texts, "newline") \o <<"newline">>
  BY <1>2, Zenon DEF beforeRowsCsv
<1> HIDE DEF body, text, rows, texts
<1>12. texts = [i \in DOMAIN rows |-> CsvLine(rows[i])]
  <2>1. DOMAIN texts = 1 .. n + 1 /\ DOMAIN rows = 1 .. n + 1
    BY <1>8, <1>9 DEF IsHeaded
  <2>2. ASSUME NEW i \in 1 .. n + 1 PROVE texts[i] = CsvLine(rows[i])
    <3>1. CASE i = 1
      BY <1>8, <1>9, <3>1 DEF IsHeaded
    <3>2. CASE i # 1
      <4> HIDE DEF RowValues
      <4>1. PICK r \in 1 .. n : i = r + 1
        BY <3>2
      <4>2. texts[i] = text[r] /\ rows[i] = body[r]
        BY <1>8, <1>9, <4>1 DEF IsHeaded
      <4> QED
        BY <1>1, <1>10, <4>2
    <3> QED
      BY <3>1, <3>2
  <2>3. \A i \in DOMAIN texts : texts[i] = CsvLine(rows[i])
    BY <2>1, <2>2
  <2>4. texts = [i \in DOMAIN texts |-> texts[i]]
    BY <1>9
  <2> QED
    BY <2>1, <2>3, <2>4
<1>13. beforeRowsCsv(rs) = Written(rows) \o <<"newline">>
  BY <1>11, <1>12, Zenon DEF Written
<1>14. rows # << >>
  BY <1>8 DEF IsHeaded
<1>15. ReadCsv(beforeRowsCsv(rs)) = LineStart(AllTexts(rows))
  <2>1. ReadFrom(LineStart(<< >>), Written(rows) \o <<"newline">>) = LineStart(AllTexts(rows))
    BY <1>8, <1>14, ReadLines
  <2> QED
    BY <1>13, <2>1, Zenon DEF ReadCsv, LineStart, At
<1>16. PICK all : /\ all = AllTexts(rows) /\ all = [i \in 1 .. n + 1 |-> Texts(rows[i])]
  BY <1>8 DEF IsHeaded, AllTexts
<1>17. Len(all) = n + 1 /\ \A i \in 1 .. n + 1 : all[i] = Texts(rows[i])
  <2>1. all \in Seq(Seq(CsvText)) /\ all \in [1 .. n + 1 -> Seq(CsvText)]
    <3>1. << >> \in Seq(Seq(CsvText))
      OBVIOUS
    <3>2. \A row \in Rows : Texts(row) \in Seq(CsvText)
      BY <3>1, ReadWholeLine
    <3>3. \A i \in 1 .. n + 1 : rows[i] \in Rows
      BY <1>8 DEF IsHeaded
    <3>4. all \in [1 .. n + 1 -> Seq(CsvText)]
      BY <1>16, <3>2, <3>3
    <3> QED
      BY <3>4, IsSequence
  <2> QED
    BY <1>16, <2>1
<1>18. all[1] = c
  <2>1. all[1] = Texts(c)
    BY <1>8, <1>17 DEF IsHeaded
  <2>2. \A j \in DOMAIN c : c[j] \in CsvText /\ TextOf(c[j]) = c[j]
    BY <1>2, NullAssumption DEF TextOf
  <2>3. c = [j \in DOMAIN c |-> c[j]]
    BY <1>2
  <2>4. Texts(c) = c
    BY <2>2, <2>3 DEF Texts
  <2> QED
    BY <2>1, <2>4
<1>19. ASSUME NEW r \in DOMAIN rs
       PROVE  all[r + 1] = [j \in DOMAIN c |-> TextOf(Value(rs[r], c[j]))]
  <2>1. r + 1 \in 1 .. n + 1 /\ r \in 1 .. n
    BY <1>1
  <2>2. all[r + 1] = Texts(RowValues(r))
    <3> HIDE DEF RowValues
    <3>1. rows[r + 1] = RowValues(r)
      BY <1>8, <1>10, <2>1 DEF IsHeaded
    <3> QED
      BY <1>17, <2>1, <3>1
  <2>3. Texts(RowValues(r)) = [j \in DOMAIN c |-> TextOf(Value(rs[r], c[j]))]
    BY DEF Texts
  <2> QED
    BY <2>2, <2>3
<1>20. HoldRows(all, rs)
  <2>1. /\ \A i \in DOMAIN c : \E r \in DOMAIN rs : Contains(rs[r].keys, c[i])
        /\ \A r \in DOMAIN rs : \A k \in DOMAIN rs[r].keys : Contains(c, rs[r].keys[k])
    BY <1>2, ColumnsAre
  <2>2. \A i, j \in DOMAIN c : c[i] = c[j] => i = j
    BY <1>2 DEF IsInjective
  <2>3. Len(all) = Len(rs) + 1
    BY <1>1, <1>17
  <2> QED
    BY <1>18, <1>19, <2>1, <2>2, <2>3 DEF HoldRows
<1> QED
  BY <1>15, <1>16, <1>20 DEF ReadsBack, LineStart, At
=============================================================================
