----------------------------- MODULE DaemonTestProofs ------------------------------
(***************************************************************************)
(* Theorems about DaemonTest: for every set of runs, the pipelines of a    *)
(* session find their files, what leaves by an output is marked with that  *)
(* output, events enter at the input that their file names, and the        *)
(* verdict does not depend on the order in which events arrive.            *)
(*                                                                         *)
(* FlattenSeq is defined by a recursive function.  What is true of it is   *)
(* proved with a least counterexample: of the numbers for which a          *)
(* statement is false, if there are any, one is least (Least), and the     *)
(* statement is true of the number before it.                              *)
(***************************************************************************)
EXTENDS DaemonTest, SequenceTheorems, FiniteSetTheorems, WellFoundedInduction, TLAPS

-----------------------------------------------------------------------------
(* Sequences *)

\* A set of natural numbers that is not empty has a least element.
LEMMA Least ==
  ASSUME NEW T, T \subseteq Nat, T # {}
  PROVE  \E n \in T : \A m \in T : n <= m
<1> DEFINE R == {ss \in Nat \X Nat : ss[1] < ss[2]}
<1>1. IsWellFoundedOn(R, Nat)
  BY NatLessThanWellFounded DEF OpToRel
<1>2. PICK n \in T : \A m \in T : ~(<<m, n>> \in R)
  BY <1>1, WFMin
<1>3. \A m \in T : ~(m < n)
  BY <1>2
<1> QED
  BY <1>3

\* Induction, for the members of a set: a set that has 1, and the next number with
\* each of its members, has them all.
LEMMA UpTo ==
  ASSUME NEW N \in Nat, NEW G, N # 0 => 1 \in G,
         \A i \in 1..N : i # 1 /\ i - 1 \in G => i \in G
  PROVE  1..N \subseteq G
<1> DEFINE T == {i \in 1..N : i \notin G}
<1>1. SUFFICES ASSUME T # {} PROVE FALSE
  OBVIOUS
<1>2. T \subseteq Nat
  OBVIOUS
<1>3. PICK i \in T : \A m \in T : i <= m
  BY <1>1, <1>2, Least
<1>4. i \in 1..N /\ i \notin G /\ i # 1
  OBVIOUS
<1>5. i - 1 \in 1..N /\ i - 1 \notin T
  BY <1>3, <1>4
<1> QED
  BY <1>4, <1>5

\* f is the function that FlattenSeq defines, for the first n sequences.
Flattening(f, seqs, n) ==
  f = [i \in 1..n |-> IF i = 1 THEN seqs[i] ELSE f[i - 1] \o seqs[i]]

\* The value of that function at a number.
LEMMA FlatteningAt ==
  ASSUME NEW f, NEW seqs, NEW n, Flattening(f, seqs, n), NEW i \in 1..n
  PROVE  f[i] = IF i = 1 THEN seqs[i] ELSE f[i - 1] \o seqs[i]
<1> DEFINE h == [j \in 1..n |-> IF j = 1 THEN seqs[j] ELSE f[j - 1] \o seqs[j]]
<1>1. f = h
  BY DEF Flattening
<1>2. h[i] = IF i = 1 THEN seqs[i] ELSE f[i - 1] \o seqs[i]
  OBVIOUS
<1> HIDE DEF h
<1> QED
  BY <1>1, <1>2

\* There is such a function: the least n without one would be one more than a
\* number with one.
LEMMA FlatteningExists ==
  ASSUME NEW seqs, NEW N \in Nat
  PROVE  \E f : Flattening(f, seqs, N)
<1> DEFINE T == {n \in Nat : ~\E f : Flattening(f, seqs, n)}
<1>1. SUFFICES ASSUME T # {} PROVE FALSE
  OBVIOUS
<1>2. PICK n \in T : \A m \in T : n <= m
  BY <1>1, Least
<1>3. n \in Nat /\ n # 0
  <2>1. Flattening([i \in 1..0 |-> IF i = 1 THEN seqs[i] ELSE 0], seqs, 0)
    BY DEF Flattening
  <2> QED
    BY <2>1
<1>4. n - 1 \in Nat /\ n - 1 \notin T
  BY <1>2, <1>3
<1>5. PICK f : Flattening(f, seqs, n - 1)
  BY <1>4
<1> DEFINE last == IF n = 1 THEN seqs[n] ELSE f[n - 1] \o seqs[n]
           g == [i \in 1..n |-> IF i < n THEN f[i] ELSE last]
<1>6. Flattening(g, seqs, n)
  <2>1. \A i \in 1..n : g[i] = IF i = 1 THEN seqs[i] ELSE g[i - 1] \o seqs[i]
    <3> TAKE i \in 1..n
    <3>1. CASE i < n
      <4>1. f[i] = IF i = 1 THEN seqs[i] ELSE f[i - 1] \o seqs[i]
        BY <1>3, <1>5, <3>1, FlatteningAt
      <4> QED
        BY <1>3, <3>1, <4>1
    <3>2. CASE i = n
      BY <1>3, <3>2
    <3> QED
      BY <1>3, <3>1, <3>2
  <2> QED
    BY <2>1 DEF Flattening
<1> QED
  BY <1>3, <1>6

\* FlattenSeq is the last of the sequences that come of it piece by piece.
LEMMA FlattenIs ==
  ASSUME NEW seqs, NEW N \in Nat \ {0}, Len(seqs) = N
  PROVE  \E f : /\ FlattenSeq(seqs) = f[N]
                /\ f[1] = seqs[1]
                /\ \A i \in 1..N : i # 1 => f[i] = f[i - 1] \o seqs[i]
<1> DEFINE f == CHOOSE f : Flattening(f, seqs, N)
<1>1. Flattening(f, seqs, N)
  BY FlatteningExists
<1>2. FlattenSeq(seqs) = f[N]
  BY DEF FlattenSeq, Flattening
<1> HIDE DEF f
<1>3. \A i \in 1..N : f[i] = IF i = 1 THEN seqs[i] ELSE f[i - 1] \o seqs[i]
  BY <1>1, FlatteningAt
<1>4. f[1] = seqs[1]
  <2>1. 1 \in 1..N
    OBVIOUS
  <2> QED
    BY <1>3, <2>1
<1> QED
  BY <1>2, <1>3, <1>4

\* The elements of two sequences, one after the other.
LEMMA ConcatElements ==
  ASSUME NEW S, NEW s \in Seq(S), NEW t \in Seq(S)
  PROVE  /\ s \o t \in Seq(S) /\ Len(s \o t) = Len(s) + Len(t)
         /\ ToSet(s \o t) = ToSet(s) \cup ToSet(t)
<1>1. s \o t \in Seq(S) /\ Len(s \o t) = Len(s) + Len(t)
  OBVIOUS
<1>2. \A n \in 1..Len(s) : (s \o t)[n] = s[n]
  OBVIOUS
<1>3. \A n \in 1..Len(t) : (s \o t)[Len(s) + n] = t[n] /\ Len(s) + n \in 1..Len(s) + Len(t)
  OBVIOUS
<1>4. ASSUME NEW n \in 1..Len(s) + Len(t)
      PROVE  n \in 1..Len(s) \/ \E k \in 1..Len(t) : n = Len(s) + k
  <2>1. CASE n > Len(s)
    <3>1. n - Len(s) \in 1..Len(t) /\ n = Len(s) + (n - Len(s))
      BY <2>1
    <3> QED
      BY <3>1
  <2> QED
    BY <2>1
<1>5. DOMAIN s = 1..Len(s) /\ DOMAIN t = 1..Len(t) /\ DOMAIN (s \o t) = 1..Len(s) + Len(t)
  BY <1>1
<1>6. ToSet(s \o t) \subseteq ToSet(s) \cup ToSet(t)
  <2>1. ASSUME NEW n \in 1..Len(s) + Len(t)
        PROVE  (s \o t)[n] \in ToSet(s) \cup ToSet(t)
    <3>1. CASE n \in 1..Len(s)
      BY <1>2, <1>5, <3>1 DEF ToSet
    <3>2. CASE \E k \in 1..Len(t) : n = Len(s) + k
      BY <1>3, <1>5, <3>2 DEF ToSet
    <3> QED
      BY <1>4, <3>1, <3>2
  <2> QED
    BY <1>5, <2>1 DEF ToSet
<1>7. ToSet(s) \subseteq ToSet(s \o t) /\ ToSet(t) \subseteq ToSet(s \o t)
  <2>1. 1..Len(s) \subseteq 1..Len(s) + Len(t)
    OBVIOUS
  <2> QED
    BY <1>2, <1>3, <1>5, <2>1 DEF ToSet
<1> QED
  BY <1>1, <1>6, <1>7

\* The elements of a sequence that is put together are those of its pieces.
LEMMA FlattenElements ==
  ASSUME NEW S, NEW seqs \in Seq(Seq(S))
  PROVE  /\ FlattenSeq(seqs) \in Seq(S)
         /\ ToSet(FlattenSeq(seqs)) = UNION {ToSet(seqs[n]) : n \in DOMAIN seqs}
<1>1. CASE seqs = << >>
  <2>1. FlattenSeq(seqs) = << >>
    BY <1>1 DEF FlattenSeq
  <2>2. << >> \in Seq(S) /\ DOMAIN << >> = {}
    OBVIOUS
  <2> QED
    BY <1>1, <2>1, <2>2 DEF ToSet
<1>2. CASE seqs # << >>
  <2>1. PICK N \in Nat \ {0} : N = Len(seqs)
    BY <1>2
  <2>2. DOMAIN seqs = 1..N /\ \A n \in 1..N : seqs[n] \in Seq(S)
    BY <2>1
  <2>3. PICK f : /\ FlattenSeq(seqs) = f[N]
                 /\ f[1] = seqs[1]
                 /\ \A i \in 1..N : i # 1 => f[i] = f[i - 1] \o seqs[i]
    BY <2>1, FlattenIs
  <2> DEFINE Elements(i) == UNION {ToSet(seqs[n]) : n \in 1..i}
             G == {i \in 1..N : f[i] \in Seq(S) /\ ToSet(f[i]) = Elements(i)}
  <2>4. 1 \in G
    <3>1. 1 \in 1..N /\ 1..1 = {1}
      BY <2>1
    <3> QED
      BY <2>2, <2>3, <3>1
  <2>5. ASSUME NEW i \in 1..N, i # 1, i - 1 \in G PROVE i \in G
    <3>1. f[i] = f[i - 1] \o seqs[i]
      BY <2>3, <2>5
    <3>2. f[i] \in Seq(S) /\ ToSet(f[i]) = ToSet(f[i - 1]) \cup ToSet(seqs[i])
      BY <2>2, <2>5, <3>1, ConcatElements
    <3>3. 1..i = (1..i - 1) \cup {i}
      BY <2>5
    <3>4. Elements(i) = Elements(i - 1) \cup ToSet(seqs[i])
      BY <3>3
    <3> QED
      BY <2>5, <3>2, <3>4
  <2> HIDE DEF G
  <2>6. 1..N \subseteq G /\ N \in 1..N
    BY <2>4, <2>5, UpTo
  <2> QED
    BY <2>1, <2>2, <2>3, <2>6 DEF G
<1> QED
  BY <1>1, <1>2

\* No two elements of the sequence have the same id.
IdsDiffer(s) == \A j, k \in DOMAIN s : s[j].id = s[k].id => j = k

\* Two sequences without an id in common, one after the other.
LEMMA ConcatIdsDiffer ==
  ASSUME NEW S, NEW s \in Seq(S), NEW t \in Seq(S), IdsDiffer(s), IdsDiffer(t),
         \A x \in ToSet(s), y \in ToSet(t) : x.id # y.id
  PROVE  IdsDiffer(s \o t)
<1> DEFINE st == s \o t
<1>1. DOMAIN s = 1..Len(s) /\ DOMAIN t = 1..Len(t) /\ DOMAIN st = 1..Len(s) + Len(t)
  OBVIOUS
<1>2. \A n \in 1..Len(s) : st[n] = s[n]
  OBVIOUS
<1>3. ASSUME NEW n \in DOMAIN st, n \notin 1..Len(s)
      PROVE  n - Len(s) \in 1..Len(t) /\ st[n] = t[n - Len(s)]
  BY <1>1, <1>3
<1>4. \A j \in 1..Len(s), k \in 1..Len(t) : s[j].id # t[k].id
  BY <1>1 DEF ToSet
<1> SUFFICES ASSUME NEW j \in DOMAIN st, NEW k \in DOMAIN st, st[j].id = st[k].id
             PROVE  j = k
  BY DEF IdsDiffer
<1>5. CASE j \in 1..Len(s) /\ k \in 1..Len(s)
  BY <1>1, <1>2, <1>5 DEF IdsDiffer
<1>6. CASE j \in 1..Len(s) /\ k \notin 1..Len(s)
  BY <1>2, <1>3, <1>4, <1>6
<1>7. CASE j \notin 1..Len(s) /\ k \in 1..Len(s)
  BY <1>2, <1>3, <1>4, <1>7
<1>8. CASE j \notin 1..Len(s) /\ k \notin 1..Len(s)
  <2>1. st[j] = t[j - Len(s)] /\ st[k] = t[k - Len(s)]
    BY <1>3, <1>8
  <2>2. j - Len(s) \in DOMAIN t /\ k - Len(s) \in DOMAIN t
    BY <1>1, <1>3, <1>8
  <2>3. j - Len(s) = k - Len(s)
    BY <2>1, <2>2 DEF IdsDiffer
  <2> QED
    BY <1>1, <2>3
<1> QED
  BY <1>5, <1>6, <1>7, <1>8

\* Pieces without an id in common, put together.
LEMMA FlattenIdsDiffer ==
  ASSUME NEW S, NEW seqs \in Seq(Seq(S)),
         \A n \in DOMAIN seqs : IdsDiffer(seqs[n]),
         \A m, n \in DOMAIN seqs : m # n =>
           \A x \in ToSet(seqs[m]), y \in ToSet(seqs[n]) : x.id # y.id
  PROVE  IdsDiffer(FlattenSeq(seqs))
<1>1. CASE seqs = << >>
  <2>1. FlattenSeq(seqs) = << >>
    BY <1>1 DEF FlattenSeq
  <2> QED
    BY <2>1 DEF IdsDiffer
<1>2. CASE seqs # << >>
  <2>1. PICK N \in Nat \ {0} : N = Len(seqs)
    BY <1>2
  <2>2. DOMAIN seqs = 1..N /\ \A n \in 1..N : seqs[n] \in Seq(S)
    BY <2>1
  <2>3. PICK f : /\ FlattenSeq(seqs) = f[N]
                 /\ f[1] = seqs[1]
                 /\ \A i \in 1..N : i # 1 => f[i] = f[i - 1] \o seqs[i]
    BY <2>1, FlattenIs
  <2> DEFINE Elements(i) == UNION {ToSet(seqs[n]) : n \in 1..i}
             G == {i \in 1..N : /\ f[i] \in Seq(S) /\ ToSet(f[i]) = Elements(i)
                                /\ IdsDiffer(f[i])}
  <2>4. 1 \in G
    <3>1. 1 \in 1..N /\ 1..1 = {1}
      BY <2>1
    <3> QED
      BY <2>2, <2>3, <3>1
  <2>5. ASSUME NEW i \in 1..N, i # 1, i - 1 \in G PROVE i \in G
    <3>1. f[i] = f[i - 1] \o seqs[i]
      BY <2>3, <2>5
    <3>2. f[i] \in Seq(S) /\ ToSet(f[i]) = ToSet(f[i - 1]) \cup ToSet(seqs[i])
      BY <2>2, <2>5, <3>1, ConcatElements
    <3>3. 1..i = (1..i - 1) \cup {i} /\ i \notin 1..i - 1 /\ 1..i - 1 \subseteq 1..N
      BY <2>5
    <3>4. Elements(i) = Elements(i - 1) \cup ToSet(seqs[i])
      BY <3>3
    <3>5. \A x \in ToSet(f[i - 1]), y \in ToSet(seqs[i]) : x.id # y.id
      <4>1. \A n \in 1..i - 1 : n \in DOMAIN seqs /\ n # i
        BY <2>2, <3>3
      <4>2. ToSet(f[i - 1]) = Elements(i - 1) /\ i \in DOMAIN seqs
        BY <2>2, <2>5
      <4> QED
        BY <4>1, <4>2
    <3>6. IdsDiffer(f[i])
      BY <2>2, <2>5, <3>1, <3>5, ConcatIdsDiffer
    <3> QED
      BY <2>5, <3>2, <3>4, <3>6
  <2> HIDE DEF G
  <2>6. 1..N \subseteq G /\ N \in 1..N
    BY <2>4, <2>5, UpTo
  <2> QED
    BY <2>1, <2>2, <2>3, <2>6 DEF G
<1> QED
  BY <1>1, <1>2

\* Sequences whose pieces are of the same lengths are of the same length.
LEMMA FlattenLengths ==
  ASSUME NEW S, NEW seqs \in Seq(Seq(S)), NEW others \in Seq(Seq(S)),
         Len(seqs) = Len(others), \A n \in DOMAIN seqs : Len(seqs[n]) = Len(others[n])
  PROVE  Len(FlattenSeq(seqs)) = Len(FlattenSeq(others))
<1>1. CASE seqs = << >>
  <2>1. FlattenSeq(seqs) = << >> /\ FlattenSeq(others) = << >>
    BY <1>1 DEF FlattenSeq
  <2> QED
    BY <2>1
<1>2. CASE seqs # << >>
  <2>1. PICK N \in Nat \ {0} : N = Len(seqs) /\ N = Len(others)
    BY <1>2
  <2>2. /\ DOMAIN seqs = 1..N
        /\ \A n \in 1..N : seqs[n] \in Seq(S) /\ others[n] \in Seq(S)
    BY <2>1
  <2>3. PICK f : /\ FlattenSeq(seqs) = f[N]
                 /\ f[1] = seqs[1]
                 /\ \A i \in 1..N : i # 1 => f[i] = f[i - 1] \o seqs[i]
    BY <2>1, FlattenIs
  <2>4. PICK g : /\ FlattenSeq(others) = g[N]
                 /\ g[1] = others[1]
                 /\ \A i \in 1..N : i # 1 => g[i] = g[i - 1] \o others[i]
    BY <2>1, FlattenIs
  <2> DEFINE G == {i \in 1..N : /\ f[i] \in Seq(S) /\ g[i] \in Seq(S)
                                /\ Len(f[i]) = Len(g[i])}
  <2>5. 1 \in G
    <3>1. 1 \in 1..N
      BY <2>1
    <3> QED
      BY <2>2, <2>3, <2>4, <3>1
  <2>6. ASSUME NEW i \in 1..N, i # 1, i - 1 \in G PROVE i \in G
    <3>1. f[i] = f[i - 1] \o seqs[i] /\ g[i] = g[i - 1] \o others[i]
      BY <2>3, <2>4, <2>6
    <3>2. /\ f[i - 1] \in Seq(S) /\ g[i - 1] \in Seq(S) /\ Len(f[i - 1]) = Len(g[i - 1])
          /\ seqs[i] \in Seq(S) /\ others[i] \in Seq(S) /\ Len(seqs[i]) = Len(others[i])
      BY <2>2, <2>6
    <3>3. /\ f[i - 1] \o seqs[i] \in Seq(S)
          /\ Len(f[i - 1] \o seqs[i]) = Len(f[i - 1]) + Len(seqs[i])
      <4> DEFINE s == f[i - 1]
                 t == seqs[i]
      <4>1. s \in Seq(S) /\ t \in Seq(S)
        BY <3>2
      <4> HIDE DEF s, t
      <4>2. s \o t \in Seq(S) /\ Len(s \o t) = Len(s) + Len(t)
        BY <4>1
      <4> QED
        BY <4>2 DEF s, t
    <3>4. /\ g[i - 1] \o others[i] \in Seq(S)
          /\ Len(g[i - 1] \o others[i]) = Len(g[i - 1]) + Len(others[i])
      <4> DEFINE s == g[i - 1]
                 t == others[i]
      <4>1. s \in Seq(S) /\ t \in Seq(S)
        BY <3>2
      <4> HIDE DEF s, t
      <4>2. s \o t \in Seq(S) /\ Len(s \o t) = Len(s) + Len(t)
        BY <4>1
      <4> QED
        BY <4>2 DEF s, t
    <3> QED
      BY <2>6, <3>1, <3>2, <3>3, <3>4
  <2> HIDE DEF G
  <2>7. 1..N \subseteq G /\ N \in 1..N
    <3>1. N \in Nat /\ N \in 1..N
      OBVIOUS
    <3>2. N # 0 => 1 \in G
      BY <2>5
    <3>3. \A i \in 1..N : i # 1 /\ i - 1 \in G => i \in G
      BY <2>6
    <3> QED
      BY <3>1, <3>2, <3>3, UpTo
  <2> QED
    BY <2>1, <2>3, <2>4, <2>7 DEF G
<1> QED
  BY <1>1, <1>2

\* The elements at the given places.
LEMMA ChosenElements ==
  ASSUME NEW S, NEW s \in Seq(S), NEW places
  PROVE  Chosen(s, places) \in Seq(S)
         /\ ToSet(Chosen(s, places)) = {s[n] : n \in DOMAIN s \cap places}
<1> DEFINE seqs == [n \in DOMAIN s |-> IF n \in places THEN <<s[n]>> ELSE << >>]
<1>1. seqs \in Seq(Seq(S)) /\ DOMAIN seqs = DOMAIN s
  <2>1. DOMAIN s = 1..Len(s) /\ Len(s) \in Nat
    OBVIOUS
  <2>2. \A n \in DOMAIN s : seqs[n] \in Seq(S)
    OBVIOUS
  <2> HIDE DEF seqs
  <2>3. DOMAIN seqs = DOMAIN s /\ seqs = [n \in 1..Len(s) |-> seqs[n]]
    BY <2>1 DEF seqs
  <2> QED
    BY <2>1, <2>2, <2>3
<1>2. \A n \in DOMAIN s : ToSet(seqs[n]) = IF n \in places THEN {s[n]} ELSE {}
  BY DEF ToSet
<1>3. Chosen(s, places) = FlattenSeq(seqs)
  BY DEF Chosen
<1> HIDE DEF seqs
<1>4. UNION {ToSet(seqs[n]) : n \in DOMAIN s} = {s[n] : n \in DOMAIN s \cap places}
  BY <1>2
<1> QED
  BY <1>1, <1>3, <1>4, FlattenElements

\* What is in Seq(S) for some S is a sequence.
LEMMA Sequence ==
  ASSUME NEW S, NEW s \in Seq(S)
  PROVE  IsSequence(s)
<1>1. \A n \in 1..Len(s) : s[n] \in ToSet(s)
  BY DEF ToSet
<1> QED
  BY <1>1 DEF IsSequence

\* What is written by its elements is a sequence of what these are in.
LEMMA SequenceOf ==
  ASSUME NEW S, NEW N \in Nat, NEW s, s = [n \in 1..N |-> s[n]], \A n \in 1..N : s[n] \in S
  PROVE  s \in Seq(S)
OBVIOUS

-----------------------------------------------------------------------------
(* Files: each step of the client and the session makes a file of a file *)

\* A mock takes the place of a plugin, or takes it away.
LEMMA WalkPlugins ==
  ASSUME NEW p, IsPlugin(p), NEW mocks, \A id \in DOMAIN mocks : IsMock(mocks[id])
  PROVE  IsSequence(Walk(p, mocks)) /\ \A q \in ToSet(Walk(p, mocks)) : IsPlugin(q)
<1>1. \A q : IsSequence(<<q>>) /\ ToSet(<<q>>) = {q}
  BY DEF IsSequence, ToSet
<1>2. IsSequence(<< >>) /\ ToSet(<< >>) = {}
  BY DEF IsSequence, ToSet
<1>3. CASE p.id = NoId \/ p.id \notin DOMAIN mocks
  BY <1>1, <1>3 DEF Walk
<1>4. CASE p.id # NoId /\ p.id \in DOMAIN mocks
  <2> DEFINE mock == mocks[p.id]
             q == [section |-> p.section, name |-> mock.name, id |-> p.id,
                   codec |-> mock.codec, address |-> mock.address]
  <2>1. IsPlugin(q)
    BY <1>4 DEF IsPlugin, IsMock
  <2>2. Walk(p, mocks) = IF mock = Removed THEN << >> ELSE <<q>>
    BY <1>4 DEF Walk
  <2> QED
    BY <1>1, <1>2, <2>1, <2>2
<1> QED
  BY <1>3, <1>4

\* A file with other plugins.
LEMMA WithPluginsFile ==
  ASSUME NEW f, IsFile(f), NEW plugins, IsSequence(plugins),
         \A p \in ToSet(plugins) : IsPlugin(p)
  PROVE  /\ IsFile([f EXCEPT !.plugins = plugins])
         /\ [f EXCEPT !.plugins = plugins].dir = f.dir
         /\ [f EXCEPT !.plugins = plugins].name = f.name
         /\ [f EXCEPT !.plugins = plugins].plugins = plugins
<1> DEFINE g == [f EXCEPT !.plugins = plugins]
<1>1. g = [dir |-> f.dir, name |-> f.name, plugins |-> plugins]
  BY DEF IsFile
<1> HIDE DEF g
<1>2. g.dir = f.dir /\ g.name = f.name /\ g.plugins = plugins
  BY <1>1
<1>3. IsFile(g)
  BY <1>1, <1>2 DEF IsFile
<1> QED
  BY <1>2, <1>3 DEF g

LEMMA ApplyMocksFile ==
  ASSUME NEW f, IsFile(f), NEW mocks, \A id \in DOMAIN mocks : IsMock(mocks[id])
  PROVE  /\ IsFile(ApplyMocks(f, mocks))
         /\ ApplyMocks(f, mocks).dir = f.dir /\ ApplyMocks(f, mocks).name = f.name
<1> DEFINE seqs == [n \in DOMAIN f.plugins |-> Walk(f.plugins[n], mocks)]
           S == UNION {ToSet(seqs[n]) : n \in DOMAIN f.plugins}
<1>1. f.plugins \in Seq(ToSet(f.plugins))
  BY DEF IsFile, IsSequence
<1>2. \A n \in DOMAIN f.plugins : IsPlugin(f.plugins[n])
  BY DEF IsFile, ToSet
<1>3. \A n \in DOMAIN f.plugins : /\ seqs[n] \in Seq(ToSet(seqs[n]))
                                  /\ \A q \in ToSet(seqs[n]) : IsPlugin(q)
  BY <1>2, WalkPlugins DEF IsSequence
<1>4. DOMAIN seqs = 1..Len(f.plugins) /\ seqs = [n \in 1..Len(f.plugins) |-> seqs[n]]
      /\ Len(f.plugins) \in Nat
  BY <1>1
<1>5. ApplyMocks(f, mocks) = [f EXCEPT !.plugins = FlattenSeq(seqs)]
  BY DEF ApplyMocks
<1>6. DOMAIN seqs = DOMAIN f.plugins
  OBVIOUS
<1> HIDE DEF seqs
<1>7. \A n \in 1..Len(f.plugins) : seqs[n] \in Seq(S)
  <2> SUFFICES ASSUME NEW n \in 1..Len(f.plugins) PROVE seqs[n] \in Seq(S)
    OBVIOUS
  <2>1. seqs[n] \in Seq(ToSet(seqs[n])) /\ ToSet(seqs[n]) \subseteq S
    BY <1>3, <1>4, <1>6
  <2> QED
    BY <2>1, SeqMonotonic
<1>8. seqs \in Seq(Seq(S))
  BY <1>4, <1>7, SequenceOf
<1>9. FlattenSeq(seqs) \in Seq(S) /\ ToSet(FlattenSeq(seqs)) = S
  BY <1>6, <1>8, FlattenElements
<1>10. IsSequence(FlattenSeq(seqs)) /\ \A q \in ToSet(FlattenSeq(seqs)) : IsPlugin(q)
  BY <1>3, <1>9, Sequence
<1> QED
  BY <1>5, <1>10, WithPluginsFile

\* With ids added, each plugin has one.
LEMMA AddMissingFile ==
  ASSUME NEW f, IsFile(f)
  PROVE  /\ IsFile(AddMissingIDs(f))
         /\ AddMissingIDs(f).dir = f.dir /\ AddMissingIDs(f).name = f.name
         /\ \A p \in ToSet(AddMissingIDs(f).plugins) : p.id # NoId
<1> DEFINE with(n) == IF f.plugins[n].id # NoId THEN f.plugins[n]
                      ELSE [f.plugins[n] EXCEPT !.id = MissingID(f, n)]
           plugins == [n \in DOMAIN f.plugins |-> with(n)]
<1>1. f.plugins \in Seq(ToSet(f.plugins)) /\ f.name \in Nat
  BY DEF IsFile, IsSequence
<1>2. DOMAIN f.plugins = 1..Len(f.plugins) /\ Len(f.plugins) \in Nat
  BY <1>1
<1>3. ASSUME NEW n \in DOMAIN f.plugins
      PROVE  IsPlugin(with(n)) /\ with(n).id # NoId
  <2>1. IsPlugin(f.plugins[n])
    BY DEF IsFile, ToSet
  <2>2. MissingID(f, n) \in Nat \ {NoId}
    BY <1>1, <1>2 DEF MissingID, NoId
  <2>3. CASE f.plugins[n].id = NoId
    <3> DEFINE p == f.plugins[n]
               q == [p EXCEPT !.id = MissingID(f, n)]
    <3>1. q = [section |-> p.section, name |-> p.name, id |-> MissingID(f, n),
               codec |-> p.codec, address |-> p.address]
      BY <2>1 DEF IsPlugin
    <3>2. IsPlugin(q) /\ q.id # NoId
      BY <2>1, <2>2, <3>1 DEF IsPlugin
    <3> QED
      BY <2>3, <3>2
  <2> QED
    BY <2>1, <2>3
<1>4. AddMissingIDs(f) = [f EXCEPT !.plugins = plugins]
  BY DEF AddMissingIDs
<1>5. plugins \in Seq({with(n) : n \in DOMAIN f.plugins})
  BY <1>2
<1>6. \A q \in ToSet(plugins) : IsPlugin(q) /\ q.id # NoId
  BY <1>3 DEF ToSet
<1> HIDE DEF plugins
<1> QED
  BY <1>4, <1>5, <1>6, Sequence, WithPluginsFile

\* What the client makes of a file it packs.
LEMMA ZipEntryFile ==
  ASSUME NEW f, IsFile(f), NEW c, IsConfiguration(c)
  PROVE  /\ IsFile(ZipEntry(f, c))
         /\ ZipEntry(f, c).dir = TrimBase(f.dir, c.base) /\ ZipEntry(f, c).name = f.name
         /\ Valid(Preprocessed(f, c), c.addMissingID) =>
              \A p \in ToSet(ZipEntry(f, c).plugins) : p.id # NoId
<1> DEFINE mocked == Preprocessed(f, c)
           checked == IF c.addMissingID THEN AddMissingIDs(mocked) ELSE mocked
<1>1. IsFile(mocked) /\ mocked.dir = f.dir /\ mocked.name = f.name
  BY ApplyMocksFile DEF IsConfiguration, Preprocessed
<1>2. ZipEntry(f, c) = [checked EXCEPT !.dir = TrimBase(f.dir, c.base)]
  BY DEF ZipEntry
<1>3. Valid(mocked, c.addMissingID) => \A p \in ToSet(checked.plugins) : p.id # NoId
  <2>1. CASE c.addMissingID
    BY <1>1, <2>1, AddMissingFile
  <2>2. CASE ~c.addMissingID
    BY <2>2 DEF Valid, ToSet
  <2> QED
    BY <2>1, <2>2
<1>4. IsFile(checked) /\ checked.dir = f.dir /\ checked.name = f.name
  BY <1>1, AddMissingFile
<1>5. IsSequence(TrimBase(f.dir, c.base))
  <2>1. f.dir \in Seq(ToSet(f.dir)) /\ Len(c.base) \in Nat
    BY DEF IsFile, IsConfiguration, IsSequence
  <2>2. CASE IsPrefix(c.base, f.dir)
    <3>1. Len(c.base) <= Len(f.dir)
      BY <2>2 DEF IsPrefix
    <3>2. SubSeq(f.dir, Len(c.base) + 1, Len(f.dir)) \in Seq(ToSet(f.dir))
      BY <2>1, <3>1
    <3> QED
      BY <2>2, <3>2, Sequence DEF TrimBase
  <2>3. CASE ~IsPrefix(c.base, f.dir)
    BY <2>3 DEF TrimBase, IsFile
  <2> QED
    BY <2>2, <2>3
<1> HIDE DEF checked
<1>6. ZipEntry(f, c) = [dir |-> TrimBase(f.dir, c.base), name |-> checked.name,
                       plugins |-> checked.plugins]
  BY <1>2, <1>4 DEF IsFile
<1>7. IsFile(ZipEntry(f, c))
  BY <1>4, <1>5, <1>6 DEF IsFile
<1> QED
  BY <1>3, <1>4, <1>6, <1>7

\* What the session makes of a file of the archive.  Its inputs and outputs are
\* "pipeline" plugins with an address.
LEMMA ReplacedPlugin ==
  ASSUME NEW p, IsPlugin(p), NEW sid
  PROVE  LET q == ReplaceOutput(ReplaceInput(p, sid))
         IN  /\ q.section = p.section
             /\ p.section # "filter" => q.name = "pipeline" /\ q.address # NoAddress
             /\ p.section = "input" =>
                  q.address = IF p.name = "pipeline" THEN p.address
                              ELSE InputAddress(sid, p.id)
<1> DEFINE r == ReplaceInput(p, sid)
           q == ReplaceOutput(r)
<1>1. p = [section |-> p.section, name |-> p.name, id |-> p.id, codec |-> p.codec,
           address |-> p.address]
  BY DEF IsPlugin
<1>2. \A id : InputAddress(sid, id) # NoAddress /\ OutputAddress(id) # NoAddress
  BY DEF InputAddress, OutputAddress, NoAddress
<1>3. CASE IsExternal(p, "input")
  <2>1. r = [section |-> p.section, name |-> "pipeline", id |-> NoId, codec |-> NoCodec,
             address |-> InputAddress(sid, p.id)]
    BY <1>1, <1>3 DEF ReplaceInput
  <2>2. p.section = "input" /\ p.name # "pipeline"
    BY <1>3 DEF IsExternal
  <2>3. q = r
    BY <2>1, <2>2 DEF ReplaceOutput, IsExternal
  <2> QED
    BY <1>2, <2>1, <2>2, <2>3
<1>4. CASE IsExternal(p, "output")
  <2>1. p.section = "output" /\ p.name # "pipeline"
    BY <1>4 DEF IsExternal
  <2>2. r = p
    BY <2>1 DEF ReplaceInput, IsExternal
  <2>3. q = [section |-> p.section, name |-> "pipeline", id |-> NoId, codec |-> p.codec,
             address |-> OutputAddress(PluginIDSave(p.id))]
    <3> DEFINE address == OutputAddress(PluginIDSave(p.id))
               named == [p EXCEPT !.name = "pipeline"]
               bare == [named EXCEPT !.id = NoId]
    <3>1. named = [section |-> p.section, name |-> "pipeline", id |-> p.id,
                   codec |-> p.codec, address |-> p.address]
      BY <1>1
    <3> HIDE DEF named
    <3>2. bare = [section |-> p.section, name |-> "pipeline", id |-> NoId,
                  codec |-> p.codec, address |-> p.address]
      BY <3>1
    <3> HIDE DEF bare, address
    <3>3. [bare EXCEPT !.address = address]
            = [section |-> p.section, name |-> "pipeline", id |-> NoId,
               codec |-> p.codec, address |-> address]
      BY <3>2
    <3>4. ReplaceOutput(p) = [bare EXCEPT !.address = address]
      BY <1>4 DEF ReplaceOutput, bare, named, address
    <3> QED
      BY <2>2, <3>3, <3>4 DEF address
  <2> QED
    BY <1>2, <2>1, <2>3
<1>5. CASE ~IsExternal(p, "input") /\ ~IsExternal(p, "output")
  <2>1. r = p /\ q = p
    BY <1>5 DEF ReplaceInput, ReplaceOutput
  <2> QED
    BY <1>5, <2>1 DEF IsPlugin, IsExternal
<1> QED
  BY <1>3, <1>4, <1>5

LEMMA SutFileIs ==
  ASSUME NEW f, IsFile(f), NEW sid
  PROVE  /\ SutFile(f, sid).dir = f.dir /\ SutFile(f, sid).name = f.name
         /\ ToSet(SutFile(f, sid).plugins)
              = {ReplaceOutput(ReplaceInput(p, sid)) : p \in ToSet(f.plugins)}
         /\ IsSequence(SutFile(f, sid).plugins)
<1> DEFINE new(p) == ReplaceOutput(ReplaceInput(p, sid))
           plugins == [n \in DOMAIN f.plugins |-> new(f.plugins[n])]
<1>1. SutFile(f, sid) = [dir |-> f.dir, name |-> f.name, plugins |-> plugins]
  BY DEF SutFile, IsFile
<1>2. ToSet(plugins) = {new(p) : p \in ToSet(f.plugins)}
  BY DEF ToSet
<1>3. Len(f.plugins) \in Nat /\ DOMAIN f.plugins = 1..Len(f.plugins)
  BY DEF IsFile, IsSequence
<1> HIDE DEF new
<1>4. plugins \in Seq({new(p) : p \in ToSet(f.plugins)})
  BY <1>3 DEF ToSet
<1> HIDE DEF plugins
<1> QED
  BY <1>1, <1>2, <1>4, Sequence DEF new

-----------------------------------------------------------------------------
(* The archive *)

\* The files a path of a pipeline matches.
LEMMA FilesOfAre ==
  ASSUME NEW c, IsConfiguration(c), NEW p, IsPipeline(p)
  PROVE  /\ FilesOf(p, c) \in Seq(ToSet(c.disk))
         /\ ToSet(FilesOf(p, c)) = {f \in ToSet(c.disk) : f.dir = ConfigDir(p, c.base)}
<1>1. ConfigDir(ProcessNestedKeys(p), c.base) = ConfigDir(p, c.base)
  <2>1. ProcessNestedKeys(p).dir = p.dir /\ ProcessNestedKeys(p).absolute = p.absolute
    <3>1. p = [id |-> p.id, dir |-> p.dir, absolute |-> p.absolute, nested |-> p.nested]
      BY DEF IsPipeline
    <3> QED
      BY <3>1 DEF ProcessNestedKeys
  <2> QED
    BY <2>1 DEF ConfigDir
<1>2. c.disk \in Seq(ToSet(c.disk))
  BY DEF IsConfiguration, IsSequence
<1> DEFINE dir == ConfigDir(p, c.base)
           places == {n \in DOMAIN c.disk : c.disk[n].dir = dir}
<1>3. FilesOf(p, c) = Chosen(c.disk, places)
  BY <1>1 DEF FilesOf, Glob
<1>4. {c.disk[n] : n \in DOMAIN c.disk \cap places} = {f \in ToSet(c.disk) : f.dir = dir}
  BY DEF ToSet
<1> QED
  BY <1>2, <1>3, <1>4, ChosenElements

\* The archive is the sequence of the entries for the files of the pipelines.
LEMMA ArchiveIs ==
  ASSUME NEW c, IsConfiguration(c)
  PROVE  LET z == ZipWithPreprocessor(c)
         IN  /\ IsSequence(z)
             /\ ToSet(z) = UNION {{ZipEntry(f, c) : f \in ToSet(FilesOf(c.pipelines[n], c))} :
                                    n \in DOMAIN c.pipelines}
<1> DEFINE S == {ZipEntry(f, c) : f \in ToSet(c.disk)}
           files(n) == FilesOf(c.pipelines[n], c)
           piece(n) == [k \in DOMAIN files(n) |-> ZipEntry(files(n)[k], c)]
           seqs == [n \in DOMAIN c.pipelines |-> piece(n)]
           N == Len(c.pipelines)
<1>1. N \in Nat /\ DOMAIN c.pipelines = 1..N
  BY DEF IsConfiguration, IsSequence
<1>2. ASSUME NEW n \in 1..N
      PROVE  /\ piece(n) \in Seq(S)
             /\ ToSet(piece(n)) = {ZipEntry(f, c) : f \in ToSet(files(n))}
  <2>1. IsPipeline(c.pipelines[n])
    BY <1>1 DEF IsConfiguration, ToSet
  <2>2. files(n) \in Seq(ToSet(c.disk))
    BY <2>1, FilesOfAre
  <2>3. ToSet(piece(n)) = {ZipEntry(f, c) : f \in ToSet(files(n))}
    BY DEF ToSet
  <2> HIDE DEF files
  <2>4. \A k \in DOMAIN files(n) : files(n)[k] \in ToSet(c.disk)
    BY <2>2
  <2>5. DOMAIN files(n) = 1..Len(files(n)) /\ Len(files(n)) \in Nat
    BY <2>2
  <2>6. \A k \in 1..Len(files(n)) : piece(n)[k] \in S
    BY <2>4, <2>5
  <2>7. piece(n) = [k \in 1..Len(files(n)) |-> piece(n)[k]]
    BY <2>5
  <2> HIDE DEF piece, S
  <2> QED
    BY <2>3, <2>5, <2>6, <2>7, SequenceOf
<1>3. ZipWithPreprocessor(c) = FlattenSeq(seqs)
  BY DEF ZipWithPreprocessor
<1>4. DOMAIN seqs = 1..N /\ seqs = [n \in 1..N |-> seqs[n]]
  BY <1>1
<1>5. \A n \in 1..N : seqs[n] = piece(n)
  BY <1>1
<1> HIDE DEF seqs, S, piece, N, files
<1>6. seqs \in Seq(Seq(S))
  BY <1>1, <1>2, <1>4, <1>5, SequenceOf
<1>7. FlattenSeq(seqs) \in Seq(S) /\ ToSet(FlattenSeq(seqs)) = UNION {ToSet(seqs[n]) : n \in 1..N}
  BY <1>4, <1>6, FlattenElements
<1>8. UNION {ToSet(seqs[n]) : n \in 1..N}
        = UNION {{ZipEntry(f, c) : f \in ToSet(files(n))} : n \in 1..N}
  BY <1>2, <1>5
<1>9. IsSequence(FlattenSeq(seqs))
  BY <1>7, Sequence
<1> QED
  BY <1>1, <1>3, <1>7, <1>8, <1>9 DEF files

\* Each file of the archive is the entry of a file a pipeline names.
LEMMA ArchiveFile ==
  ASSUME NEW c, IsConfiguration(c), NEW z \in ToSet(ZipWithPreprocessor(c))
  PROVE  /\ IsFile(z)
         /\ \E n \in DOMAIN c.pipelines : \E f \in ToSet(FilesOf(c.pipelines[n], c)) :
              /\ z = ZipEntry(f, c) /\ IsFile(f) /\ IsPipeline(c.pipelines[n])
              /\ f.dir = ConfigDir(c.pipelines[n], c.base)
<1>1. PICK n \in DOMAIN c.pipelines : \E f \in ToSet(FilesOf(c.pipelines[n], c)) :
        z = ZipEntry(f, c)
  BY ArchiveIs
<1> PICK f \in ToSet(FilesOf(c.pipelines[n], c)) : z = ZipEntry(f, c)
  BY <1>1
<1>2. IsPipeline(c.pipelines[n])
  BY DEF IsConfiguration, ToSet
<1>3. f \in ToSet(c.disk) /\ f.dir = ConfigDir(c.pipelines[n], c.base)
  BY <1>2, FilesOfAre
<1>4. IsFile(f)
  BY <1>3 DEF IsConfiguration
<1> QED
  BY <1>1, <1>2, <1>3, <1>4, ZipEntryFile

\* The base is taken off the paths it was put before, and off no others.
LEMMA TrimmedDir ==
  ASSUME NEW c, IsConfiguration(c), KeepsPaths(c), NEW n \in DOMAIN c.pipelines
  PROVE  TrimBase(ConfigDir(c.pipelines[n], c.base), c.base) = c.pipelines[n].dir
<1> DEFINE p == c.pipelines[n]
<1>1. CASE p.absolute
  BY <1>1 DEF KeepsPaths, ConfigDir, TrimBase
<1>2. CASE ~p.absolute
  <2> DEFINE S == ToSet(c.base) \cup ToSet(p.dir)
  <2>1. IsPipeline(p)
    BY DEF IsConfiguration, ToSet
  <2>2. c.base \in Seq(S) /\ p.dir \in Seq(S)
    <3>1. c.base \in Seq(ToSet(c.base)) /\ p.dir \in Seq(ToSet(p.dir))
      BY <2>1 DEF IsConfiguration, IsPipeline, IsSequence
    <3>2. ToSet(c.base) \subseteq S /\ ToSet(p.dir) \subseteq S
      OBVIOUS
    <3> HIDE DEF S
    <3> QED
      BY <3>1, <3>2, SeqMonotonic
  <2>3. ConfigDir(p, c.base) = c.base \o p.dir
    BY <1>2 DEF ConfigDir
  <2> HIDE DEF S, p
  <2>4. \A s, t \in Seq(S) : TrimBase(s \o t, s) = t
    <3> TAKE s, t \in Seq(S)
    <3> DEFINE st == s \o t
    <3>1. st \in Seq(S) /\ Len(st) = Len(s) + Len(t)
      OBVIOUS
    <3>2. SubSeq(s, 1, Len(s)) = s /\ SubSeq(st, 1, Len(s)) = s
      OBVIOUS
    <3>3. SubSeq(st, Len(s) + 1, Len(st)) = t
      OBVIOUS
    <3>4. IsPrefix(s, st)
      BY <3>1, <3>2 DEF IsPrefix
    <3> QED
      BY <3>3, <3>4 DEF TrimBase
  <2> QED
    BY <2>2, <2>3, <2>4 DEF p
<1> QED
  BY <1>1, <1>2

-----------------------------------------------------------------------------
(* The pipelines of a session *)

\* The inputs, or the outputs, that are replaced.
LEMMA ExternalAre ==
  ASSUME NEW plugins, IsSequence(plugins), NEW section
  PROVE  /\ IsSequence(External(plugins, section))
         /\ ToSet(External(plugins, section))
              = {p \in ToSet(plugins) : IsExternal(p, section)}
<1> DEFINE places == {n \in DOMAIN plugins : IsExternal(plugins[n], section)}
<1>1. plugins \in Seq(ToSet(plugins))
  BY DEF IsSequence
<1>2. External(plugins, section) = Chosen(plugins, places)
  BY DEF External
<1>3. {plugins[n] : n \in DOMAIN plugins \cap places}
        = {p \in ToSet(plugins) : IsExternal(p, section)}
  BY DEF ToSet
<1> HIDE DEF places
<1>4. /\ Chosen(plugins, places) \in Seq(ToSet(plugins))
      /\ ToSet(Chosen(plugins, places)) = {plugins[n] : n \in DOMAIN plugins \cap places}
  BY <1>1, ChosenElements
<1> QED
  BY <1>2, <1>3, <1>4, Sequence

\* The pipeline for an output.
OutOf(saved) == [id |-> <<"lfv_output", saved>>, kind |-> "out", config |-> <<saved>>]

\* The pipelines for the outputs of a file.
LEMMA OutputPipelinesAre ==
  ASSUME NEW f, IsFile(f)
  PROVE  LET outs == CreateOutputPipelines(Outputs(f))
         IN  /\ IsSequence(outs) /\ DOMAIN outs = DOMAIN Outputs(f)
             /\ \A n \in DOMAIN outs : outs[n] = OutOf(Outputs(f)[n])
             /\ ToSet(Outputs(f)) = {PluginIDSave(p.id) :
                                       p \in {p \in ToSet(f.plugins) : IsExternal(p, "output")}}
<1> DEFINE external == External(f.plugins, "output")
           outs == CreateOutputPipelines(Outputs(f))
<1>1. IsSequence(f.plugins)
  BY DEF IsFile
<1>2. /\ IsSequence(external)
      /\ ToSet(external) = {p \in ToSet(f.plugins) : IsExternal(p, "output")}
  BY <1>1, ExternalAre
<1>3. Outputs(f) = [n \in DOMAIN external |-> PluginIDSave(external[n].id)]
  BY DEF Outputs
<1> HIDE DEF external
<1>4. DOMAIN external = 1..Len(external) /\ Len(external) \in Nat
  BY <1>2 DEF IsSequence
<1>5. DOMAIN Outputs(f) = DOMAIN external
  BY <1>3
<1>6. ToSet(Outputs(f)) = {PluginIDSave(p.id) : p \in ToSet(external)}
  BY <1>3, <1>5 DEF ToSet
<1>7. outs = [n \in DOMAIN external |-> OutOf(Outputs(f)[n])]
  BY <1>5 DEF CreateOutputPipelines, OutOf
<1>8. outs = [n \in 1..Len(external) |-> OutOf(Outputs(f)[n])]
  BY <1>4, <1>7
<1> HIDE DEF outs
<1>9. outs \in Seq({OutOf(Outputs(f)[n]) : n \in 1..Len(external)})
  BY <1>4, <1>8
<1>10. IsSequence(outs)
  BY <1>9, Sequence
<1> QED
  BY <1>2, <1>4, <1>5, <1>6, <1>8, <1>10 DEF outs

\* All of them, for the files of an archive.
Pieces(z) == [m \in DOMAIN z |-> CreateOutputPipelines(Outputs(z[m]))]
OutsOf(z) == FlattenSeq(Pieces(z))
OutSet(z) == UNION {ToSet(Pieces(z)[m]) : m \in DOMAIN z}

LEMMA OutputsOfFiles ==
  ASSUME NEW z, IsSequence(z), \A f \in ToSet(z) : IsFile(f)
  PROVE  /\ Pieces(z) \in Seq(Seq(OutSet(z))) /\ DOMAIN Pieces(z) = DOMAIN z
         /\ OutsOf(z) \in Seq(OutSet(z)) /\ ToSet(OutsOf(z)) = OutSet(z)
<1> DEFINE pieces == Pieces(z)
           outs == OutsOf(z)
           S == UNION {ToSet(pieces[m]) : m \in DOMAIN z}
<1>1. DOMAIN z = 1..Len(z) /\ Len(z) \in Nat
  BY DEF IsSequence
<1>2. \A m \in DOMAIN z : pieces[m] = CreateOutputPipelines(Outputs(z[m]))
  BY DEF Pieces
<1>3. /\ DOMAIN pieces = DOMAIN z /\ pieces = [m \in 1..Len(z) |-> pieces[m]]
      /\ outs = FlattenSeq(pieces)
  BY <1>1 DEF OutsOf, Pieces
<1> HIDE DEF pieces
<1>4. ASSUME NEW m \in 1..Len(z) PROVE pieces[m] \in Seq(S)
  <2>1. IsFile(z[m])
    BY <1>1 DEF ToSet
  <2>2. pieces[m] \in Seq(ToSet(pieces[m]))
    BY <1>1, <1>2, <2>1, OutputPipelinesAre DEF IsSequence
  <2>3. ToSet(pieces[m]) \subseteq S
    BY <1>1
  <2> HIDE DEF S
  <2> QED
    BY <2>2, <2>3, SeqMonotonic
<1> HIDE DEF S
<1>5. pieces \in Seq(Seq(S))
  BY <1>1, <1>3, <1>4, SequenceOf
<1>6. outs \in Seq(S) /\ ToSet(outs) = S
  <2>1. /\ FlattenSeq(pieces) \in Seq(S)
        /\ ToSet(FlattenSeq(pieces)) = UNION {ToSet(pieces[m]) : m \in DOMAIN pieces}
    BY <1>5, FlattenElements
  <2> QED
    BY <1>3, <2>1 DEF S
<1> QED
  BY <1>3, <1>5, <1>6 DEF pieces, S, OutSet

\* The pipelines of the configuration come first, then those for the outputs.
Arranged(all, c, outs, sid) ==
  LET N == Len(c.pipelines)
  IN  /\ N \in Nat /\ DOMAIN c.pipelines = 1..N
      /\ Len(outs) \in Nat /\ DOMAIN outs = 1..Len(outs)
      /\ DOMAIN all = 1..N + Len(outs)
      /\ \A n \in 1..N : all[n] = SutPipeline(c.pipelines[n], sid)
      /\ \A n \in 1..Len(outs) : all[N + n] = outs[n]

LEMMA SessionPipelinesAre ==
  ASSUME NEW c, IsConfiguration(c), NEW z, IsSequence(z), \A f \in ToSet(z) : IsFile(f),
         NEW sid
  PROVE  /\ IsSequence(SessionPipelines(c, z, sid))
         /\ Arranged(SessionPipelines(c, z, sid), c, OutsOf(z), sid)
<1> DEFINE N == Len(c.pipelines)
           suts == [n \in DOMAIN c.pipelines |-> SutPipeline(c.pipelines[n], sid)]
           outs == OutsOf(z)
<1>1. N \in Nat /\ DOMAIN c.pipelines = 1..N
  BY DEF IsConfiguration, IsSequence
<1>2. \E S : outs \in Seq(S)
  BY OutputsOfFiles
<1>3. \A n \in 1..N : suts[n] = SutPipeline(c.pipelines[n], sid)
  BY <1>1
<1>4. suts \in Seq({SutPipeline(c.pipelines[n], sid) : n \in 1..N}) /\ Len(suts) = N
  BY <1>1
<1>5. SessionPipelines(c, z, sid) = suts \o outs
  BY DEF SessionPipelines, OutsOf, Pieces
<1> HIDE DEF suts, outs, N
<1>6. PICK S : suts \in Seq(S) /\ outs \in Seq(S)
  <2>1. PICK T : outs \in Seq(T)
    BY <1>2
  <2> DEFINE U == {SutPipeline(c.pipelines[n], sid) : n \in 1..N}
  <2>2. suts \in Seq(U \cup T) /\ outs \in Seq(U \cup T)
    BY <1>4, <2>1, SeqMonotonic, U \subseteq U \cup T, T \subseteq U \cup T
  <2> QED
    BY <2>2
<1>7. \A s, t \in Seq(S) :
        /\ Len(t) \in Nat /\ DOMAIN t = 1..Len(t)
        /\ DOMAIN (s \o t) = 1..Len(s) + Len(t)
        /\ \A n \in 1..Len(s) : (s \o t)[n] = s[n]
        /\ \A n \in 1..Len(t) : (s \o t)[Len(s) + n] = t[n]
  OBVIOUS
<1> DEFINE all == suts \o outs
<1>8. /\ Len(outs) \in Nat /\ DOMAIN outs = 1..Len(outs)
      /\ DOMAIN all = 1..N + Len(outs)
      /\ \A n \in 1..N : all[n] = suts[n]
      /\ \A n \in 1..Len(outs) : all[N + n] = outs[n]
  BY <1>4, <1>6, <1>7
<1>9. all = SessionPipelines(c, z, sid)
  BY <1>5
<1>10. IsSequence(all)
  <2>1. all \in Seq(S)
    BY <1>6
  <2> QED
    BY <2>1, Sequence
<1> HIDE DEF all
<1>11. \A n \in 1..N : all[n] = SutPipeline(c.pipelines[n], sid)
  BY <1>3, <1>8
<1> QED
  BY <1>1, <1>8, <1>9, <1>10, <1>11 DEF N, outs, Arranged

-----------------------------------------------------------------------------
(* The invariant *)

\* What the session is in the daemon, for the files of an archive.
SessionOf(c, z) ==
  [files     |-> [n \in DOMAIN z |-> SutFile(z[n], SessionID)],
   codecs    |-> InputCodecs(z),
   pipelines |-> SessionPipelines(c, z, SessionID)]

\* From BuildArchive on, the archive is that of the configuration; from SetupTest
\* on, the session is that of the archive.
DataInv ==
  /\ conf \in {Given(c) : c \in Runs}
  /\ main \in {"archive", "tests", "setup", "execute", "results", "returned"}
  /\ zip # << >> => zip = ZipWithPreprocessor(conf) /\ ~ZipFails(conf)
  /\ main \notin {"archive", "returned"} => zip = ZipWithPreprocessor(conf) /\ ~ZipFails(conf)
  /\ session # NoSession => session = SessionOf(conf, zip)
  /\ main \in {"execute", "results"} => session = SessionOf(conf, zip)
  /\ main \in {"archive", "tests", "setup"} => session = NoSession

\* The archive and the session are those of the configuration of the run
\* (ZipWithPreprocessor of the client, setupTest of the daemon).
THEOREM DataOfTheRun == Spec => []DataInv
<1>1. Init => DataInv
  BY DEF Init, DataInv
<1>2. DataInv /\ [Next]_vars => DataInv'
  <2> SUFFICES ASSUME DataInv, [Next]_vars PROVE DataInv'
    OBVIOUS
  <2> USE DEF DataInv, Goto, Return
  <2>1. CASE BuildArchive
    BY <2>1 DEF BuildArchive
  <2>2. CASE DiscoverTests
    <3>1. /\ main = "tests" /\ main' \in {"setup", "returned"}
          /\ UNCHANGED <<conf, zip, session>>
      BY <2>2 DEF DiscoverTests
    <3> QED
      BY <3>1
  <2>3. CASE SetupTest
    BY <2>3 DEF SetupTest, SessionOf
  <2>4. CASE ExecuteTest
    <3>1. main = "execute" /\ main' = "results" /\ UNCHANGED <<conf, zip, session>>
      BY <2>4 DEF ExecuteTest
    <3> QED
      BY <3>1
  <2>5. CASE \E n \in DOMAIN queue : Arrive(n)
    BY <2>5 DEF Arrive
  <2>6. CASE CompareResults
    <3>1. main = "results" /\ main' = "execute" /\ UNCHANGED <<conf, zip, session>>
      BY <2>6 DEF CompareResults
    <3> QED
      BY <3>1
  <2>7. CASE End
    <3>1. main' = "returned" /\ UNCHANGED <<conf, zip, session>>
      BY <2>7 DEF End
    <3> QED
      BY <3>1
  <2>8. CASE UNCHANGED vars
    BY <2>8 DEF vars
  <2> QED
    BY <2>1, <2>2, <2>3, <2>4, <2>5, <2>6, <2>7, <2>8 DEF Next
<1> QED
  BY <1>1, <1>2, PTL DEF Spec

\* A configuration of the run, its archive and its session.
LEMMA DataHere ==
  ASSUME DataInv, main \in {"execute", "results"}
  PROVE  /\ IsConfiguration(conf) /\ \E c \in Runs : conf = Given(c)
         /\ zip = ZipWithPreprocessor(conf) /\ ~ZipFails(conf)
         /\ IsSequence(zip) /\ \A f \in ToSet(zip) : IsFile(f)
         /\ session.files = [n \in DOMAIN zip |-> SutFile(zip[n], SessionID)]
         /\ session.codecs = InputCodecs(zip)
         /\ session.pipelines = SessionPipelines(conf, zip, SessionID)
<1>1. IsConfiguration(conf) /\ \E c \in Runs : conf = Given(c)
  BY RunsAssumption DEF DataInv, IsRun
<1>2. zip = ZipWithPreprocessor(conf) /\ ~ZipFails(conf)
  BY DEF DataInv
<1>3. IsSequence(zip) /\ \A f \in ToSet(zip) : IsFile(f)
  BY <1>1, <1>2, ArchiveIs, ArchiveFile
<1>4. session = SessionOf(conf, zip)
  BY DEF DataInv
<1> QED
  BY <1>1, <1>2, <1>3, <1>4 DEF SessionOf

-----------------------------------------------------------------------------
(* The files of the pipelines *)

NamesIn(files, dir) == {f.name : f \in {f \in ToSet(files) : f.dir = dir}}
NamesOf(p, c) == {f.name : f \in ToSet(FilesOf(p, c))}

\* What is found in the session's directory of a pipeline, by its names.
LEMMA FoundInSession ==
  ASSUME NEW c, IsConfiguration(c), KeepsPaths(c), NEW n \in DOMAIN c.pipelines,
         NEW z, z = ZipWithPreprocessor(c),
         NEW files, files = [k \in DOMAIN z |-> SutFile(z[k], SessionID)]
  PROVE  NamesIn(files, c.pipelines[n].dir) = NamesOf(c.pipelines[n], c)
<1> DEFINE dir == c.pipelines[n].dir
           found == {f \in ToSet(files) : f.dir = dir}
           packed == ToSet(FilesOf(c.pipelines[n], c))
<1>1. ToSet(files) = {SutFile(g, SessionID) : g \in ToSet(z)}
  BY DEF ToSet
<1>2. \A m \in DOMAIN c.pipelines : IsPipeline(c.pipelines[m])
  BY DEF IsConfiguration, ToSet
<1>3. \A m \in DOMAIN c.pipelines :
        ToSet(FilesOf(c.pipelines[m], c))
          = {f \in ToSet(c.disk) : f.dir = ConfigDir(c.pipelines[m], c.base)}
  BY <1>2, FilesOfAre
<1>4. ASSUME NEW f \in found
      PROVE  \E g \in packed : f.name = g.name
  <2>1. PICK h \in ToSet(z) : f = SutFile(h, SessionID)
    BY <1>1
  <2>2. IsFile(h)
    BY ArchiveFile
  <2>3. PICK m \in DOMAIN c.pipelines : \E g \in ToSet(FilesOf(c.pipelines[m], c)) :
          /\ h = ZipEntry(g, c) /\ IsFile(g) /\ IsPipeline(c.pipelines[m])
          /\ g.dir = ConfigDir(c.pipelines[m], c.base)
    BY ArchiveFile
  <2>4. PICK g \in ToSet(FilesOf(c.pipelines[m], c)) :
          /\ h = ZipEntry(g, c) /\ IsFile(g) /\ g.dir = ConfigDir(c.pipelines[m], c.base)
    BY <2>3
  <2>5. f.dir = TrimBase(g.dir, c.base) /\ f.name = g.name
    BY <2>1, <2>2, <2>4, SutFileIs, ZipEntryFile
  <2>6. c.pipelines[m].dir = dir
    BY <2>4, <2>5, TrimmedDir
  <2>7. c.pipelines[m].absolute = c.pipelines[n].absolute
    BY <2>6 DEF KeepsPaths
  <2>8. ConfigDir(c.pipelines[m], c.base) = ConfigDir(c.pipelines[n], c.base)
    BY <2>6, <2>7 DEF ConfigDir
  <2>9. g \in packed
    BY <1>3, <2>8
  <2> QED
    BY <2>5, <2>9
<1>5. ASSUME NEW g \in packed
      PROVE  \E f \in found : f.name = g.name
  <2> DEFINE h == ZipEntry(g, c)
             f == SutFile(h, SessionID)
  <2>1. h \in ToSet(z)
    BY ArchiveIs
  <2>2. g \in ToSet(c.disk) /\ g.dir = ConfigDir(c.pipelines[n], c.base)
    BY <1>3
  <2>3. IsFile(g) /\ IsFile(h)
    BY <2>1, <2>2, ArchiveFile DEF IsConfiguration
  <2>4. h.dir = dir /\ h.name = g.name
    BY <2>2, <2>3, ZipEntryFile, TrimmedDir
  <2>5. f.dir = dir /\ f.name = g.name
    BY <2>3, <2>4, SutFileIs
  <2>6. f \in ToSet(files)
    BY <1>1, <2>1
  <2> HIDE DEF f
  <2> QED
    BY <2>5, <2>6
<1> HIDE DEF found, packed
<1>6. {f.name : f \in found} = {g.name : g \in packed}
  BY <1>4, <1>5
<1> QED
  BY <1>6 DEF found, packed, NamesIn, NamesOf

\* Each pipeline finds what the client has packed for it, in every run whose
\* paths are such that it can (extractZip and CreateSession join the session's
\* directory and the path of pipelines.yml).  The run config_paths shows what
\* becomes of an absolute path below the base.
THEOREM FilesAreFound ==
  (\A c \in Runs : KeepsPaths(Given(c))) => (Spec => []FilesFound)
<1>1. SUFFICES ASSUME \A c \in Runs : KeepsPaths(Given(c)) PROVE Spec => []FilesFound
  OBVIOUS
<1>2. DataInv => FilesFound
  <2> SUFFICES ASSUME DataInv, main = "execute", NEW n \in DOMAIN conf.pipelines
               PROVE  NamesIn(session.files, session.pipelines[n].config)
                        = NamesOf(conf.pipelines[n], conf)
    BY DEF FilesFound, NamesIn, NamesOf
  <2>1. /\ IsConfiguration(conf) /\ zip = ZipWithPreprocessor(conf)
        /\ IsSequence(zip) /\ \A f \in ToSet(zip) : IsFile(f)
        /\ session.files = [m \in DOMAIN zip |-> SutFile(zip[m], SessionID)]
        /\ session.pipelines = SessionPipelines(conf, zip, SessionID)
        /\ KeepsPaths(conf)
    BY <1>1, DataHere
  <2>2. session.pipelines[n] = SutPipeline(conf.pipelines[n], SessionID)
    <3>1. Arranged(session.pipelines, conf, OutsOf(zip), SessionID)
      BY <2>1, SessionPipelinesAre
    <3> QED
      BY <3>1 DEF Arranged
  <2>3. session.pipelines[n].config = conf.pipelines[n].dir
    BY <2>1, <2>2 DEF SutPipeline, ReadPipeline, KeepsPaths
  <2>4. NamesIn(session.files, conf.pipelines[n].dir) = NamesOf(conf.pipelines[n], conf)
    BY <2>1, FoundInSession
  <2> QED
    BY <2>3, <2>4
<1> QED
  BY <1>1, <1>2, DataOfTheRun, PTL

-----------------------------------------------------------------------------
(* The marks of the outputs *)

\* The pipelines for the outputs have ids of their own.
LEMMA OutIdsDiffer ==
  ASSUME NEW c, IsConfiguration(c), KeepsNames(c), NEW z, z = ZipWithPreprocessor(c)
  PROVE  IdsDiffer(OutsOf(z))
<1> DEFINE pieces == Pieces(z)
           S == OutSet(z)
<1>1. IsSequence(z) /\ \A f \in ToSet(z) : IsFile(f)
  BY ArchiveIs, ArchiveFile
<1>2. pieces \in Seq(Seq(S)) /\ DOMAIN pieces = DOMAIN z
  BY <1>1, OutputsOfFiles
<1>3. \A m \in DOMAIN z : pieces[m] = CreateOutputPipelines(Outputs(z[m]))
  BY DEF Pieces
<1>4. OutsOf(z) = FlattenSeq(pieces)
  BY DEF OutsOf
<1> HIDE DEF pieces, S
<1>5. ASSUME NEW m \in DOMAIN z
      PROVE  /\ DOMAIN pieces[m] = DOMAIN Outputs(z[m])
             /\ \A j \in DOMAIN pieces[m] : pieces[m][j] = OutOf(Outputs(z[m])[j])
  <2>1. IsFile(z[m])
    BY <1>1 DEF ToSet
  <2> QED
    BY <1>3, <2>1, OutputPipelinesAre
<1>6. \A x, y : OutOf(x).id = OutOf(y).id => x = y
  <2>1. \A x, y : <<"lfv_output", x>> = <<"lfv_output", y>> => x = y
    OBVIOUS
  <2> QED
    BY <2>1 DEF OutOf
<1>7. ASSUME NEW m \in DOMAIN z, NEW n \in DOMAIN z,
             NEW j \in DOMAIN pieces[m], NEW k \in DOMAIN pieces[n],
             pieces[m][j].id = pieces[n][k].id
      PROVE  m = n /\ j = k
  <2>1. Outputs(z[m])[j] = Outputs(z[n])[k]
    BY <1>5, <1>6, <1>7
  <2>2. j \in DOMAIN Outputs(z[m]) /\ k \in DOMAIN Outputs(z[n])
    BY <1>5
  <2> QED
    BY <2>1, <2>2 DEF KeepsNames
<1>8. \A m \in DOMAIN pieces : IdsDiffer(pieces[m])
  BY <1>2, <1>7 DEF IdsDiffer
<1>9. \A m, n \in DOMAIN pieces : m # n =>
        \A x \in ToSet(pieces[m]), y \in ToSet(pieces[n]) : x.id # y.id
  BY <1>2, <1>7 DEF ToSet
<1> QED
  BY <1>2, <1>4, <1>8, <1>9, FlattenIdsDiffer

\* So have all pipelines of the session.
LEMMA PipelineIdsDiffer ==
  ASSUME NEW c, IsConfiguration(c), KeepsNames(c), NEW z, z = ZipWithPreprocessor(c),
         NEW all, all = SessionPipelines(c, z, SessionID)
  PROVE  IdsDiffer(all)
<1> DEFINE N == Len(c.pipelines)
           outs == OutsOf(z)
           name(n) == ReadPipeline(c.pipelines[n]).id
<1>1. IsSequence(z) /\ \A f \in ToSet(z) : IsFile(f)
  BY ArchiveIs, ArchiveFile
<1>2. Arranged(all, c, outs, SessionID)
  BY <1>1, SessionPipelinesAre
<1>3. \A n \in 1..N : all[n].id = <<"lfv", SessionID, name(n)>>
  <2> SUFFICES ASSUME NEW n \in 1..N PROVE all[n].id = <<"lfv", SessionID, name(n)>>
    OBVIOUS
  <2>1. all[n] = SutPipeline(c.pipelines[n], SessionID)
    BY <1>2 DEF Arranged
  <2> QED
    BY <2>1 DEF SutPipeline
<1>4. IdsDiffer(outs)
  BY OutIdsDiffer
<1>5. \A n \in 1..Len(outs) : \E saved : outs[n].id = <<"lfv_output", saved>>
  <2> SUFFICES ASSUME NEW n \in 1..Len(outs)
               PROVE  \E saved : outs[n].id = <<"lfv_output", saved>>
    OBVIOUS
  <2>1. outs[n] \in ToSet(outs)
    BY <1>2 DEF ToSet, Arranged
  <2>2. PICK m \in DOMAIN z : outs[n] \in ToSet(CreateOutputPipelines(Outputs(z[m])))
    <3>1. outs[n] \in OutSet(z)
      BY <1>1, <2>1, OutputsOfFiles
    <3> QED
      BY <3>1 DEF OutSet, Pieces
  <2>3. IsFile(z[m])
    BY <1>1 DEF ToSet
  <2>4. \E k \in DOMAIN Outputs(z[m]) : outs[n] = OutOf(Outputs(z[m])[k])
    BY <2>2, <2>3, OutputPipelinesAre DEF ToSet
  <2> QED
    BY <2>4 DEF OutOf
<1>6. \A x, y, saved : <<"lfv", x, y>> # <<"lfv_output", saved>>
  OBVIOUS
<1>7. \A x, y : <<"lfv", SessionID, x>> = <<"lfv", SessionID, y>> => x = y
  OBVIOUS
<1> SUFFICES ASSUME NEW j \in DOMAIN all, NEW k \in DOMAIN all, all[j].id = all[k].id
             PROVE  j = k
  BY DEF IdsDiffer
<1> HIDE DEF N, outs
<1>8. N \in Nat /\ Len(outs) \in Nat /\ DOMAIN all = 1..N + Len(outs)
      /\ DOMAIN c.pipelines = 1..N /\ DOMAIN outs = 1..Len(outs)
  BY <1>2 DEF Arranged, N
<1>9. \A n \in 1..Len(outs) : all[N + n] = outs[n]
  BY <1>2 DEF Arranged, N
<1>10. ASSUME NEW n \in DOMAIN all, n \notin 1..N
       PROVE  n - N \in 1..Len(outs) /\ all[n] = outs[n - N]
  <2>1. n - N \in 1..Len(outs) /\ N + (n - N) = n
    BY <1>8, <1>10
  <2> QED
    BY <1>9, <2>1
<1>11. CASE j \in 1..N /\ k \in 1..N
  <2>1. name(j) = name(k)
    BY <1>3, <1>7, <1>11
  <2> QED
    BY <1>8, <1>11, <2>1 DEF KeepsNames
<1>12. CASE j \in 1..N /\ k \notin 1..N
  <2>1. \E saved : all[k].id = <<"lfv_output", saved>>
    BY <1>5, <1>10, <1>12
  <2> QED
    BY <1>3, <1>6, <1>12, <2>1
<1>13. CASE j \notin 1..N /\ k \in 1..N
  <2>1. \E saved : all[j].id = <<"lfv_output", saved>>
    BY <1>5, <1>10, <1>13
  <2> QED
    BY <1>3, <1>6, <1>13, <2>1
<1>14. CASE j \notin 1..N /\ k \notin 1..N
  <2>1. outs[j - N].id = outs[k - N].id /\ j - N \in DOMAIN outs /\ k - N \in DOMAIN outs
    BY <1>8, <1>10, <1>14
  <2>2. j - N = k - N
    BY <1>4, <2>1 DEF IdsDiffer
  <2> QED
    BY <1>8, <2>2
<1> QED
  BY <1>11, <1>12, <1>13, <1>14

\* The plugins of a pipeline: those of the files in its directory.
StartsFile(pipelines, n, k) ==
  pipelines[n].kind = "sut" /\ session.files[k].dir = pipelines[n].config

LEMMA StartedAre ==
  ASSUME NEW pipelines, NEW n, IsSequence(session.files),
         \A f \in ToSet(session.files) : IsSequence(f.plugins)
  PROVE  /\ IsSequence(Started(session, pipelines, n))
         /\ \A p : p \in ToSet(Started(session, pipelines, n)) <=>
              \E k \in DOMAIN session.files : /\ StartsFile(pipelines, n, k)
                                              /\ p \in ToSet(session.files[k].plugins)
<1> DEFINE N == Len(session.files)
           piece(k) == IF StartsFile(pipelines, n, k) THEN session.files[k].plugins
                       ELSE << >>
           seqs == [k \in DOMAIN session.files |-> piece(k)]
           S == UNION {ToSet(session.files[k].plugins) : k \in DOMAIN session.files}
<1>1. N \in Nat /\ DOMAIN session.files = 1..N
  BY DEF IsSequence
<1>2. Started(session, pipelines, n) = FlattenSeq(seqs)
  BY DEF Started, StartsFile
<1>3. ASSUME NEW k \in 1..N
      PROVE  /\ piece(k) \in Seq(S)
             /\ ToSet(piece(k)) = IF StartsFile(pipelines, n, k)
                                    THEN ToSet(session.files[k].plugins) ELSE {}
  <2>1. session.files[k].plugins \in Seq(ToSet(session.files[k].plugins))
    BY <1>1 DEF IsSequence, ToSet
  <2>2. ToSet(session.files[k].plugins) \subseteq S
    BY <1>1
  <2> HIDE DEF S
  <2>3. session.files[k].plugins \in Seq(S)
    BY <2>1, <2>2, SeqMonotonic
  <2>4. << >> \in Seq(S) /\ ToSet(<< >>) = {}
    BY DEF ToSet
  <2> QED
    BY <2>3, <2>4
<1>4. DOMAIN seqs = 1..N /\ seqs = [k \in 1..N |-> seqs[k]] /\ \A k \in 1..N : seqs[k] = piece(k)
  BY <1>1
<1> HIDE DEF seqs, piece, S, N
<1>5. seqs \in Seq(Seq(S))
  BY <1>1, <1>3, <1>4, SequenceOf
<1>6. /\ FlattenSeq(seqs) \in Seq(S)
      /\ ToSet(FlattenSeq(seqs)) = UNION {ToSet(seqs[k]) : k \in 1..N}
  BY <1>4, <1>5, FlattenElements
<1>7. \A p : p \in ToSet(FlattenSeq(seqs)) <=>
        \E k \in 1..N : StartsFile(pipelines, n, k) /\ p \in ToSet(session.files[k].plugins)
  BY <1>3, <1>4, <1>6
<1>8. IsSequence(FlattenSeq(seqs))
  BY <1>6, Sequence
<1> QED
  BY <1>1, <1>2, <1>7, <1>8

\* A plugin of a pipeline is one of the archive, replaced.
LEMMA StartedPlugin ==
  ASSUME DataInv, main \in {"execute", "results"}, NEW pipelines, NEW n
  PROVE  /\ IsSequence(Started(session, pipelines, n))
         /\ \A p : p \in ToSet(Started(session, pipelines, n)) <=>
              \E k \in DOMAIN zip :
                /\ pipelines[n].kind = "sut" /\ zip[k].dir = pipelines[n].config
                /\ \E q \in ToSet(zip[k].plugins) :
                     p = ReplaceOutput(ReplaceInput(q, SessionID))
<1>1. /\ IsSequence(zip) /\ \A f \in ToSet(zip) : IsFile(f)
      /\ session.files = [k \in DOMAIN zip |-> SutFile(zip[k], SessionID)]
  BY DataHere
<1>2. DOMAIN zip = 1..Len(zip) /\ Len(zip) \in Nat
  BY <1>1 DEF IsSequence
<1>3. DOMAIN session.files = DOMAIN zip
  BY <1>1
<1>4. ASSUME NEW k \in DOMAIN zip
      PROVE  /\ session.files[k].dir = zip[k].dir
             /\ ToSet(session.files[k].plugins)
                  = {ReplaceOutput(ReplaceInput(q, SessionID)) : q \in ToSet(zip[k].plugins)}
             /\ IsSequence(session.files[k].plugins)
  <2>1. IsFile(zip[k])
    BY <1>1 DEF ToSet
  <2>2. session.files[k] = SutFile(zip[k], SessionID)
    BY <1>1
  <2> QED
    BY <2>1, <2>2, SutFileIs
<1>5. IsSequence(session.files)
  <2>1. session.files \in Seq({SutFile(zip[k], SessionID) : k \in 1..Len(zip)})
    BY <1>1, <1>2
  <2> QED
    BY <2>1, Sequence
<1>6. \A f \in ToSet(session.files) : IsSequence(f.plugins)
  BY <1>3, <1>4 DEF ToSet
<1>7. /\ IsSequence(Started(session, pipelines, n))
      /\ \A p : p \in ToSet(Started(session, pipelines, n)) <=>
           \E k \in DOMAIN session.files : /\ StartsFile(pipelines, n, k)
                                           /\ p \in ToSet(session.files[k].plugins)
  BY <1>5, <1>6, StartedAre
<1>8. \A p : \A k \in DOMAIN zip :
        StartsFile(pipelines, n, k) /\ p \in ToSet(session.files[k].plugins) <=>
          /\ pipelines[n].kind = "sut" /\ zip[k].dir = pipelines[n].config
          /\ \E q \in ToSet(zip[k].plugins) : p = ReplaceOutput(ReplaceInput(q, SessionID))
  BY <1>4 DEF StartsFile
<1> QED
  BY <1>3, <1>7, <1>8

\* What is saved of an output has its pipeline, which hears what is sent to it.
LEMMA OutputHasPipeline ==
  ASSUME DataInv, main \in {"execute", "results"}, NEW id \in IdsIn(zip, "output")
  PROVE  \E n \in Listeners(session, session.pipelines, OutputAddress(PluginIDSave(id))) :
           session.pipelines[n].config[1] = PluginIDSave(id)
<1> DEFINE saved == PluginIDSave(id)
           outs == OutsOf(zip)
           N == Len(conf.pipelines)
           all == session.pipelines
<1>1. /\ IsConfiguration(conf) /\ IsSequence(zip) /\ \A f \in ToSet(zip) : IsFile(f)
      /\ all = SessionPipelines(conf, zip, SessionID)
  BY DataHere
<1>2. Arranged(all, conf, outs, SessionID)
  BY <1>1, SessionPipelinesAre
<1>3. PICK m \in DOMAIN zip : id \in {p.id : p \in ToSet(External(zip[m].plugins, "output"))}
  BY DEF IdsIn
<1>4. IsFile(zip[m]) /\ IsSequence(zip[m].plugins)
  BY <1>1 DEF ToSet, IsFile
<1>5. saved \in ToSet(Outputs(zip[m]))
  <2>1. ToSet(External(zip[m].plugins, "output"))
          = {p \in ToSet(zip[m].plugins) : IsExternal(p, "output")}
    BY <1>4, ExternalAre
  <2>2. ToSet(Outputs(zip[m]))
          = {PluginIDSave(p.id) : p \in {p \in ToSet(zip[m].plugins) : IsExternal(p, "output")}}
    BY <1>4, OutputPipelinesAre
  <2> QED
    BY <1>3, <2>1, <2>2
<1>6. OutOf(saved) \in ToSet(CreateOutputPipelines(Outputs(zip[m])))
  BY <1>4, <1>5, OutputPipelinesAre DEF ToSet
<1>7. OutOf(saved) \in ToSet(outs)
  <2>1. ToSet(outs) = OutSet(zip)
    BY <1>1, OutputsOfFiles
  <2>2. OutOf(saved) \in OutSet(zip)
    BY <1>6 DEF OutSet, Pieces
  <2> QED
    BY <2>1, <2>2
<1>8. PICK k \in DOMAIN outs : outs[k] = OutOf(saved)
  BY <1>7 DEF ToSet
<1>9. N + k \in DOMAIN all /\ all[N + k] = OutOf(saved)
  BY <1>2, <1>8 DEF Arranged
<1>10. OutOf(saved).kind = "out" /\ OutOf(saved).config[1] = saved
  BY DEF OutOf
<1>11. Hears(session, all, N + k, OutputAddress(saved))
  BY <1>9, <1>10 DEF Hears
<1> QED
  BY <1>9, <1>10, <1>11 DEF Listeners

\* No other pipeline hears it.
LEMMA OnlyItsPipeline ==
  ASSUME DataInv, main \in {"execute", "results"}, KeepsNames(conf),
         NEW id \in IdsIn(zip, "output"),
         NEW n \in Listeners(session, session.pipelines, OutputAddress(PluginIDSave(id)))
  PROVE  session.pipelines[n].config[1] = PluginIDSave(id)
<1> DEFINE saved == PluginIDSave(id)
           all == session.pipelines
<1>1. /\ zip = ZipWithPreprocessor(conf) /\ \A f \in ToSet(zip) : IsFile(f)
  BY DataHere
<1>2. Hears(session, all, n, OutputAddress(saved))
  BY DEF Listeners
<1>3. ASSUME NEW p \in ToSet(Started(session, all, n)), p.section = "input",
             p.address = OutputAddress(saved)
      PROVE  FALSE
  <2>1. PICK k \in DOMAIN zip : \E q \in ToSet(zip[k].plugins) :
          p = ReplaceOutput(ReplaceInput(q, SessionID))
    BY StartedPlugin
  <2>2. PICK q \in ToSet(zip[k].plugins) : p = ReplaceOutput(ReplaceInput(q, SessionID))
    BY <2>1
  <2>3. zip[k] \in ToSet(zip) /\ IsPlugin(q)
    BY <1>1 DEF ToSet, IsFile
  <2>4. q.section = "input"
        /\ p.address = IF q.name = "pipeline" THEN q.address ELSE InputAddress(SessionID, q.id)
    BY <1>3, <2>2, <2>3, ReplacedPlugin
  <2>5. CASE q.name = "pipeline"
    BY <1>1, <1>3, <2>3, <2>4, <2>5 DEF KeepsNames
  <2>6. CASE q.name # "pipeline"
    <3>1. InputAddress(SessionID, q.id) # OutputAddress(saved)
      BY DEF InputAddress, OutputAddress
    <3> QED
      BY <1>3, <2>4, <2>6, <3>1
  <2> QED
    BY <2>5, <2>6
<1>4. OutputAddress(saved) = OutputAddress(all[n].config[1])
  BY <1>2, <1>3 DEF Hears
<1>5. \A x, y : OutputAddress(x) = OutputAddress(y) => x = y
  <2>1. \A x, y : <<"lfv_output", x>> = <<"lfv_output", y>> => x = y
    OBVIOUS
  <2> QED
    BY <2>1 DEF OutputAddress
<1> QED
  BY <1>4, <1>5

\* What leaves by an output is marked with it, in every run whose names tell the
\* outputs apart: the address a replaced output sends to (ReplaceOutputs) is that
\* of one output pipeline (createOutputPipelines), and the ids of the pipelines of
\* a session are distinct.
THEOREM OutputsAreMarked ==
  (\A c \in Runs : ZipFails(Given(c)) \/ KeepsNames(Given(c))) => (Spec => []LeavesMarked)
<1>1. SUFFICES ASSUME \A c \in Runs : ZipFails(Given(c)) \/ KeepsNames(Given(c))
               PROVE  Spec => []LeavesMarked
  OBVIOUS
<1>2. DataInv => LeavesMarked
  <2> DEFINE all == session.pipelines
             mark(address) == {all[n].config[1] : n \in Listeners(session, all, address)}
  <2> SUFFICES ASSUME DataInv, main = "execute"
               PROVE  /\ IsInjective([n \in DOMAIN all |-> all[n].id])
                      /\ \A id \in IdsIn(zip, "output") :
                           mark(OutputAddress(PluginIDSave(id))) = {PluginIDSave(id)}
    BY DEF LeavesMarked
  <2>1. /\ IsConfiguration(conf) /\ zip = ZipWithPreprocessor(conf)
        /\ all = SessionPipelines(conf, zip, SessionID)
        /\ KeepsNames(conf)
    BY <1>1, DataHere
  <2>2. IsInjective([n \in DOMAIN all |-> all[n].id])
    <3>1. IdsDiffer(all)
      BY <2>1, PipelineIdsDiffer
    <3> QED
      BY <3>1 DEF IdsDiffer, IsInjective
  <2>3. ASSUME NEW id \in IdsIn(zip, "output")
        PROVE  mark(OutputAddress(PluginIDSave(id))) = {PluginIDSave(id)}
    <3> DEFINE listeners == Listeners(session, all, OutputAddress(PluginIDSave(id)))
    <3>1. \E n \in listeners : all[n].config[1] = PluginIDSave(id)
      BY OutputHasPipeline
    <3>2. \A n \in listeners : all[n].config[1] = PluginIDSave(id)
      BY <2>1, OnlyItsPipeline
    <3> HIDE DEF listeners
    <3>3. {all[n].config[1] : n \in listeners} = {PluginIDSave(id)}
      BY <3>1, <3>2
    <3> QED
      BY <3>3 DEF listeners
  <2> QED
    BY <2>2, <2>3
<1> QED
  BY <1>1, <1>2, DataOfTheRun, PTL

-----------------------------------------------------------------------------
(* Types *)

\* A set of test cases has a list of lines, and fields for each.
LEMMA LinesHaveFields ==
  ASSUME NEW file, IsSequence(file.cases), \A tc \in ToSet(file.cases) : IsSequence(tc.lines),
         NEW test \in New(file)
  PROVE  IsSequence(test.lines) /\ Len(test.events) = Len(test.lines)
<1> DEFINE N == Len(file.cases)
           lines(n) == InputLines(file.cases[n])
           seqs == [n \in DOMAIN file.cases |-> lines(n)]
           fieldsOf(g) == [n \in DOMAIN file.cases |->
                             [k \in DOMAIN lines(n) |-> MergeFields(g[0], g[n])]]
<1>1. PICK g : test.lines = FlattenSeq(seqs) /\ test.events = FlattenSeq(fieldsOf(g))
  <2>1. PICK g : test = CaseSet(file, g)
    BY DEF New
  <2>2. /\ CaseSet(file, g).lines = FlattenSeq(seqs)
        /\ CaseSet(file, g).events = FlattenSeq(fieldsOf(g))
    BY DEF CaseSet
  <2> QED
    BY <2>1, <2>2
<1> DEFINE others == fieldsOf(g)
           S == (UNION {ToSet(lines(n)) : n \in 1..N}) \cup {MergeFields(g[0], g[n]) : n \in 1..N}
<1>2. N \in Nat /\ DOMAIN file.cases = 1..N
  BY DEF IsSequence
<1>3. ASSUME NEW n \in 1..N
      PROVE  lines(n) \in Seq(ToSet(lines(n)))
  <2>1. IsSequence(file.cases[n].lines)
    BY <1>2 DEF ToSet
  <2>2. <<Dummy>> \in Seq(ToSet(<<Dummy>>))
    BY DEF ToSet
  <2> QED
    BY <2>1, <2>2 DEF InputLines, IsSequence
<1>4. /\ DOMAIN seqs = 1..N /\ seqs = [n \in 1..N |-> seqs[n]]
      /\ \A n \in 1..N : seqs[n] = lines(n)
  BY <1>2
<1>5. /\ DOMAIN others = 1..N /\ others = [n \in 1..N |-> others[n]]
      /\ \A n \in 1..N : others[n] = [k \in DOMAIN lines(n) |-> MergeFields(g[0], g[n])]
  BY <1>2
<1> HIDE DEF seqs, fieldsOf, lines, N
<1>6. ASSUME NEW n \in 1..N
      PROVE  seqs[n] \in Seq(S) /\ others[n] \in Seq(S) /\ Len(seqs[n]) = Len(others[n])
  <2>1. lines(n) \in Seq(ToSet(lines(n))) /\ ToSet(lines(n)) \subseteq S
    BY <1>3
  <2>2. MergeFields(g[0], g[n]) \in S
    OBVIOUS
  <2> HIDE DEF S
  <2>3. lines(n) \in Seq(S)
    BY <2>1, SeqMonotonic
  <2>4. DOMAIN lines(n) = 1..Len(lines(n)) /\ Len(lines(n)) \in Nat
    BY <2>3
  <2>5. \A x \in S : /\ [k \in 1..Len(lines(n)) |-> x] \in Seq(S)
                     /\ Len([k \in 1..Len(lines(n)) |-> x]) = Len(lines(n))
    BY <2>4
  <2>6. others[n] = [k \in 1..Len(lines(n)) |-> MergeFields(g[0], g[n])]
    BY <1>5, <2>4
  <2> QED
    BY <1>4, <2>2, <2>3, <2>5, <2>6
<1> HIDE DEF S, others
<1>7. seqs \in Seq(Seq(S)) /\ others \in Seq(Seq(S))
  BY <1>2, <1>4, <1>5, <1>6, SequenceOf
<1>8. Len(seqs) = Len(others)
  BY <1>2, <1>4, <1>5, <1>7
<1>9. Len(FlattenSeq(seqs)) = Len(FlattenSeq(others))
  BY <1>4, <1>6, <1>7, <1>8, FlattenLengths
<1>10. IsSequence(FlattenSeq(seqs))
  BY <1>7, FlattenElements, Sequence
<1> QED
  BY <1>1, <1>9, <1>10 DEF others

\* The sets are those of the files, each for an input of the archive, and the
\* events on their way are in the pipelines for the outputs.
TestsInv ==
  /\ IsSequence(tests)
  /\ tests # << >> => /\ DOMAIN tests = DOMAIN conf.files
                      /\ \A n \in DOMAIN tests : tests[n] \in New(conf.files[n])
  /\ main \in {"setup", "execute", "results"} =>
       /\ DOMAIN tests = DOMAIN conf.files
       /\ \A n \in DOMAIN tests : tests[n].plugin \in IdsIn(zip, "input")
  /\ cur \in 1..Len(conf.files) + 1
  /\ main = "results" => cur <= Len(conf.files)
  /\ main \in {"archive", "tests", "setup"} => queue = << >>
  /\ \A n \in DOMAIN queue : session.pipelines[n].kind = "out"
  /\ ok \in BOOLEAN
  /\ outcome \in {"none", "error", "panic", "pass", "fail"}

\* The files of a run are a sequence.
LEMMA FilesHere ==
  ASSUME DataInv
  PROVE  /\ Len(conf.files) \in Nat /\ DOMAIN conf.files = 1..Len(conf.files)
         /\ \A n \in DOMAIN conf.files :
              /\ IsSequence(conf.files[n].cases)
              /\ \A tc \in ToSet(conf.files[n].cases) : IsSequence(tc.lines)
<1>1. IsRun(conf)
  BY RunsAssumption DEF DataInv
<1>2. Len(conf.files) \in Nat /\ DOMAIN conf.files = 1..Len(conf.files)
  BY <1>1 DEF IsRun, IsSequence
<1>3. \A n \in DOMAIN conf.files : conf.files[n] \in ToSet(conf.files)
  BY DEF ToSet
<1> QED
  BY <1>1, <1>2, <1>3 DEF IsRun

\* The client takes the sets of the files one after the other (DiscoverTests, and
\* the loop of RunTests).
THEOREM TestsOfTheRun == Spec => [](DataInv /\ TestsInv)
<1>1. Init => TestsInv
  <2> SUFFICES ASSUME Init PROVE TestsInv
    OBVIOUS
  <2>1. Len(conf.files) \in Nat
    <3>1. IsRun(conf)
      BY RunsAssumption DEF Init
    <3> QED
      BY <3>1 DEF IsRun, IsSequence
  <2>2. IsSequence(<< >>)
    BY DEF IsSequence
  <2> QED
    BY <2>1, <2>2 DEF Init, TestsInv
<1>2. DataInv /\ TestsInv /\ [Next]_vars => TestsInv'
  <2> SUFFICES ASSUME DataInv, TestsInv, [Next]_vars PROVE TestsInv'
    OBVIOUS
  <2>1. Len(conf.files) \in Nat /\ DOMAIN conf.files = 1..Len(conf.files)
    BY FilesHere
  <2>2. CASE BuildArchive
    <3>1. /\ main = "archive" /\ main' \in {"tests", "returned"}
          /\ outcome' \in {"error", outcome}
          /\ UNCHANGED <<conf, tests, session, cur, queue, ok>>
      BY <2>2 DEF BuildArchive, Return, Goto
    <3> QED
      BY <3>1 DEF TestsInv
  <2>3. CASE DiscoverTests
    <3>1. main = "tests" /\ UNCHANGED <<conf, zip, session, cur, queue, ok>>
      BY <2>3 DEF DiscoverTests
    <3>2. CASE main' = "returned" /\ outcome' \in {"error", "panic"} /\ UNCHANGED tests
      BY <3>1, <3>2 DEF TestsInv
    <3>3. CASE /\ main' = "setup" /\ UNCHANGED outcome /\ IsSequence(tests')
               /\ DOMAIN tests' = DOMAIN conf.files
               /\ \A n \in DOMAIN tests' : /\ tests'[n] \in New(conf.files[n])
                                           /\ tests'[n].plugin \in IdsIn(zip, "input")
      BY <3>1, <3>3 DEF TestsInv
    <3>4. \A U : \A read \in [DOMAIN conf.files -> U] : IsSequence(read)
      <4> SUFFICES ASSUME NEW U, NEW read \in [DOMAIN conf.files -> U]
                   PROVE  IsSequence(read)
        OBVIOUS
      <4>1. read \in Seq(U)
        BY <2>1
      <4> QED
        BY <4>1, Sequence
    <3>5. DiscoverTests =>
            \/ main' = "returned" /\ outcome' \in {"error", "panic"} /\ UNCHANGED tests
            \/ \E U : \E read \in [DOMAIN conf.files -> U] :
                 /\ \A n \in DOMAIN read : /\ read[n] \in New(conf.files[n])
                                           /\ read[n].plugin \in IdsIn(zip, "input")
                 /\ main' = "setup" /\ UNCHANGED outcome /\ tests' = read
      BY DEF DiscoverTests, Return, Goto
    <3> QED
      BY <2>3, <3>2, <3>3, <3>4, <3>5
  <2>4. CASE SetupTest
    <3>1. /\ main = "setup" /\ main' = "execute"
          /\ UNCHANGED <<conf, zip, tests, cur, queue, ok, outcome>>
      BY <2>4 DEF SetupTest, Goto
    <3> QED
      BY <3>1 DEF TestsInv
  <2>5. CASE ExecuteTest
    <3> DEFINE outs == {n \in DOMAIN session.pipelines : session.pipelines[n].kind = "out"}
    <3>1. /\ main = "execute" /\ main' = "results" /\ cur <= Len(tests)
          /\ DOMAIN queue' = outs
          /\ UNCHANGED <<conf, zip, tests, session, cur, ok, outcome>>
      <4>1. DOMAIN Printed(cur) = outs
        BY DEF Printed, PrintedOf
      <4> QED
        BY <2>5, <4>1 DEF ExecuteTest, Goto
    <3>2. Len(tests) = Len(conf.files)
      <4>1. DOMAIN tests = 1..Len(conf.files)
        BY <2>1, <3>1 DEF TestsInv
      <4> QED
        BY <2>1, <4>1 DEF TestsInv, IsSequence
    <3> QED
      BY <3>1, <3>2 DEF TestsInv
  <2>6. CASE \E n \in DOMAIN queue : Arrive(n)
    <3>1. /\ main = "results" /\ DOMAIN queue' = DOMAIN queue
          /\ UNCHANGED <<conf, main, zip, tests, session, cur, ok, outcome>>
      BY <2>6 DEF Arrive
    <3> QED
      BY <3>1 DEF TestsInv
  <2>7. CASE CompareResults
    <3>1. /\ main = "results" /\ main' = "execute" /\ cur' = cur + 1 /\ ok' \in BOOLEAN
          /\ UNCHANGED <<conf, zip, tests, session, queue, outcome>>
      BY <2>7 DEF CompareResults, Goto
    <3> QED
      BY <2>1, <3>1 DEF TestsInv
  <2>8. CASE End
    <3>1. /\ main = "execute" /\ main' = "returned" /\ outcome' \in {"pass", "fail"}
          /\ UNCHANGED <<conf, zip, tests, session, cur, queue, ok>>
      BY <2>8 DEF End, Return
    <3> QED
      BY <3>1 DEF TestsInv
  <2>9. CASE UNCHANGED vars
    BY <2>9 DEF vars, TestsInv
  <2> QED
    BY <2>2, <2>3, <2>4, <2>5, <2>6, <2>7, <2>8, <2>9 DEF Next
<1> QED
  BY <1>1, <1>2, DataOfTheRun, PTL DEF Spec

\* In an archive that is not refused each plugin has an id.
LEMMA ArchiveIds ==
  ASSUME NEW c, IsConfiguration(c), ~ZipFails(c), NEW z \in ToSet(ZipWithPreprocessor(c)),
         NEW p \in ToSet(z.plugins)
  PROVE  p.section \in {"input", "filter", "output"} /\ p.id \in Nat \ {NoId}
<1>1. IsFile(z)
  BY ArchiveFile
<1>2. PICK n \in DOMAIN c.pipelines : \E f \in ToSet(FilesOf(c.pipelines[n], c)) :
        z = ZipEntry(f, c) /\ IsFile(f)
  BY ArchiveFile
<1>3. PICK f \in ToSet(FilesOf(c.pipelines[n], c)) : z = ZipEntry(f, c) /\ IsFile(f)
  BY <1>2
<1>4. Valid(Preprocessed(f, c), c.addMissingID)
  BY <1>3 DEF ZipFails
<1>5. p.id # NoId
  BY <1>3, <1>4, ZipEntryFile
<1>6. IsPlugin(p)
  BY <1>1 DEF IsFile
<1> QED
  BY <1>5, <1>6 DEF IsPlugin

\* In the session each input and output is a "pipeline" plugin with an address.
LEMMA SessionPlugins ==
  ASSUME NEW z, \A f \in ToSet(z) : IsFile(f), NEW n \in DOMAIN z,
         NEW p \in ToSet(SutFile(z[n], SessionID).plugins), p.section # "filter"
  PROVE  p.name = "pipeline" /\ p.address # NoAddress
<1>1. IsFile(z[n])
  BY DEF ToSet
<1>2. PICK q \in ToSet(z[n].plugins) : p = ReplaceOutput(ReplaceInput(q, SessionID))
  BY <1>1, SutFileIs
<1>3. IsPlugin(q)
  BY <1>1 DEF IsFile
<1> QED
  BY <1>2, <1>3, ReplacedPlugin

\* The types of DaemonTest: what the archive, the session, the test case sets and
\* the output pipelines are at each point of a run.
THEOREM DataTypes == Spec => []TypeOK
<1>1. DataInv /\ TestsInv => TypeOK
  <2> SUFFICES ASSUME DataInv, TestsInv PROVE TypeOK
    OBVIOUS
  <2>1. IsConfiguration(conf)
    BY RunsAssumption DEF DataInv, IsRun
  <2>2. ASSUME NEW n \in DOMAIN zip, NEW p \in ToSet(zip[n].plugins)
        PROVE  p.section \in {"input", "filter", "output"} /\ p.id \in Nat \ {NoId}
    <3>1. zip # << >>
      OBVIOUS
    <3>2. zip = ZipWithPreprocessor(conf) /\ ~ZipFails(conf)
      BY <3>1 DEF DataInv
    <3>3. zip[n] \in ToSet(ZipWithPreprocessor(conf))
      BY <3>2 DEF ToSet
    <3> QED
      BY <2>1, <3>2, <3>3, ArchiveIds
  <2>3. ASSUME NEW n \in DOMAIN session.files, NEW p \in ToSet(session.files[n].plugins),
               p.section # "filter"
        PROVE  p.name = "pipeline" /\ p.address # NoAddress
    <3>1. session # NoSession
      BY DEF NoSession
    <3>2. session.files = [m \in DOMAIN zip |-> SutFile(zip[m], SessionID)]
      BY <3>1 DEF DataInv, SessionOf
    <3>3. n \in DOMAIN zip /\ session.files[n] = SutFile(zip[n], SessionID)
      BY <3>2
    <3>4. zip # << >>
      BY <3>3
    <3>5. zip = ZipWithPreprocessor(conf)
      BY <3>4 DEF DataInv
    <3>6. \A f \in ToSet(zip) : IsFile(f)
      BY <2>1, <3>5, ArchiveFile
    <3> QED
      BY <2>3, <3>3, <3>6, SessionPlugins
  <2>4. ASSUME NEW n \in DOMAIN tests PROVE Len(tests[n].events) = Len(tests[n].lines)
    <3>1. tests # << >>
      OBVIOUS
    <3>2. n \in DOMAIN conf.files /\ tests[n] \in New(conf.files[n])
      BY <3>1 DEF TestsInv
    <3>3. /\ IsSequence(conf.files[n].cases)
          /\ \A tc \in ToSet(conf.files[n].cases) : IsSequence(tc.lines)
      BY <3>2, FilesHere
    <3> QED
      BY <3>2, <3>3, LinesHaveFields
  <2> QED
    BY <2>2, <2>3, <2>4 DEF TypeOK, DataInv, TestsInv
<1> QED
  BY <1>1, TestsOfTheRun, PTL

-----------------------------------------------------------------------------
(* Where the events of a test case file enter *)

\* The codec of an input is that of the inputs with its id.
LEMMA CodecOf ==
  ASSUME NEW z, IsSequence(z), \A f \in ToSet(z) : IsFile(f),
         NEW id \in IdsIn(z, "input"), NEW codec,
         \A k \in DOMAIN z : \A p \in ToSet(z[k].plugins) :
           IsExternal(p, "input") /\ p.id = id =>
             codec = IF p.codec = NoCodec THEN "plain" ELSE p.codec
  PROVE  (IF id \in DOMAIN InputCodecs(z) THEN InputCodecs(z)[id] ELSE "plain") = codec
<1> DEFINE seqs == [n \in DOMAIN z |-> z[n].plugins]
           all == FlattenSeq(seqs)
           inputs == InputsOf(z)
           with == WithCodec(z)
           places == {n \in DOMAIN inputs : inputs[n].codec # NoCodec}
           S == UNION {ToSet(seqs[n]) : n \in DOMAIN z}
<1>1. DOMAIN z = 1..Len(z) /\ Len(z) \in Nat
  BY DEF IsSequence
<1>2. \A n \in DOMAIN z : IsSequence(z[n].plugins)
  BY DEF ToSet, IsFile
<1>3. inputs = External(all, "input") /\ with = Chosen(inputs, places)
  BY DEF InputsOf, WithCodec
<1>4. /\ DOMAIN seqs = DOMAIN z /\ seqs = [n \in 1..Len(z) |-> seqs[n]]
      /\ \A n \in DOMAIN z : seqs[n] = z[n].plugins
  BY <1>1
<1> HIDE DEF seqs
<1>5. ASSUME NEW n \in 1..Len(z) PROVE seqs[n] \in Seq(S)
  <2>1. seqs[n] \in Seq(ToSet(seqs[n])) /\ ToSet(seqs[n]) \subseteq S
    BY <1>1, <1>2, <1>4 DEF IsSequence
  <2> HIDE DEF S
  <2> QED
    BY <2>1, SeqMonotonic
<1>6. ToSet(all) = S /\ IsSequence(all)
  <2> HIDE DEF S
  <2>1. seqs \in Seq(Seq(S))
    BY <1>1, <1>4, <1>5, SequenceOf
  <2>2. all \in Seq(S) /\ ToSet(all) = UNION {ToSet(seqs[n]) : n \in DOMAIN seqs}
    BY <2>1, FlattenElements
  <2> QED
    BY <1>4, <2>2, Sequence DEF S
<1> HIDE DEF all
<1>7. IsSequence(inputs) /\ ToSet(inputs) = {p \in ToSet(all) : IsExternal(p, "input")}
  BY <1>3, <1>6, ExternalAre
<1> HIDE DEF inputs, with
<1>8. \A p : p \in ToSet(inputs) <=>
        \E k \in DOMAIN z : p \in ToSet(z[k].plugins) /\ IsExternal(p, "input")
  <2>1. \A p : p \in S <=> \E k \in DOMAIN z : p \in ToSet(z[k].plugins)
    <3>1. \A p : p \in S <=> \E k \in DOMAIN z : p \in ToSet(seqs[k])
      OBVIOUS
    <3> HIDE DEF S
    <3> QED
      BY <1>4, <3>1
  <2> HIDE DEF S
  <2> QED
    BY <1>6, <1>7, <2>1
<1>9. /\ with \in Seq(ToSet(inputs))
      /\ ToSet(with) = {p \in ToSet(inputs) : p.codec # NoCodec}
  <2>1. inputs \in Seq(ToSet(inputs))
    BY <1>7 DEF IsSequence
  <2>2. {inputs[n] : n \in DOMAIN inputs \cap places} = {p \in ToSet(inputs) : p.codec # NoCodec}
    BY DEF ToSet
  <2> HIDE DEF places
  <2> QED
    BY <1>3, <2>1, <2>2, ChosenElements
<1>10. \A p \in ToSet(inputs) : p.id = id => codec = IF p.codec = NoCodec THEN "plain" ELSE p.codec
  BY <1>8
<1>11. DOMAIN InputCodecs(z) = {with[n].id : n \in DOMAIN with}
  BY DEF InputCodecs, with
<1>12. CASE id \in DOMAIN InputCodecs(z)
  <2> DEFINE IsLast(n) == /\ with[n].id = id
                        /\ \A m \in DOMAIN with : with[m].id = id => m <= n
             last == CHOOSE n \in DOMAIN with : IsLast(n)
  <2>1. InputCodecs(z)[id] = with[last].codec
    BY <1>11, <1>12 DEF InputCodecs, with
  <2>2. DOMAIN with = 1..Len(with) /\ Len(with) \in Nat
    BY <1>9
  <2>3. \E n \in DOMAIN with : IsLast(n)
    <3> DEFINE T == {Len(with) - n : n \in {n \in DOMAIN with : with[n].id = id}}
    <3>1. T \subseteq Nat /\ T # {}
      BY <1>11, <1>12, <2>2
    <3>2. PICK t \in T : \A u \in T : t <= u
      BY <3>1, Least
    <3>3. PICK n \in DOMAIN with : with[n].id = id /\ t = Len(with) - n
      OBVIOUS
    <3>4. ASSUME NEW m \in DOMAIN with, with[m].id = id PROVE m <= n
      <4>1. Len(with) - m \in T
        BY <3>4
      <4>2. Len(with) - n <= Len(with) - m
        BY <3>2, <3>3, <4>1
      <4> QED
        BY <2>2, <4>2
    <3> QED
      BY <3>3, <3>4
  <2>4. last \in DOMAIN with /\ with[last].id = id
    BY <2>3
  <2> HIDE DEF last
  <2>5. with[last] \in ToSet(with)
    BY <2>4 DEF ToSet
  <2> QED
    BY <1>9, <1>10, <1>12, <2>1, <2>4, <2>5
<1>13. CASE id \notin DOMAIN InputCodecs(z)
  <2>1. PICK k \in DOMAIN z : id \in {p.id : p \in ToSet(External(z[k].plugins, "input"))}
    BY DEF IdsIn
  <2>2. PICK p \in ToSet(External(z[k].plugins, "input")) : p.id = id
    BY <2>1
  <2>3. p \in ToSet(z[k].plugins) /\ IsExternal(p, "input")
    BY <1>2, ExternalAre
  <2>4. p \in ToSet(inputs)
    BY <1>8, <2>3
  <2>5. p \notin ToSet(with)
    BY <1>11, <1>13, <2>2 DEF ToSet
  <2>6. p.codec = NoCodec
    BY <1>9, <2>4, <2>5
  <2> QED
    BY <1>10, <1>13, <2>2, <2>4, <2>6
<1> QED
  BY <1>12, <1>13

\* The pipelines that listen where an input did are those whose files have it.
HasInput(n, id) ==
  \E k \in DOMAIN zip :
    /\ zip[k].dir = ReadPipeline(conf.pipelines[n]).dir
    /\ \E p \in ToSet(zip[k].plugins) : IsExternal(p, "input") /\ p.id = id

LEMMA InputListeners ==
  ASSUME DataInv, main \in {"execute", "results"}, TellsInputs(conf),
         NEW id \in IdsIn(zip, "input")
  PROVE  Listeners(session, session.pipelines, InputAddress(SessionID, id))
           = {n \in DOMAIN conf.pipelines : HasInput(n, id)}
<1> DEFINE all == session.pipelines
           address == InputAddress(SessionID, id)
           N == Len(conf.pipelines)
           outs == OutsOf(zip)
<1>1. /\ IsConfiguration(conf) /\ zip = ZipWithPreprocessor(conf)
      /\ IsSequence(zip) /\ \A f \in ToSet(zip) : IsFile(f)
      /\ all = SessionPipelines(conf, zip, SessionID)
  BY DataHere
<1>2. Arranged(all, conf, outs, SessionID)
  BY <1>1, SessionPipelinesAre
<1>3. \A x, y, saved : <<"__lfv_input", x, y>> # <<"lfv_output", saved>>
  OBVIOUS
<1>4. \A saved : address # OutputAddress(saved)
  BY <1>3 DEF InputAddress, OutputAddress
<1>5. \A x : InputAddress(SessionID, x) = address => x = id
  <2>1. \A x, y : <<"__lfv_input", SessionID, x>> = <<"__lfv_input", SessionID, y>> => x = y
    OBVIOUS
  <2> QED
    BY <2>1 DEF InputAddress
<1> HIDE DEF address
<1>6. \A n : Hears(session, all, n, address) <=>
        \E p \in ToSet(Started(session, all, n)) :
          p.section = "input" /\ p.name = "pipeline" /\ p.address = address
  BY <1>4 DEF Hears
<1>7. ASSUME NEW k \in DOMAIN zip, NEW q \in ToSet(zip[k].plugins)
      PROVE  LET p == ReplaceOutput(ReplaceInput(q, SessionID))
             IN  p.section = "input" /\ p.name = "pipeline" /\ p.address = address
                   <=> IsExternal(q, "input") /\ q.id = id
  <2> DEFINE p == ReplaceOutput(ReplaceInput(q, SessionID))
  <2>1. zip[k] \in ToSet(zip) /\ IsPlugin(q)
    BY <1>1 DEF ToSet, IsFile
  <2>2. /\ p.section = q.section
        /\ p.section # "filter" => p.name = "pipeline"
        /\ q.section = "input" =>
             p.address = IF q.name = "pipeline" THEN q.address
                         ELSE InputAddress(SessionID, q.id)
    BY <2>1, ReplacedPlugin
  <2>3. q.section = "input" /\ q.name = "pipeline" => q.address # address
    BY <1>1 DEF TellsInputs, address
  <2> HIDE DEF p
  <2>4. CASE q.section = "input" /\ q.name # "pipeline"
    <3>1. p.address = address <=> q.id = id
      BY <1>5, <2>2, <2>4 DEF address
    <3> QED
      BY <2>2, <2>4, <3>1 DEF IsExternal, p
  <2>5. CASE ~(q.section = "input" /\ q.name # "pipeline")
    BY <2>2, <2>3, <2>5 DEF IsExternal, p
  <2> QED
    BY <2>4, <2>5
<1>8. \A n : Hears(session, all, n, address) <=>
        \E k \in DOMAIN zip : /\ all[n].kind = "sut" /\ zip[k].dir = all[n].config
                              /\ \E q \in ToSet(zip[k].plugins) :
                                   IsExternal(q, "input") /\ q.id = id
  <2> SUFFICES ASSUME NEW n
               PROVE  Hears(session, all, n, address) <=>
                        \E k \in DOMAIN zip :
                          /\ all[n].kind = "sut" /\ zip[k].dir = all[n].config
                          /\ \E q \in ToSet(zip[k].plugins) :
                               IsExternal(q, "input") /\ q.id = id
    OBVIOUS
  <2>1. \A p : p \in ToSet(Started(session, all, n)) <=>
          \E k \in DOMAIN zip :
            /\ all[n].kind = "sut" /\ zip[k].dir = all[n].config
            /\ \E q \in ToSet(zip[k].plugins) :
                 p = ReplaceOutput(ReplaceInput(q, SessionID))
    BY StartedPlugin
  <2> QED
    BY <1>6, <1>7, <2>1
<1>9. ASSUME NEW n \in 1..N
      PROVE  /\ all[n].kind = "sut" /\ all[n].config = ReadPipeline(conf.pipelines[n]).dir
             /\ n \in DOMAIN all
  <2>1. all[n] = SutPipeline(conf.pipelines[n], SessionID) /\ n \in DOMAIN all
    BY <1>2 DEF Arranged
  <2> QED
    BY <2>1 DEF SutPipeline
<1>10. ASSUME NEW n \in DOMAIN all, n \notin 1..N
       PROVE  all[n].kind = "out"
  <2>1. n - N \in 1..Len(outs) /\ all[n] = outs[n - N]
    <3>1. /\ N \in Nat /\ Len(outs) \in Nat /\ DOMAIN all = 1..N + Len(outs)
          /\ \A i \in 1..Len(outs) : all[N + i] = outs[i]
      BY <1>2 DEF Arranged
    <3> HIDE DEF N, outs
    <3>2. n - N \in 1..Len(outs) /\ N + (n - N) = n
      BY <1>10, <3>1
    <3> QED
      BY <3>1, <3>2
  <2>2. outs[n - N] \in ToSet(outs)
    BY <1>2, <2>1 DEF Arranged, ToSet
  <2>3. outs[n - N] \in OutSet(zip)
    BY <1>1, <2>2, OutputsOfFiles
  <2>4. PICK m \in DOMAIN zip : outs[n - N] \in ToSet(CreateOutputPipelines(Outputs(zip[m])))
    BY <2>3 DEF OutSet, Pieces
  <2>5. IsFile(zip[m])
    BY <1>1 DEF ToSet
  <2>6. \E j \in DOMAIN Outputs(zip[m]) : outs[n - N] = OutOf(Outputs(zip[m])[j])
    BY <2>4, <2>5, OutputPipelinesAre DEF ToSet
  <2> QED
    BY <2>1, <2>6 DEF OutOf
<1>11. DOMAIN conf.pipelines = 1..N
  BY <1>2 DEF Arranged
<1>12. \A n \in DOMAIN all : Hears(session, all, n, address) => n \in 1..N
  BY <1>8, <1>10
<1>13. \A n \in 1..N : Hears(session, all, n, address) <=> HasInput(n, id)
  BY <1>8, <1>9 DEF HasInput
<1> QED
  BY <1>9, <1>11, <1>12, <1>13 DEF Listeners, address

\* These are the pipelines whose paths match a file with the input.
LEMMA InputsByPath ==
  ASSUME DataInv, main \in {"execute", "results"}, KeepsPaths(conf),
         NEW n \in DOMAIN conf.pipelines, NEW id
  PROVE  HasInput(n, id) <=>
           \E file \in ToSet(FilesOf(conf.pipelines[n], conf)) :
             \E p \in ToSet(ZipEntry(file, conf).plugins) : IsExternal(p, "input") /\ p.id = id
<1> DEFINE dir == conf.pipelines[n].dir
           packed == ToSet(FilesOf(conf.pipelines[n], conf))
           Has(file) == \E p \in ToSet(file.plugins) : IsExternal(p, "input") /\ p.id = id
<1>1. IsConfiguration(conf) /\ zip = ZipWithPreprocessor(conf)
  BY DataHere
<1>2. ReadPipeline(conf.pipelines[n]).dir = dir
  BY DEF ReadPipeline, KeepsPaths
<1>3. \A m \in DOMAIN conf.pipelines : IsPipeline(conf.pipelines[m])
  BY <1>1 DEF IsConfiguration, ToSet
<1>4. \A m \in DOMAIN conf.pipelines :
        ToSet(FilesOf(conf.pipelines[m], conf))
          = {f \in ToSet(conf.disk) : f.dir = ConfigDir(conf.pipelines[m], conf.base)}
  BY <1>1, <1>3, FilesOfAre
<1>5. ASSUME NEW k \in DOMAIN zip, zip[k].dir = dir
      PROVE  \E file \in packed : zip[k] = ZipEntry(file, conf)
  <2>1. zip[k] \in ToSet(ZipWithPreprocessor(conf))
    BY <1>1 DEF ToSet
  <2>2. PICK m \in DOMAIN conf.pipelines : \E f \in ToSet(FilesOf(conf.pipelines[m], conf)) :
          zip[k] = ZipEntry(f, conf) /\ IsFile(f) /\ f.dir = ConfigDir(conf.pipelines[m], conf.base)
    BY <1>1, <2>1, ArchiveFile
  <2>3. PICK f \in ToSet(FilesOf(conf.pipelines[m], conf)) :
          zip[k] = ZipEntry(f, conf) /\ IsFile(f) /\ f.dir = ConfigDir(conf.pipelines[m], conf.base)
    BY <2>2
  <2>4. zip[k].dir = TrimBase(f.dir, conf.base)
    BY <1>1, <2>3, ZipEntryFile
  <2>5. conf.pipelines[m].dir = dir
    BY <1>1, <1>5, <2>3, <2>4, TrimmedDir
  <2>6. ConfigDir(conf.pipelines[m], conf.base) = ConfigDir(conf.pipelines[n], conf.base)
    BY <2>5 DEF ConfigDir, KeepsPaths
  <2>7. f \in packed
    BY <1>4, <2>3, <2>6
  <2> QED
    BY <2>3, <2>7
<1>6. ASSUME NEW file \in packed
      PROVE  \E k \in DOMAIN zip : zip[k].dir = dir /\ zip[k] = ZipEntry(file, conf)
  <2>1. file \in ToSet(conf.disk) /\ file.dir = ConfigDir(conf.pipelines[n], conf.base)
    BY <1>4
  <2>2. IsFile(file)
    BY <1>1, <2>1 DEF IsConfiguration
  <2>3. ZipEntry(file, conf).dir = dir
    BY <1>1, <2>1, <2>2, ZipEntryFile, TrimmedDir
  <2>4. ZipEntry(file, conf) \in ToSet(zip)
    BY <1>1, ArchiveIs
  <2> QED
    BY <2>3, <2>4 DEF ToSet
<1> HIDE DEF packed, dir
<1>7. (\E k \in DOMAIN zip : zip[k].dir = dir /\ Has(zip[k]))
        <=> \E file \in packed : Has(ZipEntry(file, conf))
  <2> HIDE DEF Has
  <2> QED
    BY <1>5, <1>6
<1> QED
  BY <1>2, <1>7 DEF HasInput, packed

\* The events of a test case file enter at the input it names, in its pipeline and
\* with its codec, in every run that tells its inputs right (ExecuteTest finds the
\* address and the codec that ReplaceInputs gave an input of that id).
THEOREM EventsEnter ==
  (\A c \in Runs : /\ KeepsPaths(Given(c))
                   /\ ZipFails(Given(c)) \/ TellsInputs(Given(c))) =>
    (Spec => []EntersWherePromised)
<1>1. SUFFICES ASSUME \A c \in Runs : /\ KeepsPaths(Given(c))
                                      /\ ZipFails(Given(c)) \/ TellsInputs(Given(c))
               PROVE  Spec => []EntersWherePromised
  OBVIOUS
<1>2. DataInv /\ TestsInv => EntersWherePromised
  <2> DEFINE all == session.pipelines
             entries(id) == Listeners(session, all, InputAddress(SessionID, id))
  <2> SUFFICES ASSUME DataInv, TestsInv, main = "execute", NEW t \in DOMAIN tests
               PROVE  /\ {all[k].id[3] : k \in entries(tests[t].plugin)}
                           = {conf.reach[tests[t].plugin].via}
                      /\ Cardinality(entries(tests[t].plugin)) = 1
                      /\ InputCodec(session, tests[t].plugin) = conf.reach[tests[t].plugin].codec
    BY DEF EntersWherePromised
  <2>1. PICK id \in IdsIn(zip, "input") : id = tests[t].plugin
    BY DEF TestsInv
  <2>2. /\ IsConfiguration(conf) /\ zip = ZipWithPreprocessor(conf)
        /\ IsSequence(zip) /\ \A f \in ToSet(zip) : IsFile(f)
        /\ session.codecs = InputCodecs(zip)
        /\ all = SessionPipelines(conf, zip, SessionID)
        /\ KeepsPaths(conf) /\ TellsInputs(conf)
    BY <1>1, DataHere
  <2>3. PICK n \in DOMAIN conf.pipelines :
          /\ \A m \in DOMAIN conf.pipelines : HasInput(m, id) <=> m = n
          /\ ReadPipeline(conf.pipelines[n]).id = conf.reach[id].via
    <3> DEFINE has(m) == \E file \in ToSet(FilesOf(conf.pipelines[m], conf)) :
                           \E p \in ToSet(ZipEntry(file, conf).plugins) :
                             IsExternal(p, "input") /\ p.id = id
    <3>1. PICK n \in DOMAIN conf.pipelines :
            /\ \A m \in DOMAIN conf.pipelines : has(m) <=> m = n
            /\ ReadPipeline(conf.pipelines[n]).id = conf.reach[id].via
      BY <2>2 DEF TellsInputs
    <3>2. \A m \in DOMAIN conf.pipelines : HasInput(m, id) <=> has(m)
      BY <2>2, InputsByPath
    <3> HIDE DEF has
    <3> QED
      BY <3>1, <3>2
  <2>4. entries(id) = {n}
    <3>1. entries(id) = {m \in DOMAIN conf.pipelines : HasInput(m, id)}
      BY <2>2, InputListeners
    <3> HIDE DEF entries
    <3> QED
      BY <2>3, <3>1
  <2>5. all[n].id[3] = conf.reach[id].via
    <3>1. Arranged(all, conf, OutsOf(zip), SessionID)
      BY <2>2, SessionPipelinesAre
    <3>2. all[n] = SutPipeline(conf.pipelines[n], SessionID)
      BY <3>1 DEF Arranged
    <3> QED
      BY <2>3, <3>2 DEF SutPipeline
  <2>6. {all[k].id[3] : k \in entries(id)} = {conf.reach[id].via} /\ Cardinality(entries(id)) = 1
    <3> HIDE DEF entries, all
    <3> QED
      BY <2>4, <2>5, FS_Singleton
  <2>7. InputCodec(session, id) = conf.reach[id].codec
    <3>1. \A k \in DOMAIN zip : \A p \in ToSet(zip[k].plugins) :
            IsExternal(p, "input") /\ p.id = id =>
              conf.reach[id].codec = IF p.codec = NoCodec THEN "plain" ELSE p.codec
      BY <2>2 DEF TellsInputs
    <3>2. (IF id \in DOMAIN InputCodecs(zip) THEN InputCodecs(zip)[id] ELSE "plain")
            = conf.reach[id].codec
      BY <2>2, <3>1, CodecOf
    <3> QED
      BY <2>2, <3>2 DEF InputCodec
  <2> QED
    BY <2>1, <2>6, <2>7
<1> QED
  BY <1>1, <1>2, TestsOfTheRun, PTL

-----------------------------------------------------------------------------
(* The order of the results *)

\* A list of events as GetResults returns it.
IsEvents(list) ==
  IsSequence(list) /\ \A n \in DOMAIN list : list[n].id \in Int /\ list[n].out \in Int

\* Event m comes before event n in the sorted list, or is the same.
NotAfter(list, m, n) ==
  Before(list[m], list[n]) \/ (m <= n /\ Alike(list[m], list[n]))

Place(list, n) == Cardinality({m \in DOMAIN list : NotAfter(list, m, n)})

\* The places of a list.
LEMMA PlacesOf ==
  ASSUME NEW N \in Nat
  PROVE  IsFiniteSet(1..N) /\ Cardinality(1..N) = N
<1>1. /\ IsFiniteSet(1..N)
      /\ Cardinality(1..N) = IF 1 > N THEN 0 ELSE N - 1 + 1
  BY FS_Interval
<1> QED
  BY <1>1

\* This is a total order.
LEMMA NotAfterOrders ==
  ASSUME NEW list, IsEvents(list), NEW l \in DOMAIN list, NEW m \in DOMAIN list,
         NEW n \in DOMAIN list
  PROVE  /\ NotAfter(list, m, m)
         /\ NotAfter(list, m, n) \/ NotAfter(list, n, m)
         /\ NotAfter(list, m, n) /\ NotAfter(list, n, m) => m = n
         /\ NotAfter(list, l, m) /\ NotAfter(list, m, n) => NotAfter(list, l, n)
<1>1. l \in Int /\ m \in Int /\ n \in Int
  BY DEF IsEvents, IsSequence
<1>2. \A k \in {l, m, n} : list[k].id \in Int /\ list[k].out \in Int
  BY DEF IsEvents
<1> QED
  BY <1>1, <1>2 DEF NotAfter, Before, Alike

\* Of two events the earlier one has the lower place.
LEMMA PlacesDiffer ==
  ASSUME NEW list, IsEvents(list), NEW m \in DOMAIN list, NEW n \in DOMAIN list
  PROVE  /\ Place(list, m) \in 1..Len(list)
         /\ Place(list, m) <= Place(list, n) <=> NotAfter(list, m, n)
<1> DEFINE upTo(k) == {l \in DOMAIN list : NotAfter(list, l, k)}
<1>1. Len(list) \in Nat /\ DOMAIN list = 1..Len(list)
  BY DEF IsEvents, IsSequence
<1>2. IsFiniteSet(DOMAIN list) /\ Cardinality(DOMAIN list) = Len(list)
  BY <1>1, PlacesOf
<1>3. ASSUME NEW k \in DOMAIN list
      PROVE  IsFiniteSet(upTo(k)) /\ Place(list, k) \in 1..Len(list)
  <2>1. IsFiniteSet(upTo(k)) /\ Cardinality(upTo(k)) <= Len(list)
    <3>1. upTo(k) \in SUBSET DOMAIN list
      OBVIOUS
    <3> QED
      BY <1>2, <3>1, FS_Subset
  <2>2. k \in upTo(k)
    BY NotAfterOrders
  <2>3. Cardinality(upTo(k)) \in Nat /\ Cardinality(upTo(k)) # 0
    BY <2>1, <2>2, FS_CardinalityType, FS_EmptySet
  <2> QED
    BY <1>1, <2>1, <2>3 DEF Place
<1>4. ASSUME NEW j \in DOMAIN list, NEW k \in DOMAIN list, NotAfter(list, j, k)
      PROVE  /\ Place(list, j) <= Place(list, k)
             /\ Place(list, j) = Place(list, k) => j = k
  <2>1. upTo(j) \in SUBSET upTo(k)
    BY <1>4, NotAfterOrders
  <2>2. k \in upTo(k)
    BY NotAfterOrders
  <2>3. k \in upTo(j) => j = k
    BY <1>4, NotAfterOrders
  <2>4. /\ Cardinality(upTo(j)) <= Cardinality(upTo(k))
        /\ Cardinality(upTo(k)) = Cardinality(upTo(j)) => upTo(k) = upTo(j)
    BY <1>3, <2>1, FS_Subset
  <2> QED
    BY <2>2, <2>3, <2>4 DEF Place
<1>5. Place(list, m) \in 1..Len(list) /\ Place(list, n) \in 1..Len(list)
  BY <1>3
<1>6. CASE NotAfter(list, m, n)
  BY <1>4, <1>5, <1>6
<1>7. CASE ~NotAfter(list, m, n)
  <2>1. NotAfter(list, n, m) /\ m # n
    BY <1>7, NotAfterOrders
  <2>2. Place(list, n) <= Place(list, m) /\ Place(list, n) # Place(list, m)
    BY <2>1, <1>4
  <2> QED
    BY <1>1, <1>5, <1>7, <2>2
<1> QED
  BY <1>6, <1>7

\* Each place is taken.
LEMMA PlacesTaken ==
  ASSUME NEW list, IsEvents(list), NEW k \in DOMAIN list
  PROVE  \E n \in DOMAIN list : Place(list, n) = k
<1> DEFINE f == [n \in DOMAIN list |-> Place(list, n)]
<1>1. Len(list) \in Nat /\ DOMAIN list = 1..Len(list)
  BY DEF IsEvents, IsSequence
<1>2. f \in [DOMAIN list -> DOMAIN list]
  BY <1>1, PlacesDiffer
<1>3. \A m, n \in DOMAIN list : f[m] = f[n] => m = n
  <2> SUFFICES ASSUME NEW m \in DOMAIN list, NEW n \in DOMAIN list,
                      Place(list, m) = Place(list, n)
               PROVE  m = n
    OBVIOUS
  <2>1. Place(list, m) \in Int /\ Place(list, n) \in Int
    BY <1>1, PlacesDiffer
  <2>2. NotAfter(list, m, n) /\ NotAfter(list, n, m)
    BY <2>1, PlacesDiffer
  <2> QED
    BY <2>2, NotAfterOrders
<1>4. f \in Injection(DOMAIN list, DOMAIN list)
  BY <1>2, <1>3 DEF Injection, IsInjective
<1>5. IsFiniteSet(DOMAIN list)
  BY <1>1, FS_Interval
<1>6. f \in Surjection(DOMAIN list, DOMAIN list)
  BY <1>4, <1>5, FS_Injection
<1> QED
  BY <1>6 DEF Surjection

\* The sort of the results, for lists of any length: each event has a place of its
\* own in the sorted list, by its line and its output, and events that agree in
\* both keep their order (sort.Slice in postProcessResults, for lists it sorts by
\* insertion).
THEOREM SortIsStable ==
  ASSUME NEW list, IsEvents(list)
  PROVE  /\ DOMAIN StableSort(list) = DOMAIN list
         /\ \A n \in DOMAIN list : /\ Place(list, n) \in DOMAIN list
                                   /\ StableSort(list)[Place(list, n)] = list[n]
         /\ \A k \in DOMAIN list : \E n \in DOMAIN list : Place(list, n) = k
         /\ \A m, n \in DOMAIN list :
              Place(list, m) <= Place(list, n) <=> NotAfter(list, m, n)
<1>1. Len(list) \in Nat /\ DOMAIN list = 1..Len(list)
  BY DEF IsEvents, IsSequence
<1>2. StableSort(list) =
        [k \in DOMAIN list |-> list[CHOOSE n \in DOMAIN list : Place(list, n) = k]]
  BY DEF StableSort, Place, NotAfter
<1>3. ASSUME NEW n \in DOMAIN list
      PROVE  Place(list, n) \in DOMAIN list /\ StableSort(list)[Place(list, n)] = list[n]
  <2>1. Place(list, n) \in DOMAIN list
    BY <1>1, PlacesDiffer
  <2>2. \A m \in DOMAIN list : Place(list, m) = Place(list, n) => m = n
    <3> SUFFICES ASSUME NEW m \in DOMAIN list, Place(list, m) = Place(list, n)
                 PROVE  m = n
      OBVIOUS
    <3>1. Place(list, n) \in Int
      BY <1>1, <2>1
    <3>2. NotAfter(list, m, n) /\ NotAfter(list, n, m)
      BY <3>1, PlacesDiffer
    <3> QED
      BY <3>2, NotAfterOrders
  <2>3. (CHOOSE m \in DOMAIN list : Place(list, m) = Place(list, n)) = n
    BY <2>2
  <2> QED
    BY <1>2, <2>1, <2>3
<1> QED
  BY <1>2, <1>3, PlacesTaken, PlacesDiffer

\* Two lists of the same events, in which those that agree in line and output come
\* in the same order, are the same when they are sorted.
LEMMA SortForgetsOrder ==
  ASSUME NEW list, IsEvents(list), NEW other, IsEvents(other),
         NEW h \in [DOMAIN list -> DOMAIN other],
         \A k \in DOMAIN other : \E n \in DOMAIN list : h[n] = k,
         \A n \in DOMAIN list : other[h[n]] = list[n],
         \A m, n \in DOMAIN list :
           /\ h[m] = h[n] => m = n
           /\ Alike(list[m], list[n]) => (m <= n <=> h[m] <= h[n])
  PROVE  StableSort(list) = StableSort(other)
<1>1. /\ Len(list) \in Nat /\ DOMAIN list = 1..Len(list)
      /\ Len(other) \in Nat /\ DOMAIN other = 1..Len(other)
  BY DEF IsEvents, IsSequence
<1>2. IsFiniteSet(DOMAIN list) /\ IsFiniteSet(DOMAIN other)
      /\ Cardinality(DOMAIN list) = Len(list) /\ Cardinality(DOMAIN other) = Len(other)
  BY <1>1, PlacesOf
<1>3. h \in Bijection(DOMAIN list, DOMAIN other)
  BY DEF Bijection, Injection, Surjection, IsInjective
<1>4. DOMAIN list = DOMAIN other
  <2>1. ExistsBijection(DOMAIN list, DOMAIN other)
    BY <1>3 DEF ExistsBijection
  <2> QED
    BY <1>1, <1>2, <2>1, FS_Bijection
<1>5. ASSUME NEW m \in DOMAIN list, NEW n \in DOMAIN list
      PROVE  NotAfter(list, m, n) <=> NotAfter(other, h[m], h[n])
  BY DEF NotAfter
<1>6. ASSUME NEW n \in DOMAIN list
      PROVE  Place(list, n) = Place(other, h[n])
  <2> DEFINE S == {m \in DOMAIN list : NotAfter(list, m, n)}
             T == {k \in DOMAIN other : NotAfter(other, k, h[n])}
             g == [m \in S |-> h[m]]
  <2>1. g \in [S -> T]
    BY <1>5
  <2>2. \A t \in T : \E m \in S : g[m] = t
    <3> SUFFICES ASSUME NEW t \in T PROVE \E m \in S : h[m] = t
      OBVIOUS
    <3>1. PICK m \in DOMAIN list : h[m] = t
      OBVIOUS
    <3> QED
      BY <1>5, <3>1
  <2>3. g \in Bijection(S, T)
    BY <2>1, <2>2 DEF Bijection, Injection, Surjection, IsInjective
  <2>4. ExistsBijection(S, T)
    BY <2>3 DEF ExistsBijection
  <2>5. IsFiniteSet(S)
    <3>1. S \in SUBSET DOMAIN list
      OBVIOUS
    <3> QED
      BY <1>2, <3>1, FS_Subset
  <2> QED
    BY <2>4, <2>5, FS_Bijection DEF Place
<1>7. ASSUME NEW k \in DOMAIN list
      PROVE  StableSort(list)[k] = StableSort(other)[k]
  <2>1. PICK n \in DOMAIN list : Place(list, n) = k
    BY PlacesTaken
  <2>2. StableSort(list)[k] = list[n]
    BY <2>1, SortIsStable
  <2>3. StableSort(other)[k] = other[h[n]]
    BY <1>6, <2>1, SortIsStable
  <2> QED
    BY <2>2, <2>3
<1>8. /\ StableSort(list) = [k \in DOMAIN list |-> StableSort(list)[k]]
      /\ StableSort(other) = [k \in DOMAIN other |-> StableSort(other)[k]]
  BY DEF StableSort
<1> QED
  BY <1>4, <1>7, <1>8

\* Sequences of any elements, put together.
LEMMA FlattenAny ==
  ASSUME NEW N \in Nat, NEW seqs, seqs = [n \in 1..N |-> seqs[n]],
         \A n \in 1..N : IsSequence(seqs[n])
  PROVE  /\ IsSequence(FlattenSeq(seqs))
         /\ ToSet(FlattenSeq(seqs)) = UNION {ToSet(seqs[n]) : n \in 1..N}
<1> DEFINE S == UNION {ToSet(seqs[n]) : n \in 1..N}
<1>1. ASSUME NEW n \in 1..N PROVE seqs[n] \in Seq(S)
  <2>1. ToSet(seqs[n]) \subseteq S
    OBVIOUS
  <2>2. seqs[n] \in Seq(ToSet(seqs[n]))
    BY DEF IsSequence
  <2> HIDE DEF S
  <2> QED
    BY <2>1, <2>2, SeqMonotonic
<1> HIDE DEF S
<1>2. seqs \in Seq(Seq(S))
  BY <1>1, SequenceOf
<1>3. DOMAIN seqs = 1..N
  OBVIOUS
<1> QED
  BY <1>2, <1>3, FlattenElements, Sequence DEF S

\* An event in Logstash.
IsEvent(e) ==
  /\ e = [id |-> e.id, out |-> e.out, fields |-> e.fields, tags |-> e.tags, meta |-> e.meta]
  /\ e.id \in Int

\* It is made by the generator of one of the lines, as they are decoded.
IsMade(e, test, codec) ==
  \E k \in DOMAIN Decoded(conf, test, codec) : \E via, type :
    e = [InputGenerator(test, Decoded(conf, test, codec)[k], k, codec, via)
           EXCEPT !.fields = Over(Field(<<"type">>, type), @)]

\* What the generator makes is an event, numbered by its line.
LEMMA GeneratorMakesEvents ==
  ASSUME NEW test, NEW line, NEW k \in Int, NEW codec, NEW via
  PROVE  IsEvent(InputGenerator(test, line, k, codec, via))
<1>1. \A n \in Int : \A fields, tags, meta :
        IsEvent([id |-> n, out |-> NotShown, fields |-> fields, tags |-> tags, meta |-> meta])
  BY DEF IsEvent
<1>2. k - 1 \in Int
  OBVIOUS
<1> QED
  BY <1>1, <1>2, Zenon DEF InputGenerator

\* The generator numbers the events, and what the configuration emits are events.
LEMMA EmittedAre ==
  ASSUME IsRun(conf), NEW test, IsSequence(test.lines), NEW codec,
         NEW pipelines, IsSequence(pipelines)
  PROVE  /\ IsSequence(Emitted(conf, session, test, codec, pipelines))
         /\ \A e \in ToSet(Emitted(conf, session, test, codec, pipelines)) :
              IsEvent(e.event) /\ IsMade(e.event, test, codec)
<1> DEFINE number == IF codec \in DOMAIN conf.yield THEN conf.yield[codec] ELSE 1
           lines == Decoded(conf, test, codec)
           entries == Listeners(session, pipelines, InputAddress(SessionID, test.plugin))
           emits(k) == IF lines[k] \in DOMAIN conf.emits THEN conf.emits[lines[k]] ELSE << >>
           heard(k, n) == {c \in DOMAIN emits(k) :
                             emits(k)[c].exit \in DOMAIN Exits(session, pipelines, n)}
           chosen(k, n) == Chosen(emits(k), heard(k, n))
           event(k, n) == InputGenerator(test, lines[k], k, codec, pipelines[n].id[3])
           through(k, n) ==
             [c \in DOMAIN chosen(k, n) |->
                [to |-> Exits(session, pipelines, n)[chosen(k, n)[c].exit],
                 event |-> [event(k, n) EXCEPT
                              !.fields = Over(Field(<<"type">>, chosen(k, n)[c].type), @)]]]
           piece(k, n) == IF n \in entries THEN through(k, n) ELSE << >>
           inner(k) == [n \in DOMAIN pipelines |-> piece(k, n)]
           outer == [k \in DOMAIN lines |-> FlattenSeq(inner(k))]
           good(e) == IsEvent(e) /\ IsMade(e, test, codec)
<1>1. Emitted(conf, session, test, codec, pipelines) = FlattenSeq(outer)
  BY DEF Emitted
<1>2. IsSequence(lines)
  <2> DEFINE repeated == [n \in DOMAIN test.lines |-> [k \in 1..number |-> test.lines[n]]]
  <2>1. number \in Nat
    BY DEF IsRun
  <2>2. Len(test.lines) \in Nat /\ DOMAIN test.lines = 1..Len(test.lines)
    BY DEF IsSequence
  <2>3. \A n \in 1..Len(test.lines) : IsSequence(repeated[n])
    <3> SUFFICES ASSUME NEW n \in 1..Len(test.lines)
                 PROVE  IsSequence([k \in 1..number |-> test.lines[n]])
      BY <2>2
    <3>1. [k \in 1..number |-> test.lines[n]] \in Seq({test.lines[n]})
      BY <2>1
    <3> QED
      BY <3>1, Sequence
  <2>4. repeated = [n \in 1..Len(test.lines) |-> repeated[n]]
    BY <2>2
  <2> HIDE DEF repeated
  <2>5. IsSequence(FlattenSeq(repeated))
    BY <2>2, <2>3, <2>4, FlattenAny
  <2> QED
    BY <2>5 DEF Decoded, repeated
<1>3. /\ Len(lines) \in Nat /\ DOMAIN lines = 1..Len(lines)
      /\ Len(pipelines) \in Nat /\ DOMAIN pipelines = 1..Len(pipelines)
  BY <1>2 DEF IsSequence
<1> HIDE DEF lines, entries, good
<1>4. ASSUME NEW k \in DOMAIN lines, NEW n \in DOMAIN pipelines
      PROVE  IsSequence(through(k, n)) /\ \A e \in ToSet(through(k, n)) : good(e.event)
  <2>1. IsSequence(emits(k))
    <3>1. IsSequence(<< >>)
      BY DEF IsSequence
    <3> QED
      BY <3>1 DEF IsRun
  <2> HIDE DEF emits
  <2>2. IsSequence(chosen(k, n))
    BY <2>1, ChosenElements, Sequence DEF IsSequence
  <2>3. Len(chosen(k, n)) \in Nat /\ DOMAIN chosen(k, n) = 1..Len(chosen(k, n))
    BY <2>2 DEF IsSequence
  <2> DEFINE made == event(k, n)
  <2>4. IsEvent(made)
    <3>1. k \in Int
      BY <1>3
    <3> QED
      BY <3>1, GeneratorMakesEvents
  <2> HIDE DEF made, chosen
  <2> DEFINE one(c) == [to |-> Exits(session, pipelines, n)[chosen(k, n)[c].exit],
                        event |-> [made EXCEPT !.fields =
                                     Over(Field(<<"type">>, chosen(k, n)[c].type), @)]]
  <2>5. \A type : IsMade([made EXCEPT !.fields = Over(Field(<<"type">>, type), @)], test, codec)
    BY DEF IsMade, made, lines
  <2>6. \A c : good(one(c).event)
    <3> SUFFICES ASSUME NEW c
                 PROVE good([made EXCEPT !.fields =
                                    Over(Field(<<"type">>, chosen(k, n)[c].type), @)])
      OBVIOUS
    <3>1. \A f : IsEvent([made EXCEPT !.fields = f])
      BY <2>4 DEF IsEvent
    <3> QED
      BY <2>5, <3>1 DEF good
  <2>7. through(k, n) = [c \in DOMAIN chosen(k, n) |-> one(c)]
    BY DEF made
  <2> HIDE DEF one
  <2> DEFINE all == [c \in DOMAIN chosen(k, n) |-> one(c)]
  <2>8. all \in Seq({one(c) : c \in DOMAIN chosen(k, n)})
    BY <2>3
  <2>9. IsSequence(all)
    BY <2>8, Sequence
  <2>10. \A e \in ToSet(all) : good(e.event)
    BY <2>6 DEF ToSet
  <2> QED
    BY <2>7, <2>9, <2>10
<1> HIDE DEF through
<1>5. ASSUME NEW k \in DOMAIN lines
      PROVE  /\ IsSequence(FlattenSeq(inner(k)))
             /\ \A e \in ToSet(FlattenSeq(inner(k))) : good(e.event)
  <2>1. \A n \in 1..Len(pipelines) :
          IsSequence(piece(k, n)) /\ \A e \in ToSet(piece(k, n)) : good(e.event)
    <3>1. IsSequence(<< >>) /\ ToSet(<< >>) = {}
      BY DEF IsSequence, ToSet
    <3> QED
      BY <1>3, <1>4, <3>1
  <2>2. /\ inner(k) = [n \in 1..Len(pipelines) |-> inner(k)[n]]
        /\ \A n \in 1..Len(pipelines) : inner(k)[n] = piece(k, n)
    BY <1>3
  <2> HIDE DEF inner, piece
  <2>3. /\ IsSequence(FlattenSeq(inner(k)))
        /\ ToSet(FlattenSeq(inner(k))) = UNION {ToSet(inner(k)[n]) : n \in 1..Len(pipelines)}
    <3>1. Len(pipelines) \in Nat /\ \A n \in 1..Len(pipelines) : IsSequence(inner(k)[n])
      BY <1>3, <2>1, <2>2
    <3> QED
      BY <2>2, <3>1, FlattenAny
  <2> QED
    BY <2>1, <2>2, <2>3
<1> HIDE DEF inner
<1>6. outer = [k \in 1..Len(lines) |-> outer[k]]
      /\ \A k \in 1..Len(lines) : outer[k] = FlattenSeq(inner(k))
  BY <1>3
<1> HIDE DEF outer
<1>7. /\ IsSequence(FlattenSeq(outer))
      /\ ToSet(FlattenSeq(outer)) = UNION {ToSet(outer[k]) : k \in 1..Len(lines)}
  <2>1. \A k \in 1..Len(lines) : IsSequence(outer[k])
    BY <1>3, <1>5, <1>6
  <2> QED
    BY <1>3, <1>6, <2>1, FlattenAny
<1> QED
  BY <1>1, <1>3, <1>5, <1>6, <1>7 DEF good

-----------------------------------------------------------------------------
(* What the output pipelines print *)

OutPipelines == {n \in DOMAIN session.pipelines : session.pipelines[n].kind = "out"}

\* The number with which an output pipeline marks its events.
OutOfPipeline(n) == session.pipelines[n].config[1]

\* It is another one for each output pipeline.
LEMMA MarksDiffer ==
  ASSUME DataInv, main \in {"execute", "results"}, KeepsNames(conf)
  PROVE  /\ \A n \in OutPipelines : OutOfPipeline(n) \in Int
         /\ \A m, n \in OutPipelines : OutOfPipeline(m) = OutOfPipeline(n) => m = n
<1> DEFINE all == session.pipelines
           outs == OutsOf(zip)
           N == Len(conf.pipelines)
<1>1. /\ IsConfiguration(conf) /\ zip = ZipWithPreprocessor(conf)
      /\ IsSequence(zip) /\ \A f \in ToSet(zip) : IsFile(f)
      /\ all = SessionPipelines(conf, zip, SessionID)
  BY DataHere
<1>2. Arranged(all, conf, outs, SessionID)
  BY <1>1, SessionPipelinesAre
<1>3. IdsDiffer(all)
  BY <1>1, PipelineIdsDiffer
<1>4. ToSet(outs) = OutSet(zip)
  BY <1>1, OutputsOfFiles
<1> HIDE DEF all, outs, N
<1>5. ASSUME NEW n \in OutPipelines
      PROVE  \E saved \in Int : all[n] = OutOf(saved)
  <2>1. n \in DOMAIN all /\ all[n].kind = "out"
    BY DEF OutPipelines, all
  <2>2. ~(n \in 1..N)
    <3>1. SUFFICES ASSUME n \in 1..N PROVE FALSE
      OBVIOUS
    <3>2. PICK p : all[n] = SutPipeline(p, SessionID)
      BY <1>2, <3>1 DEF Arranged, N
    <3>3. SutPipeline(p, SessionID).kind = "sut"
      BY DEF SutPipeline
    <3> QED
      BY <2>1, <3>2, <3>3
  <2>3. PICK k \in DOMAIN outs : all[n] = outs[k]
    <3>1. /\ N \in Nat /\ Len(outs) \in Nat /\ n \in 1..N + Len(outs)
          /\ DOMAIN outs = 1..Len(outs)
      BY <1>2, <2>1 DEF Arranged, N
    <3>2. n - N \in 1..Len(outs) /\ N + (n - N) = n
      BY <2>2, <3>1
    <3> QED
      BY <1>2, <3>1, <3>2 DEF Arranged, N
  <2>4. all[n] \in OutSet(zip)
    BY <1>4, <2>3 DEF ToSet
  <2>5. PICK m \in DOMAIN zip : all[n] \in ToSet(CreateOutputPipelines(Outputs(zip[m])))
    BY <2>4 DEF OutSet, Pieces
  <2>6. IsFile(zip[m])
    BY <1>1 DEF ToSet
  <2>7. PICK saved \in ToSet(Outputs(zip[m])) : all[n] = OutOf(saved)
    BY <2>5, <2>6, OutputPipelinesAre DEF ToSet
  <2>8. PICK p \in ToSet(zip[m].plugins) : saved = PluginIDSave(p.id)
    BY <2>6, <2>7, OutputPipelinesAre
  <2>9. p.id \in Nat
    BY <2>6, <2>8 DEF IsFile, IsPlugin
  <2>10. saved \in Int
    BY <2>8, <2>9, SavedAssumption DEF PluginIDSave
  <2> QED
    BY <2>7, <2>10
<1>6. \A n \in OutPipelines : /\ OutOfPipeline(n) \in Int
                              /\ all[n].id = <<"lfv_output", OutOfPipeline(n)>>
  <2> SUFFICES ASSUME NEW n \in OutPipelines
               PROVE  /\ OutOfPipeline(n) \in Int
                      /\ all[n].id = <<"lfv_output", OutOfPipeline(n)>>
    OBVIOUS
  <2>1. PICK saved \in Int : all[n] = OutOf(saved)
    BY <1>5
  <2>2. all[n].config[1] = saved /\ all[n].id = <<"lfv_output", saved>>
    BY <2>1 DEF OutOf
  <2> QED
    BY <2>2 DEF OutOfPipeline, all
<1>7. OutPipelines \subseteq DOMAIN all
  BY DEF OutPipelines, all
<1> QED
  BY <1>3, <1>6, <1>7 DEF IdsDiffer

\* An output pipeline prints events with its mark, in an order.
IsPrinted(queues) ==
  /\ DOMAIN queues = OutPipelines
  /\ \A n \in OutPipelines :
       /\ IsSequence(queues[n])
       /\ \A k \in DOMAIN queues[n] : /\ queues[n][k].id \in Int
                                      /\ queues[n][k].out = OutOfPipeline(n)

LEMMA PrintedAre ==
  ASSUME DataInv, TestsInv, main \in {"execute", "results"}, NEW t \in DOMAIN tests
  PROVE  /\ IsPrinted(Printed(t))
         /\ \A n \in OutPipelines : \A k \in DOMAIN Printed(t)[n] : \E e :
              /\ IsMade(e, tests[t], InputCodec(session, tests[t].plugin))
              /\ Printed(t)[n][k] = OutputPipeline(e, OutOfPipeline(n))
<1> DEFINE test == tests[t]
           pipelines == Append(session.pipelines, InputPipeline(t))
           emitted == Emitted(conf, session, test, InputCodec(session, test.plugin), pipelines)
           places(n) == {k \in DOMAIN emitted : n \in emitted[k].to}
           of(n) == Chosen(emitted, places(n))
           good(e) == IsEvent(e) /\ IsMade(e, test, InputCodec(session, test.plugin))
<1>1. IsRun(conf)
  BY RunsAssumption DEF DataInv
<1>2. IsSequence(test.lines)
  <2>1. t \in DOMAIN conf.files /\ test \in New(conf.files[t])
    BY DEF TestsInv
  <2>2. /\ IsSequence(conf.files[t].cases)
        /\ \A tc \in ToSet(conf.files[t].cases) : IsSequence(tc.lines)
    BY <2>1, FilesHere
  <2> QED
    BY <2>1, <2>2, LinesHaveFields
<1>3. IsSequence(pipelines)
  <2>1. IsSequence(session.pipelines)
    BY DataHere, SessionPipelinesAre
  <2> DEFINE S == ToSet(session.pipelines) \cup {InputPipeline(t)}
  <2>2. session.pipelines \in Seq(S)
    <3>1. ToSet(session.pipelines) \subseteq S
      OBVIOUS
    <3> HIDE DEF S
    <3> QED
      BY <2>1, <3>1, SeqMonotonic DEF IsSequence
  <2>3. InputPipeline(t) \in S
    OBVIOUS
  <2> HIDE DEF S
  <2>4. pipelines \in Seq(S)
    BY <2>2, <2>3
  <2> QED
    BY <2>4, Sequence
<1> HIDE DEF pipelines, test
<1>4. IsSequence(emitted) /\ \A e \in ToSet(emitted) : good(e.event)
  BY <1>1, <1>2, <1>3, EmittedAre
<1>5. Printed(t) = [n \in OutPipelines |->
                      [k \in DOMAIN of(n) |-> OutputPipeline(of(n)[k].event, OutOfPipeline(n))]]
  BY DEF Printed, PrintedOf, OutPipelines, OutOfPipeline, pipelines, test
<1> HIDE DEF emitted, good
<1>6. ASSUME NEW n \in OutPipelines
      PROVE  /\ IsSequence(Printed(t)[n])
             /\ \A k \in DOMAIN Printed(t)[n] : /\ Printed(t)[n][k].id \in Int
                                                /\ Printed(t)[n][k].out = OutOfPipeline(n)
             /\ \A k \in DOMAIN Printed(t)[n] : \E e :
                  good(e) /\ Printed(t)[n][k] = OutputPipeline(e, OutOfPipeline(n))
  <2>1. of(n) \in Seq(ToSet(emitted)) /\ ToSet(of(n)) \subseteq ToSet(emitted)
    <3> HIDE DEF places
    <3>1. /\ of(n) \in Seq(ToSet(emitted))
          /\ ToSet(of(n)) = {emitted[k] : k \in DOMAIN emitted \cap places(n)}
      BY <1>4, ChosenElements DEF IsSequence
    <3> QED
      BY <3>1 DEF ToSet
  <2> DEFINE chosen == of(n)
             one(k) == OutputPipeline(chosen[k].event, OutOfPipeline(n))
             list == [k \in DOMAIN chosen |-> one(k)]
  <2>2. Len(chosen) \in Nat /\ DOMAIN chosen = 1..Len(chosen)
    BY <2>1
  <2>3. Printed(t)[n] = list
    BY <1>5
  <2>4. \A k \in DOMAIN chosen : good(chosen[k].event)
    BY <1>4, <2>1 DEF ToSet
  <2> HIDE DEF chosen
  <2>5. \A k \in DOMAIN chosen : one(k).id \in Int /\ one(k).out = OutOfPipeline(n)
    <3> SUFFICES ASSUME NEW k \in DOMAIN chosen
                 PROVE  one(k).id \in Int /\ one(k).out = OutOfPipeline(n)
      OBVIOUS
    <3>1. PICK e : e = chosen[k].event /\ good(e)
      BY <2>4
    <3>2. OutputPipeline(e, OutOfPipeline(n)).id \in Int
          /\ OutputPipeline(e, OutOfPipeline(n)).out = OutOfPipeline(n)
      BY <3>1 DEF good, IsEvent, OutputPipeline
    <3> QED
      BY <3>1, <3>2
  <2>8. \A k \in DOMAIN chosen : \E e : good(e) /\ one(k) = OutputPipeline(e, OutOfPipeline(n))
    BY <2>4
  <2> HIDE DEF one
  <2>6. list \in Seq({one(k) : k \in DOMAIN chosen})
    BY <2>2
  <2>7. IsSequence(list)
    BY <2>6, Sequence
  <2> QED
    BY <2>3, <2>5, <2>7, <2>8
<1>7. DOMAIN Printed(t) = OutPipelines
  BY <1>5
<1> QED
  BY <1>6, <1>7 DEF IsPrinted, good, test

-----------------------------------------------------------------------------
(* Orders in which the events of the output pipelines may come *)

\* Event i of the list is event nth[i] of queue of[i]; the first events of each
\* queue are in the list, as many as were taken, and in their order.
Weave(list, queues, taken, of, nth) ==
  /\ of \in [DOMAIN list -> DOMAIN queues] /\ nth \in [DOMAIN list -> Nat]
  /\ \A i \in DOMAIN list : nth[i] \in 1..taken[of[i]] /\ list[i] = queues[of[i]][nth[i]]
  /\ \A n \in DOMAIN queues : \A k \in 1..taken[n] :
       \E i \in DOMAIN list : of[i] = n /\ nth[i] = k
  /\ \A i, j \in DOMAIN list : of[i] = of[j] => (i <= j <=> nth[i] <= nth[j])

\* The list has all events of the queues, those of a queue in their order.
Interleaves(list, queues) ==
  /\ IsSequence(list)
  /\ \E of, nth : Weave(list, queues, [n \in DOMAIN queues |-> Len(queues[n])], of, nth)

\* The list has the events that are not left.
Arrived(list, left, queues) ==
  /\ IsSequence(list) /\ DOMAIN left = DOMAIN queues
  /\ \E taken \in [DOMAIN queues -> Nat] :
       /\ \A n \in DOMAIN queues :
            /\ IsSequence(left[n]) /\ Len(left[n]) + taken[n] = Len(queues[n])
            /\ \A k \in 1..Len(left[n]) : left[n][k] = queues[n][taken[n] + k]
       /\ \E of, nth : Weave(list, queues, taken, of, nth)

\* At first there are none,
LEMMA ArrivedNone ==
  ASSUME NEW queues, \A n \in DOMAIN queues : IsSequence(queues[n])
  PROVE  Arrived(<< >>, queues, queues)
<1> DEFINE taken == [n \in DOMAIN queues |-> 0]
<1>1. taken \in [DOMAIN queues -> Nat] /\ \A n \in DOMAIN queues : taken[n] = 0
  OBVIOUS
<1>2. IsSequence(<< >>) /\ DOMAIN << >> = {}
  BY DEF IsSequence
<1> HIDE DEF taken
<1>3. Weave(<< >>, queues, taken, << >>, << >>)
  BY <1>1, <1>2 DEF Weave
<1>4. ASSUME NEW n \in DOMAIN queues
      PROVE  /\ IsSequence(queues[n]) /\ Len(queues[n]) + taken[n] = Len(queues[n])
             /\ \A k \in 1..Len(queues[n]) : queues[n][k] = queues[n][taken[n] + k]
  BY <1>1 DEF IsSequence
<1> QED
  BY <1>1, <1>2, <1>3, <1>4 DEF Arrived

\* then one after the other comes, of any of the queues,
LEMMA ArrivedNext ==
  ASSUME NEW list, NEW left, NEW queues, Arrived(list, left, queues),
         NEW n \in DOMAIN left, left[n] # << >>,
         NEW longer, longer = Append(list, Head(left[n])),
         NEW less, less = [left EXCEPT ![n] = Tail(@)]
  PROVE  Arrived(longer, less, queues)
<1>1. /\ IsSequence(list) /\ DOMAIN left = DOMAIN queues /\ n \in DOMAIN queues
  BY DEF Arrived
<1>2. PICK taken \in [DOMAIN queues -> Nat] :
        /\ \A m \in DOMAIN queues :
             /\ IsSequence(left[m]) /\ Len(left[m]) + taken[m] = Len(queues[m])
             /\ \A k \in 1..Len(left[m]) : left[m][k] = queues[m][taken[m] + k]
        /\ \E of, nth : Weave(list, queues, taken, of, nth)
  BY DEF Arrived
<1>3. PICK of, nth : Weave(list, queues, taken, of, nth)
  BY <1>2
<1> DEFINE T == taken[n] + 1
           N == Len(list)
           e == Head(left[n])
           more == [taken EXCEPT ![n] = T]
           ofs == [i \in 1..N + 1 |-> IF i = N + 1 THEN n ELSE of[i]]
           nths == [i \in 1..N + 1 |-> IF i = N + 1 THEN T ELSE nth[i]]
<1>4. N \in Nat /\ DOMAIN list = 1..N
  BY <1>1 DEF IsSequence
<1>5. /\ left[n] \in Seq(ToSet(left[n])) /\ Len(left[n]) \in Nat \ {0}
      /\ e = left[n][1]
  BY <1>1, <1>2 DEF IsSequence
<1>6. /\ DOMAIN longer = 1..N + 1 /\ longer[N + 1] = e
      /\ \A i \in 1..N : longer[i] = list[i]
      /\ IsSequence(longer)
  <2> DEFINE S == ToSet(list) \cup {e}
  <2>1. list \in Seq(S)
    <3>1. ToSet(list) \subseteq S
      OBVIOUS
    <3> HIDE DEF S
    <3> QED
      BY <1>1, <3>1, SeqMonotonic DEF IsSequence
  <2>2. e \in S
    OBVIOUS
  <2> HIDE DEF S, e
  <2>3. Append(list, e) \in Seq(S)
    BY <2>1, <2>2
  <2>4. /\ DOMAIN Append(list, e) = 1..N + 1 /\ Append(list, e)[N + 1] = e
        /\ \A i \in 1..N : Append(list, e)[i] = list[i]
    BY <2>1, <2>2
  <2> QED
    BY <2>3, <2>4, Sequence DEF e
<1>7. e = queues[n][T]
  <2>1. 1 \in 1..Len(left[n])
    BY <1>5
  <2>2. \A k \in 1..Len(left[n]) : left[n][k] = queues[n][taken[n] + k]
    BY <1>1, <1>2
  <2>3. left[n][1] = queues[n][taken[n] + 1]
    BY <2>1, <2>2
  <2> QED
    BY <1>5, <2>3
<1>8. /\ Tail(left[n]) \in Seq(ToSet(left[n])) /\ Len(Tail(left[n])) = Len(left[n]) - 1
      /\ \A k \in 1..Len(left[n]) - 1 : Tail(left[n])[k] = left[n][k + 1]
  BY <1>5
<1>9. T \in Nat /\ taken[n] \in Nat
  BY <1>1
<1> HIDE DEF T, N, e
<1>10. /\ more \in [DOMAIN queues -> Nat] /\ more[n] = T
       /\ \A m \in DOMAIN queues : m # n => more[m] = taken[m]
  BY <1>1, <1>9
<1>11. /\ ofs \in [1..N + 1 -> DOMAIN queues] /\ nths \in [1..N + 1 -> Nat]
       /\ ofs[N + 1] = n /\ nths[N + 1] = T
       /\ \A i \in 1..N : ofs[i] = of[i] /\ nths[i] = nth[i] /\ i \in 1..N + 1
  <2>1. of \in [1..N -> DOMAIN queues] /\ nth \in [1..N -> Nat]
    BY <1>3, <1>4 DEF Weave
  <2> QED
    BY <1>1, <1>4, <1>9, <2>1
<1> HIDE DEF more, ofs, nths
<1>12. Weave(longer, queues, more, ofs, nths)
  <2>1. ASSUME NEW i \in 1..N + 1
        PROVE  nths[i] \in 1..more[ofs[i]] /\ longer[i] = queues[ofs[i]][nths[i]]
    <3>1. CASE i = N + 1
      BY <1>6, <1>7, <1>9, <1>10, <1>11, <3>1 DEF T
    <3>2. CASE i \in 1..N
      <4>1. nth[i] \in 1..taken[of[i]] /\ list[i] = queues[of[i]][nth[i]]
            /\ of[i] \in DOMAIN queues
        BY <1>3, <1>4, <3>2 DEF Weave
      <4>2. /\ taken[of[i]] \in Nat /\ more[of[i]] \in Nat
            /\ taken[of[i]] <= more[of[i]]
        <5>1. taken[of[i]] \in Nat /\ more[of[i]] \in Nat
          BY <1>10, <4>1
        <5>2. CASE of[i] = n
          BY <1>9, <1>10, <5>1, <5>2 DEF T
        <5>3. CASE of[i] # n
          BY <1>10, <4>1, <5>1, <5>3
        <5> QED
          BY <5>1, <5>2, <5>3
      <4>3. nth[i] \in 1..more[of[i]]
        BY <4>1, <4>2
      <4> QED
        BY <1>6, <1>11, <3>2, <4>1, <4>3
    <3>3. i = N + 1 \/ i \in 1..N
      BY <1>4
    <3> QED
      BY <3>1, <3>2, <3>3
  <2>2. ASSUME NEW m \in DOMAIN queues, NEW k \in 1..more[m]
        PROVE  \E i \in DOMAIN longer : ofs[i] = m /\ nths[i] = k
    <3>1. CASE m = n /\ k = T
      BY <1>4, <1>6, <1>11, <3>1
    <3>2. CASE ~(m = n /\ k = T)
      <4>1. k \in 1..taken[m]
        BY <1>9, <1>10, <3>2 DEF T
      <4>2. PICK i \in 1..N : of[i] = m /\ nth[i] = k
        BY <1>3, <1>4, <4>1 DEF Weave
      <4> QED
        BY <1>6, <1>11, <4>2
    <3> QED
      BY <3>1, <3>2
  <2>3. ASSUME NEW i \in 1..N + 1, NEW j \in 1..N + 1, ofs[i] = ofs[j]
        PROVE  i <= j <=> nths[i] <= nths[j]
    <3>1. \A l \in 1..N : of[l] = n => nth[l] \in 1..taken[n]
      BY <1>3, <1>4 DEF Weave
    <3>2. CASE i \in 1..N /\ j \in 1..N
      BY <1>3, <1>4, <1>11, <2>3, <3>2 DEF Weave
    <3>3. CASE i = N + 1 /\ j = N + 1
      BY <1>4, <1>9, <1>11, <3>3
    <3>4. CASE i \in 1..N /\ j = N + 1
      <4>1. nths[i] \in 1..taken[n] /\ nths[j] = T
        BY <1>11, <2>3, <3>1, <3>4
      <4> QED
        BY <1>4, <1>9, <3>4, <4>1 DEF T
    <3>5. CASE i = N + 1 /\ j \in 1..N
      <4>1. nths[j] \in 1..taken[n] /\ nths[i] = T
        BY <1>11, <2>3, <3>1, <3>5
      <4> QED
        BY <1>4, <1>9, <3>5, <4>1 DEF T
    <3> QED
      BY <1>4, <3>2, <3>3, <3>4, <3>5
  <2>4. DOMAIN longer = 1..N + 1
    BY <1>6
  <2>5. ofs \in [DOMAIN longer -> DOMAIN queues] /\ nths \in [DOMAIN longer -> Nat]
    BY <1>11, <2>4
  <2>6. \A i \in DOMAIN longer :
          nths[i] \in 1..more[ofs[i]] /\ longer[i] = queues[ofs[i]][nths[i]]
    BY <2>1, <2>4
  <2>7. \A m \in DOMAIN queues : \A k \in 1..more[m] :
          \E i \in DOMAIN longer : ofs[i] = m /\ nths[i] = k
    BY <2>2, Zenon
  <2>8. \A i, j \in DOMAIN longer : ofs[i] = ofs[j] => (i <= j <=> nths[i] <= nths[j])
    BY <2>3, <2>4
  <2> QED
    BY <2>5, <2>6, <2>7, <2>8 DEF Weave
<1>13. ASSUME NEW m \in DOMAIN queues
       PROVE  /\ IsSequence(less[m]) /\ Len(less[m]) + more[m] = Len(queues[m])
              /\ \A k \in 1..Len(less[m]) : less[m][k] = queues[m][more[m] + k]
  <2>1. CASE m # n
    <3>1. less[m] = left[m] /\ more[m] = taken[m]
      BY <1>1, <1>10, <2>1
    <3> QED
      BY <1>2, <3>1
  <2>2. CASE m = n
    <3>1. less[n] = Tail(left[n]) /\ more[n] = taken[n] + 1
      BY <1>1, <1>10 DEF T
    <3>2. IsSequence(less[n])
      BY <1>8, <3>1, Sequence
    <3>3. Len(left[n]) + taken[n] = Len(queues[n]) /\ Len(left[n]) \in Nat \ {0}
      BY <1>1, <1>2, <1>5
    <3>4. Len(less[n]) = Len(left[n]) - 1
      BY <1>8, <3>1
    <3>5. ASSUME NEW k \in 1..Len(less[n]) PROVE less[n][k] = queues[n][more[n] + k]
      <4>1. k \in 1..Len(left[n]) - 1 /\ k + 1 \in 1..Len(left[n])
        BY <3>3, <3>4
      <4>2. less[n][k] = left[n][k + 1]
        BY <1>8, <3>1, <4>1
      <4>3. left[n][k + 1] = queues[n][taken[n] + (k + 1)]
        BY <1>1, <1>2, <4>1
      <4>4. \A a, b \in Int : a + (b + 1) = (a + 1) + b
        OBVIOUS
      <4>5. k \in Int /\ taken[n] \in Int
        BY <1>9, <3>3, <4>1
      <4>6. taken[n] + (k + 1) = more[n] + k
        BY <3>1, <4>4, <4>5
      <4> QED
        BY <4>2, <4>3, <4>6
    <3> QED
      BY <1>9, <2>2, <3>1, <3>2, <3>3, <3>4, <3>5
  <2> QED
    BY <2>1, <2>2
<1>14. DOMAIN less = DOMAIN queues
  BY <1>1
<1> QED
  BY <1>6, <1>10, <1>12, <1>13, <1>14 DEF Arrived

\* and at last all have come.
LEMMA ArrivedAll ==
  ASSUME NEW list, NEW left, NEW queues, Arrived(list, left, queues),
         \A n \in DOMAIN left : left[n] = << >>,
         \A n \in DOMAIN queues : IsSequence(queues[n])
  PROVE  Interleaves(list, queues)
<1>1. PICK taken \in [DOMAIN queues -> Nat] :
        /\ \A n \in DOMAIN queues : Len(left[n]) + taken[n] = Len(queues[n])
        /\ \E of, nth : Weave(list, queues, taken, of, nth)
  BY DEF Arrived
<1>2. \A n \in DOMAIN queues : taken[n] = Len(queues[n])
  BY <1>1 DEF Arrived, IsSequence
<1>3. taken = [n \in DOMAIN queues |-> Len(queues[n])]
  BY <1>2
<1> QED
  BY <1>1, <1>3 DEF Arrived, Interleaves

\* Events of output pipelines that print with different marks: of two lists of all
\* of them, the same comes when they are sorted.
LEMMA OrdersSortAlike ==
  ASSUME NEW queues, IsPrinted(queues),
         \A n \in OutPipelines : OutOfPipeline(n) \in Int,
         \A m, n \in OutPipelines : OutOfPipeline(m) = OutOfPipeline(n) => m = n,
         NEW list, Interleaves(list, queues), NEW other, Interleaves(other, queues)
  PROVE  /\ DOMAIN list = DOMAIN other
         /\ StableSort(list) = StableSort(other)
<1> DEFINE all == [n \in DOMAIN queues |-> Len(queues[n])]
<1>1. /\ DOMAIN queues = OutPipelines
      /\ \A n \in OutPipelines : /\ Len(queues[n]) \in Nat
                                 /\ DOMAIN queues[n] = 1..Len(queues[n])
                                 /\ all[n] = Len(queues[n])
  BY DEF IsPrinted, IsSequence
<1>2. PICK of, nth : Weave(list, queues, all, of, nth)
  BY DEF Interleaves
<1>3. PICK of2, nth2 : Weave(other, queues, all, of2, nth2)
  BY DEF Interleaves
<1> HIDE DEF all
<1>4. ASSUME NEW l, NEW o, NEW t, IsSequence(l), Weave(l, queues, all, o, t)
      PROVE  /\ \A i \in DOMAIN l : /\ i \in Int /\ o[i] \in OutPipelines /\ t[i] \in Nat
                                    /\ t[i] \in 1..all[o[i]]
                                    /\ l[i] = queues[o[i]][t[i]]
                                    /\ l[i].id \in Int /\ l[i].out = OutOfPipeline(o[i])
             /\ IsEvents(l)
             /\ \A i, j \in DOMAIN l : o[i] = o[j] /\ t[i] = t[j] => i = j
  <2>1. \A i \in DOMAIN l : /\ i \in Int /\ o[i] \in OutPipelines /\ t[i] \in Nat
                            /\ t[i] \in 1..all[o[i]] /\ l[i] = queues[o[i]][t[i]]
    BY <1>1, <1>4 DEF Weave, IsSequence
  <2>2. \A i \in DOMAIN l : l[i].id \in Int /\ l[i].out = OutOfPipeline(o[i])
    BY <1>1, <2>1 DEF IsPrinted
  <2>3. IsEvents(l)
    BY <1>4, <2>1, <2>2 DEF IsEvents
  <2>4. ASSUME NEW i \in DOMAIN l, NEW j \in DOMAIN l, o[i] = o[j], t[i] = t[j]
        PROVE  i = j
    <3>1. i <= j /\ j <= i
      BY <1>4, <2>1, <2>4 DEF Weave
    <3> QED
      BY <2>1, <3>1
  <2> QED
    BY <2>1, <2>2, <2>3, <2>4
<1>5. IsSequence(list) /\ IsSequence(other)
  BY DEF Interleaves
<1> DEFINE same(i, j) == of2[j] = of[i] /\ nth2[j] = nth[i]
           h == [i \in DOMAIN list |-> CHOOSE j \in DOMAIN other : same(i, j)]
<1>6. ASSUME NEW i \in DOMAIN list
      PROVE  h[i] \in DOMAIN other /\ of2[h[i]] = of[i] /\ nth2[h[i]] = nth[i]
  <2>1. of[i] \in DOMAIN queues /\ nth[i] \in 1..all[of[i]]
    BY <1>1, <1>2, <1>4, <1>5
  <2>2. \E j \in DOMAIN other : same(i, j)
    BY <1>3, <2>1 DEF Weave
  <2>3. h[i] \in DOMAIN other /\ same(i, h[i])
    BY <2>2
  <2> QED
    BY <2>3
<1>7. h \in [DOMAIN list -> DOMAIN other]
  BY <1>6
<1> HIDE DEF h
<1>8. ASSUME NEW j \in DOMAIN other
      PROVE  \E i \in DOMAIN list : h[i] = j
  <2>1. of2[j] \in DOMAIN queues /\ nth2[j] \in 1..all[of2[j]]
    BY <1>1, <1>3, <1>4, <1>5
  <2>2. PICK i \in DOMAIN list : of[i] = of2[j] /\ nth[i] = nth2[j]
    BY <1>2, <2>1 DEF Weave
  <2>3. h[i] = j
    BY <1>3, <1>4, <1>5, <1>6, <2>2
  <2> QED
    BY <2>3
<1>9. \A i \in DOMAIN list : other[h[i]] = list[i]
  BY <1>2, <1>3, <1>4, <1>5, <1>6
<1>10. ASSUME NEW i \in DOMAIN list, NEW j \in DOMAIN list
       PROVE  /\ h[i] = h[j] => i = j
              /\ Alike(list[i], list[j]) => (i <= j <=> h[i] <= h[j])
  <2>1. h[i] = h[j] => i = j
    BY <1>2, <1>4, <1>5, <1>6
  <2>2. ASSUME Alike(list[i], list[j]) PROVE i <= j <=> h[i] <= h[j]
    <3>1. /\ list[i].out = OutOfPipeline(of[i]) /\ list[j].out = OutOfPipeline(of[j])
          /\ list[i].id \in Int /\ list[j].id \in Int
          /\ of[i] \in OutPipelines /\ of[j] \in OutPipelines
      BY <1>2, <1>4, <1>5
    <3>2. OutOfPipeline(of[i]) = OutOfPipeline(of[j])
      BY <2>2, <3>1 DEF Alike, Before
    <3>3. of[i] = of[j]
      BY <3>1, <3>2
    <3>4. i <= j <=> nth[i] <= nth[j]
      BY <1>2, <3>3 DEF Weave
    <3>5. h[i] <= h[j] <=> nth2[h[i]] <= nth2[h[j]]
      BY <1>3, <1>6, <3>3 DEF Weave
    <3> QED
      BY <1>6, <3>4, <3>5
  <2> QED
    BY <2>1, <2>2
<1>11. IsEvents(list) /\ IsEvents(other)
  BY <1>2, <1>3, <1>4, <1>5
<1>12. StableSort(list) = StableSort(other)
  BY <1>7, <1>8, <1>9, <1>10, <1>11, SortForgetsOrder
<1>13. DOMAIN StableSort(list) = DOMAIN list /\ DOMAIN StableSort(other) = DOMAIN other
  BY <1>11, SortIsStable
<1> QED
  BY <1>12, <1>13

-----------------------------------------------------------------------------
(* The verdict, for every order *)

\* The verdict of Compare, were these the results.
RightAs(list, test, debug) ==
  Same([n \in DOMAIN list |-> PostProcess(StableSort(list)[n], test, debug)], test)

\* Sets that are right in whatever order their events come, those that are right in
\* an order they may come in, and sets of no more events than sort.Slice sorts by
\* insertion.
RightInEvery(c, s, ts, sets) ==
  \A t \in sets : \A list : Interleaves(list, PrintedOf(c, s, ts[t], t)) =>
                              RightAs(list, ts[t], c.debug)
RightInSome(c, s, ts, sets) ==
  \A t \in sets : \E list : /\ Interleaves(list, PrintedOf(c, s, ts[t], t))
                            /\ RightAs(list, ts[t], c.debug)
FewEvents(c, s, ts) ==
  \A t \in DOMAIN ts : \A list : Interleaves(list, PrintedOf(c, s, ts[t], t)) =>
                                   Len(list) <= StableUpTo

JudgedBy(passed, sets) ==
  /\ passed <=> RightInEvery(conf, session, tests, sets)
  /\ passed <=> RightInSome(conf, session, tests, sets)

\* The verdict is right or wrong for all orders in which Logstash may print.
ForgetsOrder ==
  FewEvents(conf, session, tests) =>
    /\ main \in {"execute", "results"} => JudgedBy(ok, 1..cur - 1)
    /\ main = "returned" /\ outcome \in {"pass", "fail"} =>
         JudgedBy(outcome = "pass", DOMAIN tests)

OrderInv ==
  /\ main \in {"archive", "tests", "setup"} => ok = TRUE /\ cur = 1
  /\ main # "returned" => outcome = "none"
  /\ main = "results" => Arrived(results, queue, Printed(cur))
  /\ ForgetsOrder

\* One set more, of which the results in an order are at hand, and all orders of
\* them sort alike.
LEMMA JudgeNext ==
  ASSUME NEW c, NEW s, NEW ts, NEW t \in Nat \ {0}, NEW results0,
         Interleaves(results0, PrintedOf(c, s, ts[t], t)),
         \A list : Interleaves(list, PrintedOf(c, s, ts[t], t)) =>
                     DOMAIN list = DOMAIN results0 /\ StableSort(list) = StableSort(results0),
         NEW passed \in BOOLEAN,
         passed <=> RightInEvery(c, s, ts, 1..t - 1),
         passed <=> RightInSome(c, s, ts, 1..t - 1),
         NEW now, now = (passed /\ RightAs(results0, ts[t], c.debug))
  PROVE  /\ now <=> RightInEvery(c, s, ts, 1..t)
         /\ now <=> RightInSome(c, s, ts, 1..t)
<1> DEFINE right == RightAs(results0, ts[t], c.debug)
           orders(l, i) == Interleaves(l, PrintedOf(c, s, ts[i], i))
<1>1. \A list : orders(list, t) => (RightAs(list, ts[t], c.debug) <=> right)
  BY DEF RightAs
<1>2. 1..t = (1..t - 1) \cup {t}
  OBVIOUS
<1> HIDE DEF right
<1>3. RightInEvery(c, s, ts, 1..t) <=> RightInEvery(c, s, ts, 1..t - 1) /\ right
  <2>1. RightInEvery(c, s, ts, {t}) <=> right
    BY <1>1 DEF RightInEvery
  <2>2. RightInEvery(c, s, ts, 1..t) <=>
          RightInEvery(c, s, ts, 1..t - 1) /\ RightInEvery(c, s, ts, {t})
    BY <1>2 DEF RightInEvery
  <2> QED
    BY <2>1, <2>2
<1>4. RightInSome(c, s, ts, 1..t) <=> RightInSome(c, s, ts, 1..t - 1) /\ right
  <2>1. RightInSome(c, s, ts, {t}) <=> right
    BY <1>1 DEF RightInSome
  <2>2. RightInSome(c, s, ts, 1..t) <=>
          RightInSome(c, s, ts, 1..t - 1) /\ RightInSome(c, s, ts, {t})
    BY <1>2 DEF RightInSome
  <2> QED
    BY <2>1, <2>2
<1>5. now <=> passed /\ right
  BY DEF right
<1> QED
  BY <1>3, <1>4, <1>5

\* If a run passes, it does so in whatever order the output pipelines print, and if
\* it fails, it fails in each: the sort of the results brings every order in which
\* they may arrive into one (postProcessResults, GetResults), in every run whose
\* names tell the outputs apart and whose sets have no more events than sort.Slice
\* sorts by insertion.
THEOREM VerdictForgetsOrder ==
  (\A c \in Runs : ZipFails(Given(c)) \/ KeepsNames(Given(c))) =>
    (Spec => []ForgetsOrder)
<1>1. SUFFICES ASSUME \A c \in Runs : ZipFails(Given(c)) \/ KeepsNames(Given(c))
               PROVE  Spec => []ForgetsOrder
  OBVIOUS
<1>2. Init => OrderInv
  BY DEF Init, OrderInv, ForgetsOrder
<1>3. DataInv /\ TestsInv /\ OrderInv /\ [Next]_vars => OrderInv'
  <2> SUFFICES ASSUME DataInv, TestsInv, OrderInv, [Next]_vars PROVE OrderInv'
    OBVIOUS
  <2>1. main \in {"execute", "results"} => KeepsNames(conf)
    BY <1>1, DataHere
  <2>2. main \in {"execute", "results"} =>
          /\ Len(conf.files) \in Nat
          /\ DOMAIN tests = 1..Len(conf.files) /\ Len(tests) = Len(conf.files)
    <3>1. Len(conf.files) \in Nat /\ DOMAIN conf.files = 1..Len(conf.files)
      BY FilesHere
    <3> QED
      BY <3>1 DEF TestsInv, IsSequence
  <2>3. CASE BuildArchive
    <3>1. /\ main = "archive" /\ UNCHANGED <<cur, ok>>
          /\ \/ main' = "tests" /\ outcome' = outcome
             \/ main' = "returned" /\ outcome' = "error"
      BY <2>3 DEF BuildArchive, Return, Goto
    <3> QED
      BY <3>1 DEF OrderInv, ForgetsOrder
  <2>4. CASE DiscoverTests
    <3>1. /\ main = "tests" /\ UNCHANGED <<cur, ok>>
          /\ \/ main' = "setup" /\ outcome' = outcome
             \/ main' = "returned" /\ outcome' \in {"error", "panic"}
      BY <2>4 DEF DiscoverTests, Return, Goto
    <3> QED
      BY <3>1 DEF OrderInv, ForgetsOrder
  <2>5. CASE SetupTest
    <3>1. /\ main = "setup" /\ main' = "execute" /\ UNCHANGED <<cur, ok, outcome>>
      BY <2>5 DEF SetupTest, Goto
    <3>2. ok' = TRUE /\ cur' = 1 /\ outcome' = "none"
      BY <3>1 DEF OrderInv
    <3>3. 1..cur' - 1 = {}
      BY <3>2
    <3>4. \A c, s, ts : RightInEvery(c, s, ts, {}) /\ RightInSome(c, s, ts, {})
      BY DEF RightInEvery, RightInSome
    <3>5. JudgedBy(ok, 1..cur - 1)'
      BY <3>2, <3>3, <3>4 DEF JudgedBy
    <3> QED
      BY <3>1, <3>2, <3>5 DEF OrderInv, ForgetsOrder
  <2>6. CASE ExecuteTest
    <3>1. /\ main = "execute" /\ main' = "results" /\ cur <= Len(tests)
          /\ queue' = Printed(cur) /\ results' = << >>
          /\ UNCHANGED <<conf, tests, session, cur, ok, outcome>>
      BY <2>6 DEF ExecuteTest, Goto
    <3>2. cur \in DOMAIN tests
      BY <2>2, <3>1 DEF TestsInv
    <3>3. IsPrinted(Printed(cur))
      BY <3>1, <3>2, PrintedAre
    <3>4. Arrived(<< >>, Printed(cur), Printed(cur))
      BY <3>3, ArrivedNone DEF IsPrinted
    <3>5. Printed(cur)' = Printed(cur)
      BY <3>1 DEF Printed
    <3>6. Arrived(results', queue', Printed(cur)')
      BY <3>1, <3>4, <3>5
    <3>7. ForgetsOrder'
      BY <3>1 DEF OrderInv, ForgetsOrder, JudgedBy
    <3> QED
      BY <3>1, <3>6, <3>7 DEF OrderInv
  <2>7. CASE \E n \in DOMAIN queue : Arrive(n)
    <3>1. PICK n \in DOMAIN queue : Arrive(n)
      BY <2>7
    <3>2. /\ main = "results" /\ queue[n] # << >>
          /\ queue' = [queue EXCEPT ![n] = Tail(@)]
          /\ results' = Append(results, Head(queue[n]))
          /\ UNCHANGED <<conf, main, tests, session, cur, ok, outcome>>
      BY <3>1 DEF Arrive
    <3>3. Arrived(results, queue, Printed(cur))
      BY <3>2 DEF OrderInv
    <3>4. Arrived(results', queue', Printed(cur))
      BY <3>2, <3>3, ArrivedNext
    <3>5. Printed(cur)' = Printed(cur)
      BY <3>2 DEF Printed
    <3>6. ForgetsOrder'
      BY <3>2 DEF OrderInv, ForgetsOrder, JudgedBy
    <3> QED
      BY <3>2, <3>4, <3>5, <3>6 DEF OrderInv
  <2>8. CASE CompareResults
    <3>1. /\ main = "results" /\ main' = "execute" /\ cur' = cur + 1
          /\ \A n \in DOMAIN queue : queue[n] = << >>
          /\ UNCHANGED <<conf, tests, session, outcome>>
      BY <2>8 DEF CompareResults, Goto
    <3>2. cur \in DOMAIN tests /\ cur \in Nat \ {0}
      BY <2>2, <3>1 DEF TestsInv
    <3>3. IsPrinted(Printed(cur))
      BY <3>1, <3>2, PrintedAre
    <3>4. Interleaves(results, Printed(cur))
      BY <3>1, <3>3, ArrivedAll DEF OrderInv, IsPrinted
    <3>5. \A list : Interleaves(list, Printed(cur)) =>
                      DOMAIN list = DOMAIN results /\ StableSort(list) = StableSort(results)
      BY <2>1, <3>1, <3>3, <3>4, MarksDiffer, OrdersSortAlike
    <3>6. SUFFICES ASSUME FewEvents(conf, session, tests)
                   PROVE  JudgedBy(ok, 1..cur - 1)'
      BY <3>1 DEF OrderInv, ForgetsOrder
    <3>7. Sorted(results) = {StableSort(results)}
      <4>1. Len(results) <= StableUpTo
        BY <3>2, <3>4, <3>6 DEF FewEvents, Printed
      <4>2. Len(results) \in Nat /\ DOMAIN results = 1..Len(results)
        BY <3>4 DEF Interleaves, IsSequence
      <4>3. Len(StableSort(results)) = Len(results)
        BY <4>2 DEF StableSort
      <4> QED
        BY <4>1, <4>3 DEF Sorted
    <3>8. ok' = (ok /\ RightAs(results, tests[cur], conf.debug))
      <4>1. DOMAIN StableSort(results) = DOMAIN results
        BY DEF StableSort
      <4>2. PICK sorted \in Sorted(results) :
              ok' = (ok /\ Same([n \in DOMAIN sorted |->
                                   PostProcess(sorted[n], tests[cur], conf.debug)], tests[cur]))
        BY <2>8 DEF CompareResults
      <4>3. sorted = StableSort(results)
        BY <3>7, <4>2
      <4> QED
        BY <4>1, <4>2, <4>3 DEF RightAs
    <3>9. /\ ok <=> RightInEvery(conf, session, tests, 1..cur - 1)
          /\ ok <=> RightInSome(conf, session, tests, 1..cur - 1)
      BY <3>1, <3>6 DEF OrderInv, ForgetsOrder, JudgedBy
    <3>10. /\ ok' <=> RightInEvery(conf, session, tests, 1..cur)
           /\ ok' <=> RightInSome(conf, session, tests, 1..cur)
      <4>1. ok \in BOOLEAN
        BY DEF TestsInv
      <4> QED
        BY <3>2, <3>4, <3>5, <3>8, <3>9, <4>1, JudgeNext DEF Printed
    <3>11. cur' - 1 = cur
      BY <3>1, <3>2
    <3> QED
      BY <3>1, <3>10, <3>11 DEF JudgedBy
  <2>9. CASE End
    <3>1. /\ main = "execute" /\ main' = "returned" /\ cur > Len(tests)
          /\ outcome' = IF ok THEN "pass" ELSE "fail"
          /\ UNCHANGED <<conf, tests, session, cur, ok>>
      BY <2>9 DEF End, Return
    <3>2. DOMAIN tests = 1..cur - 1
      BY <2>2, <3>1 DEF TestsInv
    <3>3. outcome' = "pass" <=> ok
      BY <3>1
    <3>4. FewEvents(conf, session, tests) => JudgedBy(ok, DOMAIN tests)
      BY <3>1, <3>2 DEF OrderInv, ForgetsOrder
    <3>5. FewEvents(conf, session, tests)' => JudgedBy(outcome = "pass", DOMAIN tests)'
      BY <3>1, <3>3, <3>4 DEF JudgedBy
    <3> QED
      BY <3>1, <3>5 DEF OrderInv, ForgetsOrder
  <2>10. CASE UNCHANGED vars
    <3>1. UNCHANGED <<conf, main, tests, session, cur, queue, results, ok, outcome>>
      BY <2>10 DEF vars
    <3>2. Printed(cur)' = Printed(cur)
      BY <3>1 DEF Printed
    <3>3. ForgetsOrder'
      BY <3>1 DEF OrderInv, ForgetsOrder, JudgedBy
    <3> QED
      BY <3>1, <3>2, <3>3 DEF OrderInv
  <2> QED
    BY <2>3, <2>4, <2>5, <2>6, <2>7, <2>8, <2>9, <2>10 DEF Next
<1>4. OrderInv => ForgetsOrder
  BY DEF OrderInv
<1> QED
  BY <1>2, <1>3, <1>4, TestsOfTheRun, PTL DEF Spec

-----------------------------------------------------------------------------
(* Lines, fields and numbers *)

\* Two sequences, one after the other, beside two others: if the elements that are at
\* one place are in relation P, they still are.
LEMMA ConcatAlike ==
  ASSUME NEW S, NEW s \in Seq(S), NEW t \in Seq(S), NEW u \in Seq(S), NEW v \in Seq(S),
         Len(s) = Len(u), Len(t) = Len(v),
         NEW P, \A p \in 1..Len(s) : <<s[p], u[p]>> \in P,
         \A p \in 1..Len(t) : <<t[p], v[p]>> \in P
  PROVE  \A p \in 1..Len(s \o t) : <<(s \o t)[p], (u \o v)[p]>> \in P
<1> SUFFICES ASSUME NEW p \in 1..Len(s \o t)
             PROVE  <<(s \o t)[p], (u \o v)[p]>> \in P
  OBVIOUS
<1>1. CASE p <= Len(s)
  BY <1>1
<1>2. CASE ~(p <= Len(s))
  <2>1. p - Len(s) \in 1..Len(t)
    BY <1>2
  <2>2. (s \o t)[p] = t[p - Len(s)]
    BY <1>2
  <2>3. (u \o v)[p] = v[p - Len(u)]
    BY <1>2
  <2> QED
    BY <2>1, <2>2, <2>3
<1> QED
  BY <1>1, <1>2

\* What is at a place of one flattened list comes from where it comes from in the
\* other.
SameOrigins(seqs, others) ==
  \A p \in 1..Len(FlattenSeq(seqs)) : \E m \in DOMAIN seqs : \E k \in 1..Len(seqs[m]) :
    FlattenSeq(seqs)[p] = seqs[m][k] /\ FlattenSeq(others)[p] = others[m][k]

\* Two lists of sequences that have the same lengths flatten alike.
LEMMA FlattenAlike ==
  ASSUME NEW S, NEW seqs \in Seq(Seq(S)), NEW others \in Seq(Seq(S)),
         Len(seqs) = Len(others), \A n \in DOMAIN seqs : Len(seqs[n]) = Len(others[n])
  PROVE  Len(FlattenSeq(seqs)) = Len(FlattenSeq(others)) /\ SameOrigins(seqs, others)
<1>1. CASE seqs = << >>
  <2>1. FlattenSeq(seqs) = << >> /\ FlattenSeq(others) = << >>
    BY <1>1 DEF FlattenSeq
  <2> QED
    BY <2>1 DEF SameOrigins
<1>2. CASE seqs # << >>
  <2>1. PICK N \in Nat \ {0} : N = Len(seqs) /\ N = Len(others)
    BY <1>2
  <2>2. /\ DOMAIN seqs = 1..N
        /\ \A n \in 1..N : seqs[n] \in Seq(S) /\ others[n] \in Seq(S)
    BY <2>1
  <2>3. PICK f : /\ FlattenSeq(seqs) = f[N]
                 /\ f[1] = seqs[1]
                 /\ \A i \in 1..N : i # 1 => f[i] = f[i - 1] \o seqs[i]
    BY <2>1, FlattenIs
  <2>4. PICK g : /\ FlattenSeq(others) = g[N]
                 /\ g[1] = others[1]
                 /\ \A i \in 1..N : i # 1 => g[i] = g[i - 1] \o others[i]
    BY <2>1, FlattenIs
  <2> DEFINE P == UNION {{<<seqs[m][k], others[m][k]>> : k \in 1..Len(seqs[m])} : m \in 1..N}
             same(a, b, p) == <<a[p], b[p]>> \in P
             G == {i \in 1..N : /\ f[i] \in Seq(S) /\ g[i] \in Seq(S)
                                /\ Len(f[i]) = Len(g[i])
                                /\ \A p \in 1..Len(f[i]) : same(f[i], g[i], p)}
  <2>5. 1 \in G
    <3>1. 1 \in 1..N
      BY <2>1
    <3>3. \A p \in 1..Len(seqs[1]) : same(seqs[1], others[1], p)
      BY <3>1
    <3> HIDE DEF P
    <3>2. \A p \in 1..Len(f[1]) : same(f[1], g[1], p)
      BY <2>3, <2>4, <3>3
    <3> QED
      BY <2>2, <2>3, <2>4, <3>1, <3>2
  <2>6. ASSUME NEW i \in 1..N, i # 1, i - 1 \in G PROVE i \in G
    <3>1. f[i] = f[i - 1] \o seqs[i] /\ g[i] = g[i - 1] \o others[i]
      BY <2>3, <2>4, <2>6
    <3>2. /\ f[i - 1] \in Seq(S) /\ g[i - 1] \in Seq(S) /\ Len(f[i - 1]) = Len(g[i - 1])
          /\ seqs[i] \in Seq(S) /\ others[i] \in Seq(S) /\ Len(seqs[i]) = Len(others[i])
      BY <2>2, <2>6
    <3>7. \A p \in 1..Len(seqs[i]) : same(seqs[i], others[i], p)
      OBVIOUS
    <3> HIDE DEF P
    <3>6. \A p \in 1..Len(f[i - 1]) : same(f[i - 1], g[i - 1], p)
      BY <2>6
    <3>3. /\ f[i - 1] \o seqs[i] \in Seq(S)
          /\ Len(f[i - 1] \o seqs[i]) = Len(f[i - 1]) + Len(seqs[i])
      <4> DEFINE s == f[i - 1]
                 t == seqs[i]
      <4>1. s \in Seq(S) /\ t \in Seq(S)
        BY <3>2
      <4> HIDE DEF s, t
      <4>2. s \o t \in Seq(S) /\ Len(s \o t) = Len(s) + Len(t)
        BY <4>1
      <4> QED
        BY <4>2 DEF s, t
    <3>4. /\ g[i - 1] \o others[i] \in Seq(S)
          /\ Len(g[i - 1] \o others[i]) = Len(g[i - 1]) + Len(others[i])
      <4> DEFINE s == g[i - 1]
                 t == others[i]
      <4>1. s \in Seq(S) /\ t \in Seq(S)
        BY <3>2
      <4> HIDE DEF s, t
      <4>2. s \o t \in Seq(S) /\ Len(s \o t) = Len(s) + Len(t)
        BY <4>1
      <4> QED
        BY <4>2 DEF s, t
    <3>5. \A p \in 1..Len(f[i - 1] \o seqs[i]) : same(f[i - 1] \o seqs[i], g[i - 1] \o others[i], p)
      <4> DEFINE s == f[i - 1]
                 u == g[i - 1]
                 t == seqs[i]
                 v == others[i]
      <4>1. /\ s \in Seq(S) /\ u \in Seq(S) /\ Len(s) = Len(u)
            /\ t \in Seq(S) /\ v \in Seq(S) /\ Len(t) = Len(v)
        BY <3>2
      <4>2. /\ \A p \in 1..Len(s) : <<s[p], u[p]>> \in P
            /\ \A p \in 1..Len(t) : <<t[p], v[p]>> \in P
        BY <3>6, <3>7
      <4> HIDE DEF s, u, t, v
      <4>3. \A p \in 1..Len(s \o t) : <<(s \o t)[p], (u \o v)[p]>> \in P
        BY <4>1, <4>2, ConcatAlike
      <4> QED
        BY <4>3 DEF s, u, t, v
    <3> HIDE DEF same
    <3> QED
      BY <2>6, <3>1, <3>2, <3>3, <3>4, <3>5
  <2> HIDE DEF G
  <2>7. 1..N \subseteq G /\ N \in 1..N
    <3>1. N \in Nat /\ N \in 1..N
      OBVIOUS
    <3>2. N # 0 => 1 \in G
      BY <2>5
    <3>3. \A i \in 1..N : i # 1 /\ i - 1 \in G => i \in G
      BY <2>6
    <3> QED
      BY <3>1, <3>2, <3>3, UpTo
  <2>9. \A q \in P : \E m \in 1..N : \E k \in 1..Len(seqs[m]) : q = <<seqs[m][k], others[m][k]>>
    OBVIOUS
  <2> HIDE DEF P
  <2>8. /\ Len(FlattenSeq(seqs)) = Len(FlattenSeq(others))
        /\ \A p \in 1..Len(FlattenSeq(seqs)) : same(FlattenSeq(seqs), FlattenSeq(others), p)
    BY <2>3, <2>4, <2>7 DEF G
  <2> QED
    <3> SUFFICES ASSUME NEW p \in 1..Len(FlattenSeq(seqs))
                 PROVE  \E m \in DOMAIN seqs : \E k \in 1..Len(seqs[m]) :
                          /\ FlattenSeq(seqs)[p] = seqs[m][k]
                          /\ FlattenSeq(others)[p] = others[m][k]
      BY <2>8 DEF SameOrigins
    <3> DEFINE x == FlattenSeq(seqs)[p]
               y == FlattenSeq(others)[p]
    <3>1. <<x, y>> \in P
      BY <2>8
    <3> HIDE DEF x, y
    <3>2. PICK m \in 1..N : \E k \in 1..Len(seqs[m]) : <<x, y>> = <<seqs[m][k], others[m][k]>>
      BY <2>9, <3>1
    <3> QED
      BY <2>2, <3>2 DEF x, y
<1> QED
  BY <1>1, <1>2

\* A list of single elements flattens to these.
LEMMA FlattenSingles ==
  ASSUME NEW list, IsSequence(list)
  PROVE  FlattenSeq([n \in DOMAIN list |-> <<list[n]>>]) = list
<1> DEFINE S == ToSet(list)
           N == Len(list)
           seqs == [n \in DOMAIN list |-> <<list[n]>>]
<1>1. list \in Seq(S) /\ N \in Nat /\ DOMAIN list = 1..N
  BY DEF IsSequence
<1>2. \A n \in 1..N : seqs[n] = <<list[n]>> /\ list[n] \in S
  BY <1>1 DEF ToSet
<1>3. Len(seqs) = N /\ seqs = [n \in 1..N |-> seqs[n]]
  BY <1>1
<1> HIDE DEF seqs, S, N
<1>4. CASE N = 0
  <2>1. seqs = << >> /\ list = << >>
    BY <1>1, <1>3, <1>4 DEF N
  <2> QED
    BY <2>1 DEF FlattenSeq, seqs
<1>5. CASE N # 0
  <2>7. N \in Nat \ {0}
    BY <1>1, <1>5
  <2>1. PICK f : /\ FlattenSeq(seqs) = f[N]
                 /\ f[1] = seqs[1]
                 /\ \A i \in 1..N : i # 1 => f[i] = f[i - 1] \o seqs[i]
    BY <1>3, <2>7, FlattenIs
  <2> DEFINE G == {i \in 1..N : /\ f[i] \in Seq(S) /\ Len(f[i]) = i
                                /\ \A p \in 1..i : f[i][p] = list[p]}
  <2>2. 1 \in G
    <3>1. 1 \in 1..N /\ f[1] = <<list[1]>> /\ list[1] \in S
      BY <1>1, <1>2, <1>5, <2>1
    <3>2. \A x \in S : <<x>> \in Seq(S) /\ Len(<<x>>) = 1 /\ \A p \in 1..1 : p = 1 /\ <<x>>[p] = x
      OBVIOUS
    <3>3. f[1] \in Seq(S) /\ Len(f[1]) = 1 /\ \A p \in 1..1 : f[1][p] = list[p]
      BY <3>1, <3>2
    <3> QED
      BY <3>1, <3>3
  <2>3. ASSUME NEW i \in 1..N, i # 1, i - 1 \in G PROVE i \in G
    <3>1. f[i] = f[i - 1] \o <<list[i]>> /\ list[i] \in S
      BY <1>2, <2>1, <2>3
    <3>2. /\ f[i - 1] \in Seq(S) /\ Len(f[i - 1]) = i - 1
          /\ \A p \in 1..i - 1 : f[i - 1][p] = list[p]
      BY <2>3
    <3> DEFINE s == f[i - 1]
    <3>3. s \o <<list[i]>> \in Seq(S) /\ Len(s \o <<list[i]>>) = i
      BY <1>1, <3>1, <3>2
    <3>4. ASSUME NEW p \in 1..i PROVE (s \o <<list[i]>>)[p] = list[p]
      BY <1>1, <3>1, <3>2
    <3> QED
      BY <3>1, <3>3, <3>4
  <2> HIDE DEF G
  <2>4. 1..N \subseteq G /\ N \in 1..N
    <3>1. N \in Nat /\ N \in 1..N
      BY <1>1, <1>5
    <3>2. N # 0 => 1 \in G
      BY <2>2
    <3>3. \A i \in 1..N : i # 1 /\ i - 1 \in G => i \in G
      BY <2>3
    <3> QED
      BY <3>1, <3>2, <3>3, UpTo
  <2>5. f[N] \in Seq(S) /\ Len(f[N]) = N /\ \A p \in 1..N : f[N][p] = list[p]
    BY <2>4 DEF G
  <2>6. f[N] = list
    BY <1>1, <2>5 DEF N
  <2> QED
    BY <2>1, <2>6 DEF seqs
<1> QED
  BY <1>4, <1>5

\* Each line of a set of test cases is that of the test case at its place, and its
\* fields are those of the file and of this test case.
LEMMA LinesAreOwn ==
  ASSUME NEW file, IsSequence(file.cases), \A tc \in ToSet(file.cases) : IsSequence(tc.lines),
         NEW test \in New(file), NEW p \in DOMAIN test.lines
  PROVE  /\ p \in DOMAIN LinesOf(file) /\ p \in DOMAIN test.events
         /\ \E n \in DOMAIN file.cases : \E k :
              /\ LinesOf(file)[p] = <<n, k>>
              /\ test.lines[p] = InputLines(file.cases[n])[k]
              /\ \E global \in ParseAllBracketProperties(file.fields) \ {Panic},
                    local \in ParseAllBracketProperties(file.cases[n].fields) \ {Panic} :
                   test.events[p] = MergeFields(global, local)
<1> DEFINE N == Len(file.cases)
           lines(n) == InputLines(file.cases[n])
           seqs == [n \in DOMAIN file.cases |-> lines(n)]
           places == [n \in DOMAIN file.cases |-> [k \in DOMAIN lines(n) |-> <<n, k>>]]
           fieldsOf(g) == [n \in DOMAIN file.cases |->
                             [k \in DOMAIN lines(n) |-> MergeFields(g[0], g[n])]]
<1>1. N \in Nat /\ DOMAIN file.cases = 1..N
  BY DEF IsSequence
<1>2. PICK g : /\ test.lines = FlattenSeq(seqs) /\ test.events = FlattenSeq(fieldsOf(g))
               /\ \A n \in 0..N : g[n] \in FieldsRead(file)[n] \ {Panic}
  <2>1. PICK g : /\ test = CaseSet(file, g)
                 /\ \A n \in DOMAIN FieldsRead(file) : g[n] \in FieldsRead(file)[n] \ {Panic}
    BY DEF New
  <2>2. /\ CaseSet(file, g).lines = FlattenSeq(seqs)
        /\ CaseSet(file, g).events = FlattenSeq(fieldsOf(g))
    BY DEF CaseSet
  <2>3. DOMAIN FieldsRead(file) = 0..N
    BY DEF FieldsRead
  <2> QED
    BY <2>1, <2>2, <2>3
<1>3. /\ g[0] \in ParseAllBracketProperties(file.fields) \ {Panic}
      /\ \A n \in 1..N : g[n] \in ParseAllBracketProperties(file.cases[n].fields) \ {Panic}
  <2>1. 0 \in 0..N /\ FieldsRead(file)[0] = ParseAllBracketProperties(file.fields)
    BY <1>1 DEF FieldsRead
  <2>2. \A n \in 1..N : /\ n \in 0..N
                        /\ FieldsRead(file)[n] = ParseAllBracketProperties(file.cases[n].fields)
    BY <1>1 DEF FieldsRead
  <2> HIDE DEF N
  <2> QED
    BY <1>2, <2>1, <2>2
<1>4. LinesOf(file) = FlattenSeq(places)
  BY DEF LinesOf
<1> DEFINE others == fieldsOf(g)
           S == (UNION {ToSet(lines(n)) : n \in 1..N}) \cup {MergeFields(g[0], g[n]) : n \in 1..N}
                  \cup {<<n, k>> : n \in 1..N, k \in Nat}
<1>5. ASSUME NEW n \in 1..N
      PROVE  lines(n) \in Seq(ToSet(lines(n)))
  <2>1. IsSequence(file.cases[n].lines)
    BY <1>1 DEF ToSet
  <2>2. <<Dummy>> \in Seq(ToSet(<<Dummy>>))
    BY DEF ToSet
  <2> QED
    BY <2>1, <2>2 DEF InputLines, IsSequence
<1>6. /\ seqs = [n \in 1..N |-> seqs[n]] /\ places = [n \in 1..N |-> places[n]]
      /\ others = [n \in 1..N |-> others[n]]
      /\ \A n \in 1..N : /\ seqs[n] = lines(n)
                         /\ places[n] = [k \in DOMAIN lines(n) |-> <<n, k>>]
                         /\ others[n] = [k \in DOMAIN lines(n) |-> MergeFields(g[0], g[n])]
  BY <1>1
<1> HIDE DEF seqs, places, others, lines, N
<1>7. ASSUME NEW n \in 1..N
      PROVE  /\ seqs[n] \in Seq(S) /\ others[n] \in Seq(S) /\ places[n] \in Seq(S)
             /\ Len(places[n]) = Len(seqs[n]) /\ Len(places[n]) = Len(others[n])
             /\ DOMAIN lines(n) = 1..Len(places[n])
  <2>1. lines(n) \in Seq(ToSet(lines(n))) /\ ToSet(lines(n)) \subseteq S
    BY <1>5
  <2>2. MergeFields(g[0], g[n]) \in S /\ \A k \in Nat : <<n, k>> \in S
    BY <1>1
  <2> HIDE DEF S
  <2>3. lines(n) \in Seq(S)
    BY <2>1, SeqMonotonic
  <2>4. DOMAIN lines(n) = 1..Len(lines(n)) /\ Len(lines(n)) \in Nat
    BY <2>3
  <2>5. \A x \in S : /\ [k \in 1..Len(lines(n)) |-> x] \in Seq(S)
                     /\ Len([k \in 1..Len(lines(n)) |-> x]) = Len(lines(n))
    BY <2>4
  <2>6. others[n] = [k \in 1..Len(lines(n)) |-> MergeFields(g[0], g[n])]
    BY <1>6, <2>4
  <2>7. places[n] = [k \in 1..Len(lines(n)) |-> <<n, k>>]
    BY <1>6, <2>4
  <2>8. places[n] \in Seq(S) /\ Len(places[n]) = Len(lines(n))
    BY <2>2, <2>4, <2>7
  <2> QED
    BY <1>6, <2>2, <2>3, <2>4, <2>5, <2>6, <2>8
<1> HIDE DEF S
<1>8. /\ seqs \in Seq(Seq(S)) /\ others \in Seq(Seq(S)) /\ places \in Seq(Seq(S))
      /\ Len(seqs) = N /\ Len(others) = N /\ Len(places) = N /\ DOMAIN places = 1..N
  <2>1. seqs \in Seq(Seq(S)) /\ others \in Seq(Seq(S)) /\ places \in Seq(Seq(S))
    BY <1>1, <1>6, <1>7, SequenceOf
  <2> QED
    BY <1>1, <1>6, <2>1
<1>21. \A n \in DOMAIN places : /\ Len(places[n]) = Len(seqs[n])
                               /\ Len(places[n]) = Len(others[n])
  BY <1>7, <1>8
<1>9. Len(FlattenSeq(places)) = Len(FlattenSeq(seqs)) /\ SameOrigins(places, seqs)
  <2>1. Len(places) = Len(seqs) /\ \A n \in DOMAIN places : Len(places[n]) = Len(seqs[n])
    BY <1>8, <1>21
  <2>2. places \in Seq(Seq(S)) /\ seqs \in Seq(Seq(S))
    BY <1>8
  <2> QED
    BY <2>1, <2>2, FlattenAlike
<1>10. Len(FlattenSeq(places)) = Len(FlattenSeq(others)) /\ SameOrigins(places, others)
  <2>1. Len(places) = Len(others) /\ \A n \in DOMAIN places : Len(places[n]) = Len(others[n])
    BY <1>8, <1>21
  <2>2. places \in Seq(Seq(S)) /\ others \in Seq(Seq(S))
    BY <1>8
  <2> QED
    BY <2>1, <2>2, FlattenAlike
<1>11. /\ FlattenSeq(places) \in Seq(S) /\ FlattenSeq(seqs) \in Seq(S)
       /\ FlattenSeq(others) \in Seq(S)
  BY <1>8, FlattenElements
<1>12. test.lines = FlattenSeq(seqs) /\ test.events = FlattenSeq(others)
  BY <1>2 DEF others
<1> HIDE DEF others, fieldsOf
<1>13. p \in 1..Len(FlattenSeq(places)) /\ p \in DOMAIN LinesOf(file) /\ p \in DOMAIN test.events
  <2>1. \A s \in Seq(S) : Len(s) \in Nat /\ DOMAIN s = 1..Len(s)
    OBVIOUS
  <2>2. p \in DOMAIN FlattenSeq(seqs)
    BY <1>12
  <2>3. /\ DOMAIN FlattenSeq(places) = 1..Len(FlattenSeq(places))
        /\ DOMAIN FlattenSeq(seqs) = 1..Len(FlattenSeq(places))
        /\ DOMAIN FlattenSeq(others) = 1..Len(FlattenSeq(places))
    BY <1>9, <1>10, <1>11, <2>1
  <2> QED
    BY <1>4, <1>12, <2>2, <2>3
<1>14. PICK m \in 1..N : \E k \in 1..Len(places[m]) :
         FlattenSeq(places)[p] = places[m][k] /\ FlattenSeq(seqs)[p] = seqs[m][k]
  BY <1>8, <1>9, <1>13 DEF SameOrigins
<1>15. PICK k \in 1..Len(places[m]) :
         FlattenSeq(places)[p] = places[m][k] /\ FlattenSeq(seqs)[p] = seqs[m][k]
  BY <1>14
<1>16. PICK i \in 1..N : \E j \in 1..Len(places[i]) :
         FlattenSeq(places)[p] = places[i][j] /\ FlattenSeq(others)[p] = others[i][j]
  BY <1>8, <1>10, <1>13 DEF SameOrigins
<1>17. PICK j \in 1..Len(places[i]) :
         FlattenSeq(places)[p] = places[i][j] /\ FlattenSeq(others)[p] = others[i][j]
  BY <1>16
<1>18. places[m][k] = <<m, k>> /\ places[i][j] = <<i, j>>
       /\ others[i][j] = MergeFields(g[0], g[i]) /\ seqs[m][k] = lines(m)[k]
  BY <1>6, <1>7
<1>19. m = i
  <2>1. <<m, k>> = <<i, j>>
    BY <1>15, <1>17, <1>18
  <2> QED
    BY <2>1
<1>20. LinesOf(file)[p] = <<m, k>> /\ test.lines[p] = lines(m)[k]
       /\ test.events[p] = MergeFields(g[0], g[m])
  BY <1>4, <1>12, <1>15, <1>17, <1>18, <1>19
<1> QED
  BY <1>1, <1>3, <1>13, <1>20 DEF lines

\* A codec that makes one event of a line leaves the lines as they are.
LEMMA DecodedAre ==
  ASSUME NEW test, IsSequence(test.lines), NEW codec,
         codec \in DOMAIN conf.yield => conf.yield[codec] = 1
  PROVE  Decoded(conf, test, codec) = test.lines
<1> DEFINE number == IF codec \in DOMAIN conf.yield THEN conf.yield[codec] ELSE 1
<1>1. number = 1
  OBVIOUS
<1>2. \A x : [k \in 1..1 |-> x] = <<x>>
  OBVIOUS
<1>3. [n \in DOMAIN test.lines |-> [k \in 1..number |-> test.lines[n]]] =
        [n \in DOMAIN test.lines |-> <<test.lines[n]>>]
  BY <1>1, <1>2
<1> QED
  BY <1>3, FlattenSingles DEF Decoded

\* The fields of local, and of global those of which local has no part.
LEMMA MergedFields ==
  ASSUME NEW global, NEW local
  PROVE  /\ DOMAIN MergeFields(global, local) =
              DOMAIN local \cup {p \in DOMAIN global : ~\E q \in DOMAIN local : q[1] = p[1]}
         /\ \A p \in DOMAIN MergeFields(global, local) :
              MergeFields(global, local)[p] = IF p \in DOMAIN local THEN local[p] ELSE global[p]
<1> DEFINE kept == {p \in DOMAIN global : ~\E q \in DOMAIN local : q[1] = p[1]}
<1>1. MergeFields(global, local) = Over(local, [p \in kept |-> global[p]])
  <2>1. DOMAIN global \ {p \in DOMAIN global : \E q \in DOMAIN local : q[1] = p[1]} = kept
    OBVIOUS
  <2> QED
    BY <2>1 DEF MergeFields, Without, Restrict
<1> QED
  BY <1>1 DEF Over

\* An event has number k; without a name that is no field reference it has the line
\* and these fields.
SetsFields(made, line, fields, k) ==
  LET given == MergeFields(Field(Message, line), fields)
      failed == \E p \in DOMAIN fields : p[1] = BadName
  IN  /\ made.id + 1 = k
      /\ made.tags = IF failed THEN {"__lfv_ruby_fields_exception"} ELSE {}
      /\ ~failed => \A p \in DOMAIN given : \/ p = Message /\ given[p] = Dummy
                                            \/ /\ p \in DOMAIN made.fields
                                               /\ made.fields[p] = given[p]

\* What the generator makes of a line is so.
LEMMA GeneratorSets ==
  ASSUME NEW test, NEW line, NEW k \in Nat, k \in DOMAIN test.events, NEW codec, NEW via
  PROVE  SetsFields(InputGenerator(test, line, k, codec, via), line, test.events[k], k)
<1> DEFINE own == test.events[k]
           base == Over(Field(Message, line),
                        Over(Field(Version, "1"),
                             Over(Field(<<"codec">>, codec), Field(<<"via">>, via))))
           made == InputGenerator(test, line, k, codec, via)
           given == MergeFields(Field(Message, line), own)
           all == MergeFields(base, own)
           failed == \E p \in DOMAIN own : p[1] = BadName
           left == Without(all, {p \in DOMAIN all : p = Message /\ all[p] = Dummy})
<1>1. /\ made.id = k - 1
      /\ made.tags = IF failed THEN {"__lfv_ruby_fields_exception"} ELSE {}
      /\ ~failed => made.fields = left
  BY DEF InputGenerator
<1>2. Message \in DOMAIN base /\ base[Message] = line
  BY DEF Over, Field
<1>3. DOMAIN Field(Message, line) = {Message} /\ Field(Message, line)[Message] = line
  BY DEF Field
<1> HIDE DEF base, own
<1>4. ASSUME NEW p \in DOMAIN given PROVE p \in DOMAIN all /\ all[p] = given[p]
  <2>1. /\ DOMAIN given = DOMAIN own \cup {q \in {Message} : ~\E r \in DOMAIN own : r[1] = q[1]}
        /\ given[p] = IF p \in DOMAIN own THEN own[p] ELSE Field(Message, line)[p]
    <3> DEFINE one == Field(Message, line)
    <3>1. /\ DOMAIN MergeFields(one, own) =
               DOMAIN own \cup {q \in DOMAIN one : ~\E r \in DOMAIN own : r[1] = q[1]}
          /\ \A q \in DOMAIN MergeFields(one, own) :
               MergeFields(one, own)[q] = IF q \in DOMAIN own THEN own[q] ELSE one[q]
      BY MergedFields
    <3> QED
      BY <1>3, <1>4, <3>1
  <2>2. /\ DOMAIN all = DOMAIN own \cup {q \in DOMAIN base : ~\E r \in DOMAIN own : r[1] = q[1]}
        /\ \A q \in DOMAIN all : all[q] = IF q \in DOMAIN own THEN own[q] ELSE base[q]
    BY MergedFields
  <2> QED
    BY <1>2, <1>3, <2>1, <2>2
<1>5. \A p \in DOMAIN all : \/ p = Message /\ all[p] = Dummy
                            \/ p \in DOMAIN left /\ left[p] = all[p]
  BY DEF Without, Restrict
<1> HIDE DEF all, left, given, made, failed
<1>6. made.id + 1 = k
  BY <1>1
<1> QED
  BY <1>1, <1>4, <1>5, <1>6 DEF SetsFields, made, given, failed, own

\* What is made of the lines of a file has the line and the fields of its own test case.
LEMMA MadeIsOwn ==
  ASSUME NEW file, IsSequence(file.cases), \A tc \in ToSet(file.cases) : IsSequence(tc.lines),
         NEW test \in New(file),
         NEW codec, codec \in DOMAIN conf.yield => conf.yield[codec] = 1,
         NEW e, IsMade(e, test, codec), NEW out
  PROVE  IsOwn(OutputPipeline(e, out), file)
<1>1. IsSequence(test.lines)
  BY LinesHaveFields
<1>2. Decoded(conf, test, codec) = test.lines
  BY <1>1, DecodedAre
<1>3. PICK k \in DOMAIN test.lines : \E via, type :
        e = [InputGenerator(test, test.lines[k], k, codec, via)
               EXCEPT !.fields = Over(Field(<<"type">>, type), @)]
  BY <1>2 DEF IsMade
<1>4. PICK via, type :
        e = [InputGenerator(test, test.lines[k], k, codec, via)
               EXCEPT !.fields = Over(Field(<<"type">>, type), @)]
  BY <1>3
<1>5. /\ k \in DOMAIN LinesOf(file) /\ k \in DOMAIN test.events
      /\ \E n \in DOMAIN file.cases : \E j :
           /\ LinesOf(file)[k] = <<n, j>>
           /\ test.lines[k] = InputLines(file.cases[n])[j]
           /\ \E global \in ParseAllBracketProperties(file.fields) \ {Panic},
                 local \in ParseAllBracketProperties(file.cases[n].fields) \ {Panic} :
                test.events[k] = MergeFields(global, local)
  BY LinesAreOwn
<1>6. PICK n, j :
        /\ n \in DOMAIN file.cases
        /\ LinesOf(file)[k] = <<n, j>>
        /\ test.lines[k] = InputLines(file.cases[n])[j]
        /\ \E global \in ParseAllBracketProperties(file.fields) \ {Panic},
              local \in ParseAllBracketProperties(file.cases[n].fields) \ {Panic} :
             test.events[k] = MergeFields(global, local)
  BY <1>5
<1>7. PICK global \in ParseAllBracketProperties(file.fields) \ {Panic},
           local \in ParseAllBracketProperties(file.cases[n].fields) \ {Panic} :
        test.events[k] = MergeFields(global, local)
  BY <1>6
<1> DEFINE line == test.lines[k]
           own == test.events[k]
           made == InputGenerator(test, line, k, codec, via)
           given == MergeFields(Field(Message, line), own)
           failed == \E p \in DOMAIN own : p[1] = BadName
           x == OutputPipeline(e, out)
<1>8. k \in Nat
  BY <1>1 DEF IsSequence
<1>9. /\ x.id = made.id /\ x.tags = made.tags
      /\ x.fields = Over(Field(<<"type">>, type), made.fields)
  <2> DEFINE f == Over(Field(<<"type">>, type), made.fields)
  <2>1. made = [id |-> made.id, out |-> made.out, fields |-> made.fields,
                tags |-> made.tags, meta |-> made.meta]
    BY DEF InputGenerator
  <2> HIDE DEF made
  <2>2. e = [id |-> made.id, out |-> made.out, fields |-> f,
             tags |-> made.tags, meta |-> made.meta]
    BY <1>4, <2>1 DEF made
  <2> HIDE DEF f
  <2> QED
    BY <2>2 DEF OutputPipeline, f
<1>10. /\ made.id + 1 = k
       /\ made.tags = IF failed THEN {"__lfv_ruby_fields_exception"} ELSE {}
       /\ ~failed => \A p \in DOMAIN given :
                       \/ p = Message /\ given[p] = Dummy
                       \/ p \in DOMAIN made.fields /\ made.fields[p] = given[p]
  <2>1. SetsFields(made, line, own, k)
    BY <1>5, <1>8, GeneratorSets
  <2> QED
    BY <2>1 DEF SetsFields
<1>11. \A p \in DOMAIN made.fields \ {<<"type">>} :
         p \in DOMAIN x.fields /\ x.fields[p] = made.fields[p]
  <2> HIDE DEF made, x
  <2> QED
    BY <1>9 DEF Over, Field
<1> HIDE DEF made, given, x
<1>12. /\ x.tags = IF failed THEN {"__lfv_ruby_fields_exception"} ELSE {}
       /\ ~failed => \A p \in DOMAIN given \ {<<"type">>} :
                       \/ p = Message /\ given[p] = Dummy
                       \/ p \in DOMAIN x.fields /\ x.fields[p] = given[p]
  BY <1>9, <1>10, <1>11
<1>13. OwnFields(x, file, file.cases[n], line)
  <2> HIDE DEF line
  <2> QED
    BY <1>7, <1>12 DEF OwnFields, given, own
<1>14. x.id + 1 = k
  BY <1>9, <1>10
<1> QED
  BY <1>5, <1>6, <1>13, <1>14 DEF IsOwn, x

\* The events that are on their way, and come in sequences.
OwnInv ==
  /\ main = "results" => IsSequence(results) /\ \A n \in DOMAIN queue : IsSequence(queue[n])
  /\ FieldsAreOwn

\* A sequence without its first element.
LEMMA TailOf ==
  ASSUME NEW s, IsSequence(s), s # << >>
  PROVE  IsSequence(Tail(s)) /\ ToSet(Tail(s)) \subseteq ToSet(s) /\ Head(s) \in ToSet(s)
<1>1. s \in Seq(ToSet(s)) /\ Len(s) \in Nat /\ DOMAIN s = 1..Len(s)
  BY DEF IsSequence
<1>2. Tail(s) \in Seq(ToSet(s)) /\ Head(s) \in ToSet(s)
  BY <1>1
<1>3. ToSet(Tail(s)) \subseteq ToSet(s)
  BY <1>2 DEF ToSet
<1> QED
  BY <1>2, <1>3, Sequence

\* A sequence with one element more.
LEMMA AppendOf ==
  ASSUME NEW s, IsSequence(s), NEW x
  PROVE  IsSequence(Append(s, x)) /\ ToSet(Append(s, x)) = ToSet(s) \cup {x}
<1> DEFINE S == ToSet(s) \cup {x}
<1>1. s \in Seq(S)
  <2>1. ToSet(s) \subseteq S
    OBVIOUS
  <2> HIDE DEF S
  <2> QED
    BY <2>1, SeqMonotonic DEF IsSequence
<1>2. x \in S
  OBVIOUS
<1> HIDE DEF S
<1>3. Append(s, x) = s \o <<x>> /\ <<x>> \in Seq(S)
  BY <1>1, <1>2
<1>4. s \o <<x>> \in Seq(S) /\ ToSet(s \o <<x>>) = ToSet(s) \cup ToSet(<<x>>)
  <2> DEFINE t == <<x>>
  <2>1. t \in Seq(S)
    BY <1>3
  <2> HIDE DEF t
  <2>2. s \o t \in Seq(S) /\ ToSet(s \o t) = ToSet(s) \cup ToSet(t)
    BY <1>1, <2>1, ConcatElements
  <2> QED
    BY <2>2 DEF t
<1>5. ToSet(<<x>>) = {x}
  BY DEF ToSet
<1> QED
  BY <1>3, <1>4, <1>5, Sequence

\* Each event has the line and the fields of its own test case, which it finds by its
\* number only: prepareFields writes the fields and createInput the lines, the filters
\* in front of the configuration put them together.  The number is right in every run,
\* for inputs whose codec makes one event of a line.
THEOREM FieldsComeToTheirLines == Spec => []FieldsAreOwn
<1>1. Init => OwnInv
  BY DEF Init, OwnInv, FieldsAreOwn
<1>2. DataInv /\ TestsInv /\ OwnInv /\ [Next]_vars => OwnInv'
  <2> SUFFICES ASSUME DataInv, TestsInv, OwnInv, [Next]_vars PROVE OwnInv'
    OBVIOUS
  <2> DEFINE file == conf.files[cur]
             codec == InputCodec(session, file.plugin)
             single == codec \in DOMAIN conf.yield => conf.yield[codec] = 1
  <2>1. ASSUME main' # "results" PROVE OwnInv'
    BY <2>1 DEF OwnInv, FieldsAreOwn
  <2>2. CASE UNCHANGED vars
    BY <2>2 DEF OwnInv, FieldsAreOwn, vars, InputCodec
  <2>3. CASE BuildArchive
    BY <2>1, <2>3 DEF BuildArchive, Return, Goto
  <2>4. CASE DiscoverTests
    BY <2>1, <2>4 DEF DiscoverTests, Return, Goto
  <2>5. CASE SetupTest
    BY <2>1, <2>5 DEF SetupTest, Goto
  <2>6. CASE ExecuteTest
    <3>1. /\ main = "execute" /\ cur <= Len(tests) /\ queue' = Printed(cur) /\ results' = << >>
          /\ UNCHANGED <<conf, session, cur>>
      BY <2>6 DEF ExecuteTest
    <3>2. cur \in DOMAIN tests /\ cur \in DOMAIN conf.files /\ tests[cur] \in New(file)
      <4>1. /\ DOMAIN tests = DOMAIN conf.files /\ tests \in Seq(ToSet(tests))
            /\ cur \in 1..Len(conf.files) + 1
        BY <3>1 DEF TestsInv, IsSequence
      <4>2. cur \in 1..Len(tests)
        BY <3>1, <4>1, FilesHere
      <4>3. cur \in DOMAIN tests
        BY <4>1, <4>2
      <4> QED
        BY <4>1, <4>3 DEF TestsInv
    <3>3. /\ IsSequence(file.cases) /\ \A tc \in ToSet(file.cases) : IsSequence(tc.lines)
      BY <3>2, FilesHere
    <3>4. tests[cur].plugin = file.plugin
      <4>1. \A g : CaseSet(file, g).plugin = file.plugin
        BY DEF CaseSet
      <4>2. \E g : tests[cur] = CaseSet(file, g)
        BY <3>2 DEF New
      <4> QED
        BY <4>1, <4>2
    <3>5. /\ IsPrinted(Printed(cur))
          /\ \A n \in OutPipelines : \A k \in DOMAIN Printed(cur)[n] : \E e :
               /\ IsMade(e, tests[cur], codec)
               /\ Printed(cur)[n][k] = OutputPipeline(e, OutOfPipeline(n))
      BY <3>1, <3>2, <3>4, PrintedAre
    <3>6. ASSUME single, NEW n \in DOMAIN Printed(cur), NEW x \in ToSet(Printed(cur)[n])
          PROVE  IsOwn(x, file)
      <4>1. PICK k \in DOMAIN Printed(cur)[n] : x = Printed(cur)[n][k]
        BY DEF ToSet
      <4>2. n \in OutPipelines
        BY <3>5 DEF IsPrinted
      <4>3. PICK e : /\ IsMade(e, tests[cur], codec)
                     /\ Printed(cur)[n][k] = OutputPipeline(e, OutOfPipeline(n))
        BY <3>5, <4>2
      <4> QED
        BY <3>2, <3>3, <3>6, <4>1, <4>3, MadeIsOwn
    <3>7. ToSet(<< >>) = {} /\ IsSequence(<< >>)
      BY DEF ToSet, IsSequence
    <3>8. \A n \in DOMAIN Printed(cur) : IsSequence(Printed(cur)[n])
      BY <3>5 DEF IsPrinted
    <3>9. FieldsAreOwn'
      <4>1. single' <=> single
        BY <3>1 DEF InputCodec
      <4> QED
        BY <3>1, <3>6, <3>7, <4>1 DEF FieldsAreOwn
    <3> QED
      BY <3>1, <3>7, <3>8, <3>9 DEF OwnInv
  <2>7. ASSUME NEW n \in DOMAIN queue, Arrive(n) PROVE OwnInv'
    <3>1. /\ main = "results" /\ queue[n] # << >>
          /\ queue' = [queue EXCEPT ![n] = Tail(queue[n])]
          /\ results' = Append(results, Head(queue[n]))
          /\ UNCHANGED <<conf, session, cur>>
      BY <2>7 DEF Arrive
    <3>2. IsSequence(results) /\ \A m \in DOMAIN queue : IsSequence(queue[m])
      BY <3>1 DEF OwnInv
    <3>3. /\ IsSequence(Tail(queue[n])) /\ ToSet(Tail(queue[n])) \subseteq ToSet(queue[n])
          /\ Head(queue[n]) \in ToSet(queue[n])
      BY <3>1, <3>2, TailOf
    <3>4. /\ IsSequence(results')
          /\ ToSet(results') = ToSet(results) \cup {Head(queue[n])}
      BY <3>1, <3>2, AppendOf
    <3>5. /\ DOMAIN queue' = DOMAIN queue
          /\ \A m \in DOMAIN queue : /\ IsSequence(queue'[m])
                                     /\ ToSet(queue'[m]) \subseteq ToSet(queue[m])
      BY <3>1, <3>2, <3>3
    <3> DEFINE all == ToSet(results) \cup UNION {ToSet(queue[m]) : m \in DOMAIN queue}
    <3>6. all' \subseteq all
      BY <3>3, <3>4, <3>5
    <3> HIDE DEF all
    <3>7. FieldsAreOwn'
      <4>1. single' <=> single
        BY <3>1 DEF InputCodec
      <4>2. single => \A e \in all : IsOwn(e, file)
        BY <3>1 DEF OwnInv, FieldsAreOwn, all
      <4>3. single => \A e \in all' : IsOwn(e, file)
        BY <3>6, <4>2
      <4> QED
        BY <3>1, <4>1, <4>3 DEF FieldsAreOwn, all
    <3> QED
      BY <3>4, <3>5, <3>7 DEF OwnInv
  <2>8. CASE CompareResults
    BY <2>1, <2>8 DEF CompareResults, Goto
  <2>9. CASE End
    BY <2>1, <2>9 DEF End, Return
  <2> QED
    BY <2>2, <2>3, <2>4, <2>5, <2>6, <2>7, <2>8, <2>9 DEF Next
<1>3. OwnInv => FieldsAreOwn
  BY DEF OwnInv
<1> QED
  BY <1>1, <1>2, <1>3, TestsOfTheRun, PTL DEF Spec

=================================================================================
