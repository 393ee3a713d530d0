--------------------------- MODULE CallsAndLogProofs ---------------------------
(***************************************************************************)
(* What CommandCalls and LogStream promise.                                *)
(*                                                                         *)
(* CommandCalls, for any library, any number of calls, requests and        *)
(* admins: a call starts only what was allowed while it was served, a      *)
(* command marked for approval waits, what was approved starts as it was   *)
(* shown, and the argument list keeps every value in its place.            *)
(*                                                                         *)
(* LogStream, for any log and any number of lost connections: the page     *)
(* shows every character once and in order, and has them all when it is    *)
(* told that the run has ended.                                            *)
(*                                                                         *)
(* Both put texts together from pieces (FlattenSeq): that comes first.     *)
(***************************************************************************)
EXTENDS CommandCalls, LogStream, FiniteSetTheorems, SequenceTheorems, WellFoundedInduction, TLAPS

-----------------------------------------------------------------------------
(* Texts put together from pieces *)

(* A set of numbers that is not empty has a least one. *)
LEMMA Least ==
    ASSUME NEW T \in SUBSET Nat, T # {}
    PROVE  \E n \in T : \A m \in T : n <= m
<1> DEFINE R == {ss \in Nat \X Nat : ss[1] < ss[2]}
<1>1. IsWellFoundedOn(R, Nat)
      BY NatLessThanWellFounded DEF OpToRel
<1>2. \A m, n \in Nat : m < n => <<m, n>> \in R  OBVIOUS
<1>3. T \subseteq Nat  OBVIOUS
<1> HIDE DEF R
<1>4. PICK n \in T : \A m \in T : ~(<<m, n>> \in R)
      BY <1>1, <1>3, WFMin, Zenon
<1>5. \A m \in T : ~(m < n)  BY <1>2, <1>3, <1>4
<1> QED BY <1>3, <1>5, SMT

LEMMA Induct ==
    ASSUME NEW P \in SUBSET Nat, 0 \in P, \A n \in P : n + 1 \in P
    PROVE  P = Nat
<1> SUFFICES ASSUME Nat \ P # {} PROVE FALSE  OBVIOUS
<1>1. PICK n \in Nat \ P : \A m \in Nat \ P : n <= m  BY Least
<1>2. n # 0 /\ n - 1 \in Nat /\ n - 1 < n /\ n - 1 + 1 = n  BY <1>1
<1>3. n - 1 \in P  BY <1>1, <1>2
<1> QED BY <1>1, <1>2, <1>3

(* Flattening step by step *)
Flattens(g, f, n) ==
    /\ g = [i \in 1 .. n |-> g[i]]
    /\ 1 <= n => g[1] = f[1]
    /\ \A i \in 1 .. n : i < n => g[i + 1] = g[i] \o f[i + 1]

Flattening(g, f, n) == [i \in 1 .. n |-> IF i = 1 THEN f[i] ELSE g[i - 1] \o f[i]]

LEMMA FlattensAll ==
    ASSUME NEW g, NEW f, NEW n \in Nat
    PROVE  Flattens(g, f, n) <=> g = Flattening(g, f, n)
<1> DEFINE E(i) == IF i = 1 THEN f[i] ELSE g[i - 1] \o f[i]
<1>1. ASSUME Flattens(g, f, n)
      PROVE  g = [i \in 1 .. n |-> E(i)]
      <2>1. ASSUME NEW i \in 1 .. n PROVE g[i] = E(i)
            <3>1. CASE i = 1  BY <1>1, <3>1 DEF Flattens
            <3>2. CASE i # 1
                  <4> DEFINE j == i - 1
                  <4>1. j \in 1 .. n /\ j < n /\ j + 1 = i  BY <3>2
                  <4>2. \A k \in 1 .. n : k < n => g[k + 1] = g[k] \o f[k + 1]  BY <1>1 DEF Flattens
                  <4>3. g[j + 1] = g[j] \o f[j + 1]
                        <5> HIDE DEF j
                        <5> QED BY <4>1, <4>2, Zenon
                  <4> QED BY <3>2, <4>1, <4>3
            <3> QED BY <3>1, <3>2
      <2> QED BY <1>1, <2>1 DEF Flattens
<1>2. ASSUME g = [i \in 1 .. n |-> E(i)]
      PROVE  Flattens(g, f, n)
      <2>1. \A i \in 1 .. n : g[i] = E(i)
            <3> HIDE DEF E
            <3> QED BY <1>2
      <2>2. g = [i \in 1 .. n |-> g[i]]
            <3> HIDE DEF E
            <3> QED BY <1>2
      <2>3. 1 <= n => g[1] = f[1]  BY <2>1
      <2>4. ASSUME NEW j \in 1 .. n, j < n PROVE g[j + 1] = g[j] \o f[j + 1]
            <3> DEFINE i == j + 1
            <3>1. i \in 1 .. n /\ i # 1 /\ i - 1 = j  BY <2>4
            <3>2. g[i] = E(i)
                  <4> HIDE DEF i, E
                  <4> QED BY <2>1, <3>1
            <3> QED BY <3>1, <3>2
      <2> QED BY <2>2, <2>3, <2>4 DEF Flattens
<1> QED BY <1>1, <1>2 DEF Flattening

LEMMA FlattensExists ==
    ASSUME NEW f PROVE \A n \in Nat : \E g : Flattens(g, f, n)
<1> DEFINE P == {n \in Nat : \E g : Flattens(g, f, n)}
<1>1. 0 \in P
      <2>1. Flattens(<<>>, f, 0)  BY DEF Flattens
      <2> QED BY <2>1
<1>2. ASSUME NEW n \in P PROVE n + 1 \in P
      <2>1. n \in Nat  OBVIOUS
      <2>2. PICK g : Flattens(g, f, n)  BY <1>2
      <2> DEFINE last == IF n = 0 THEN f[1] ELSE g[n] \o f[n + 1]
                 h == [i \in 1 .. n + 1 |-> IF i = n + 1 THEN last ELSE g[i]]
      <2>3. h[n + 1] = last /\ \A i \in 1 .. n : h[i] = g[i]
            <3> HIDE DEF last, P
            <3> QED BY <2>1
      <2>4. h = [i \in 1 .. n + 1 |-> h[i]]  OBVIOUS
      <2> HIDE DEF h
      <2>5. Flattens(h, f, n + 1)
            <3>1. h[1] = f[1]
                  <4>1. CASE n = 0  BY <2>3, <4>1
                  <4>2. CASE n # 0  BY <2>1, <2>2, <2>3, <4>2 DEF Flattens
                  <4> QED BY <4>1, <4>2
            <3>2. ASSUME NEW i \in 1 .. n + 1, i < n + 1 PROVE h[i + 1] = h[i] \o f[i + 1]
                  <4>1. CASE i = n
                        <5>1. n # 0 /\ n \in 1 .. n  BY <2>1, <4>1
                        <5> QED BY <2>3, <4>1, <5>1
                  <4>2. CASE i # n
                        <5>1. i \in 1 .. n /\ i + 1 \in 1 .. n /\ i < n  BY <2>1, <3>2, <4>2
                        <5>2. g[i + 1] = g[i] \o f[i + 1]  BY <2>2, <5>1 DEF Flattens
                        <5> QED BY <2>3, <5>1, <5>2
                  <4> QED BY <4>1, <4>2
            <3> QED BY <2>4, <3>1, <3>2 DEF Flattens
      <2> QED BY <2>1, <2>5
<1>3. P \in SUBSET Nat  OBVIOUS
<1> HIDE DEF P
<1>4. P = Nat  BY <1>1, <1>2, <1>3, Induct
<1> QED BY <1>4 DEF P

LEMMA FlattensUnique ==
    ASSUME NEW f, NEW m \in Nat, NEW n \in Nat, m <= n, NEW g, NEW h,
           Flattens(g, f, m), Flattens(h, f, n)
    PROVE  \A i \in 1 .. m : g[i] = h[i]
<1> DEFINE T == {i \in 1 .. m : g[i] # h[i]}
<1> SUFFICES ASSUME T # {} PROVE FALSE  OBVIOUS
<1>1. T \in SUBSET Nat  OBVIOUS
<1>2. PICK i \in T : \A j \in T : i <= j
      <2> HIDE DEF T
      <2> QED BY <1>1, Least
<1>3. i \in 1 .. m /\ i \in 1 .. n /\ g[i] # h[i]  OBVIOUS
<1>4. i # 1
      <2>1. i = 1 => g[i] = f[1] /\ h[i] = f[1]  BY <1>3 DEF Flattens
      <2> QED BY <1>3, <2>1
<1> DEFINE j == i - 1
<1>5. j \in 1 .. m /\ j \in 1 .. n /\ j < m /\ j < n /\ j < i /\ j + 1 = i  BY <1>3, <1>4
<1> HIDE DEF j
<1>6. g[j] = h[j]
      <2>1. j \notin T  BY <1>2, <1>5
      <2> QED BY <1>5, <2>1
<1>7. g[j + 1] = g[j] \o f[j + 1] /\ h[j + 1] = h[j] \o f[j + 1]
      BY <1>5, Zenon DEF Flattens
<1> QED BY <1>3, <1>5, <1>6, <1>7

(* What the library's FlattenSeq makes of a sequence of so many. *)
LEMMA FlattenIs ==
    ASSUME NEW n \in Nat, n # 0, NEW f, Len(f) = n
    PROVE  \E g : Flattens(g, f, n) /\ FlattenSeq(f) = g[n]
<1> DEFINE g == CHOOSE h : h = Flattening(h, f, n)
<1>1. \E h : h = Flattening(h, f, n)
      BY FlattensExists, FlattensAll
<1>2. Flattens(g, f, n)
      <2>1. g = Flattening(g, f, n)  BY <1>1
      <2> HIDE DEF g
      <2> QED BY <2>1, FlattensAll
<1>3. FlattenSeq(f) = g[n]
      BY DEF FlattenSeq, Flattening
<1> HIDE DEF g
<1> QED BY <1>2, <1>3

LEMMA FlattenNone == ASSUME NEW f, Len(f) = 0 PROVE FlattenSeq(f) = f
BY DEF FlattenSeq

LEMMA SeqsAre ==
    ASSUME NEW S, NEW n \in Nat, NEW f \in [1 .. n -> Seq(S)]
    PROVE  f \in Seq(Seq(S)) /\ Len(f) = n
OBVIOUS

LEMMA FlattensAt ==
    ASSUME NEW g, NEW f, NEW m \in Nat, Flattens(g, f, m), NEW j \in Nat, j # 0, j < m
    PROVE  g[j + 1] = g[j] \o f[j + 1]
<1>1. j \in 1 .. m  OBVIOUS
<1> QED BY <1>1, Zenon DEF Flattens

LEMMA FlattenLast ==
    ASSUME NEW S, NEW n \in Nat, NEW f \in [1 .. n + 1 -> Seq(S)]
    PROVE  FlattenSeq(f) = FlattenSeq([k \in 1 .. n |-> f[k]]) \o f[n + 1]
<1> DEFINE e == [k \in 1 .. n |-> f[k]]
<1>1. Len(f) = n + 1 /\ n + 1 \in Nat /\ n + 1 # 0
      BY SeqsAre
<1>2. e \in [1 .. n -> Seq(S)] /\ Len(e) = n
      <2>1. e \in [1 .. n -> Seq(S)]  OBVIOUS
      <2> HIDE DEF e
      <2> QED BY <2>1, SeqsAre
<1>3. PICK g : Flattens(g, f, n + 1) /\ FlattenSeq(f) = g[n + 1]
      BY <1>1, FlattenIs
<1>4. CASE n = 0
      <2>1. FlattenSeq(e) = << >>  
            <3>1. e = << >> BY <1>4
            <3> HIDE DEF e
            <3> QED BY <1>2, <1>4, <3>1, FlattenNone
      <2>2. g[1] = f[1]  BY <1>3, <1>4 DEF Flattens
      <2>3. f[1] \in Seq(S)  BY <1>4
      <2> QED BY <1>3, <1>4, <2>1, <2>2, <2>3
<1>5. CASE n # 0
      <2>1. PICK h : Flattens(h, e, n) /\ FlattenSeq(e) = h[n]
            <3> HIDE DEF e
            <3> QED BY <1>2, <1>5, FlattenIs
      <2>2. Flattens(h, f, n)
            <3>1. \A i \in 1 .. n : e[i] = f[i]  OBVIOUS
            <3> HIDE DEF e
            <3>2. h = [i \in 1 .. n |-> h[i]]  BY <2>1 DEF Flattens
            <3>3. h[1] = f[1]  BY <1>5, <2>1, <3>1 DEF Flattens
            <3>4. \A i \in 1 .. n : i < n => h[i + 1] = h[i] \o e[i + 1]  BY <2>1 DEF Flattens
            <3>5. \A i \in 1 .. n : i < n => h[i + 1] = h[i] \o f[i + 1]
                  <4>1. \A i \in 1 .. n : i < n => i + 1 \in 1 .. n  OBVIOUS
                  <4> QED BY <3>1, <3>4, <4>1, Zenon
            <3> QED BY <3>2, <3>3, <3>5 DEF Flattens
      <2>3. h[n] = g[n]
            <3>1. n \in 1 .. n /\ n <= n + 1 /\ n + 1 \in Nat  BY <1>5
            <3> QED BY <1>3, <2>2, <3>1, FlattensUnique
      <2>4. g[n + 1] = g[n] \o f[n + 1]
            <3>1. Flattens(g, f, n + 1) /\ n < n + 1 /\ n + 1 \in Nat  BY <1>3
            <3> QED BY <1>5, <3>1, FlattensAt
      <2> HIDE DEF e
      <2> QED BY <1>3, <2>1, <2>3, <2>4 DEF e
<1> QED BY <1>4, <1>5

LEMMA FlattenType ==
    ASSUME NEW S
    PROVE  \A n \in Nat : \A f \in [1 .. n -> Seq(S)] : FlattenSeq(f) \in Seq(S)
<1> DEFINE P == {n \in Nat : \A f \in [1 .. n -> Seq(S)] : FlattenSeq(f) \in Seq(S)}
<1>1. 0 \in P
      <2> SUFFICES ASSUME NEW f \in [1 .. 0 -> Seq(S)] PROVE FlattenSeq(f) \in Seq(S)
          OBVIOUS
      <2>1. Len(f) = 0 /\ f = << >>  BY SeqsAre
      <2>2. FlattenSeq(f) = << >>  BY <2>1, FlattenNone
      <2> QED BY <2>2
<1>2. ASSUME NEW n \in P PROVE n + 1 \in P
      <2> SUFFICES ASSUME NEW f \in [1 .. n + 1 -> Seq(S)] PROVE FlattenSeq(f) \in Seq(S)
          OBVIOUS
      <2> DEFINE e == [k \in 1 .. n |-> f[k]]
      <2>1. e \in [1 .. n -> Seq(S)] /\ f[n + 1] \in Seq(S) /\ n \in Nat  OBVIOUS
      <2>2. FlattenSeq(e) \in Seq(S)
            <3> HIDE DEF e
            <3> QED BY <2>1
      <2>3. FlattenSeq(f) = FlattenSeq(e) \o f[n + 1]  BY <2>1, FlattenLast
      <2> HIDE DEF e, P
      <2> QED BY <2>1, <2>2, <2>3
<1>3. P \in SUBSET Nat  OBVIOUS
<1> HIDE DEF P
<1>4. P = Nat  BY <1>1, <1>2, <1>3, Induct
<1> QED BY <1>4 DEF P

(* Each piece is in what is put together, in one piece. *)
LEMMA FlattenHolds ==
    ASSUME NEW S
    PROVE  \A n \in Nat : \A f \in [1 .. n -> Seq(S)] : \A k \in 1 .. n :
              \E a, b \in Seq(S) : FlattenSeq(f) = (a \o f[k]) \o b
<1> DEFINE Q(f, k) == \E a, b \in Seq(S) : FlattenSeq(f) = (a \o f[k]) \o b
           P == {n \in Nat : \A f \in [1 .. n -> Seq(S)] : \A k \in 1 .. n : Q(f, k)}
<1>1. 0 \in P  OBVIOUS
<1>2. ASSUME NEW n \in P PROVE n + 1 \in P
      <2>0. n \in Nat  OBVIOUS
      <2> HIDE DEF Q
      <2> SUFFICES ASSUME NEW f \in [1 .. n + 1 -> Seq(S)], NEW k \in 1 .. n + 1 PROVE Q(f, k)
          BY <2>0
      <2> USE DEF Q
      <2> DEFINE e == [j \in 1 .. n |-> f[j]]
      <2>1. e \in [1 .. n -> Seq(S)] /\ f[n + 1] \in Seq(S) /\ f[k] \in Seq(S)  BY <2>0
      <2>2. FlattenSeq(f) = FlattenSeq(e) \o f[n + 1]  BY <2>0, FlattenLast
      <2>3. CASE k = n + 1
            <3>1. FlattenSeq(e) \in Seq(S)
                  <4> HIDE DEF e
                  <4> QED BY <2>0, <2>1, FlattenType
            <3>2. << >> \in Seq(S) /\ (FlattenSeq(e) \o f[n + 1]) \o << >> = FlattenSeq(e) \o f[n + 1]
                  <4> HIDE DEF e
                  <4> QED BY <2>1, <3>1
            <3> HIDE DEF e
            <3> QED BY <2>2, <2>3, <3>1, <3>2
      <2>4. CASE k # n + 1
            <3>1. k \in 1 .. n /\ e[k] = f[k]  BY <2>0, <2>4
            <3>2. PICK a \in Seq(S), b \in Seq(S) : FlattenSeq(e) = (a \o f[k]) \o b
                  <4>1. Q(e, k)
                        <5> HIDE DEF e, Q
                        <5> QED BY <2>1, <3>1
                  <4> HIDE DEF e
                  <4> QED BY <3>1, <4>1
            <3>3. b \o f[n + 1] \in Seq(S) /\ a \o f[k] \in Seq(S)  BY <2>1
            <3>4. ((a \o f[k]) \o b) \o f[n + 1] = (a \o f[k]) \o (b \o f[n + 1])
                  <4> DEFINE c == a \o f[k]
                             d == f[n + 1]
                  <4>1. c \in Seq(S) /\ d \in Seq(S)  BY <2>1, <3>3
                  <4> HIDE DEF c, d
                  <4>2. (c \o b) \o d = c \o (b \o d)  BY <4>1, ConcatAssociative
                  <4> QED BY <4>2 DEF c, d
            <3> HIDE DEF e
            <3> QED BY <2>2, <3>2, <3>3, <3>4
      <2> QED BY <2>3, <2>4
<1>3. P \in SUBSET Nat  OBVIOUS
<1> HIDE DEF P
<1>4. P = Nat  BY <1>1, <1>2, <1>3, Induct
<1> QED BY <1>4 DEF P

(* Everything in it is of some piece. *)
OfSomePiece(n, f) == \A j \in DOMAIN FlattenSeq(f) :
    \E k \in 1 .. n : \E m \in DOMAIN f[k] : FlattenSeq(f)[j] = f[k][m]

LEMMA FlattenFrom ==
    ASSUME NEW S
    PROVE  \A n \in Nat : \A f \in [1 .. n -> Seq(S)] : OfSomePiece(n, f)
<1> DEFINE Q(n, f, j) == \E k \in 1 .. n : \E m \in DOMAIN f[k] : FlattenSeq(f)[j] = f[k][m]
           P == {n \in Nat : \A f \in [1 .. n -> Seq(S)] : OfSomePiece(n, f)}
<1> USE DEF OfSomePiece
<1>1. 0 \in P
      <2> SUFFICES ASSUME NEW f \in [1 .. 0 -> Seq(S)], NEW j \in DOMAIN FlattenSeq(f) PROVE FALSE
          OBVIOUS
      <2>1. Len(f) = 0 /\ f = << >>  BY SeqsAre
      <2>2. FlattenSeq(f) = << >>  BY <2>1, FlattenNone
      <2> QED BY <2>2
<1>2. ASSUME NEW n \in P PROVE n + 1 \in P
      <2>0. n \in Nat  OBVIOUS
      <2> SUFFICES ASSUME NEW f \in [1 .. n + 1 -> Seq(S)], NEW j \in DOMAIN FlattenSeq(f)
                   PROVE  Q(n + 1, f, j)
          BY <2>0
      <2> DEFINE e == [i \in 1 .. n |-> f[i]]
                 h == FlattenSeq(e)
      <2>1. e \in [1 .. n -> Seq(S)] /\ f[n + 1] \in Seq(S)  BY <2>0
      <2>2. FlattenSeq(f) = h \o f[n + 1]  BY <2>0, FlattenLast
      <2>3. h \in Seq(S)
            <3> HIDE DEF e
            <3> QED BY <2>0, <2>1, FlattenType
      <2>4. \A i \in 1 .. n : e[i] = f[i] /\ i \in 1 .. n + 1  BY <2>0
      <2>5. CASE j \in DOMAIN h
            <3>0. OfSomePiece(n, e)
                  <4> HIDE DEF e, OfSomePiece
                  <4> QED BY <2>1
            <3>1. Q(n, e, j)
                  <4> HIDE DEF e
                  <4> QED BY <2>5, <3>0 DEF h
            <3>2. FlattenSeq(f)[j] = h[j]
                  <4> HIDE DEF h
                  <4> QED BY <2>1, <2>2, <2>3, <2>5
            <3>3. PICK i \in 1 .. n : \E m \in DOMAIN e[i] : h[j] = e[i][m]
                  <4> HIDE DEF e
                  <4> QED BY <3>1
            <3> HIDE DEF e, h
            <3> QED BY <2>4, <3>2, <3>3
      <2>6. CASE j \notin DOMAIN h
            <3> DEFINE m == j - Len(h)
            <3>1. m \in DOMAIN f[n + 1] /\ FlattenSeq(f)[j] = f[n + 1][m]
                  <4> HIDE DEF h
                  <4> QED BY <2>1, <2>2, <2>3, <2>6
            <3>2. n + 1 \in 1 .. n + 1  BY <2>0
            <3> HIDE DEF m
            <3> QED BY <3>1, <3>2
      <2> QED BY <2>5, <2>6
<1>3. P \in SUBSET Nat  OBVIOUS
<1> HIDE DEF P
<1>4. P = Nat  BY <1>1, <1>2, <1>3, Induct
<1> QED BY <1>4 DEF P

(* It begins with its first piece. *)
LEMMA FlattenFirst ==
    ASSUME NEW S
    PROVE  \A n \in Nat : \A f \in [1 .. n + 1 -> Seq(S)] : f[1] # << >> =>
              FlattenSeq(f) # << >> /\ FlattenSeq(f)[1] = f[1][1]
<1> DEFINE P == {n \in Nat : \A f \in [1 .. n + 1 -> Seq(S)] : f[1] # << >> =>
                     FlattenSeq(f) # << >> /\ FlattenSeq(f)[1] = f[1][1]}
<1>1. 0 \in P
      <2> SUFFICES ASSUME NEW f \in [1 .. 0 + 1 -> Seq(S)], f[1] # << >>
                   PROVE  FlattenSeq(f) # << >> /\ FlattenSeq(f)[1] = f[1][1]
          OBVIOUS
      <2>1. FlattenSeq(f) = FlattenSeq([k \in 1 .. 0 |-> f[k]]) \o f[0 + 1]  BY FlattenLast
      <2>2. [k \in 1 .. 0 |-> f[k]] = << >>  OBVIOUS
      <2>3. Len(<< >>) = 0  OBVIOUS
      <2>4. FlattenSeq(<< >>) = << >>  BY <2>3, FlattenNone
      <2>5. f[1] \in Seq(S)  OBVIOUS
      <2>6. << >> \o f[1] = f[1]  BY <2>5
      <2> QED BY <2>1, <2>2, <2>4, <2>6
<1>2. ASSUME NEW n \in P PROVE n + 1 \in P
      <2>0. n \in Nat  OBVIOUS
      <2> SUFFICES ASSUME NEW f \in [1 .. n + 1 + 1 -> Seq(S)], f[1] # << >>
                   PROVE  FlattenSeq(f) # << >> /\ FlattenSeq(f)[1] = f[1][1]
          BY <2>0
      <2> DEFINE e == [k \in 1 .. n + 1 |-> f[k]]
                 h == FlattenSeq(e)
      <2>1. /\ e \in [1 .. n + 1 -> Seq(S)] /\ f[n + 1 + 1] \in Seq(S) /\ e[1] = f[1]
            /\ n + 1 \in Nat
            BY <2>0
      <2>2. FlattenSeq(f) = h \o f[n + 1 + 1]  BY <2>1, FlattenLast
      <2>3. h \in Seq(S)
            <3> HIDE DEF e
            <3> QED BY <2>1, FlattenType
      <2>4. h # << >> /\ h[1] = e[1][1]
            <3> HIDE DEF e
            <3> QED BY <2>1
      <2> HIDE DEF h, e
      <2>5. 1 \in 1 .. Len(h)
            <3>1. Len(h) \in Nat \ {0}  BY <2>3, <2>4, EmptySeq
            <3> QED BY <3>1
      <2>6. (h \o f[n + 1 + 1])[1] = h[1]  BY <2>1, <2>3, <2>5
      <2>7. h \o f[n + 1 + 1] # << >>
            <3>1. Len(h \o f[n + 1 + 1]) = Len(h) + Len(f[n + 1 + 1])  BY <2>1, <2>3
            <3> QED BY <2>1, <2>3, <2>5, <3>1
      <2> QED BY <2>1, <2>2, <2>4, <2>6, <2>7
<1>3. P \in SUBSET Nat  OBVIOUS
<1> HIDE DEF P
<1>4. P = Nat  BY <1>1, <1>2, <1>3, Induct
<1> QED BY <1>4 DEF P

-----------------------------------------------------------------------------
(* The argument list *)

(* What values are written with. *)
Letters == Symbols \cup UNION {ToSet(Str(n)) : n \in Int}

LEMMA StrType == ASSUME NEW n \in Int PROVE Str(n) \in Seq(Letters) /\ Str(n) # << >>
<1>1. ToSet(Str(n)) \subseteq Letters  BY DEF Letters
<1>2. PICK x : Str(n) = <<"-", x>> \/ Str(n) = <<x>>  BY DEF Str
<1>3. CASE Str(n) = <<"-", x>>
      <2>1. {"-", x} \subseteq ToSet(Str(n))  BY <1>3 DEF ToSet
      <2>2. "-" \in Letters /\ x \in Letters  BY <1>1, <2>1
      <2> QED BY <1>3, <2>2
<1>4. CASE Str(n) = <<x>>
      <2>1. x \in ToSet(Str(n))  BY <1>4 DEF ToSet
      <2>2. x \in Letters  BY <1>1, <2>1
      <2> QED BY <1>4, <2>2
<1> QED BY <1>2, <1>3, <1>4

LEMMA ValueIs ==
    ASSUME NEW t \in Templates, Accepts(t), NEW given \in Givens, ValidParams(t, given),
           NEW p \in DOMAIN given
    PROVE  /\ Values(given)[p] \in Seq(Letters) /\ Values(given)[p] # << >>
           /\ Dashed(Values(given)[p]) => MayLead(t.params[p], Values(given)[p])
<1> DEFINE spec == t.params[p]
           value == given[p]
           text == Values(given)[p]
<1>1. Fits(spec, value) /\ p \in DOMAIN t.params  BY DEF ValidParams
<1>2. WellFormed(spec)  BY <1>1 DEF Accepts
<1>3. /\ value.json = "string" => value.text \in Seq(Symbols)
      /\ value.json = "number" => /\ value.number \in Int
                                  /\ value.number >= 0 => ~Dashed(Str(value.number))
      /\ spec.type = "int" => spec.min \in Int /\ spec.max \in Int
      BY <1>1, TextsAreTyped
<1>4. text = IF value.json = "number" THEN Str(value.number) ELSE value.text
      BY DEF Values
<1> HIDE DEF spec, value, text
<1>5. CASE value.json = "string"
      <2>1. text = value.text  BY <1>4, <1>5
      <2>2. text \in Seq(Letters)
            <3>1. Symbols \subseteq Letters  BY DEF Letters
            <3>2. text \in Seq(Symbols)  BY <1>3, <1>5, <2>1
            <3> QED BY <3>1, <3>2
      <2>3. \/ spec.type = "enum" /\ text \in ToSet(spec.values)
            \/ spec.type = "regex" /\ text # << >> /\ (Dashed(text) => spec.allow_leading_dash)
            BY <1>1, <1>5, <2>1 DEF Fits
      <2>4. CASE spec.type = "enum" /\ text \in ToSet(spec.values)
            <3>1. \A i \in DOMAIN spec.values : spec.values[i] # << >>
                  BY <1>2, <2>4 DEF WellFormed
            <3>2. text # << >>  BY <2>4, <3>1 DEF ToSet
            <3>3. Dashed(text) => MayLead(spec, text)  BY <2>4 DEF MayLead
            <3> QED BY <2>2, <3>2, <3>3 DEF spec, text
      <2>5. CASE spec.type = "regex" /\ text # << >> /\ (Dashed(text) => spec.allow_leading_dash)
            <3>1. Dashed(text) => MayLead(spec, text)  BY <2>5 DEF MayLead
            <3> QED BY <2>2, <2>5, <3>1 DEF spec, text
      <2> QED BY <2>3, <2>4, <2>5
<1>6. CASE value.json # "string"
      <2>1. spec.type = "int" /\ value.json = "number" /\ value.number \in spec.min .. spec.max
            BY <1>1, <1>6 DEF Fits
      <2>2. text = Str(value.number) /\ value.number \in Int  BY <1>3, <1>4, <2>1
      <2>3. text \in Seq(Letters) /\ text # << >>  BY <2>2, StrType
      <2>4. Dashed(text) => MayLead(spec, text)
            <3> SUFFICES ASSUME Dashed(text) PROVE value.number < 0
                BY <2>1, <2>2 DEF MayLead
            <3>1. ~(value.number >= 0)  BY <1>3, <2>1, <2>2
            <3> QED BY <2>2, <3>1
      <2> QED BY <2>3, <2>4 DEF spec, text
<1> QED BY <1>5, <1>6

(* Texts to put an element together from. *)
Pieces(token, values) ==
    [i \in DOMAIN token |-> IF token[i] \in Names THEN values[token[i]] ELSE <<token[i]>>]

LEMMA PiecesType ==
    ASSUME NEW token \in Seq(Symbols \cup Names), NEW values,
           Holes(token) \subseteq DOMAIN values,
           \A p \in DOMAIN values : values[p] \in Seq(Letters)
    PROVE  /\ Len(token) \in Nat /\ DOMAIN token = 1 .. Len(token)
           /\ Pieces(token, values) \in [1 .. Len(token) -> Seq(Letters)]
           /\ Filled(token, values) = FlattenSeq(Pieces(token, values))
           /\ Filled(token, values) \in Seq(Letters)
<1>1. Len(token) \in Nat /\ DOMAIN token = 1 .. Len(token)  OBVIOUS
<1>2. ASSUME NEW i \in DOMAIN token PROVE Pieces(token, values)[i] \in Seq(Letters)
      <2>1. token[i] \in Symbols \cup Names  OBVIOUS
      <2>2. CASE token[i] \in Names
            <3>1. token[i] \in Holes(token)  BY <2>2 DEF Holes, ToSet
            <3>2. Pieces(token, values)[i] = values[token[i]]  BY <2>2 DEF Pieces
            <3> QED BY <3>1, <3>2
      <2>3. CASE token[i] \notin Names
            <3>1. token[i] \in Letters  BY <2>1, <2>3 DEF Letters
            <3>2. Pieces(token, values)[i] = <<token[i]>>  BY <2>3 DEF Pieces
            <3> QED BY <3>1, <3>2
      <2> QED BY <2>2, <2>3
<1>3. Pieces(token, values) \in [1 .. Len(token) -> Seq(Letters)]
      BY <1>1, <1>2 DEF Pieces
<1>4. Filled(token, values) = FlattenSeq(Pieces(token, values))  BY DEF Filled, Pieces
<1>5. Filled(token, values) \in Seq(Letters)
      BY <1>1, <1>3, <1>4, FlattenType
<1> QED BY <1>1, <1>3, <1>4, <1>5

(* A value is in the element made with it. *)
LEMMA FilledHolds ==
    ASSUME NEW token \in Seq(Symbols \cup Names), NEW values,
           Holes(token) \subseteq DOMAIN values,
           \A p \in DOMAIN values : values[p] \in Seq(Letters),
           NEW p \in Holes(token)
    PROVE  \E a, b \in Seq(Letters) : Filled(token, values) = (a \o values[p]) \o b
<1>1. PICK i \in DOMAIN token : token[i] = p  BY DEF Holes, ToSet
<1>2. p \in Names  BY DEF Holes
<1>3. Pieces(token, values)[i] = values[p]  BY <1>1, <1>2 DEF Pieces
<1> DEFINE f == Pieces(token, values)
           n == Len(token)
<1>4. n \in Nat /\ f \in [1 .. n -> Seq(Letters)] /\ i \in 1 .. n /\ Filled(token, values) = FlattenSeq(f)
      BY <1>1, PiecesType
<1> HIDE DEF f, n
<1>5. \E a, b \in Seq(Letters) : FlattenSeq(f) = (a \o f[i]) \o b
      BY <1>4, FlattenHolds
<1>6. f[i] = values[p]  BY <1>3 DEF f
<1> QED BY <1>4, <1>5, <1>6

(* An element begins as its first piece does, if that is not empty. *)
LEMMA FilledBegins ==
    ASSUME NEW token \in Seq(Symbols \cup Names), token # << >>, NEW values,
           Holes(token) \subseteq DOMAIN values,
           \A p \in DOMAIN values : values[p] \in Seq(Letters) /\ values[p] # << >>
    PROVE  Filled(token, values)[1] = IF token[1] \in Names THEN values[token[1]][1] ELSE token[1]
<1> DEFINE f == Pieces(token, values)
           n == Len(token) - 1
<1>1. Len(token) # 0
      BY EmptySeq
<1>2. /\ n \in Nat /\ n + 1 = Len(token) /\ 1 \in DOMAIN token
      /\ f \in [1 .. n + 1 -> Seq(Letters)]
      /\ Filled(token, values) = FlattenSeq(f)
      <2>1. /\ Len(token) \in Nat /\ DOMAIN token = 1 .. Len(token)
            /\ f \in [1 .. Len(token) -> Seq(Letters)]
            /\ Filled(token, values) = FlattenSeq(f)
            BY PiecesType
      <2>2. n \in Nat /\ n + 1 = Len(token) /\ 1 \in DOMAIN token  BY <1>1, <2>1
      <2> HIDE DEF n, f
      <2> QED BY <2>1, <2>2
<1>3. f[1] = IF token[1] \in Names THEN values[token[1]] ELSE <<token[1]>>
      BY <1>2 DEF Pieces
<1>4. f[1] # << >>
      <2>1. CASE token[1] \in Names
            <3>1. token[1] \in Holes(token)  BY <1>2, <2>1 DEF Holes, ToSet
            <3> HIDE DEF f
            <3> QED BY <1>3, <2>1, <3>1
      <2>2. CASE token[1] \notin Names
            <3>1. <<token[1]>> # << >>  OBVIOUS
            <3> HIDE DEF f
            <3> QED BY <1>3, <2>2, <3>1
      <2> QED BY <2>1, <2>2
<1> HIDE DEF f, n
<1>5. FlattenSeq(f)[1] = f[1][1]
      BY <1>2, <1>4, FlattenFirst
<1> QED BY <1>2, <1>3, <1>5

(* What build_argv puts after "sudo -n": the elements that are kept, each    *)
(* filled in, and nothing else.                                              *)
Elements(t, values) ==
    [i \in DOMAIN t.argv |-> IF i \in Kept(t, values) THEN <<Filled(t.argv[i], values)>> ELSE << >>]

LEMMA ElementsAre ==
    ASSUME NEW t \in Templates, NEW values,
           \A p \in DOMAIN values : values[p] \in Seq(Letters)
    PROVE  /\ FlattenSeq(Elements(t, values)) \in Seq(Seq(Letters))
           /\ \A i \in Kept(t, values) : \E j \in DOMAIN FlattenSeq(Elements(t, values)) :
                 FlattenSeq(Elements(t, values))[j] = Filled(t.argv[i], values)
           /\ \A j \in DOMAIN FlattenSeq(Elements(t, values)) : \E i \in Kept(t, values) :
                 FlattenSeq(Elements(t, values))[j] = Filled(t.argv[i], values)
<1> DEFINE f == Elements(t, values)
           n == Len(t.argv)
           argv == FlattenSeq(f)
           E(i) == Filled(t.argv[i], values)
           L == Seq(Letters)
<1>1. t.argv \in Seq(Seq(Symbols \cup Names))  BY TextsAreTyped
<1>2. n \in Nat /\ DOMAIN t.argv = 1 .. n  BY <1>1
<1>3. \A i \in Kept(t, values) : i \in 1 .. n /\ E(i) \in L
      <2> SUFFICES ASSUME NEW i \in Kept(t, values) PROVE i \in 1 .. n /\ E(i) \in L
          OBVIOUS
      <2>1. i \in DOMAIN t.argv /\ Holes(t.argv[i]) \subseteq DOMAIN values  BY DEF Kept
      <2>2. t.argv[i] \in Seq(Symbols \cup Names)  BY <1>1, <2>1
      <2> QED BY <1>2, <2>1, <2>2, PiecesType
<1> HIDE DEF n, E, L
<1>4. /\ \A i \in Kept(t, values) : f[i] = <<E(i)>>
      /\ \A i \in 1 .. n : i \notin Kept(t, values) => f[i] = << >>
      /\ f = [i \in 1 .. n |-> f[i]]
      BY <1>2, <1>3 DEF Elements, E
<1> HIDE DEF f
<1>5. f \in [1 .. n -> Seq(L)]
      <2>1. ASSUME NEW i \in 1 .. n PROVE f[i] \in Seq(L)
            <3>1. CASE i \in Kept(t, values)
                  <4>1. f[i] = <<E(i)>> /\ E(i) \in L  BY <1>3, <1>4, <3>1
                  <4> QED BY <4>1
            <3>2. CASE i \notin Kept(t, values)
                  <4>1. f[i] = << >>  BY <1>4, <3>2
                  <4> QED BY <4>1
            <3> QED BY <3>1, <3>2
      <2> QED BY <1>4, <2>1
<1>6. argv \in Seq(L)  BY <1>2, <1>5, FlattenType
<1>7. ASSUME NEW i \in Kept(t, values) PROVE \E j \in DOMAIN argv : argv[j] = E(i)
      <2>1. PICK a \in Seq(L), b \in Seq(L) : argv = (a \o f[i]) \o b
            <3>1. i \in 1 .. n  BY <1>3
            <3> QED BY <1>2, <1>5, <3>1, FlattenHolds
      <2>2. f[i] = <<E(i)>> /\ E(i) \in L  BY <1>3, <1>4
      <2> DEFINE j == Len(a) + 1
      <2>3. j \in DOMAIN argv /\ argv[j] = E(i)
            <3> HIDE DEF argv
            <3> QED BY <2>1, <2>2
      <2> QED BY <2>3
<1>8. ASSUME NEW j \in DOMAIN argv PROVE \E i \in Kept(t, values) : argv[j] = E(i)
      <2>1. PICK i \in 1 .. n : \E m \in DOMAIN f[i] : argv[j] = f[i][m]
            <3>1. n \in Nat  BY <1>2
            <3>2. OfSomePiece(n, f)  BY <1>5, <3>1, FlattenFrom
            <3> QED BY <3>2 DEF OfSomePiece
      <2>2. i \in Kept(t, values)  BY <1>4, <2>1
      <2>3. f[i] = <<E(i)>>  BY <1>4, <2>2
      <2>4. argv[j] = E(i)
            <3> HIDE DEF argv
            <3> QED BY <2>1, <2>3
      <2> QED BY <2>2, <2>4
<1> QED BY <1>6, <1>7, <1>8 DEF argv, f, E, L

LEMMA ArgvIs ==
    ASSUME NEW t \in Templates, NEW values,
           \A p \in DOMAIN values : values[p] \in Seq(Letters)
    PROVE  /\ \A i \in Kept(t, values) : \E j \in DOMAIN BuildArgv(t, values) :
                 BuildArgv(t, values)[j] = Filled(t.argv[i], values)
           /\ \A e \in ToSet(BuildArgv(t, values)) :
                 \/ t.sudo /\ e \in {<<"sudo">>, <<"-", "n">>}
                 \/ \E i \in Kept(t, values) : e = Filled(t.argv[i], values)
<1> DEFINE argv == FlattenSeq(Elements(t, values))
           whole == BuildArgv(t, values)
           E(i) == Filled(t.argv[i], values)
           first == <<<<"sudo">>, <<"-", "n">>>>
<1>1. /\ argv \in Seq(Seq(Letters))
      /\ \A i \in Kept(t, values) : \E j \in DOMAIN argv : argv[j] = E(i)
      /\ \A j \in DOMAIN argv : \E i \in Kept(t, values) : argv[j] = E(i)
      BY ElementsAre
<1>2. whole = IF t.sudo THEN first \o argv ELSE argv
      BY DEF BuildArgv, Elements
<1> HIDE DEF argv, whole, E
<1>3. CASE ~t.sudo
      <2>1. whole = argv  BY <1>2, <1>3
      <2>2. \A e \in ToSet(whole) : \E i \in Kept(t, values) : e = E(i)
            BY <1>1, <2>1 DEF ToSet
      <2> QED BY <1>1, <2>1, <2>2 DEF whole, E
<1>4. CASE t.sudo
      <2> DEFINE S == Seq(Letters) \cup {<<"sudo">>, <<"-", "n">>}
      <2>1. first \in Seq(S) /\ Len(first) = 2 /\ argv \in Seq(S)
            <3>1. argv \in Seq(S)  BY <1>1
            <3> QED BY <3>1
      <2>2. whole = first \o argv  BY <1>2, <1>4
      <2> HIDE DEF S
      <2>3. /\ whole \in Seq(S) /\ DOMAIN whole = 1 .. 2 + Len(argv) /\ DOMAIN argv = 1 .. Len(argv)
            /\ Len(argv) \in Nat
            /\ \A j \in 1 .. 2 : whole[j] = first[j]
            /\ \A j \in 1 .. Len(argv) : whole[2 + j] = argv[j]
            <3> HIDE DEF first
            <3>0. Len(argv) \in Nat /\ Len(first) = 2  BY <2>1
            <3>1. /\ first \o argv \in Seq(S) /\ Len(first \o argv) = Len(first) + Len(argv)
                  /\ \A j \in 1 .. Len(first) + Len(argv) :
                        (first \o argv)[j] = IF j <= Len(first) THEN first[j] ELSE argv[j - Len(first)]
                  BY <2>1, ConcatProperties
            <3>2. \A j \in 1 .. 2 + Len(argv) : whole[j] = IF j <= 2 THEN first[j] ELSE argv[j - 2]
                  BY <2>2, <3>0, <3>1
            <3>3. whole \in Seq(S) /\ Len(whole) = 2 + Len(argv)  BY <2>2, <3>0, <3>1
            <3>4. \A j \in 1 .. 2 : whole[j] = first[j]  BY <3>0, <3>2
            <3>5. ASSUME NEW j \in 1 .. Len(argv) PROVE whole[2 + j] = argv[j]
                  <4>1. 2 + j \in 1 .. 2 + Len(argv) /\ ~(2 + j <= 2) /\ 2 + j - 2 = j  BY <3>0
                  <4> QED BY <3>2, <4>1
            <3> QED BY <2>1, <3>0, <3>3, <3>4, <3>5
      <2>4. ASSUME NEW i \in Kept(t, values) PROVE \E j \in DOMAIN whole : whole[j] = E(i)
            <3>1. PICK j \in DOMAIN argv : argv[j] = E(i)  BY <1>1
            <3>2. 2 + j \in DOMAIN whole /\ whole[2 + j] = E(i)  BY <2>3, <3>1
            <3> QED BY <3>2
      <2>5. ASSUME NEW e \in ToSet(whole)
            PROVE  e \in {<<"sudo">>, <<"-", "n">>} \/ \E i \in Kept(t, values) : e = E(i)
            <3>1. PICK j \in DOMAIN whole : whole[j] = e  BY DEF ToSet
            <3>2. CASE j \in 1 .. 2
                  <4>1. whole[j] = first[j]  BY <2>3, <3>2
                  <4>2. j = 1 \/ j = 2  BY <3>2
                  <4> QED BY <3>1, <4>1, <4>2
            <3>3. CASE j \notin 1 .. 2
                  <4> DEFINE k == j - 2
                  <4>1. k \in DOMAIN argv /\ 2 + k = j  BY <2>3, <3>3
                  <4> HIDE DEF k
                  <4>2. whole[j] = argv[k]  BY <2>3, <4>1
                  <4> QED BY <1>1, <3>1, <4>1, <4>2
            <3> QED BY <3>2, <3>3
      <2> QED BY <1>4, <2>4, <2>5 DEF whole, E
<1> QED BY <1>3, <1>4

LEMMA CarriesIt ==
    ASSUME NEW argv, NEW j \in DOMAIN argv, NEW S, NEW a \in Seq(S), NEW b \in Seq(S),
           NEW text \in Seq(S), argv[j] = (a \o text) \o b
    PROVE  Carries(argv, text)
<1> DEFINE e == argv[j]
           n == Len(a)
<1>1. /\ n \in 0 .. Len(e) - Len(text) /\ n \in Nat /\ Len(text) \in Nat /\ e \in Seq(S)
      /\ n + Len(text) <= Len(e)
      OBVIOUS
<1>2. \A k \in 1 .. Len(text) : e[n + k] = text[k]
      OBVIOUS
<1> HIDE DEF e, n
<1>3. SubSeq(e, n + 1, n + Len(text)) = text
      <2> DEFINE u == SubSeq(e, n + 1, n + Len(text))
      <2>1. u \in Seq(S) /\ Len(u) = Len(text)
            BY <1>1
      <2>2. \A k \in 1 .. Len(text) : u[k] = e[n + k]
            BY <1>1
      <2> HIDE DEF u
      <2>3. u = text  BY <1>1, <1>2, <2>1, <2>2, SeqEqual
      <2> QED BY <2>3 DEF u
<1> QED BY <1>1, <1>3 DEF Carries, e, n

(* An element with an optional placeholder has no other.                     *)
LEMMA OneHole ==
    ASSUME NEW t \in Templates, Accepts(t), NEW i \in DOMAIN t.argv,
           NEW q \in Holes(t.argv[i]) \cap Optional(t)
    PROVE  Holes(t.argv[i]) = {q}
<1>1. t.argv[i] \in Seq(Symbols \cup Names)  BY TextsAreTyped
<1>2. Cardinality(Holes(t.argv[i])) = 1  BY DEF Accepts, OptionalsFit
<1>3. IsFiniteSet(ToSet(t.argv[i]))
      <2> DEFINE token == t.argv[i]
      <2>1. /\ DOMAIN token = 1 .. Len(token) /\ Len(token) \in Nat
            /\ token \in [1 .. Len(token) -> Symbols \cup Names]
            BY <1>1
      <2> HIDE DEF token
      <2>2. token \in Surjection(DOMAIN token, ToSet(token))
            BY <2>1 DEF Surjection, ToSet
      <2>3. IsFiniteSet(DOMAIN token)  BY <2>1, FS_Interval
      <2>4. IsFiniteSet(ToSet(token))  BY <2>2, <2>3, FS_Surjection
      <2> QED BY <2>4 DEF token
<1>4. IsFiniteSet(Holes(t.argv[i]))  BY <1>3, FS_Subset DEF Holes
<1>5. \E h : Holes(t.argv[i]) = {h}  BY <1>2, <1>4, FS_Singleton
<1> QED BY <1>5

(* What an accepted template makes of values that are valid for it keeps     *)
(* every value whole within one element, begins no element with a dash that  *)
(* neither the template nor a value its parameter may have so makes, and     *)
(* drops no more than the optional parameters that were left out.            *)
LEMMA KeepsPlace ==
    ASSUME NEW t \in Templates, Accepts(t), NEW given \in Givens, ValidParams(t, given)
    PROVE  InPlace(t, Values(given))
<1> DEFINE values == Values(given)
           argv == BuildArgv(t, values)
<1>1. DOMAIN values = DOMAIN given  BY DEF Values
<1>2. \A p \in DOMAIN values : /\ values[p] \in Seq(Letters) /\ values[p] # << >>
                               /\ Dashed(values[p]) => MayLead(t.params[p], values[p])
      BY <1>1, ValueIs
<1>3. t.argv \in Seq(Seq(Symbols \cup Names))  BY TextsAreTyped
<1> HIDE DEF values
<1>4. /\ \A i \in Kept(t, values) : \E j \in DOMAIN argv : argv[j] = Filled(t.argv[i], values)
      /\ \A e \in ToSet(argv) :
            \/ t.sudo /\ e \in {<<"sudo">>, <<"-", "n">>}
            \/ \E i \in Kept(t, values) : e = Filled(t.argv[i], values)
      BY <1>2, ArgvIs
<1> HIDE DEF argv
<1>5. /\ DOMAIN t.params = UNION {Holes(t.argv[i]) : i \in DOMAIN t.argv}
      /\ \A i \in DOMAIN t.argv : t.argv[i] # << >>
      /\ OptionalsFit(t)
      BY DEF Accepts
<1>6. \A p \in DOMAIN t.params : p \notin DOMAIN values => p \in Optional(t)
      BY <1>1 DEF ValidParams
<1>7. DOMAIN values \subseteq DOMAIN t.params  BY <1>1 DEF ValidParams
<1>8. ASSUME NEW i \in Kept(t, values)
      PROVE  /\ i \in DOMAIN t.argv /\ t.argv[i] \in Seq(Symbols \cup Names) /\ t.argv[i] # << >>
             /\ Holes(t.argv[i]) \subseteq DOMAIN values
      BY <1>3, <1>5 DEF Kept
<1>9. ASSUME NEW p \in DOMAIN values PROVE Carries(argv, values[p])
      <2>1. PICK i \in DOMAIN t.argv : p \in Holes(t.argv[i])  BY <1>5, <1>7
      <2>2. Holes(t.argv[i]) \subseteq DOMAIN values
            <3> SUFFICES ASSUME NEW q \in Holes(t.argv[i]), q \notin DOMAIN values PROVE FALSE
                OBVIOUS
            <3>1. q \in Optional(t)  BY <1>5, <1>6
            <3>2. Holes(t.argv[i]) = {q}  BY <3>1, OneHole
            <3> QED BY <2>1, <3>1, <3>2
      <2>3. i \in Kept(t, values)  BY <2>2 DEF Kept
      <2>4. \E a, b \in Seq(Letters) : Filled(t.argv[i], values) = (a \o values[p]) \o b
            BY <1>2, <1>8, <2>1, <2>3, FilledHolds
      <2>5. PICK j \in DOMAIN argv : argv[j] = Filled(t.argv[i], values)  BY <1>4, <2>3
      <2> QED BY <1>2, <2>4, <2>5, CarriesIt
<1>10. ASSUME NEW e \in ToSet(argv), Dashed(e)
       PROVE  \/ t.sudo /\ e = <<"-", "n">>
              \/ \E i \in Kept(t, values) : MeansDash(t, values, i) /\ Filled(t.argv[i], values) = e
       <2>1. CASE t.sudo /\ e \in {<<"sudo">>, <<"-", "n">>}
             <3>1. ~Dashed(<<"sudo">>)  BY DEF Dashed
             <3> QED BY <1>10, <2>1, <3>1
       <2>2. CASE \E i \in Kept(t, values) : e = Filled(t.argv[i], values)
             <3>1. PICK i \in Kept(t, values) : e = Filled(t.argv[i], values)  BY <2>2
             <3> DEFINE first == t.argv[i][1]
             <3>2. e[1] = IF first \in Names THEN values[first][1] ELSE first
                   BY <1>2, <1>8, <3>1, FilledBegins
             <3>3. e[1] = "-"  BY <1>10 DEF Dashed
             <3>4. MeansDash(t, values, i)
                   <4>1. CASE first \in Names
                         <5>1. first \in Holes(t.argv[i])
                               <6>1. t.argv[i] \in Seq(Symbols \cup Names) /\ t.argv[i] # << >>
                                     BY <1>8
                               <6>2. 1 \in DOMAIN t.argv[i]  BY <6>1, EmptySeq
                               <6> QED BY <4>1, <6>2 DEF Holes, ToSet
                         <5>2. first \in DOMAIN values  BY <1>8, <5>1
                         <5> HIDE DEF first
                         <5>3. Dashed(values[first])  BY <1>2, <3>2, <3>3, <4>1, <5>2 DEF Dashed
                         <5>4. MayLead(t.params[first], values[first])  BY <1>2, <5>2, <5>3
                         <5> QED BY <4>1, <5>4 DEF MeansDash, first
                   <4>2. CASE first \notin Names  BY <3>2, <3>3, <4>2 DEF MeansDash
                   <4> QED BY <4>1, <4>2
             <3> QED BY <3>1, <3>4
       <2> QED BY <1>4, <2>1, <2>2
<1>11. DropsOnlyTheOmitted(t, values)
       <2> SUFFICES ASSUME NEW i \in DOMAIN t.argv, i \notin Kept(t, values)
                    PROVE  /\ \E p \in Optional(t) \ DOMAIN values : Holes(t.argv[i]) = {p}
                           /\ ~(StandsAlone(t.argv[i]) /\ Dashed(t.argv[i - 1]))
           BY DEF DropsOnlyTheOmitted
       <2>1. PICK p \in Holes(t.argv[i]) : p \notin DOMAIN values  BY DEF Kept
       <2>2. p \in Optional(t)  BY <1>5, <1>6, <2>1
       <2>3. Holes(t.argv[i]) = {p}  BY <2>2, OneHole
       <2>4. ~(StandsAlone(t.argv[i]) /\ Dashed(t.argv[i - 1]))
             BY <1>5, <2>2 DEF OptionalsFit
       <2> QED BY <2>1, <2>2, <2>3, <2>4
<1> QED BY <1>9, <1>10, <1>11 DEF InPlace, argv, values

-----------------------------------------------------------------------------
(* Shapes *)

Early == [pc : {"approved", "called", "held", "offered"}, command : Commands, given : Givens,
          request : Requests \cup {NoRow}, hasRole : BOOLEAN]
Late == [pc : {"valid", "starting"}, command : Commands, given : Givens,
         request : Requests \cup {NoRow}, hasRole : BOOLEAN, template : Accepted]

(* What a thread holds follows from how far it has come. *)
LEMMA CallShape ==
    ASSUME TypeOK, NEW x \in Calls
    PROVE  /\ call[x] \in CallStates
           /\ call[x].pc = "idle" <=> call[x] = Idle
           /\ call[x].pc \in {"approved", "called", "held", "offered"} <=> call[x] \in Early
           /\ call[x].pc \in PastLibrary <=> call[x] \in Late
           /\ call[x] = Idle \/ call[x] \in Early \/ call[x] \in Late
<1>1. call[x] \in CallStates  BY DEF TypeOK
<1>2. call[x] \in [pc : {"idle"}] \/ call[x] \in Early \/ call[x] \in Late
      BY <1>1 DEF CallStates, Early, Late
<1>3. CASE call[x] \in [pc : {"idle"}]
      <2>1. call[x] = Idle  BY <1>3 DEF Idle
      <2>2. call[x].pc = "idle"  BY <1>3
      <2> QED BY <1>1, <2>1, <2>2 DEF PastLibrary, Early, Late
<1>4. CASE call[x] \in Early
      BY <1>1, <1>4 DEF PastLibrary, Early, Late, Idle
<1>5. CASE call[x] \in Late
      BY <1>1, <1>5 DEF PastLibrary, Early, Late, Idle
<1> QED BY <1>2, <1>3, <1>4, <1>5

Replacing == [pc : {"replacing"}, names : SUBSET Commands, asking : SUBSET Commands]
Marking == [pc : {"marking"}, names : SUBSET Commands, rows : [Ids -> Rows \cup {NoRow}]]

LEMMA AdminShape ==
    ASSUME TypeOK, NEW d \in Admins
    PROVE  /\ admin[d] \in AdminStates
           /\ admin[d].pc = "idle" <=> admin[d] = Idle
           /\ admin[d].pc = "replacing" <=> admin[d] \in Replacing
           /\ admin[d].pc = "marking" <=> admin[d] \in Marking
           /\ admin[d] = Idle \/ admin[d] \in Replacing \/ admin[d] \in Marking
<1>1. admin[d] \in AdminStates  BY DEF TypeOK
<1>2. admin[d] \in [pc : {"idle"}] \/ admin[d] \in Replacing \/ admin[d] \in Marking
      BY <1>1 DEF AdminStates, Replacing, Marking
<1>3. CASE admin[d] \in [pc : {"idle"}]
      <2>1. admin[d] = Idle  BY <1>3 DEF Idle
      <2>2. admin[d].pc = "idle"  BY <1>3
      <2> QED BY <1>1, <2>1, <2>2 DEF Replacing, Marking
<1>4. CASE admin[d] \in Replacing
      BY <1>1, <1>4 DEF Replacing, Marking, Idle
<1>5. CASE admin[d] \in Marking
      BY <1>1, <1>5 DEF Replacing, Marking, Idle
<1> QED BY <1>2, <1>3, <1>4, <1>5

(* A request that is there is a row of Approvals, and no row is NoRow. *)
LEMMA RequestShape ==
    ASSUME TypeOK
    PROVE  /\ NoRow \notin Requests /\ NoRow \notin Approvals /\ NoRow \notin Rows
           /\ \A r \in Requests : approval[r] # NoRow => approval[r] \in Approvals
           /\ \A i \in Ids : entries[i] # NoRow => entries[i] \in Rows
BY NoRowStandsApart DEF TypeOK

(* What a call that is being served has seen by the end of a step. *)
LEMMA Observed ==
    ASSUME Observe, NEW x \in Calls, call'[x].pc # "idle"
    PROVE  /\ seen[x] \subseteq seen'[x]
           /\ agent'.enabled => "enabled" \in seen'[x]
           /\ agent'.hasRole => "has role" \in seen'[x]
           /\ call'[x].command \in Held' => "role holds it" \in seen'[x]
           /\ call'[x].command \in Offered' => "host offers it" \in seen'[x]
           /\ call'[x].command \in Held' \ wanted' => "need not wait" \in seen'[x]
           /\ "role holds it" \in seen[x] /\ call'[x].command \notin Held' => "left the role" \in seen'[x]
           /\ call'[x].command \in muddled' => "mark lost" \in seen'[x]
<1>1. call'[x] # Idle  BY DEF Idle
<1>2. seen'[x] = seen[x] \cup Now(x)  BY <1>1 DEF Observe
<1> QED BY <1>2 DEF Now, Conditions, Allowances

LEMMA ObservedType ==
    ASSUME TypeOK, Observe
    PROVE  seen' \in [Calls -> SUBSET Conditions]
<1>1. \A x \in Calls : Now(x) \subseteq Conditions  BY DEF Now
<1> QED BY <1>1 DEF TypeOK, Observe

-----------------------------------------------------------------------------
(* Types *)

(* The rows that replace a role's are rows: whatever the ids come out as. *)
LEMMA RowsForType ==
    ASSUME NEW names \in SUBSET Commands, NEW asking
    PROVE  RowsFor(names, asking) \in [Ids -> Rows \cup {NoRow}]
<1> SUFFICES ASSUME NEW i \in Ids
             PROVE  RowsFor(names, asking)[i] \in Rows \cup {NoRow}
    BY DEF RowsFor
<1> DEFINE Place(c) == Cardinality({n \in names : n <= c})
           e == CHOOSE c \in names : Place(c) = i
<1>1. CASE \E c \in names : Place(c) = i
      <2>1. e \in names  BY <1>1
      <2>2. [command |-> e, asks |-> e \in asking] \in Rows
            <3>1. e \in Commands /\ (e \in asking) \in BOOLEAN  BY <2>1
            <3> HIDE DEF e
            <3> QED BY <3>1 DEF Rows
      <2>3. RowsFor(names, asking)[i] = [command |-> e, asks |-> e \in asking]
            BY <1>1 DEF RowsFor
      <2> QED BY <2>2, <2>3
<1>2. CASE ~\E c \in names : Place(c) = i
      BY <1>2 DEF RowsFor
<1> QED BY <1>1, <1>2

LEMMA InitType == Init => TypeOK
<1> SUFFICES ASSUME Init PROVE TypeOK  OBVIOUS
<1>1. agent \in [enabled : BOOLEAN, hasRole : BOOLEAN]  BY DEF Init
<1>2. call \in [Calls -> CallStates]  BY DEF Init, CallStates, Idle
<1>3. admin \in [Admins -> AdminStates] /\ Editing = {}
      BY DEF Init, AdminStates, Editing, Idle
<1>4. edits \in 0 .. MaxEdits  BY EditsAreCounted DEF Init
<1>5. Offered \subseteq Defined  BY DEF Init, Offered
<1> QED BY <1>1, <1>2, <1>3, <1>4, <1>5 DEF Init, TypeOK

(* A step of a call or a request changes nothing of the library or the role. *)
LEMMA CallMovesType ==
    ASSUME TypeOK, NEW x \in Calls, CallMoves(x), Observe
    PROVE  TypeOK'
<1> USE CallShape, RequestShape
<1>1. /\ UNCHANGED <<template, offers, agent, entries, admin, edits, wanted, muddled, outdated>>
      /\ call' \in [Calls -> CallStates]
      /\ approval' \in [Requests -> Approvals \cup {NoRow}]
  <2>1. ASSUME NEW c \in Commands, NEW given \in Givens, Authenticate(x, c, given)  PROVE <1>1
        <3>1. agent.hasRole \in BOOLEAN  BY DEF TypeOK
        <3>2. [pc |-> "called", command |-> c, given |-> given,
               request |-> NoRow, hasRole |-> agent.hasRole] \in CallStates
              BY <3>1 DEF CallStates
        <3> QED BY <2>1, <3>2 DEF Authenticate, CallStep, TypeOK
  <2>2. ASSUME NEW r \in Requests, Approve(x, r)  PROVE <1>1
        <3>1. approval[r] \in Approvals  BY <2>2 DEF Approve
        <3>2. [pc |-> "approved", command |-> approval[r].asked.command,
               given |-> approval[r].asked.given, request |-> r, hasRole |-> FALSE] \in CallStates
              BY <3>1 DEF CallStates, Approvals, Asked
        <3>3. [approval[r] EXCEPT !.status = "approved"] \in Approvals
              BY <3>1 DEF Approvals
        <3> QED BY <2>2, <3>2, <3>3 DEF Approve, CallStep, TypeOK
  <2>3. CASE ReadAgent(x)
        <3>1. agent.hasRole \in BOOLEAN  BY DEF TypeOK
        <3>2. [call[x] EXCEPT !.pc = "called", !.hasRole = agent.hasRole] \in CallStates
              BY <2>3, <3>1 DEF ReadAgent, CallStates, Early
        <3> QED BY <2>3, <3>2 DEF ReadAgent, CallStep, TypeOK
  <2>4. CASE RoleHolds(x)
        <3>1. [call[x] EXCEPT !.pc = "held"] \in CallStates
              BY <2>4 DEF RoleHolds, CallStates, Early
        <3> QED BY <2>4, <3>1 DEF RoleHolds, CallStep, TypeOK
  <2>5. CASE HostOffers(x)
        <3>1. [call[x] EXCEPT !.pc = "offered"] \in CallStates
              BY <2>5 DEF HostOffers, CallStates, Early
        <3> QED BY <2>5, <3>1 DEF HostOffers, CallStep, TypeOK
  <2>6. CASE Validate(x)
        <3>1. call[x] \in Early  BY <2>6 DEF Validate
        <3>2. template[call[x].command] \in Accepted
              BY <2>6, <3>1 DEF Validate, Defined, Early, TypeOK
        <3>3. [pc |-> "valid", command |-> call[x].command, given |-> call[x].given,
               request |-> call[x].request, hasRole |-> call[x].hasRole,
               template |-> template[call[x].command]] \in CallStates
              BY <3>1, <3>2 DEF Early, CallStates
        <3> QED BY <2>6, <3>3 DEF Validate, CallStep, TypeOK
  <2>7. CASE Ask(x)
        <3> DEFINE asked == [command |-> call[x].command, given |-> call[x].given,
                             line |-> Line(call[x].template, call[x].given)]
                   fresh == [asked |-> asked, status |-> "pending"]
        <3>1. call[x] \in Late  BY <2>7 DEF Ask, PastLibrary
        <3>2. Line(call[x].template, call[x].given) \in Lines
              BY <3>1 DEF Late, Lines
        <3>3. fresh \in Approvals
              BY <3>1, <3>2 DEF Late, Approvals, Asked
        <3>4. approval' = approval \/ \E r \in Requests : approval' = [approval EXCEPT ![r] = fresh]
              BY <2>7 DEF Ask
        <3>5. Idle \in CallStates  BY DEF Idle, CallStates
        <3> HIDE DEF fresh
        <3> QED BY <2>7, <3>3, <3>4, <3>5 DEF Ask, CallStep, TypeOK
  <2>8. CASE GoOn(x) \/ Compare(x)
        <3>1. call[x] \in Late  BY <2>8 DEF GoOn, Compare, PastLibrary
        <3>2. [call[x] EXCEPT !.pc = "starting"] \in CallStates
              BY <3>1 DEF Late, CallStates
        <3> QED BY <2>8, <3>2 DEF GoOn, Compare, CallStep, TypeOK
  <2>9. CASE Launch(x) \/ Refuse(x)
        <3>1. Idle \in CallStates  BY DEF Idle, CallStates
        <3> QED BY <2>9, <3>1 DEF Launch, Refuse, Finish, CallStep, TypeOK
  <2> QED BY <2>1, <2>2, <2>3, <2>4, <2>5, <2>6, <2>7, <2>8, <2>9 DEF CallMoves
<1>2. seen' \in [Calls -> SUBSET Conditions]  BY ObservedType
<1>3. Offered' = Offered /\ Defined' = Defined /\ Editing' = Editing
      BY <1>1 DEF Offered, Defined, Editing
<1> QED BY <1>1, <1>2, <1>3 DEF TypeOK

LEMMA EditsType ==
    ASSUME TypeOK, Observe,
           \/ \E r \in Requests : Drop(r)
           \/ \E c \in Commands, t \in Templates : SaveCommand(c, t)
           \/ \E c \in Commands : DeleteCommand(c)
           \/ \E names \in SUBSET Commands : SaveHost(names)
           \/ DeleteHost \/ ToggleEnabled \/ AssignRole
    PROVE  TypeOK'
<1>1. seen' \in [Calls -> SUBSET Conditions]  BY ObservedType
<1>2. ASSUME NEW r \in Requests, Drop(r)  PROVE TypeOK'
      <2>1. Offered' = Offered /\ Defined' = Defined /\ Editing' = Editing
            BY <1>2 DEF Drop, Offered, Defined, Editing
      <2> QED BY <1>1, <1>2, <2>1 DEF Drop, TypeOK
<1>3. ASSUME Edit
      PROVE  edits' \in 0 .. MaxEdits /\ Editing' = Editing
             /\ approval' = approval /\ call' = call /\ admin' = admin
      BY <1>3, EditsAreCounted DEF Edit, Editing, TypeOK
<1>4. ASSUME NEW c \in Commands, NEW t \in Templates, SaveCommand(c, t)  PROVE TypeOK'
      <2>1. t \in Accepted /\ t # NoRow
            BY <1>4, NoRowStandsApart DEF SaveCommand, Accepted
      <2>2. Offered' = Offered /\ Defined \subseteq Defined'
            BY <1>4, <2>1 DEF SaveCommand, Offered, Defined, TypeOK
      <2> QED BY <1>1, <1>3, <1>4, <2>1, <2>2 DEF SaveCommand, TypeOK
<1>5. ASSUME NEW c \in Commands, DeleteCommand(c)  PROVE TypeOK'
      <2>1. Offered' = Offered /\ c \notin Offered /\ Defined \ {c} \subseteq Defined'
            BY <1>5 DEF DeleteCommand, Offered, Defined, TypeOK
      <2>2. template' \in [Commands -> Accepted \cup {NoRow}]
            BY <1>5 DEF DeleteCommand, TypeOK
      <2>3. entries' \in [Ids -> Rows \cup {NoRow}]
            BY <1>5 DEF DeleteCommand, TypeOK
      <2> QED BY <1>1, <1>3, <1>5, <2>1, <2>2, <2>3 DEF DeleteCommand, TypeOK
<1>6. ASSUME NEW names \in SUBSET Commands, SaveHost(names)  PROVE TypeOK'
      <2>1. Offered' \subseteq Defined'
            BY <1>6 DEF SaveHost, Offered, Defined
      <2> QED BY <1>1, <1>3, <1>6, <2>1 DEF SaveHost, TypeOK
<1>7. ASSUME DeleteHost  PROVE TypeOK'
      <2>1. Offered' \subseteq Defined'
            BY <1>7 DEF DeleteHost, Offered, Defined
      <2> QED BY <1>1, <1>3, <1>7, <2>1 DEF DeleteHost, TypeOK
<1>8. ASSUME ToggleEnabled \/ AssignRole  PROVE TypeOK'
      <2>1. Offered' = Offered /\ Defined' = Defined
            BY <1>8 DEF ToggleEnabled, AssignRole, Offered, Defined
      <2>2. agent' \in [enabled : BOOLEAN, hasRole : BOOLEAN]
            BY <1>8 DEF ToggleEnabled, AssignRole, TypeOK
      <2> QED BY <1>1, <1>3, <1>8, <2>1, <2>2 DEF ToggleEnabled, AssignRole, TypeOK
<1> QED BY <1>2, <1>4, <1>5, <1>6, <1>7, <1>8

(* After a step of an admin's thread the others edit what they edited. *)
LEMMA EditingAfter ==
    ASSUME TypeOK, NEW d \in Admins, NEW next, AdminStep(d, next)
    PROVE  Editing' = IF next = Idle THEN Editing \ {d} ELSE Editing \cup {d}
BY DEF AdminStep, Editing, TypeOK

LEMMA RoleMovesType ==
    ASSUME TypeOK, NEW d \in Admins, RoleMoves(d), Observe
    PROVE  TypeOK'
<1> USE AdminShape, RequestShape
<1>1. /\ UNCHANGED <<template, offers, agent, approval, call, edits>>
      /\ admin' \in [Admins -> AdminStates]
      /\ entries' \in [Ids -> Rows \cup {NoRow}]
      /\ wanted' \subseteq Commands /\ muddled' \subseteq wanted' /\ outdated' \subseteq Editing'
  <2>1. ASSUME NEW names \in SUBSET Commands, ReadMarks(d, names)  PROVE <1>1
        <3> DEFINE next == [pc |-> "replacing", names |-> names, asking |-> Needing]
        <3>1. Needing \subseteq Commands
              BY DEF Needing, Present, Rows
        <3>2. next \in AdminStates /\ next # Idle
              BY <3>1 DEF AdminStates, Idle
        <3>3. Editing \subseteq Editing'
              <4> HIDE DEF next
              <4> QED BY <2>1, <3>2 DEF ReadMarks, AdminStep, Editing, TypeOK
        <3> QED BY <2>1, <3>2, <3>3 DEF ReadMarks, AdminStep, TypeOK
  <2>2. ASSUME NEW names \in SUBSET Commands, ReadRows(d, names)  PROVE <1>1
        <3> DEFINE next == [pc |-> "marking", names |-> names, rows |-> entries]
        <3>1. next \in AdminStates /\ next # Idle
              BY DEF AdminStates, Idle, TypeOK
        <3>2. Editing \subseteq Editing'
              <4> HIDE DEF next
              <4> QED BY <2>2, <3>1 DEF ReadRows, AdminStep, Editing, TypeOK
        <3> QED BY <2>2, <3>1, <3>2 DEF ReadRows, AdminStep, TypeOK
  <2>3. ASSUME AdminStep(d, Idle)
        PROVE  admin' \in [Admins -> AdminStates] /\ Editing' = Editing \ {d}
        <3>1. Idle \in AdminStates  BY DEF Idle, AdminStates
        <3> QED BY <2>3, <3>1 DEF AdminStep, Editing, TypeOK
  <2>4. CASE ReplaceRows(d)
        <3>1. admin[d] \in Replacing  BY <2>4 DEF ReplaceRows
        <3>2. entries' \in [Ids -> Rows \cup {NoRow}]
              BY <2>4, <3>1, RowsForType DEF ReplaceRows, Replacing
        <3> QED BY <2>3, <2>4, <3>1, <3>2 DEF ReplaceRows, Replacing, AdminStep, Written, TypeOK
  <2>5. CASE MarkRows(d)
        <3>1. admin[d] \in Marking  BY <2>5 DEF MarkRows
        <3>2. entries' \in [Ids -> Rows \cup {NoRow}]
              <4> SUFFICES ASSUME NEW i \in Ids PROVE entries'[i] \in Rows \cup {NoRow}
                  BY <2>5 DEF MarkRows
              <4>1. CASE i \in Changes(d)
                    <5>1. entries[i] \in Rows  BY <2>5, <4>1 DEF MarkRows, Present
                    <5>2. (~admin[d].rows[i].asks) \in BOOLEAN  OBVIOUS
                    <5> QED BY <2>5, <4>1, <5>1, <5>2 DEF MarkRows, Rows
              <4>2. CASE i \notin Changes(d)
                    BY <2>5, <4>2 DEF MarkRows, TypeOK
              <4> QED BY <4>1, <4>2
        <3> QED BY <2>3, <2>5, <3>1, <3>2 DEF MarkRows, Marking, AdminStep, Written, TypeOK
  <2>6. CASE EditFails(d)
        BY <2>3, <2>6 DEF EditFails, AdminStep, TypeOK
  <2> QED BY <2>1, <2>2, <2>4, <2>5, <2>6 DEF RoleMoves
<1>2. seen' \in [Calls -> SUBSET Conditions]  BY ObservedType
<1>3. Offered' = Offered /\ Defined' = Defined
      BY <1>1 DEF Offered, Defined
<1> QED BY <1>1, <1>2, <1>3 DEF TypeOK

LEMMA TypeStep == TypeOK /\ [Next]_vars => TypeOK'
<1> SUFFICES ASSUME TypeOK, [Next]_vars PROVE TypeOK'  OBVIOUS
<1>1. CASE Next
      BY <1>1, CallMovesType, EditsType, RoleMovesType DEF Next, Step
<1>2. CASE UNCHANGED vars
      BY <1>2 DEF vars, TypeOK, Offered, Defined, Editing
<1> QED BY <1>1, <1>2

(* Rows have what their columns say, and threads carry what they read, for  *)
(* any library, agents' calls and edits.                                    *)
THEOREM TypeCorrect == Spec => []TypeOK
BY InitType, TypeStep, PTL DEF Spec

-----------------------------------------------------------------------------
(* How far a call has come *)

LEMMA StageKept ==
    ASSUME Observe, NEW y \in Calls, Stage(y), call'[y] = call[y]
    PROVE  Stage(y)'
<1>1. CASE call[y].pc = "idle"
      BY <1>1 DEF Stage
<1>2. CASE call[y].pc # "idle"
      <2>1. seen[y] \subseteq seen'[y]  BY <1>2, Observed
      <2> QED BY <1>2, <2>1 DEF Stage
<1> QED BY <1>1, <1>2

LEMMA StageMoves ==
    ASSUME IInv, NEW x \in Calls, CallMoves(x), Observe
    PROVE  StageInv'
<1> USE CallShape, RequestShape DEF IInv
<1>1. /\ UNCHANGED <<template, offers, agent, entries, wanted, muddled>>
      /\ \A y \in Calls \ {x} : call'[y] = call[y]
      BY DEF CallMoves, Authenticate, Approve, ReadAgent, RoleHolds, HostOffers, Validate,
             Ask, GoOn, Compare, Launch, Refuse, CallStep, TypeOK
<1>2. Held' = Held /\ Needing' = Needing /\ Offered' = Offered
      BY <1>1 DEF Held, Needing, Present, Offered
<1>3. Stage(x)  BY DEF StageInv
<1>4. Stage(x)'
  <2>1. ASSUME NEW c \in Commands, NEW given \in Givens, Authenticate(x, c, given)
        PROVE  Stage(x)'
        <3>1. call'[x].pc = "called" /\ call'[x].hasRole = agent.hasRole
              BY <2>1 DEF Authenticate, CallStep, TypeOK
        <3>2. agent'.enabled /\ agent'.hasRole = agent.hasRole
              BY <2>1, <1>1 DEF Authenticate
        <3>3. "enabled" \in seen'[x] /\ (agent.hasRole => "has role" \in seen'[x])
              BY <3>1, <3>2, Observed
        <3> QED BY <3>1, <3>3 DEF Stage, PastRole, PastHost, PastLibrary
  <2>2. ASSUME NEW r \in Requests, Approve(x, r)  PROVE Stage(x)'
        <3>1. call'[x].pc = "approved"
              BY <2>2 DEF Approve, CallStep, TypeOK
        <3> QED BY <3>1 DEF Stage, PastRole, PastHost, PastLibrary
  <2>3. CASE ReadAgent(x)
        <3>1. call'[x].pc = "called" /\ call'[x].hasRole = agent.hasRole
              BY <2>3 DEF ReadAgent, CallStep, Early, TypeOK
        <3>2. agent'.enabled /\ agent'.hasRole = agent.hasRole
              BY <2>3, <1>1 DEF ReadAgent
        <3>3. "enabled" \in seen'[x] /\ (agent.hasRole => "has role" \in seen'[x])
              BY <3>1, <3>2, Observed
        <3> QED BY <3>1, <3>3 DEF Stage, PastRole, PastHost, PastLibrary
  <2>4. CASE RoleHolds(x)
        <3>1. /\ call'[x].pc = "held" /\ call'[x].hasRole = call[x].hasRole
              /\ call'[x].command = call[x].command
              BY <2>4 DEF RoleHolds, CallStep, Early, TypeOK
        <3>2. call[x].hasRole /\ call[x].pc = "called" /\ call'[x].command \in Held'
              BY <2>4, <3>1, <1>2 DEF RoleHolds
        <3>3. seen[x] \subseteq seen'[x] /\ "role holds it" \in seen'[x]
              BY <3>1, <3>2, Observed
        <3> QED BY <1>3, <3>1, <3>2, <3>3 DEF Stage, PastRole, PastHost, PastLibrary
  <2>5. CASE HostOffers(x)
        <3>1. /\ call'[x].pc = "offered" /\ call'[x].hasRole = call[x].hasRole
              /\ call'[x].command = call[x].command
              BY <2>5 DEF HostOffers, CallStep, Early, TypeOK
        <3>2. call[x].pc = "held" /\ call'[x].command \in Offered'
              BY <2>5, <3>1, <1>2 DEF HostOffers
        <3>3. seen[x] \subseteq seen'[x] /\ "host offers it" \in seen'[x]
              BY <3>1, <3>2, Observed
        <3> QED BY <1>3, <3>1, <3>2, <3>3 DEF Stage, PastRole, PastHost, PastLibrary
  <2>6. CASE Validate(x)
        <3>1. /\ call'[x].pc = "valid" /\ call'[x].hasRole = call[x].hasRole
              /\ call'[x].template = template[call[x].command]
              /\ call'[x].given = call[x].given /\ call'[x].request = call[x].request
              BY <2>6 DEF Validate, CallStep, TypeOK
        <3>2. ValidParams(call'[x].template, call'[x].given) /\ call[x].pc = "offered"
              BY <2>6, <3>1 DEF Validate
        <3>3. seen[x] \subseteq seen'[x]  BY <3>1, Observed
        <3> QED BY <1>3, <3>1, <3>2, <3>3 DEF Stage, PastRole, PastHost, PastLibrary
  <2>7. CASE GoOn(x) \/ Compare(x)
        <3>1. call[x] \in Late  BY <2>7 DEF GoOn, Compare, PastLibrary
        <3>2. call'[x] = [call[x] EXCEPT !.pc = "starting"]
              BY <2>7 DEF GoOn, Compare, CallStep, TypeOK
        <3>3. /\ call'[x].pc = "starting" /\ call'[x].hasRole = call[x].hasRole
              /\ call'[x].command = call[x].command /\ call'[x].given = call[x].given
              /\ call'[x].request = call[x].request /\ call'[x].template = call[x].template
              /\ call[x].pc = "valid"
              BY <2>7, <3>1, <3>2 DEF Late, GoOn, Compare
        <3>4. seen[x] \subseteq seen'[x]  BY <3>3, Observed
        <3>5. call[x].request = NoRow =>
                  {"need not wait", "left the role", "mark lost"} \cap seen'[x] # {}
              <4>1. call[x].request = NoRow => call[x].command \notin Needing
                    BY <2>7 DEF GoOn, Compare
              <4>2. call[x].request = NoRow => \/ call'[x].command \in Held' \ wanted'
                                               \/ call'[x].command \notin Held'
                                               \/ call'[x].command \in muddled'
                    BY <1>1, <1>2, <3>3, <4>1 DEF MarkInv
              <4>3. "role holds it" \in seen[x]
                    BY <1>3, <3>3 DEF Stage, PastRole, PastHost, PastLibrary
              <4> QED BY <3>3, <4>2, <4>3, Observed
        <3> QED BY <1>3, <3>3, <3>4, <3>5 DEF Stage, PastRole, PastHost, PastLibrary
  <2>8. CASE Ask(x) \/ Launch(x) \/ Refuse(x)
        <3>1. call'[x].pc = "idle"
              BY <2>8 DEF Ask, Launch, Refuse, CallStep, Idle, TypeOK
        <3> QED BY <3>1 DEF Stage
  <2> QED BY <2>1, <2>2, <2>3, <2>4, <2>5, <2>6, <2>7, <2>8 DEF CallMoves
<1>5. \A y \in Calls \ {x} : Stage(y)'
      BY <1>1, StageKept DEF StageInv
<1> QED BY <1>4, <1>5 DEF StageInv

LEMMA StageStep == IInv /\ [Next]_vars => StageInv'
<1> SUFFICES ASSUME IInv, [Next]_vars PROVE StageInv'  OBVIOUS
<1>1. ASSUME call' = call, Observe  PROVE StageInv'
      BY <1>1, StageKept DEF IInv, StageInv
<1>2. CASE Next
      <2>1. ASSUME NEW x \in Calls, CallMoves(x)  PROVE StageInv'
            BY <1>2, <2>1, StageMoves DEF Next
      <2>2. CASE ~\E x \in Calls : CallMoves(x)
            <3>1. call' = call
                  BY <1>2, <2>2 DEF Next, Step, Drop, SaveCommand, DeleteCommand, SaveHost, DeleteHost,
                     ToggleEnabled, AssignRole, Edit, RoleMoves, ReadMarks, ReadRows,
                     ReplaceRows, MarkRows, EditFails, AdminStep
            <3> QED BY <1>1, <1>2, <3>1 DEF Next
      <2> QED BY <2>1, <2>2
<1>3. CASE UNCHANGED vars
      BY <1>3 DEF vars, IInv, StageInv, Stage
<1> QED BY <1>2, <1>3

-----------------------------------------------------------------------------
(* What was approved *)

(* Only a call's own steps, and an admin's word on a request that waits,    *)
(* change what the calls and the requests are.                              *)
LEMMA RequestMoves ==
    ASSUME IInv, NEW x \in Calls, CallMoves(x)
    PROVE  RequestInv'
<1> USE CallShape, RequestShape DEF IInv
<1>1. \A y \in Calls \ {x} : call'[y] = call[y]
      BY DEF CallMoves, Authenticate, Approve, ReadAgent, RoleHolds, HostOffers, Validate,
             Ask, GoOn, Compare, Launch, Refuse, CallStep, TypeOK
<1>3. ASSUME NEW c \in Commands, NEW given \in Givens, Authenticate(x, c, given)
      PROVE  RequestInv'
      <2>1. /\ call'[x].request = NoRow /\ approval' = approval
            BY <1>3 DEF Authenticate, CallStep, TypeOK
      <2> QED BY <1>1, <2>1 DEF RequestInv, ServedWell, Serves
<1>4. ASSUME NEW r \in Requests, Approve(x, r)  PROVE RequestInv'
      <2>1. approval[r] \in Approvals /\ approval[r].status = "pending"
            BY <1>4 DEF Approve
      <2>2. \A y \in Calls : ~Serves(y, r)  BY <2>1 DEF RequestInv, ServedWell
      <2>3. /\ call'[x].pc = "approved" /\ call'[x].request = r
            /\ call'[x].command = approval[r].asked.command
            /\ call'[x].given = approval[r].asked.given
            BY <1>4 DEF Approve, CallStep, TypeOK
      <2>4. /\ approval'[r] = [approval[r] EXCEPT !.status = "approved"]
            /\ \A q \in Requests \ {r} : approval'[q] = approval[q]
            BY <1>4 DEF Approve, TypeOK
      <2>5. /\ approval'[r] # NoRow /\ approval'[r].status = "approved"
            /\ approval'[r].asked = approval[r].asked
            BY <2>1, <2>4 DEF Approvals
      <2> SUFFICES ASSUME NEW q \in Requests, NEW y \in Calls, Serves(y, q)'
                   PROVE  ServedWell(y, q)'
          BY DEF RequestInv, ServedWell
      <2>6. CASE q = r
            <3>1. y = x  BY <1>1, <2>2, <2>6 DEF Serves
            <3>2. \A z \in Calls : Serves(z, q)' => z = x
                  BY <1>1, <2>2, <2>6 DEF Serves
            <3> QED BY <2>3, <2>5, <2>6, <3>1, <3>2 DEF ServedWell
      <2>7. CASE q # r
            <3>1. y # x  BY <2>3, <2>7 DEF Serves
            <3>2. Serves(y, q) /\ call'[y] = call[y] /\ approval'[q] = approval[q]
                  BY <1>1, <2>4, <2>7, <3>1 DEF Serves
            <3>3. \A z \in Calls : Serves(z, q)' => Serves(z, q)
                  BY <1>1, <2>3, <2>7 DEF Serves
            <3> QED BY <3>2, <3>3 DEF RequestInv, ServedWell
      <2> QED BY <2>6, <2>7
<1>5. CASE ReadAgent(x)
      <2>1. /\ call'[x].pc = "called" /\ call'[x].request = call[x].request
            /\ call'[x].command = call[x].command /\ call'[x].given = call[x].given
            /\ approval' = approval /\ call[x].pc # "idle"
            BY <1>5 DEF ReadAgent, CallStep, Early, TypeOK
      <2> QED BY <1>1, <2>1 DEF RequestInv, ServedWell, Serves
<1>6. CASE RoleHolds(x) \/ HostOffers(x)
      <2>1. call[x] \in Early  BY <1>6 DEF RoleHolds, HostOffers
      <2>2. /\ call'[x].pc \in {"held", "offered"} /\ call'[x].request = call[x].request
            /\ call'[x].command = call[x].command /\ call'[x].given = call[x].given
            /\ approval' = approval /\ call[x].pc # "idle"
            BY <1>6, <2>1 DEF RoleHolds, HostOffers, CallStep, Early, TypeOK
      <2> QED BY <1>1, <2>2 DEF RequestInv, ServedWell, Serves
<1>7. CASE Validate(x)
      <2>1. /\ call'[x].pc = "valid" /\ call'[x].request = call[x].request
            /\ call'[x].command = call[x].command /\ call'[x].given = call[x].given
            /\ approval' = approval /\ call[x].pc # "idle"
            BY <1>7 DEF Validate, CallStep, TypeOK
      <2> QED BY <1>1, <2>1 DEF RequestInv, ServedWell, Serves
<1>8. CASE Ask(x)
      <2>1. call'[x].pc = "idle"  BY <1>8 DEF Ask, CallStep, Idle, TypeOK
      <2>2. \A r \in Requests : approval[r] # NoRow => approval'[r] = approval[r]
            BY <1>8 DEF Ask, TypeOK
      <2> QED BY <1>1, <2>1, <2>2 DEF RequestInv, ServedWell, Serves
<1>9. CASE GoOn(x) \/ Compare(x)
      <2>1. call[x] \in Late  BY <1>9 DEF GoOn, Compare, PastLibrary
      <2>2. call'[x] = [call[x] EXCEPT !.pc = "starting"] /\ approval' = approval
            BY <1>9 DEF GoOn, Compare, CallStep, TypeOK
      <2>3. /\ call'[x].request = call[x].request
            /\ call'[x].command = call[x].command /\ call'[x].given = call[x].given
            /\ call'[x].template = call[x].template /\ call[x].pc # "idle"
            BY <1>9, <2>1, <2>2 DEF Late, GoOn, Compare
      <2>4. call[x].request # NoRow =>
                Line(call[x].template, call[x].given) = approval[call[x].request].asked.line
            BY <1>9 DEF GoOn, Compare
      <2> SUFFICES ASSUME NEW q \in Requests, NEW y \in Calls, Serves(y, q)'
                   PROVE  ServedWell(y, q)'
          BY DEF RequestInv, ServedWell
      <2>5. \A z \in Calls : Serves(z, q)' => Serves(z, q)
            BY <1>1, <2>3 DEF Serves
      <2>6. CASE y = x
            <3>1. call[x].request = q /\ q # NoRow  BY <2>3, <2>6 DEF Serves
            <3>2. Serves(x, q)  BY <2>5, <2>6
            <3> QED BY <2>2, <2>3, <2>4, <2>5, <2>6, <3>1, <3>2 DEF RequestInv, ServedWell
      <2>7. CASE y # x
            <3>1. call'[y] = call[y] /\ Serves(y, q)  BY <1>1, <2>5, <2>7
            <3> QED BY <2>2, <2>5, <3>1 DEF RequestInv, ServedWell
      <2> QED BY <2>6, <2>7
<1>10. CASE Launch(x) \/ Refuse(x)
      <2>1. call'[x].pc = "idle" /\ call[x].pc # "idle" /\ Finish(x)
            BY <1>10 DEF Launch, Refuse, CallStep, Idle, TypeOK
      <2>2. \A r \in Requests : ~Serves(x, r) => approval'[r] = approval[r]
            BY <2>1 DEF Finish, Serves, TypeOK
      <2> QED BY <1>1, <2>1, <2>2 DEF RequestInv, ServedWell, Serves
<1> QED BY <1>3, <1>4, <1>5, <1>6, <1>7, <1>8, <1>9, <1>10 DEF CallMoves

LEMMA RequestStep == IInv /\ [Next]_vars => RequestInv'
<1> SUFFICES ASSUME IInv, [Next]_vars PROVE RequestInv'  OBVIOUS
<1>1. ASSUME NEW x \in Calls, CallMoves(x)  PROVE RequestInv'
      BY <1>1, RequestMoves
<1>2. ASSUME NEW r \in Requests, Drop(r)  PROVE RequestInv'
      <2>1. \A x \in Calls : ~Serves(x, r)
            BY <1>2 DEF IInv, RequestInv, ServedWell, Drop
      <2>2. call' = call /\ \A q \in Requests \ {r} : approval'[q] = approval[q]
            BY <1>2 DEF Drop, IInv, TypeOK
      <2> QED BY <2>1, <2>2 DEF IInv, RequestInv, ServedWell, Serves
<1>3. ASSUME call' = call, approval' = approval  PROVE RequestInv'
      BY <1>3 DEF IInv, RequestInv, ServedWell, Serves
<1>4. CASE UNCHANGED vars  BY <1>3, <1>4 DEF vars
<1>5. CASE Next /\ ~(\E x \in Calls : CallMoves(x)) /\ ~(\E r \in Requests : Drop(r))
      <2>1. call' = call /\ approval' = approval
            BY <1>5 DEF Next, Step, SaveCommand, DeleteCommand, SaveHost, DeleteHost,
               ToggleEnabled, AssignRole, Edit, RoleMoves, ReadMarks, ReadRows,
               ReplaceRows, MarkRows, EditFails, AdminStep
      <2> QED BY <1>3, <2>1
<1> QED BY <1>1, <1>2, <1>4, <1>5

-----------------------------------------------------------------------------
(* What must wait *)

LEMMA NeedingIs ==
    \A c : c \in Needing <=> \E i \in Ids : /\ entries[i] # NoRow
                                            /\ entries[i].asks /\ entries[i].command = c
BY DEF Needing, Present

LEMMA NeedingNext ==
    (\A c : c \in Needing <=> \E i \in Ids : /\ entries[i] # NoRow
                                             /\ entries[i].asks /\ entries[i].command = c)'
BY NeedingIs, PTL

(* The id the row of a command gets when the rows are replaced: no two      *)
(* commands get the same one.                                               *)
Place(names, c) == Cardinality({n \in names : n <= c})

LEMMA PlacesDiffer ==
    ASSUME NEW names \in SUBSET Commands
    PROVE  /\ \A c \in names : Place(names, c) \in Ids
           /\ \A c, e \in names : Place(names, c) = Place(names, e) => c = e
<1> DEFINE Upto(c) == {n \in names : n <= c}
<1>1. IsFiniteSet(Commands) /\ Cardinality(Commands) \in Nat /\ Commands = 1 .. Cardinality(Commands)
      BY CommandsAreNumbered, FS_CardinalityType
<1>2. names \subseteq Int  BY <1>1
<1>3. \A c \in names : /\ Upto(c) \in SUBSET Commands /\ IsFiniteSet(Upto(c))
                       /\ Cardinality(Upto(c)) \in Nat
                       /\ Cardinality(Upto(c)) <= Cardinality(Commands)
      <2> SUFFICES ASSUME NEW c \in names
                   PROVE  /\ Upto(c) \in SUBSET Commands /\ IsFiniteSet(Upto(c))
                          /\ Cardinality(Upto(c)) \in Nat
                          /\ Cardinality(Upto(c)) <= Cardinality(Commands)
          OBVIOUS
      <2>1. Upto(c) \in SUBSET Commands  OBVIOUS
      <2>2. IsFiniteSet(Upto(c)) /\ Cardinality(Upto(c)) <= Cardinality(Commands)
            BY <1>1, <2>1, FS_Subset
      <2>3. Cardinality(Upto(c)) \in Nat  BY <2>2, FS_CardinalityType
      <2> QED BY <2>1, <2>2, <2>3
<1>4. ASSUME NEW c \in names, NEW e \in names, c < e
      PROVE  Cardinality(Upto(c)) # Cardinality(Upto(e))
      <2>1. Upto(c) \in SUBSET Upto(e)
            <3>1. \A n \in Int : n <= c => n <= e  BY <1>2, <1>4
            <3> QED BY <1>2, <3>1
      <2>2. e \in Upto(e) /\ e \notin Upto(c)  BY <1>2, <1>4
      <2>3. IsFiniteSet(Upto(e))  BY <1>3
      <2> HIDE DEF Upto
      <2> QED BY <2>1, <2>2, <2>3, FS_Subset
<1>5. ASSUME NEW c \in names  PROVE Cardinality(Upto(c)) \in Ids
      <2>1. c \in Upto(c)  BY <1>2
      <2>2. Cardinality(Upto(c)) # 0
            <3>1. IsFiniteSet(Upto(c))  BY <1>3
            <3> HIDE DEF Upto
            <3> QED BY <2>1, <3>1, FS_EmptySet
      <2>3. Cardinality(Upto(c)) \in Nat /\ Cardinality(Upto(c)) <= Cardinality(Commands)
            BY <1>3
      <2> HIDE DEF Upto
      <2> QED BY <1>1, <2>2, <2>3 DEF Ids
<1>6. \A c \in names : Place(names, c) = Cardinality(Upto(c))  BY DEF Place
<1> HIDE DEF Upto
<1> QED BY <1>2, <1>4, <1>5, <1>6

(* Each of the commands has its row, marked as it is to be. *)
LEMMA RowsForAll ==
    ASSUME NEW names \in SUBSET Commands, NEW asking, NEW c \in names
    PROVE  \E i \in Ids : RowsFor(names, asking)[i] = [command |-> c, asks |-> c \in asking]
<1>1. Place(names, c) \in Ids  BY PlacesDiffer
<1>2. \A e \in names : Place(names, e) = Place(names, c) => e = c  BY PlacesDiffer
<1>3. c = CHOOSE e \in names : Place(names, e) = Place(names, c)  BY <1>2
<1>4. RowsFor(names, asking) =
        [i \in Ids |-> IF \E e \in names : Place(names, e) = i
                       THEN LET e == CHOOSE e \in names : Place(names, e) = i
                            IN  [command |-> e, asks |-> e \in asking]
                       ELSE NoRow]
      BY DEF RowsFor, Place
<1> QED BY <1>1, <1>3, <1>4

(* An admin's thread that neither steps nor becomes outdated. *)
MarkFor(d) ==
    /\ admin[d].pc = "replacing" /\ d \notin outdated => wanted \ muddled \subseteq admin[d].asking
    /\ admin[d].pc = "marking" =>
          /\ \A c \in admin[d].names : \E i \in Ids : admin[d].rows[i] # NoRow
                                                    /\ admin[d].rows[i].command = c
          /\ d \notin outdated => admin[d].rows = entries

LEMMA MarkParts ==
    MarkInv <=> wanted \ muddled \subseteq Needing /\ \A d \in Admins : MarkFor(d)
BY DEF MarkInv, MarkFor

LEMMA MarkPartsNext ==
    (MarkInv <=> wanted \ muddled \subseteq Needing /\ \A d \in Admins : MarkFor(d))'
BY MarkParts, PTL

LEMMA MarkUnchanged ==
    ASSUME MarkInv, UNCHANGED <<entries, wanted, muddled, outdated, admin>>
    PROVE  MarkInv'
BY DEF MarkInv, Needing, Present

LEMMA MarkDelete ==
    ASSUME IInv, NEW c \in Commands, DeleteCommand(c)
    PROVE  MarkInv'
<1>1. wanted' \ muddled' \subseteq Needing'
      <2> SUFFICES ASSUME NEW e \in wanted \ muddled, e # c PROVE e \in Needing'
          BY DEF DeleteCommand
      <2>1. e \in Needing  BY DEF IInv, MarkInv
      <2>2. PICK i \in Ids : entries[i] # NoRow /\ entries[i].asks /\ entries[i].command = e
            BY <2>1, NeedingIs
      <2>3. entries'[i] = entries[i]
            BY <2>2 DEF DeleteCommand, IInv, TypeOK
      <2> QED BY <2>2, <2>3, NeedingNext
<1>2. \A d \in Admins : MarkFor(d)'
      <2> SUFFICES ASSUME NEW d \in Admins PROVE MarkFor(d)'  OBVIOUS
      <2>1. admin' = admin /\ outdated' = Editing
            BY DEF DeleteCommand, Edit
      <2>2. MarkFor(d)  BY MarkParts DEF IInv
      <2>3. admin[d].pc # "idle" => d \in Editing  BY DEF Editing, Idle
      <2> QED BY <2>1, <2>2, <2>3 DEF MarkFor
<1> QED BY <1>1, <1>2, MarkPartsNext

(* A thread that writes rows makes the others outdated. *)
LEMMA MarkOthers ==
    ASSUME IInv, NEW d \in Admins, AdminStep(d, Idle), outdated' = Editing \ {d}
    PROVE  \A a \in Admins : MarkFor(a)'
<1> SUFFICES ASSUME NEW a \in Admins PROVE MarkFor(a)'  OBVIOUS
<1>1. CASE a = d
      <2>1. admin'[a].pc = "idle"  BY <1>1 DEF AdminStep, Idle, IInv, TypeOK
      <2> QED BY <2>1 DEF MarkFor
<1>2. CASE a # d
      <2>1. admin'[a] = admin[a]  BY <1>2 DEF AdminStep, IInv, TypeOK
      <2>2. MarkFor(a)  BY MarkParts DEF IInv
      <2>3. admin[a].pc # "idle" => a \in outdated'  BY <1>2 DEF Editing, Idle
      <2> QED BY <2>1, <2>2, <2>3 DEF MarkFor
<1> QED BY <1>1, <1>2

LEMMA MarkReplace ==
    ASSUME IInv, NEW d \in Admins, ReplaceRows(d)
    PROVE  MarkInv'
<1> USE DEF IInv
<1>1. admin[d] \in Replacing /\ admin[d].names \in SUBSET Commands
      BY AdminShape DEF ReplaceRows, Replacing
<1>2. wanted' \ muddled' \subseteq Needing'
  <2>1. CASE d \in outdated
        BY <2>1 DEF ReplaceRows, Written
  <2>2. CASE d \notin outdated
        <3> SUFFICES ASSUME NEW c \in (wanted \ muddled) \cap admin[d].names PROVE c \in Needing'
            BY <2>2 DEF ReplaceRows, Written
        <3>1. c \in admin[d].asking
              BY <2>2 DEF MarkInv, ReplaceRows
        <3>2. PICK i \in Ids : RowsFor(admin[d].names, admin[d].asking)[i]
                                 = [command |-> c, asks |-> c \in admin[d].asking]
              BY <1>1, RowsForAll
        <3>3. entries'[i] = [command |-> c, asks |-> TRUE]
              <4>1. (c \in admin[d].asking) = TRUE  BY <3>1
              <4> QED BY <3>2, <4>1 DEF ReplaceRows
        <3>4. entries'[i] # NoRow
              <4>1. c \in Commands  BY DEF TypeOK
              <4>2. [command |-> c, asks |-> TRUE] \in Rows  BY <4>1 DEF Rows
              <4> QED BY <3>3, <4>2, RequestShape
        <3> QED BY <3>3, <3>4, NeedingNext
  <2> QED BY <2>1, <2>2
<1>3. \A a \in Admins : MarkFor(a)'
      BY MarkOthers DEF ReplaceRows, Written
<1> QED BY <1>2, <1>3, MarkPartsNext

LEMMA MarkMark ==
    ASSUME IInv, NEW d \in Admins, MarkRows(d)
    PROVE  MarkInv'
<1> USE DEF IInv
<1>1. admin[d] \in Marking /\ admin[d].names \in SUBSET Commands
      BY AdminShape DEF MarkRows, Marking
<1>2. wanted' \ muddled' \subseteq Needing'
  <2>1. CASE d \in outdated
        BY <2>1 DEF MarkRows, Written
  <2>2. CASE d \notin outdated
        <3> SUFFICES ASSUME NEW c \in admin[d].names PROVE c \in Needing'
            BY <2>2 DEF MarkRows, Written
        <3>1. admin[d].rows = entries
              BY <2>2 DEF MarkInv, MarkRows
        <3>2. PICK i \in Ids : entries[i] # NoRow /\ entries[i].command = c
              BY <3>1 DEF MarkInv, MarkRows
        <3>3. entries[i] \in Rows  BY <3>2, RequestShape
        <3>4. /\ entries'[i] \in Rows /\ entries'[i].command = c /\ entries'[i].asks
              <4>1. CASE i \in Changes(d)
                    <5>1. entries[i].asks = FALSE
                          BY <3>1, <3>2, <3>3, <4>1 DEF Changes, Rows
                    <5>2. (~entries[i].asks) = TRUE  BY <5>1
                    <5>3. entries'[i] = [entries[i] EXCEPT !.asks = TRUE]
                          BY <3>1, <4>1, <5>2 DEF MarkRows
                    <5> QED BY <3>2, <3>3, <5>3 DEF Rows
              <4>2. CASE i \notin Changes(d)
                    <5>1. entries'[i] = entries[i]
                          BY <4>2 DEF MarkRows
                    <5>2. entries[i].asks = TRUE
                          BY <3>1, <3>2, <3>3, <4>2 DEF Changes, Rows
                    <5> QED BY <3>2, <3>3, <5>1, <5>2
              <4> QED BY <4>1, <4>2
        <3> QED BY <3>4, NeedingNext, RequestShape
  <2> QED BY <2>1, <2>2
<1>3. \A a \in Admins : MarkFor(a)'
      BY MarkOthers DEF MarkRows, Written
<1> QED BY <1>2, <1>3, MarkPartsNext

(* A thread that reads the rows knows what must wait. *)
LEMMA MarkReads ==
    ASSUME IInv, NEW d \in Admins, NEW names \in SUBSET Commands,
           ReadMarks(d, names) \/ ReadRows(d, names)
    PROVE  MarkInv'
<1> USE DEF IInv
<1>1. UNCHANGED <<entries, wanted, muddled, outdated>>
      BY DEF ReadMarks, ReadRows
<1>2. \A a \in Admins \ {d} : admin'[a] = admin[a]
      BY DEF ReadMarks, ReadRows, AdminStep, TypeOK
<1>3. wanted \ muddled \subseteq Needing /\ Needing' = Needing
      BY <1>1 DEF MarkInv, Needing, Present
<1>4. MarkFor(d)'
  <2>1. CASE ReadMarks(d, names)
        <3>1. admin'[d].pc = "replacing" /\ admin'[d].asking = Needing
              BY <2>1 DEF ReadMarks, AdminStep, TypeOK
        <3> QED BY <1>1, <1>3, <3>1 DEF MarkFor
  <2>2. CASE ReadRows(d, names)
        <3>1. /\ admin'[d].pc = "marking" /\ admin'[d].names = names
              /\ admin'[d].rows = entries
              BY <2>2 DEF ReadRows, AdminStep, TypeOK
        <3>2. \A c \in names : \E i \in Ids : entries[i] # NoRow /\ entries[i].command = c
              BY <2>2 DEF ReadRows, Held, Present
        <3> QED BY <1>1, <3>1, <3>2 DEF MarkFor
  <2> QED BY <2>1, <2>2
<1>5. \A a \in Admins \ {d} : MarkFor(a)'
      BY <1>1, <1>2, MarkParts DEF MarkFor
<1> QED BY <1>1, <1>3, <1>4, <1>5, MarkPartsNext

LEMMA MarkFails ==
    ASSUME IInv, NEW d \in Admins, EditFails(d)
    PROVE  MarkInv'
<1> USE DEF IInv
<1>1. UNCHANGED <<entries, wanted, muddled>> /\ outdated' = outdated \ {d} /\ admin'[d].pc = "idle"
      BY DEF EditFails, AdminStep, Idle, TypeOK
<1>2. \A a \in Admins \ {d} : admin'[a] = admin[a]
      BY DEF EditFails, AdminStep, TypeOK
<1>3. wanted \ muddled \subseteq Needing /\ Needing' = Needing
      BY <1>1 DEF MarkInv, Needing, Present
<1>4. \A a \in Admins : MarkFor(a)'
      BY <1>1, <1>2, MarkParts DEF MarkFor
<1> QED BY <1>1, <1>3, <1>4, MarkPartsNext

LEMMA MarkStep == IInv /\ [Next]_vars => MarkInv'
<1> SUFFICES ASSUME IInv, [Next]_vars PROVE MarkInv'  OBVIOUS
<1>1. ASSUME NEW d \in Admins, RoleMoves(d)  PROVE MarkInv'
      BY <1>1, MarkReads, MarkReplace, MarkMark, MarkFails DEF RoleMoves
<1>2. ASSUME NEW c \in Commands, DeleteCommand(c)  PROVE MarkInv'
      BY <1>2, MarkDelete
<1>3. CASE UNCHANGED vars
      BY <1>3, MarkUnchanged DEF vars, IInv
<1>4. CASE Next /\ ~(\E d \in Admins : RoleMoves(d)) /\ ~(\E c \in Commands : DeleteCommand(c))
      <2>1. UNCHANGED <<entries, wanted, muddled, outdated, admin>>
            BY <1>4 DEF Next, Step, CallMoves, Authenticate, Approve, ReadAgent, RoleHolds,
               HostOffers, Validate, Ask, GoOn, Compare, Launch, Refuse, CallStep, Drop,
               SaveCommand, SaveHost, DeleteHost, ToggleEnabled, AssignRole, Edit
      <2> QED BY <2>1, MarkUnchanged DEF IInv
<1> QED BY <1>1, <1>2, <1>3, <1>4

-----------------------------------------------------------------------------
(* What CommandCalls promises *)

LEMMA InitInv == Init => IInv
<1> SUFFICES ASSUME Init PROVE IInv  OBVIOUS
<1>1. TypeOK  BY InitType
<1>2. (\A x \in Calls : call[x].pc = "idle") /\ (\A d \in Admins : admin[d].pc = "idle")
      BY DEF Init, Idle
<1>3. StageInv  BY <1>2 DEF StageInv, Stage
<1>4. RequestInv  BY <1>2 DEF RequestInv, Serves
<1>5. MarkInv  BY <1>2 DEF MarkInv, Init
<1> QED BY <1>1, <1>3, <1>4, <1>5 DEF IInv

(* The inductive invariant: every call has seen, by the stage it is at,     *)
(* what that stage asks for; an approved request is one call's and stays    *)
(* as it was approved; what admins said must wait is marked in the rows.    *)
THEOREM Inductive == Spec => []IInv
<1>1. IInv /\ [Next]_vars => IInv'
      BY TypeStep, StageStep, RequestStep, MarkStep DEF IInv
<1> QED BY InitInv, <1>1, PTL DEF Spec

(* Whatever is started was within what its agent may do while it was being  *)
(* served (precheck_command and its repetition in agent_runs).              *)
THEOREM OnlyWhatWasAllowed == Spec => []StartsOnlyWhatWasAllowed
<1>1. IInv => StartsOnlyWhatWasAllowed
      BY CallShape DEF IInv, StageInv, Stage, StartsOnlyWhatWasAllowed, Starting, Allowances,
                       PastRole, PastHost, PastLibrary
<1> QED BY <1>1, Inductive, PTL

(* A command is started without an approval only if, while the call was      *)
(* served, the role held it and it need not wait, or the role lost it after  *)
(* the call was checked against it, or an edit of the role from outdated     *)
(* rows had taken its mark away: whatever interleaving of saves of the       *)
(* role's list and of its marks (agents.py).                                 *)
THEOREM MarkedCommandsWait == Spec => []MarkedWaits
<1>1. IInv => MarkedWaits
      BY CallShape DEF IInv, StageInv, Stage, MarkedWaits, Starting, PastLibrary
<1> QED BY <1>1, Inductive, PTL

(* What was approved starts with the line its request showed, or not at all *)
(* (the comparison of agent_runs before an approved command is started).    *)
THEOREM ApprovedStartsAsShown == Spec => []StartsAsShown
<1>1. ASSUME IInv, NEW x \in Starting, call[x].request # NoRow
      PROVE  /\ approval[call[x].request].asked.command = call[x].command
             /\ Line(call[x].template, approval[call[x].request].asked.given)
                    = approval[call[x].request].asked.line
             /\ ValidParams(call[x].template, approval[call[x].request].asked.given)
      <2>1. x \in Calls /\ call[x].pc = "starting" /\ call[x] \in Late
            BY <1>1, CallShape DEF IInv, Starting, PastLibrary
      <2>2. call[x].request \in Requests  BY <1>1, <2>1 DEF Late
      <2>3. ServedWell(x, call[x].request)
            BY <1>1, <2>1, <2>2 DEF IInv, RequestInv, Serves
      <2>4. ValidParams(call[x].template, call[x].given)
            BY <1>1, <2>1 DEF IInv, StageInv, Stage, PastLibrary
      <2> QED BY <2>1, <2>3, <2>4 DEF ServedWell
<1>2. IInv => StartsAsShown  BY <1>1 DEF StartsAsShown
<1> QED BY <1>2, Inductive, PTL

(* In what is started every value is whole within one element; an element    *)
(* begins with "-" only by the template, a listed word, a negative number or *)
(* allow_leading_dash; and only elements of optional parameters that were    *)
(* left out are dropped, none of them the lone value of a flag               *)
(* (parse_command and validate_params, relied upon by build_argv), whatever  *)
(* the library has become since the call was validated.                      *)
THEOREM PlacesKept == Spec => []ValuesKeepTheirPlace
<1>1. IInv => ValuesKeepTheirPlace
      <2> SUFFICES ASSUME IInv, NEW x \in Starting
                   PROVE  InPlace(call[x].template, Values(call[x].given))
          BY DEF ValuesKeepTheirPlace
      <2>1. x \in Calls /\ call[x].pc = "starting"  BY DEF Starting
      <2>2. TypeOK /\ Stage(x)  BY <2>1 DEF IInv, StageInv
      <2>3. call[x] \in Late  BY <2>1, <2>2, CallShape DEF PastLibrary
      <2>4. call[x].template \in Accepted /\ call[x].given \in Givens  BY <2>3 DEF Late
      <2>5. ValidParams(call[x].template, call[x].given)
            BY <2>1, <2>2 DEF Stage, PastLibrary
      <2>6. call[x].template \in Templates /\ Accepts(call[x].template)  BY <2>4 DEF Accepted
      <2> QED BY <2>4, <2>5, <2>6, KeepsPlace
<1> QED BY <1>1, Inductive, PTL


-----------------------------------------------------------------------------
(* The live log: what a decoder makes of the bytes. *)

Glyphs == {Bad} \cup ToSet(Bytes)

LEMMA BytesAre == Size \in Nat /\ \A i \in 1 .. Size : Bytes[i] \in Nat \ {0} /\ Bytes[i] \in Glyphs
<1>1. Bytes \in [1 .. Len(Bytes) -> Nat \ {0}] /\ Len(Bytes) \in Nat  BY BytesOfCharacters
<1>2. \A i \in 1 .. Len(Bytes) : Bytes[i] \in ToSet(Bytes)  BY DEF ToSet
<1> QED BY <1>1, <1>2 DEF Size, Glyphs

(* The numbers of the characters never go down. *)
LEMMA BytesGoUp == \A i, j \in 1 .. Size : i <= j => Bytes[i] <= Bytes[j]
<1> SUFFICES ASSUME NEW i \in 1 .. Size
             PROVE  \A j \in 1 .. Size : i <= j => Bytes[i] <= Bytes[j]
    OBVIOUS
<1> DEFINE P == {d \in Nat : i + d <= Size => Bytes[i] <= Bytes[i + d]}
<1>1. 0 \in P  BY BytesAre
<1>2. ASSUME NEW d \in P PROVE d + 1 \in P
      <2> SUFFICES ASSUME i + (d + 1) <= Size PROVE Bytes[i] <= Bytes[i + (d + 1)]
          OBVIOUS
      <2> DEFINE j == i + (d + 1)
      <2>1. j \in 2 .. Size /\ j \in 1 .. Size /\ j - 1 = i + d /\ i + d \in 1 .. Size  BY BytesAre
      <2>2. Bytes[i] <= Bytes[i + d]  BY <2>1
      <2>3. Bytes[j] - Bytes[j - 1] \in {0, 1}
            <3>1. \A k \in 2 .. Size : Bytes[k] - Bytes[k - 1] \in {0, 1}  BY BytesOfCharacters, Zenon DEF Size
            <3> QED BY <2>1, <3>1, Zenon
      <2>4. Bytes[j] \in Nat /\ Bytes[i + d] \in Nat /\ Bytes[i] \in Nat
            <3> HIDE DEF j
            <3> QED BY <2>1, BytesAre
      <2>5. Bytes[j] - Bytes[i + d] \in {0, 1}
            <3> HIDE DEF j
            <3> QED BY <2>1, <2>3
      <2> HIDE DEF j
      <2>6. Bytes[i] <= Bytes[j]  BY <2>2, <2>4, <2>5
      <2> QED BY <2>6 DEF j
<1>3. P \in SUBSET Nat  OBVIOUS
<1>4. P = Nat
      <2> HIDE DEF P
      <2> QED BY <1>1, <1>2, <1>3, Induct
<1> SUFFICES ASSUME NEW j \in 1 .. Size, i <= j PROVE Bytes[i] <= Bytes[j]
    OBVIOUS
<1> DEFINE d == j - i
<1>5. d \in Nat /\ i + d = j /\ i + d <= Size  BY BytesAre
<1> HIDE DEF P, d
<1>6. d \in P  BY <1>4, <1>5
<1> QED BY <1>5, <1>6 DEF P

LEMMA EmitType ==
    ASSUME NEW s \in 0 .. Size, NEW i \in 1 .. Size
    PROVE  EmitAt(s, i) \in Texts
<1>1. Bytes[i] \in Glyphs /\ Bad \in Glyphs  BY BytesAre DEF Glyphs
<1>2. Texts = Seq(Glyphs)  BY DEF Texts, Glyphs
<1> QED BY <1>1, <1>2 DEF EmitAt

Emits(s, p, n) == [k \in 1 .. n |-> EmitAt(s, p + k)]

LEMMA EmitsType ==
    ASSUME NEW s \in 0 .. Size, NEW p \in 0 .. Size, NEW n \in Nat, p + n <= Size
    PROVE  Emits(s, p, n) \in [1 .. n -> Seq(Glyphs)]
<1>1. Texts = Seq(Glyphs)  BY DEF Texts, Glyphs
<1>2. \A k \in 1 .. n : p + k \in 1 .. Size  BY BytesAre
<1>3. \A k \in 1 .. n : EmitAt(s, p + k) \in Seq(Glyphs)  BY <1>1, <1>2, EmitType
<1> QED BY <1>3 DEF Emits

LEMMA DecodedType ==
    ASSUME NEW s \in 0 .. Size, NEW p \in 0 .. Size, NEW t \in 0 .. Size, p <= t
    PROVE  Decoded(s, p, t) \in Texts
<1> DEFINE n == t - p
<1>1. n \in Nat /\ p + n <= Size  BY BytesAre
<1> HIDE DEF n
<1>2. Emits(s, p, n) \in [1 .. n -> Seq(Glyphs)]  BY <1>1, EmitsType
<1>3. FlattenSeq(Emits(s, p, n)) \in Seq(Glyphs)  BY <1>1, <1>2, FlattenType
<1> QED BY <1>3 DEF Decoded, Emits, n, Texts, Glyphs

LEMMA DecodedNone ==
    ASSUME NEW s \in 0 .. Size, NEW p \in 0 .. Size
    PROVE  Decoded(s, p, p) = << >>
<1>1. Emits(s, p, 0) = << >>  BY DEF Emits
<1>2. FlattenSeq(Emits(s, p, 0)) = << >>
      <2>1. Len(Emits(s, p, 0)) = 0  BY <1>1
      <2> QED BY <1>1, <2>1, FlattenNone
<1>3. p - p = 0  BY BytesAre
<1> QED BY <1>2, <1>3 DEF Decoded, Emits

(* One byte more. *)
LEMMA DecodedNext ==
    ASSUME NEW s \in 0 .. Size, NEW p \in 0 .. Size, NEW t \in 0 .. Size, p <= t, t < Size
    PROVE  Decoded(s, p, t + 1) = Decoded(s, p, t) \o EmitAt(s, t + 1)
<1> DEFINE n == t - p
           f == Emits(s, p, n + 1)
<1>1. n \in Nat /\ p + n = t /\ p + (n + 1) = t + 1 /\ p + (n + 1) <= Size /\ t + 1 - p = n + 1
      BY BytesAre
<1> HIDE DEF n
<1>2. f \in [1 .. n + 1 -> Seq(Glyphs)]  BY <1>1, EmitsType
<1>3. FlattenSeq(f) = FlattenSeq([k \in 1 .. n |-> f[k]]) \o f[n + 1]
      <2> HIDE DEF f
      <2> QED BY <1>1, <1>2, FlattenLast
<1>4. [k \in 1 .. n |-> f[k]] = Emits(s, p, n)
      <2>1. \A k \in 1 .. n : f[k] = EmitAt(s, p + k)  BY <1>1 DEF Emits
      <2> QED BY <2>1, Zenon DEF Emits
<1>5. f[n + 1] = EmitAt(s, t + 1)
      <2>1. f[n + 1] = EmitAt(s, p + (n + 1))
            <3>1. n + 1 \in 1 .. n + 1  BY <1>1
            <3> QED BY <3>1 DEF Emits
      <2> QED BY <1>1, <2>1
<1>6. Decoded(s, p, t + 1) = FlattenSeq(f)
      <2>1. Decoded(s, p, t + 1) = FlattenSeq(Emits(s, p, t + 1 - p))  BY DEF Decoded, Emits
      <2> QED BY <1>1, <2>1
<1>7. Decoded(s, p, t) = FlattenSeq(Emits(s, p, n))  BY DEF Decoded, Emits, n
<1> HIDE DEF f
<1> QED BY <1>3, <1>4, <1>5, <1>6, <1>7

(* What is decoded in two pieces by one decoder. *)
LEMMA DecodedAppend ==
    ASSUME NEW s \in 0 .. Size, NEW p \in 0 .. Size, NEW q \in 0 .. Size, NEW t \in 0 .. Size,
           p <= q, q <= t
    PROVE  Decoded(s, p, t) = Decoded(s, p, q) \o Decoded(s, q, t)
<1> DEFINE P == {d \in Nat : q + d <= Size =>
                        Decoded(s, p, q + d) = Decoded(s, p, q) \o Decoded(s, q, q + d)}
<1>0. Size \in Nat /\ p \in Nat /\ q \in Nat /\ t \in Nat  BY BytesAre
<1>1. 0 \in P
      <2>1. q + 0 = q  BY <1>0
      <2>2. Decoded(s, q, q) = << >>  BY DecodedNone
      <2>3. Decoded(s, p, q) \in Seq(Glyphs)  BY DecodedType DEF Texts, Glyphs
      <2>4. Decoded(s, p, q) \o << >> = Decoded(s, p, q)  BY <2>3
      <2> QED BY <2>1, <2>2, <2>4
<1>2. ASSUME NEW d \in P PROVE d + 1 \in P
      <2>0. d \in Nat  OBVIOUS
      <2> SUFFICES ASSUME q + (d + 1) <= Size
                   PROVE  Decoded(s, p, q + (d + 1)) = Decoded(s, p, q) \o Decoded(s, q, q + (d + 1))
          OBVIOUS
      <2> DEFINE u == q + d
      <2>1. /\ u \in 0 .. Size /\ u < Size /\ q + (d + 1) = u + 1 /\ p <= u /\ q <= u
            /\ u + 1 \in 1 .. Size
            BY <1>0
      <2>2. Decoded(s, p, u) = Decoded(s, p, q) \o Decoded(s, q, u)  BY <1>0, <2>1
      <2> HIDE DEF u, P
      <2>3. Decoded(s, p, u + 1) = Decoded(s, p, u) \o EmitAt(s, u + 1)  BY <2>1, DecodedNext
      <2>4. Decoded(s, q, u + 1) = Decoded(s, q, u) \o EmitAt(s, u + 1)  BY <2>1, DecodedNext
      <2>5. /\ Decoded(s, p, q) \in Seq(Glyphs) /\ Decoded(s, q, u) \in Seq(Glyphs)
            /\ EmitAt(s, u + 1) \in Seq(Glyphs)
            BY <2>1, DecodedType, EmitType DEF Texts, Glyphs
      <2>6. (Decoded(s, p, q) \o Decoded(s, q, u)) \o EmitAt(s, u + 1)
                = Decoded(s, p, q) \o (Decoded(s, q, u) \o EmitAt(s, u + 1))
            BY <2>5, ConcatAssociative
      <2> QED BY <2>1, <2>2, <2>3, <2>4, <2>6
<1>3. P \in SUBSET Nat  OBVIOUS
<1>4. P = Nat
      <2> HIDE DEF P
      <2> QED BY <1>1, <1>2, <1>3, Induct
<1>5. t - q \in Nat /\ q + (t - q) = t /\ q + (t - q) <= Size  BY <1>0
<1> DEFINE d == t - q
<1> HIDE DEF P, d
<1>6. d \in P  BY <1>4, <1>5 DEF d
<1>7. q + d = t /\ q + d <= Size  BY <1>5 DEF d
<1> QED BY <1>6, <1>7 DEF P

(* A decoder that began between two characters emits what one from the       *)
(* start of the log would.                                                   *)
LEMMA EmitSame ==
    ASSUME NEW s \in 0 .. Size, Boundary(s), NEW i \in 1 .. Size, s < i
    PROVE  EmitAt(s, i) = EmitAt(0, i)
<1>1. CASE s = 0  BY <1>1
<1>2. CASE s # 0
      <2>1. Bytes[s + 1] # Bytes[s]  BY <1>2, BytesAre DEF Boundary, Ends
      <2>2. s \in 1 .. Size /\ s + 1 \in 1 .. Size /\ s <= s + 1 /\ s + 1 <= i  BY <1>2, BytesAre
      <2>3. Bytes[s] <= Bytes[s + 1] /\ Bytes[s + 1] <= Bytes[i]  BY <2>2, BytesGoUp
      <2>4. Bytes[s] # Bytes[i]  BY <2>1, <2>2, <2>3, BytesAre
      <2> QED BY <2>4 DEF EmitAt
<1> QED BY <1>1, <1>2

LEMMA DecodedSame ==
    ASSUME NEW s \in 0 .. Size, Boundary(s), NEW p \in 0 .. Size, NEW t \in 0 .. Size,
           s <= p, p <= t
    PROVE  Decoded(s, p, t) = Decoded(0, p, t)
<1>1. \A k \in 1 .. t - p : p + k \in 1 .. Size /\ s < p + k  BY BytesAre
<1>2. \A k \in 1 .. t - p : EmitAt(s, p + k) = EmitAt(0, p + k)  BY <1>1, EmitSame
<1>3. [k \in 1 .. t - p |-> EmitAt(s, p + k)] = [k \in 1 .. t - p |-> EmitAt(0, p + k)]
      BY <1>2, Zenon
<1> QED BY <1>3 DEF Decoded

(* Where any decoder emits nothing there is no end of a character. *)
LEMMA NothingDecoded ==
    ASSUME NEW s \in 0 .. Size, NEW p \in 0 .. Size, NEW t \in 0 .. Size, p <= t,
           Decoded(s, p, t) = << >>
    PROVE  Decoded(0, p, t) = << >>
<1> DEFINE P == {d \in Nat : p + d <= Size /\ Decoded(s, p, p + d) = << >>
                                => Decoded(0, p, p + d) = << >>}
<1>0. Size \in Nat /\ p \in Nat /\ t \in Nat /\ 0 \in 0 .. Size  BY BytesAre
<1>1. 0 \in P
      <2>1. p + 0 = p  BY <1>0
      <2>2. Decoded(0, p, p) = << >>  BY <1>0, DecodedNone
      <2> QED BY <2>1, <2>2
<1>2. ASSUME NEW d \in P PROVE d + 1 \in P
      <2> SUFFICES ASSUME p + (d + 1) <= Size, Decoded(s, p, p + (d + 1)) = << >>
                   PROVE  Decoded(0, p, p + (d + 1)) = << >>
          OBVIOUS
      <2> DEFINE u == p + d
      <2>1. u \in 0 .. Size /\ u < Size /\ p + (d + 1) = u + 1 /\ p <= u /\ u + 1 \in 1 .. Size
            BY <1>0
      <2>2. Decoded(s, p, u) = << >> => Decoded(0, p, u) = << >>  BY <1>0, <2>1
      <2>3. Decoded(s, p, u + 1) = << >>  BY <2>1
      <2> HIDE DEF u, P
      <2>4. Decoded(s, p, u + 1) = Decoded(s, p, u) \o EmitAt(s, u + 1)  BY <2>1, DecodedNext
      <2>5. Decoded(0, p, u + 1) = Decoded(0, p, u) \o EmitAt(0, u + 1)  BY <1>0, <2>1, DecodedNext
      <2>6. Decoded(s, p, u) \in Seq(Glyphs) /\ EmitAt(s, u + 1) \in Seq(Glyphs)
            BY <2>1, DecodedType, EmitType DEF Texts, Glyphs
      <2>7. Decoded(s, p, u) = << >> /\ EmitAt(s, u + 1) = << >>
            BY <2>3, <2>4, <2>6
      <2>8. EmitAt(0, u + 1) = << >>
            <3>1. <<Bad>> # << >> /\ <<Bytes[u + 1]>> # << >>  OBVIOUS
            <3> QED BY <2>7, <3>1 DEF EmitAt
      <2>9. Decoded(0, p, u + 1) = << >>  BY <2>2, <2>5, <2>7, <2>8
      <2> QED BY <2>1, <2>9
<1>3. P \in SUBSET Nat  OBVIOUS
<1>4. P = Nat
      <2> HIDE DEF P
      <2> QED BY <1>1, <1>2, <1>3, Induct
<1>5. t - p \in Nat /\ p + (t - p) = t /\ p + (t - p) <= Size  BY <1>0
<1> DEFINE d == t - p
<1> HIDE DEF P, d
<1>6. d \in P  BY <1>4, <1>5 DEF d
<1>7. p + d = t /\ p + d <= Size  BY <1>5 DEF d
<1> QED BY <1>6, <1>7 DEF P

LEMMA CharactersType ==
    ASSUME NEW t \in 0 .. Size PROVE Characters(t) \in Texts /\ DecodedOnce(t) \in Texts
<1>1. 0 \in 0 .. Size /\ 0 <= t  BY BytesAre
<1>2. Decoded(0, 0, t) \in Texts  BY <1>1, DecodedType
<1>3. Texts = Seq(Glyphs) /\ Bad \in Glyphs  BY DEF Texts, Glyphs
<1> QED BY <1>2, <1>3 DEF Characters, DecodedOnce

LEMMA CharactersGrow ==
    ASSUME NEW s \in 0 .. Size, Boundary(s), NEW p \in 0 .. Size, NEW t \in 0 .. Size,
           s <= p, p <= t
    PROVE  Characters(t) = Characters(p) \o Decoded(s, p, t)
<1>1. 0 \in 0 .. Size /\ 0 <= p  BY BytesAre
<1>2. Decoded(0, 0, t) = Decoded(0, 0, p) \o Decoded(0, p, t)  BY <1>1, DecodedAppend
<1>3. Decoded(s, p, t) = Decoded(0, p, t)  BY DecodedSame
<1> QED BY <1>2, <1>3 DEF Characters

LEMMA CharactersStay ==
    ASSUME NEW s \in 0 .. Size, NEW p \in 0 .. Size, NEW t \in 0 .. Size, p <= t,
           Decoded(s, p, t) = << >>
    PROVE  Characters(t) = Characters(p)
<1>1. 0 \in 0 .. Size /\ 0 <= p  BY BytesAre
<1>2. Decoded(0, 0, t) = Decoded(0, 0, p) \o Decoded(0, p, t)  BY <1>1, DecodedAppend
<1>3. Decoded(0, p, t) = << >>  BY NothingDecoded
<1>4. Decoded(0, 0, p) \in Seq(Glyphs)  BY <1>1, DecodedType DEF Texts, Glyphs
<1>5. Decoded(0, 0, p) \o << >> = Decoded(0, 0, p)  BY <1>4
<1> QED BY <1>2, <1>3, <1>5 DEF Characters

(***************************************************************************)
(* The records of the state.                                               *)
(***************************************************************************)
Shown == {"live", "waiting", "done", "not found"}

LEMMA PagesAre ==
    ASSUME NEW p \in Pages
    PROVE  /\ p.at \in {"none", "loading"} \cup Shown
           /\ p.at \in Shown => /\ p.pos \in 0 .. Size /\ p.text \in Texts
                                /\ p = [at |-> p.at, pos |-> p.pos, text |-> p.text]
           /\ "pos" \in DOMAIN p <=> p.at \in Shown
           /\ p.at = "none" => p = NoPage
           /\ p.at = "loading" => p.seen \in {"running", "settled"}
<1>1. CASE p \in [at : {"none"}]  BY <1>1 DEF NoPage, Shown
<1>2. CASE p \in [at : {"loading"}, seen : {"running", "settled"}]  BY <1>2 DEF Shown
<1>3. CASE p \in [at : {"live", "waiting", "done", "not found"}, pos : 0 .. Size, text : Texts]  BY <1>3 DEF Shown
<1> QED BY <1>1, <1>2, <1>3 DEF Pages

LEMMA PagesHave ==
    /\ NoPage \in Pages
    /\ \A r \in {"running", "settled"} : [at |-> "loading", seen |-> r] \in Pages
    /\ \A a \in Shown, q \in 0 .. Size, x \in Texts : [at |-> a, pos |-> q, text |-> x] \in Pages
BY DEF Pages, NoPage, Shown

LEMMA StreamsAre ==
    ASSUME NEW v \in Streams
    PROVE  /\ v.at \in {"none", "row", "log", "status", "ended"}
           /\ v.at = "none" <=> v = NoStream
           /\ v.at # "none" => v.start \in 0 .. Size /\ v.pos \in 0 .. Size
           /\ v.at \in {"row", "ended"} => v = [at |-> v.at, start |-> v.start, pos |-> v.pos]
           /\ v.at \in {"log", "status"} =>
                 /\ v.seen \in {"running", "settled"}
                 /\ v = [at |-> v.at, start |-> v.start, pos |-> v.pos, seen |-> v.seen]
<1>1. CASE v \in [at : {"none"}]  BY <1>1 DEF NoStream
<1>2. CASE v \in [at : {"row", "ended"}, start : 0 .. Size, pos : 0 .. Size]
      BY <1>2 DEF NoStream
<1>3. CASE v \in [at : {"log", "status"}, start : 0 .. Size, pos : 0 .. Size,
                  seen : {"running", "settled"}]
      BY <1>3 DEF NoStream
<1> QED BY <1>1, <1>2, <1>3 DEF Streams

LEMMA StreamsHave ==
    /\ NoStream \in Streams
    /\ \A a \in {"row", "ended"}, s \in 0 .. Size, q \in 0 .. Size :
          [at |-> a, start |-> s, pos |-> q] \in Streams
    /\ \A a \in {"log", "status"}, s \in 0 .. Size, q \in 0 .. Size, r \in {"running", "settled"} :
          [at |-> a, start |-> s, pos |-> q, seen |-> r] \in Streams
BY DEF Streams, NoStream

LEMMA EventsAre ==
    ASSUME NEW e \in Events
    PROVE  /\ e.kind \in {"text", "done", "not found"}
           /\ e.kind = "text" => e.pos \in 0 .. Size /\ e.text \in Texts
<1>1. CASE e \in [kind : {"text"}, pos : 0 .. Size, text : Texts]  BY <1>1
<1>2. CASE e \in [kind : {"done", "not found"}]  BY <1>2
<1> QED BY <1>1, <1>2 DEF Events

LEMMA EventsHave ==
    /\ [kind |-> "done"] \in Events /\ [kind |-> "not found"] \in Events
    /\ \A q \in 0 .. Size, x \in Texts : [kind |-> "text", pos |-> q, text |-> x] \in Events
BY DEF Events

(***************************************************************************)
(* The steps.                                                              *)
(***************************************************************************)
LEMMA StartsLogIInv == LogInit => LogIInv
<1> SUFFICES ASSUME LogInit PROVE LogIInv  OBVIOUS
<1>1. page = NoPage /\ server = NoStream /\ wire = << >> /\ page.at = "none" /\ server.at = "none"
      BY DEF LogInit, NoPage, NoStream
<1>2. LogTypeOK
      <2>1. written \in 0 .. Size /\ drops \in 0 .. MaxDrops
            BY BytesAre, MaxDropsIsNumber DEF LogInit
      <2>2. ~("pos" \in DOMAIN page)  BY <1>1, PagesHave, PagesAre DEF Shown
      <2>3. page \in Pages /\ server \in Streams /\ wire \in Seq(Events)
            BY <1>1, PagesHave, StreamsHave
      <2>4. row = "running" /\ file \in BOOLEAN /\ torn \in BOOLEAN  BY DEF LogInit
      <2> QED BY <2>1, <2>2, <2>3, <2>4, Zenon DEF LogTypeOK
<1>3. ~("pos" \in DOMAIN page)  BY <1>1, PagesHave, PagesAre DEF Shown
<1> QED BY <1>1, <1>2, <1>3
        DEF LogIInv, StreamInv, PosInv, WireInv, DoneInv, ShowsEachOnce, DoneHasAll

LEMMA StepAppendLog ==
    ASSUME LogIInv, NEW n \in 1 .. Size, AppendLog(n) PROVE LogIInv'
<1> USE DEF LogIInv, AppendLog, Browser
<1>1. /\ written' \in 0 .. Size /\ written <= written' /\ written \in 0 .. Size
      /\ row = "running" /\ UNCHANGED <<row, file, page, server, wire, drops, torn>>
      BY BytesAre DEF LogTypeOK
<1> HIDE DEF AppendLog, Browser
<1>2. LogTypeOK'
      <2>1. "pos" \in DOMAIN page => page.pos \in 0 .. Size  BY PagesAre DEF LogTypeOK
      <2> QED BY <1>1, <2>1, BytesAre DEF LogTypeOK
<1>3. StreamInv'  BY <1>1 DEF StreamInv
<1>4. PosInv'
      <2>1. server.at # "none" => server.pos \in 0 .. Size  BY StreamsAre DEF LogTypeOK
      <2>2. \A k \in DOMAIN wire : wire[k] \in Events  BY DEF LogTypeOK
      <2>3. \A k \in DOMAIN wire : wire[k].kind = "text" => wire[k].pos \in 0 .. Size
            BY <2>2, EventsAre
      <2> QED BY <1>1, <2>1, <2>3, BytesAre DEF PosInv
<1>5. WireInv'  BY <1>1 DEF WireInv, After, Sent
<1>6. DoneInv'
      <2>1. server.at \in {"log", "status"} => server.seen \in {"running", "settled"}
            BY StreamsAre DEF LogTypeOK
      <2> QED BY <1>1, <2>1 DEF DoneInv
<1>7. ShowsEachOnce'  BY <1>1 DEF ShowsEachOnce
<1>8. DoneHasAll'  BY <1>1 DEF DoneHasAll, DoneInv
<1> QED BY <1>2, <1>3, <1>4, <1>5, <1>6, <1>7, <1>8

LEMMA StepRow ==
    ASSUME LogIInv, SettleRun \/ PruneRow \/ PruneFile PROVE LogIInv'
<1> USE DEF LogIInv
<1>1. /\ UNCHANGED <<written, page, server, wire, drops, torn>>
      /\ row' \in {"settled", "gone"} /\ file' \in BOOLEAN /\ (file' => file)
      <2>1. file \in BOOLEAN  BY DEF LogTypeOK
      <2>2. CASE SettleRun  BY <2>1, <2>2 DEF SettleRun, Browser
      <2>3. CASE PruneRow  BY <2>1, <2>3 DEF PruneRow, Browser
      <2>4. CASE PruneFile  BY <2>4 DEF PruneFile, Browser
      <2> QED BY <2>2, <2>3, <2>4
<1>2. LogTypeOK'  BY <1>1 DEF LogTypeOK
<1>3. StreamInv'  BY <1>1 DEF StreamInv
<1>4. PosInv'  BY <1>1 DEF PosInv
<1>5. WireInv'  BY <1>1 DEF WireInv, After, Sent
<1>6. DoneInv'  BY <1>1 DEF DoneInv
<1>7. ShowsEachOnce'  BY <1>1 DEF ShowsEachOnce
<1>8. DoneHasAll'  BY <1>1 DEF DoneHasAll
<1> QED BY <1>2, <1>3, <1>4, <1>5, <1>6, <1>7, <1>8

LEMMA StepLoadRow ==
    ASSUME LogIInv, LoadRow PROVE LogIInv'
<1> USE DEF LogIInv
<1>1. /\ UNCHANGED <<written, row, file, server, wire, drops, torn>>
      /\ page.at = "none" /\ page' = [at |-> "loading", seen |-> row]
      /\ row \in {"running", "settled"}
      BY DEF LoadRow, LogTypeOK, NoPage
<1>2. page'.at = "loading" /\ page'.seen = row /\ page' \in Pages
      BY <1>1, PagesHave
<1>3. ~("pos" \in DOMAIN page')  BY <1>2, PagesAre DEF Shown
<1>4. LogTypeOK'  BY <1>1, <1>2, <1>3 DEF LogTypeOK
<1>5. StreamInv'  BY <1>1, <1>2 DEF StreamInv
<1>6. PosInv'  BY <1>1 DEF PosInv
<1>7. WireInv'  BY <1>2 DEF WireInv
<1>8. DoneInv'  BY <1>1, <1>2 DEF DoneInv
<1>9. ShowsEachOnce' /\ DoneHasAll'  BY <1>2, <1>3 DEF ShowsEachOnce, DoneHasAll
<1> QED BY <1>4, <1>5, <1>6, <1>7, <1>8, <1>9

LEMMA StepLoadLog ==
    ASSUME LogIInv, LoadLog PROVE LogIInv'
<1> USE DEF LogIInv
<1>1. /\ UNCHANGED <<written, row, file, server, wire, drops>>
      /\ page.at = "loading" /\ torn' = (torn \/ ~Boundary(InLog))
      /\ page' = [at |-> IF page.seen = "running" THEN "waiting" ELSE "done",
                  pos |-> InLog, text |-> DecodedOnce(InLog)]
      BY DEF LoadLog, PageOffset
<1>2. InLog \in 0 .. Size /\ InLog <= written /\ (file => InLog = written)
      BY BytesAre DEF InLog, LogTypeOK
<1>3. DecodedOnce(InLog) \in Texts  BY <1>2, CharactersType
<1>4. page.seen \in {"running", "settled"}  BY <1>1, PagesAre DEF LogTypeOK
<1>5. /\ page'.at = IF page.seen = "running" THEN "waiting" ELSE "done"
      /\ page'.pos = InLog /\ page'.text = DecodedOnce(InLog)
      BY <1>1
<1>6. page'.at \in {"waiting", "done"} /\ page' \in Pages
      BY <1>1, <1>2, <1>3, <1>5, PagesHave DEF Shown
<1>7. LogTypeOK'
      <2>1. torn' \in BOOLEAN  BY <1>1 DEF LogTypeOK
      <2> QED BY <1>1, <1>2, <1>5, <1>6, <2>1 DEF LogTypeOK
<1>8. server = NoStream /\ wire = << >>  BY <1>1 DEF StreamInv
<1>9. StreamInv'  BY <1>1, <1>6, <1>8 DEF StreamInv
<1>10. PosInv'  BY <1>1 DEF PosInv
<1>11. WireInv'  BY <1>6 DEF WireInv
<1>12. DoneInv'
      <2>1. server.at = "none"  BY <1>8 DEF NoStream
      <2> QED BY <1>1, <1>4, <1>5, <1>6, <2>1 DEF DoneInv
<1>13. ShowsEachOnce'
      <2> SUFFICES ASSUME ~torn' PROVE page'.text = Characters(page'.pos)
          BY DEF ShowsEachOnce
      <2>1. Boundary(InLog)  BY <1>1
      <2>2. DecodedOnce(InLog) = Characters(InLog) \o << >>
            BY <2>1 DEF DecodedOnce, Characters
      <2>3. Characters(InLog) \in Seq(Glyphs)  BY <1>2, CharactersType DEF Texts, Glyphs
      <2> QED BY <1>5, <2>2, <2>3
<1>14. DoneHasAll'  BY <1>1, <1>2, <1>5 DEF DoneHasAll
<1> QED BY <1>7, <1>9, <1>10, <1>11, <1>12, <1>13, <1>14

LEMMA StepConnect ==
    ASSUME LogIInv, Connect PROVE LogIInv'
<1> USE DEF LogIInv
<1>1. /\ UNCHANGED <<written, row, file, wire, drops>>
      /\ page.at = "waiting" /\ page' = [page EXCEPT !.at = "live"]
      /\ server' = [at |-> "row", start |-> page.pos, pos |-> page.pos]
      /\ torn' = (torn \/ ~Boundary(page.pos))
      BY DEF Connect
<1>2. /\ page.pos \in 0 .. Size /\ page.text \in Texts
      /\ page = [at |-> page.at, pos |-> page.pos, text |-> page.text]
      /\ "pos" \in DOMAIN page
      BY <1>1, PagesAre DEF LogTypeOK, Shown
<1>3. page' = [at |-> "live", pos |-> page.pos, text |-> page.text]
      BY <1>1, <1>2
<1>4. page'.at = "live" /\ page'.pos = page.pos /\ page'.text = page.text  BY <1>3
<1>5. server'.at = "row" /\ server'.start = page.pos /\ server'.pos = page.pos  BY <1>1
<1>6. page' \in Pages /\ server' \in Streams
      BY <1>1, <1>2, <1>3, PagesHave, StreamsHave DEF Shown
<1>7. LogTypeOK'
      <2>1. torn' \in BOOLEAN  BY <1>1 DEF LogTypeOK
      <2> QED BY <1>1, <1>2, <1>4, <1>6, <2>1 DEF LogTypeOK
<1>8. wire = << >>  BY <1>1 DEF StreamInv
<1>9. StreamInv'  BY <1>4, <1>5 DEF StreamInv
<1>10. PosInv'
      <2>1. page.pos <= written  BY <1>2 DEF LogTypeOK
      <2> QED BY <1>1, <1>2, <1>5, <1>8, <2>1 DEF PosInv
<1>11. WireInv'
      <2>1. Sent' = 0  BY <1>1, <1>5, <1>8 DEF Sent
      <2>2. wire' = << >> /\ DOMAIN wire' = {}  BY <1>1, <1>8
      <2>3. ~torn' => Boundary(server'.start)  BY <1>1, <1>5
      <2>4. 1 .. Sent' = {}  BY <2>1
      <2> QED BY <1>4, <1>5, <2>1, <2>2, <2>3, <2>4 DEF WireInv, After
<1>12. DoneInv'
      <2>1. DOMAIN wire' = {}  BY <1>1, <1>8
      <2> QED BY <1>4, <1>5, <2>1 DEF DoneInv
<1>13. ShowsEachOnce'  BY <1>1, <1>2, <1>4 DEF ShowsEachOnce
<1>14. DoneHasAll'  BY <1>4 DEF DoneHasAll
<1> QED BY <1>7, <1>9, <1>10, <1>11, <1>12, <1>13, <1>14

LEMMA StepLost ==
    ASSUME LogIInv, LoseConnection \/ ServerDies PROVE LogIInv'
<1> USE DEF LogIInv
<1>1. /\ UNCHANGED <<written, file, torn>> /\ server' = NoStream /\ wire' = << >>
      /\ drops' = drops + 1 /\ drops < MaxDrops
      /\ row' = row \/ row' = "settled"
      /\ page' = IF page.at = "live" THEN [page EXCEPT !.at = "waiting"]
                 ELSE IF page.at = "loading" THEN NoPage ELSE page
      BY DEF LoseConnection, ServerDies
<1>2. server'.at = "none" /\ server' \in Streams  BY <1>1, StreamsHave DEF NoStream
<1>3. /\ page' \in Pages /\ page'.at \in {"none", "waiting", "done", "not found"}
      /\ "pos" \in DOMAIN page' =>
            "pos" \in DOMAIN page /\ page'.pos = page.pos /\ page'.text = page.text
      /\ page'.at = "done" => page.at = "done"
      <2>1. CASE page.at = "live"
            <3>1. /\ page.pos \in 0 .. Size /\ page.text \in Texts
                  /\ page = [at |-> page.at, pos |-> page.pos, text |-> page.text]
                  /\ "pos" \in DOMAIN page
                  BY <2>1, PagesAre DEF LogTypeOK, Shown
            <3>2. page' = [at |-> "waiting", pos |-> page.pos, text |-> page.text]
                  BY <1>1, <2>1, <3>1
            <3>3. page'.at = "waiting" /\ page'.pos = page.pos /\ page'.text = page.text  BY <3>2
            <3>4. page' \in Pages  BY <3>1, <3>2, PagesHave DEF Shown
            <3> QED BY <3>1, <3>3, <3>4
      <2>2. CASE page.at = "loading"
            <3>1. page' = NoPage /\ page'.at = "none" /\ page' \in Pages
                  BY <1>1, <2>2, PagesHave DEF NoPage
            <3>2. ~("pos" \in DOMAIN page')  BY <3>1, PagesAre DEF Shown
            <3> QED BY <3>1, <3>2
      <2>3. CASE page.at \notin {"live", "loading"}
            <3>1. page' = page  BY <1>1, <2>3
            <3>2. page \in Pages  BY DEF LogTypeOK
            <3>3. page.at \in {"none", "loading"} \cup Shown  BY <3>2, PagesAre
            <3> QED BY <2>3, <3>1, <3>2, <3>3 DEF Shown
      <2> QED BY <2>1, <2>2, <2>3
<1>4. LogTypeOK'
      <2>1. drops' \in 0 .. MaxDrops  BY <1>1, MaxDropsIsNumber DEF LogTypeOK
      <2>2. row' \in {"running", "settled", "gone"}  BY <1>1 DEF LogTypeOK
      <2>3. wire' \in Seq(Events)  BY <1>1
      <2>4. "pos" \in DOMAIN page' => page'.pos <= written'  BY <1>1, <1>3 DEF LogTypeOK
      <2>5. written' \in 0 .. Size /\ file' \in BOOLEAN /\ torn' \in BOOLEAN  BY <1>1 DEF LogTypeOK
      <2> QED BY <1>2, <1>3, <2>1, <2>2, <2>3, <2>4, <2>5, Zenon DEF LogTypeOK
<1>5. StreamInv'  BY <1>1, <1>3 DEF StreamInv
<1>6. PosInv'
      <2>1. DOMAIN wire' = {}  BY <1>1
      <2> QED BY <1>2, <2>1 DEF PosInv
<1>7. WireInv'  BY <1>3 DEF WireInv
<1>8. DoneInv'  BY <1>1, <1>2, <1>3 DEF DoneInv
<1>9. ShowsEachOnce'  BY <1>1, <1>3 DEF ShowsEachOnce
<1>10. DoneHasAll'
      <2> SUFFICES ASSUME page'.at = "done", file'
                   PROVE  page'.pos = written' \/ Characters(page'.pos) = Characters(written')
          BY DEF DoneHasAll
      <2>1. "pos" \in DOMAIN page'  BY <1>3, PagesAre DEF Shown
      <2> QED BY <1>1, <1>3, <2>1 DEF DoneHasAll
<1> QED BY <1>4, <1>5, <1>6, <1>7, <1>8, <1>9, <1>10

LEMMA StepReceive ==
    ASSUME LogIInv, Receive PROVE LogIInv'
<1> USE DEF LogIInv
<1> DEFINE e == Head(wire)
<1>1. /\ UNCHANGED <<written, row, file, server, drops, torn>>
      /\ page.at = "live" /\ wire # << >> /\ wire' = Tail(wire)
      /\ page' = CASE e.kind = "text" -> [page EXCEPT !.pos = e.pos, !.text = @ \o e.text]
                   [] e.kind = "done" -> [page EXCEPT !.at = "done"]
                   [] e.kind = "not found" -> [page EXCEPT !.at = "not found"]
      BY DEF Receive
<1>2. /\ Len(wire) \in Nat \ {0} /\ wire' \in Seq(Events) /\ Len(wire') = Len(wire) - 1
      /\ \A k \in 1 .. Len(wire') : wire'[k] = wire[k + 1]
      /\ DOMAIN wire = 1 .. Len(wire) /\ DOMAIN wire' = 1 .. Len(wire') /\ e \in Events
      /\ e = wire[1] /\ 1 \in DOMAIN wire
      <2>1. wire \in Seq(Events)  BY DEF LogTypeOK
      <2>2. /\ wire' \in Seq(Events) /\ Len(wire') = Len(wire) - 1
            /\ \A k \in 1 .. Len(wire') : wire'[k] = wire[k + 1]
            BY <1>1, <2>1, HeadTailProperties
      <2>0. wire # << >>  BY <1>1
      <2>3. Len(wire) \in Nat /\ Len(wire) # 0
            <3>1. Len(wire) \in Nat  BY <2>1
            <3> QED BY <2>0, <2>1, <3>1, EmptySeq, Zenon
      <2>4. e = wire[1]  BY <2>0, <2>1, <2>3
      <2>5. DOMAIN wire = 1 .. Len(wire) /\ DOMAIN wire' = 1 .. Len(wire')  BY <2>1, <2>2
      <2>6. 1 \in DOMAIN wire  BY <2>3, <2>5
      <2>7. e \in Events  BY <2>1, <2>4, <2>5, <2>6
      <2> QED BY <2>2, <2>3, <2>4, <2>5, <2>6, <2>7
<1> HIDE DEF e
<1>3. /\ page.pos \in 0 .. Size /\ page.text \in Texts /\ "pos" \in DOMAIN page
      /\ page = [at |-> page.at, pos |-> page.pos, text |-> page.text]
      BY <1>1, PagesAre DEF LogTypeOK, Shown
<1>4. /\ Sent \in Nat /\ Sent' = IF server.at = "ended" THEN Len(wire') - 1 ELSE Len(wire')
      /\ e.kind = "text" <=> 1 <= Sent
      /\ Sent = IF server.at = "ended" THEN Len(wire) - 1 ELSE Len(wire)
      <2>1. server.at = "ended" => wire # << >>  BY <1>1 DEF WireInv
      <2>2. wire[1].kind = "text" <=> 1 <= Sent  BY <1>1, <1>2 DEF WireInv
      <2>3. Sent \in Nat  BY <1>2 DEF Sent
      <2>4. Sent' = IF server.at = "ended" THEN Len(wire') - 1 ELSE Len(wire')  BY <1>1 DEF Sent
      <2> QED BY <1>2, <2>2, <2>3, <2>4, Zenon DEF Sent
<1>5. server.at # "none"  BY <1>1 DEF StreamInv
<1>6. PosInv'
      <2>1. \A k \in DOMAIN wire' : wire'[k].kind = "text" => wire'[k].pos <= written
            <3> SUFFICES ASSUME NEW k \in DOMAIN wire', wire'[k].kind = "text"
                         PROVE  wire'[k].pos <= written
                OBVIOUS
            <3>1. k + 1 \in DOMAIN wire /\ wire'[k] = wire[k + 1]  BY <1>2
            <3> QED BY <3>1 DEF PosInv
      <2> QED BY <1>1, <2>1 DEF PosInv
<1>7. /\ wire' \in Seq(Events) /\ written' \in 0 .. Size /\ row' \in {"running", "settled", "gone"}
      /\ file' \in BOOLEAN /\ server' \in Streams /\ drops' \in 0 .. MaxDrops /\ torn' \in BOOLEAN
      BY <1>1, <1>2 DEF LogTypeOK
<1>8. CASE e.kind = "text"
      <2>1. e.pos \in 0 .. Size /\ e.text \in Texts  BY <1>2, <1>8, EventsAre
      <2>2. page' = [at |-> "live", pos |-> e.pos, text |-> page.text \o e.text]
            BY <1>1, <1>3, <1>8
      <2>3. page'.at = "live" /\ page'.pos = e.pos /\ page'.text = page.text \o e.text
            BY <2>2
      <2>4. page.text \o e.text \in Texts  BY <1>3, <2>1 DEF Texts
      <2>5. page' \in Pages  BY <2>1, <2>2, <2>4, PagesHave DEF Shown
      <2>6. e.pos <= written  BY <1>2, <1>8 DEF PosInv
      <2>7. LogTypeOK'  BY <1>1, <1>7, <2>3, <2>5, <2>6 DEF LogTypeOK
      <2>8. StreamInv'  BY <1>1, <1>5, <2>3 DEF StreamInv
      <2>9. 1 <= Sent /\ Sent' = Sent - 1 /\ Sent' \in Nat  BY <1>2, <1>4, <1>8
      <2>10. WireInv'
             <3>1. server'.at = "ended" => wire' # << >>
                   <4> SUFFICES ASSUME server.at = "ended" PROVE wire' # << >>  BY <1>1
                   <4>1. Len(wire') # 0  BY <1>2, <1>4, <2>9
                   <4> QED BY <4>1
             <3>2. \A k \in DOMAIN wire' : wire'[k].kind = "text" <=> k <= Sent'
                   <4> SUFFICES ASSUME NEW k \in DOMAIN wire'
                                PROVE  wire'[k].kind = "text" <=> k <= Sent'
                       OBVIOUS
                   <4>1. k + 1 \in DOMAIN wire /\ wire'[k] = wire[k + 1] /\ k \in Nat  BY <1>2
                   <4>2. wire[k + 1].kind = "text" <=> k + 1 <= Sent  BY <1>1, <4>1 DEF WireInv
                   <4> QED BY <1>4, <2>9, <4>1, <4>2
             <3> DEFINE A(k) == IF k = 0 THEN page'.pos ELSE wire'[k].pos
             <3>3. \A k \in 0 .. Sent' : A(k) = After(k + 1)
                   <4> SUFFICES ASSUME NEW k \in 0 .. Sent' PROVE A(k) = After(k + 1)  OBVIOUS
                   <4>1. CASE k = 0
                         <5>1. A(k) = wire[1].pos  BY <1>2, <2>3, <4>1
                         <5>2. k + 1 = 1 /\ k + 1 # 0  BY <4>1
                         <5> HIDE DEF A
                         <5> QED BY <5>1, <5>2 DEF After
                   <4>2. CASE k # 0
                         <5>1. k \in 1 .. Len(wire') /\ k + 1 # 0  BY <1>2, <1>4, <2>9, <4>2
                         <5> QED BY <1>2, <4>2, <5>1 DEF After
                   <4> QED BY <4>1, <4>2
             <3>4. Characters(A(Sent')) = Characters(server'.pos)
                   <4>1. A(Sent') = After(Sent)
                         <5>1. Sent' \in 0 .. Sent' /\ Sent' + 1 = Sent  BY <1>4, <2>9
                         <5> HIDE DEF A
                         <5> QED BY <3>3, <5>1
                   <4> HIDE DEF A
                   <4> QED BY <1>1, <4>1 DEF WireInv
             <3>5. ASSUME ~torn'
                   PROVE  /\ Boundary(server'.start)
                          /\ \A k \in 1 .. Sent' :
                                Characters(A(k)) = Characters(A(k - 1)) \o wire'[k].text
                   <4>1. ~torn /\ Boundary(server'.start)  BY <1>1, <3>5 DEF WireInv
                   <4> SUFFICES ASSUME NEW k \in 1 .. Sent'
                                PROVE  Characters(A(k)) = Characters(A(k - 1)) \o wire'[k].text
                       BY <4>1
                   <4> DEFINE j == k + 1
                   <4>2. /\ k \in 0 .. Sent' /\ k - 1 \in 0 .. Sent' /\ j \in 1 .. Sent
                         /\ k \in 1 .. Len(wire') /\ k - 1 + 1 = k /\ j - 1 = k
                         BY <1>2, <1>4, <2>9
                   <4>3. A(k) = After(j) /\ A(k - 1) = After(k) /\ wire'[k] = wire[j]
                         <5> HIDE DEF A
                         <5> QED BY <1>2, <3>3, <4>2
                   <4>4. Characters(After(j)) = Characters(After(j - 1)) \o wire[j].text
                         <5> HIDE DEF j
                         <5> QED BY <1>1, <4>1, <4>2 DEF WireInv
                   <4> HIDE DEF A, j
                   <4> QED BY <4>2, <4>3, <4>4
             <3> QED BY <3>1, <3>2, <3>4, <3>5, Zenon DEF WireInv, After
      <2>11. DoneInv'
             <3>1. \A k \in DOMAIN wire' : wire'[k].kind = "done" =>
                       row' # "running" /\ (file' => server'.pos = written')
                   <4> SUFFICES ASSUME NEW k \in DOMAIN wire', wire'[k].kind = "done"
                                PROVE  row # "running" /\ (file => server.pos = written)
                       BY <1>1
                   <4>1. k + 1 \in DOMAIN wire /\ wire'[k] = wire[k + 1]  BY <1>2
                   <4> QED BY <1>1, <4>1 DEF DoneInv
             <3> QED BY <1>1, <2>3, <3>1 DEF DoneInv
      <2>12. ShowsEachOnce'
             <3> SUFFICES ASSUME ~torn' PROVE page'.text = Characters(page'.pos)
                 BY DEF ShowsEachOnce
             <3>1. page.text = Characters(page.pos)  BY <1>1, <1>3 DEF ShowsEachOnce
             <3>2. 1 \in 1 .. Sent  BY <1>4, <2>9
             <3>3. Characters(After(1)) = Characters(After(1 - 1)) \o wire[1].text
                   BY <1>1, <3>2 DEF WireInv
             <3>4. After(1) = e.pos /\ After(1 - 1) = page.pos  BY <1>2 DEF After
             <3> QED BY <1>2, <2>3, <3>1, <3>3, <3>4
      <2>13. DoneHasAll'  BY <2>3 DEF DoneHasAll
      <2> QED BY <1>6, <2>7, <2>8, <2>10, <2>11, <2>12, <2>13
<1>9. CASE e.kind # "text"
      <2>1. e.kind \in {"done", "not found"}  BY <1>2, <1>9, EventsAre
      <2>2. page' = [at |-> e.kind, pos |-> page.pos, text |-> page.text]
            BY <1>1, <1>3, <2>1
      <2>3. page'.at = e.kind /\ page'.pos = page.pos /\ page'.text = page.text  BY <2>2
      <2>4. page' \in Pages  BY <1>3, <2>1, <2>2, PagesHave DEF Shown
      <2>5. LogTypeOK'  BY <1>1, <1>3, <1>7, <2>3, <2>4 DEF LogTypeOK
      <2>6. StreamInv'  BY <2>1, <2>3 DEF StreamInv
      <2>7. Sent = 0 /\ server.at = "ended" /\ page.pos = After(Sent)
            BY <1>2, <1>4, <1>9 DEF After
      <2>8. WireInv'  BY <2>1, <2>3 DEF WireInv
      <2>9. e.kind = "done" => row # "running" /\ (file => server.pos = written)
            BY <1>1, <1>2 DEF DoneInv
      <2>10. DoneInv'  BY <1>1, <2>1, <2>3, <2>7, <2>9 DEF DoneInv
      <2>11. ShowsEachOnce'  BY <1>1, <1>3, <2>3 DEF ShowsEachOnce
      <2>12. DoneHasAll'
             <3>1. Characters(page.pos) = Characters(server.pos)  BY <1>1, <2>7 DEF WireInv
             <3> QED BY <1>1, <2>3, <2>9, <3>1 DEF DoneHasAll
      <2> QED BY <1>6, <2>5, <2>6, <2>8, <2>10, <2>11, <2>12
<1> QED BY <1>8, <1>9

LEMMA StepReadRow ==
    ASSUME LogIInv, ReadRow PROVE LogIInv'
<1> USE DEF LogIInv
<1>1. /\ UNCHANGED <<written, row, file, page, wire, drops, torn>>
      /\ server.at = "row" /\ row # "gone"
      /\ server' = [at |-> "log", start |-> server.start, pos |-> server.pos, seen |-> row]
      BY DEF ReadRow, Browser
<1>2. /\ server'.at = "log" /\ server'.start = server.start /\ server'.pos = server.pos
      /\ server'.seen = row
      BY <1>1
<1>3. server' \in Streams
      BY <1>1, StreamsAre, StreamsHave DEF LogTypeOK
<1>4. page.at \notin {"none", "loading", "waiting"}  BY <1>1 DEF StreamInv, NoStream
<1>5. LogTypeOK'  BY <1>1, <1>3 DEF LogTypeOK
<1>6. StreamInv'  BY <1>1, <1>2, <1>4 DEF StreamInv
<1>7. PosInv'  BY <1>1, <1>2 DEF PosInv
<1>8. WireInv'  BY <1>1, <1>2 DEF WireInv, After, Sent
<1>9. DoneInv'  BY <1>1, <1>2 DEF DoneInv
<1>10. ShowsEachOnce' /\ DoneHasAll'  BY <1>1 DEF ShowsEachOnce, DoneHasAll
<1> QED BY <1>5, <1>6, <1>7, <1>8, <1>9, <1>10

LEMMA Sends ==
    ASSUME LogTypeOK, NEW e \in Events, Send(e)
    PROVE  /\ wire' \in Seq(Events) /\ wire' # << >>
           /\ DOMAIN wire = 1 .. Len(wire) /\ DOMAIN wire' = 1 .. Len(wire) + 1
           /\ Len(wire) \in Nat /\ Len(wire') = Len(wire) + 1
           /\ \A k \in DOMAIN wire : wire'[k] = wire[k]
           /\ wire'[Len(wire) + 1] = e
<1>1. wire \in Seq(Events) /\ wire' = Append(wire, e)  BY DEF LogTypeOK, Send
<1>2. /\ wire' \in Seq(Events) /\ Len(wire) \in Nat /\ Len(wire') = Len(wire) + 1
      /\ \A k \in 1 .. Len(wire) : wire'[k] = wire[k]
      /\ wire'[Len(wire) + 1] = e
      BY <1>1, AppendProperties
<1>3. DOMAIN wire = 1 .. Len(wire) /\ DOMAIN wire' = 1 .. Len(wire')  BY <1>1, <1>2
<1> QED BY <1>2, <1>3

(* What ends the stream is sent when its reading is over.                    *)
LEMMA StepEnd ==
    ASSUME LogIInv, NEW e \in Events, e.kind # "text", Send(e),
           UNCHANGED <<written, row, file, page, drops, torn>>,
           server.at \in {"row", "status"},
           server' = [at |-> "ended", start |-> server.start, pos |-> server.pos],
           e.kind = "done" => server.at = "status" /\ server.seen # "running"
    PROVE  LogIInv'
<1> USE DEF LogIInv
<1>1. server'.at = "ended" /\ server'.start = server.start /\ server'.pos = server.pos
      OBVIOUS
<1>2. server' \in Streams
      BY StreamsAre, StreamsHave DEF LogTypeOK
<1>3. /\ wire' \in Seq(Events) /\ wire' # << >>
      /\ DOMAIN wire = 1 .. Len(wire) /\ DOMAIN wire' = 1 .. Len(wire) + 1
      /\ Len(wire) \in Nat /\ Len(wire') = Len(wire) + 1
      /\ \A k \in DOMAIN wire : wire'[k] = wire[k]
      /\ wire'[Len(wire) + 1] = e
      BY Sends
<1>4. page.at \notin {"none", "loading", "waiting"}  BY DEF StreamInv, NoStream
<1>5. LogTypeOK'  BY <1>2, <1>3 DEF LogTypeOK
<1>6. StreamInv'  BY <1>1, <1>4 DEF StreamInv
<1>7. PosInv'
      <2>1. \A k \in DOMAIN wire' : wire'[k].kind = "text" => wire'[k].pos <= written
            BY <1>3 DEF PosInv
      <2> QED BY <1>1, <2>1 DEF PosInv
<1>8. Sent = Len(wire) /\ Sent' = Len(wire)
      <2>1. server.at # "ended" /\ server'.at = "ended"  BY <1>1
      <2>2. Sent = Len(wire) /\ Sent' = Len(wire') - 1  BY <2>1 DEF Sent
      <2>3. Len(wire') - 1 = Len(wire)  BY <1>3
      <2> QED BY <2>2, <2>3
<1>9. WireInv'
      <2> SUFFICES ASSUME page.at = "live" PROVE WireInv'  BY DEF WireInv
      <2>1. \A k \in DOMAIN wire' : wire'[k].kind = "text" <=> k <= Sent'
            <3> SUFFICES ASSUME NEW k \in DOMAIN wire'
                         PROVE  wire'[k].kind = "text" <=> k <= Sent'
                OBVIOUS
            <3>1. CASE k \in DOMAIN wire
                  <4>1. wire[k].kind = "text" <=> k <= Sent  BY <3>1 DEF WireInv
                  <4> QED BY <1>3, <1>8, <3>1, <4>1
            <3>2. CASE k = Len(wire) + 1  BY <1>3, <1>8, <3>2
            <3> QED BY <1>3, <3>1, <3>2
      <2> DEFINE A(k) == IF k = 0 THEN page.pos ELSE wire'[k].pos
      <2>2. \A k \in 0 .. Sent : A(k) = After(k)  BY <1>3, <1>8 DEF After
      <2>3. Characters(A(Sent')) = Characters(server'.pos)
            <3>1. Sent' \in 0 .. Sent /\ Sent' = Sent  BY <1>3, <1>8
            <3> HIDE DEF A
            <3>2. A(Sent') = After(Sent)  BY <2>2, <3>1
            <3> QED BY <1>1, <3>2 DEF WireInv
      <2>4. ASSUME ~torn'
            PROVE  /\ Boundary(server'.start)
                   /\ \A k \in 1 .. Sent' :
                         Characters(A(k)) = Characters(A(k - 1)) \o wire'[k].text
            <3>1. ~torn /\ Boundary(server'.start)  BY <1>1, <2>4 DEF WireInv
            <3> SUFFICES ASSUME NEW k \in 1 .. Sent'
                         PROVE  Characters(A(k)) = Characters(A(k - 1)) \o wire'[k].text
                BY <3>1
            <3>2. k \in 1 .. Sent /\ k \in 0 .. Sent /\ k - 1 \in 0 .. Sent /\ k \in DOMAIN wire
                  BY <1>3, <1>8
            <3>3. Characters(After(k)) = Characters(After(k - 1)) \o wire[k].text
                  BY <3>1, <3>2 DEF WireInv
            <3> HIDE DEF A
            <3>4. A(k) = After(k) /\ A(k - 1) = After(k - 1) /\ wire'[k] = wire[k]
                  BY <1>3, <2>2, <3>2
            <3> QED BY <3>3, <3>4
      <2>5. page' = page  OBVIOUS
      <2> QED BY <1>3, <2>1, <2>3, <2>4, <2>5, Zenon DEF WireInv, After
<1>10. DoneInv'
      <2>1. ASSUME page.at = "live", NEW k \in DOMAIN wire', wire'[k].kind = "done"
            PROVE  row # "running" /\ (file => server.pos = written)
            <3>1. CASE k \in DOMAIN wire  BY <1>3, <2>1, <3>1 DEF DoneInv
            <3>2. CASE k = Len(wire) + 1
                  <4>1. server.at = "status" /\ server.seen # "running"  BY <1>3, <2>1, <3>2
                  <4>2. server.seen = "settled"  BY <4>1, StreamsAre DEF LogTypeOK
                  <4> QED BY <4>1, <4>2 DEF DoneInv
            <3> QED BY <1>3, <3>1, <3>2
      <2> QED BY <1>1, <2>1 DEF DoneInv
<1>11. ShowsEachOnce' /\ DoneHasAll'  BY DEF ShowsEachOnce, DoneHasAll
<1> QED BY <1>5, <1>6, <1>7, <1>9, <1>10, <1>11

LEMMA StepRowNotFound ==
    ASSUME LogIInv, RowNotFound PROVE LogIInv'
<1> DEFINE e == [kind |-> "not found"]
<1>1. server \in Streams  BY DEF LogIInv, LogTypeOK
<1>2. server = [at |-> server.at, start |-> server.start, pos |-> server.pos] /\ server.at = "row"
      BY <1>1, StreamsAre DEF RowNotFound
<1>3. server' = [at |-> "ended", start |-> server.start, pos |-> server.pos]
      BY <1>2 DEF RowNotFound
<1>4. e \in Events /\ e.kind # "text" /\ e.kind # "done"  BY EventsHave
<1>5. Send(e) /\ UNCHANGED <<written, row, file, page, drops, torn>>  BY DEF RowNotFound
<1> QED BY <1>2, <1>3, <1>4, <1>5, StepEnd

LEMMA StepRound ==
    ASSUME LogIInv, Round PROVE LogIInv'
<1> USE DEF LogIInv
<1>1. server.at = "status" /\ UNCHANGED <<written, row, file, page, drops, torn>>
      BY DEF Round
<1>2. CASE AtEnd
      <2> DEFINE e == [kind |-> "done"]
      <2>1. e \in Events /\ e.kind # "text"  BY EventsHave
      <2>2. Send(e) /\ server' = [at |-> "ended", start |-> server.start, pos |-> server.pos]
            BY <1>2 DEF Round
      <2>3. server.seen # "running"  BY <1>2 DEF AtEnd
      <2> QED BY <1>1, <2>1, <2>2, <2>3, StepEnd
<1>3. CASE ~AtEnd
      <2>1. server' = [at |-> "row", start |-> server.start, pos |-> server.pos] /\ wire' = wire
            BY <1>3 DEF Round
      <2>2. server'.at = "row" /\ server'.start = server.start /\ server'.pos = server.pos
            BY <2>1
      <2>3. server' \in Streams  BY <1>1, <2>1, StreamsAre, StreamsHave DEF LogTypeOK
      <2>4. page.at \notin {"none", "loading", "waiting"}  BY <1>1 DEF StreamInv, NoStream
      <2>5. LogTypeOK'  BY <1>1, <2>1, <2>3 DEF LogTypeOK
      <2>6. StreamInv'  BY <1>1, <2>2, <2>4 DEF StreamInv
      <2>7. PosInv'  BY <1>1, <2>1, <2>2 DEF PosInv
      <2>8. WireInv'  BY <1>1, <2>1, <2>2 DEF WireInv, After, Sent
      <2>9. DoneInv'  BY <1>1, <2>1, <2>2 DEF DoneInv
      <2>10. ShowsEachOnce' /\ DoneHasAll'  BY <1>1 DEF ShowsEachOnce, DoneHasAll
      <2> QED BY <2>5, <2>6, <2>7, <2>8, <2>9, <2>10
<1> QED BY <1>2, <1>3

LEMMA StepReadLog ==
    ASSUME LogIInv, ReadLog PROVE LogIInv'
<1> USE DEF LogIInv
<1>1. server.at = "log" /\ UNCHANGED <<written, row, file, page, drops, torn>>
      BY DEF ReadLog
<1>2. /\ server.start \in 0 .. Size /\ server.pos \in 0 .. Size
      /\ server.seen \in {"running", "settled"} /\ written \in 0 .. Size
      /\ server = [at |-> server.at, start |-> server.start, pos |-> server.pos,
                   seen |-> server.seen]
      BY <1>1, StreamsAre DEF LogTypeOK
<1>3. server.start <= server.pos /\ server.pos <= written  BY <1>1 DEF PosInv
<1>4. page.at \notin {"none", "loading", "waiting"}  BY <1>1 DEF StreamInv, NoStream
<1>5. ShowsEachOnce' /\ DoneHasAll'  BY <1>1 DEF ShowsEachOnce, DoneHasAll
<1>6. CASE file /\ written > server.pos
      <2>1. server' = [server EXCEPT !.at = "status", !.pos = written]  BY <1>6 DEF ReadLog
      <2>2. server' = [at |-> "status", start |-> server.start, pos |-> written,
                       seen |-> server.seen]
            BY <1>2, <2>1
      <2>3. /\ server'.at = "status" /\ server'.start = server.start /\ server'.pos = written
            /\ server'.seen = server.seen
            BY <2>2
      <2>4. server' \in Streams  BY <1>2, <2>2, StreamsHave
      <2>5. StreamInv'  BY <1>1, <1>4, <2>3 DEF StreamInv
      <2>6. Chunk \in Texts  BY <1>2, <1>3, DecodedType DEF Chunk
      <2>7. Sent = Len(wire)  BY <1>1 DEF Sent
      <2>8. CASE Chunk = << >>
            <3>1. wire' = wire  BY <1>6, <2>8 DEF ReadLog
            <3>2. LogTypeOK'  BY <1>1, <2>4, <3>1 DEF LogTypeOK
            <3>3. PosInv'
                  <4>1. server.start <= written /\ written <= written  BY <1>2, <1>3, BytesAre
                  <4> QED BY <1>1, <2>3, <3>1, <4>1 DEF PosInv
            <3>4. Characters(written) = Characters(server.pos)
                  BY <1>2, <1>3, <2>8, CharactersStay DEF Chunk
            <3>5. WireInv'  BY <1>1, <2>3, <3>1, <3>4 DEF WireInv, After, Sent
            <3>6. DoneInv'  BY <1>1, <2>3, <3>1 DEF DoneInv
            <3> QED BY <1>5, <2>5, <3>2, <3>3, <3>5, <3>6
      <2>9. CASE Chunk # << >>
            <3> DEFINE e == [kind |-> "text", pos |-> written, text |-> Chunk]
            <3>1. Send(e)  BY <1>6, <2>9 DEF ReadLog
            <3>2. e \in Events /\ e.kind = "text" /\ e.pos = written /\ e.text = Chunk
                  BY <1>2, <2>6, EventsHave
            <3> HIDE DEF e
            <3>3. /\ wire' \in Seq(Events) /\ wire' # << >>
                  /\ DOMAIN wire = 1 .. Len(wire) /\ DOMAIN wire' = 1 .. Len(wire) + 1
                  /\ Len(wire) \in Nat /\ Len(wire') = Len(wire) + 1
                  /\ \A k \in DOMAIN wire : wire'[k] = wire[k]
                  /\ wire'[Len(wire) + 1] = e
                  BY <3>1, <3>2, Sends
            <3>4. LogTypeOK'  BY <1>1, <2>4, <3>3 DEF LogTypeOK
            <3>5. PosInv'
                  <4>1. server.start <= written /\ written <= written  BY <1>2, <1>3, BytesAre
                  <4>2. \A k \in DOMAIN wire' : wire'[k].kind = "text" => wire'[k].pos <= written
                        BY <3>2, <3>3, <4>1 DEF PosInv
                  <4> QED BY <1>1, <2>3, <4>1, <4>2 DEF PosInv
            <3>6. Sent' = Len(wire) + 1  BY <2>3, <3>3 DEF Sent
            <3>7. WireInv'
                  <4> SUFFICES ASSUME page.at = "live" PROVE WireInv'  BY <1>1 DEF WireInv
                  <4>1. \A k \in DOMAIN wire' : wire'[k].kind = "text" <=> k <= Sent'
                        <5> SUFFICES ASSUME NEW k \in DOMAIN wire'
                                     PROVE  wire'[k].kind = "text" <=> k <= Sent'
                            OBVIOUS
                        <5>1. CASE k \in DOMAIN wire
                              <6>1. wire[k].kind = "text" <=> k <= Sent  BY <5>1 DEF WireInv
                              <6> QED BY <2>7, <3>3, <3>6, <5>1, <6>1
                        <5>2. CASE k = Len(wire) + 1  BY <3>2, <3>3, <3>6, <5>2
                        <5> QED BY <3>3, <5>1, <5>2
                  <4> DEFINE A(k) == IF k = 0 THEN page.pos ELSE wire'[k].pos
                  <4>2. \A k \in 0 .. Sent : A(k) = After(k)  BY <2>7, <3>3 DEF After
                  <4>3. A(Sent') = written  BY <3>2, <3>3, <3>6
                  <4>4. Characters(A(Sent')) = Characters(server'.pos)
                        <5> HIDE DEF A
                        <5> QED BY <2>3, <4>3
                  <4>5. ASSUME ~torn'
                        PROVE  /\ Boundary(server'.start)
                               /\ \A k \in 1 .. Sent' :
                                     Characters(A(k)) = Characters(A(k - 1)) \o wire'[k].text
                        <5>1. ~torn /\ Boundary(server.start) /\ Boundary(server'.start)
                              BY <1>1, <2>3, <4>5 DEF WireInv
                        <5> SUFFICES ASSUME NEW k \in 1 .. Sent'
                                     PROVE  Characters(A(k)) = Characters(A(k - 1)) \o wire'[k].text
                            BY <5>1
                        <5>2. CASE k \in 1 .. Sent
                              <6>1. k \in 0 .. Sent /\ k - 1 \in 0 .. Sent /\ k \in DOMAIN wire
                                    BY <2>7, <3>3, <5>2
                              <6>2. Characters(After(k)) = Characters(After(k - 1)) \o wire[k].text
                                    BY <5>1, <5>2 DEF WireInv
                              <6> HIDE DEF A
                              <6>3. A(k) = After(k) /\ A(k - 1) = After(k - 1) /\ wire'[k] = wire[k]
                                    BY <3>3, <4>2, <6>1
                              <6> QED BY <6>2, <6>3
                        <5>3. CASE k = Sent + 1
                              <6>1. k = Sent' /\ k - 1 = Sent /\ Sent \in 0 .. Sent
                                    BY <2>7, <3>3, <3>6, <5>3
                              <6> HIDE DEF A
                              <6>2. A(k) = written /\ A(k - 1) = After(Sent)  BY <4>2, <4>3, <6>1
                              <6>3. Characters(After(Sent)) = Characters(server.pos)
                                    BY DEF WireInv
                              <6>4. Characters(written) = Characters(server.pos) \o Chunk
                                    BY <1>2, <1>3, <5>1, CharactersGrow DEF Chunk
                              <6>5. wire'[k].text = Chunk  BY <2>7, <3>2, <3>3, <5>3
                              <6> QED BY <6>2, <6>3, <6>4, <6>5
                        <5>4. k \in 1 .. Sent \/ k = Sent + 1  BY <2>7, <3>3, <3>6
                        <5> QED BY <5>2, <5>3, <5>4
                  <4>6. page' = page /\ server'.at # "ended"  BY <1>1, <2>3
                  <4> QED BY <4>1, <4>4, <4>5, <4>6, Zenon DEF WireInv, After
            <3>8. DoneInv'
                  <4>1. ASSUME page.at = "live", NEW k \in DOMAIN wire'
                        PROVE  wire'[k].kind = "text"
                        <5>1. CASE k \in DOMAIN wire
                              <6>1. k <= Sent  BY <2>7, <3>3, <5>1
                              <6> QED BY <3>3, <4>1, <5>1, <6>1 DEF WireInv
                        <5>2. CASE k = Len(wire) + 1  BY <3>2, <3>3, <5>2
                        <5> QED BY <3>3, <5>1, <5>2
                  <4> QED BY <1>1, <2>3, <4>1 DEF DoneInv
            <3> QED BY <1>5, <2>5, <3>4, <3>5, <3>7, <3>8
      <2> QED BY <2>8, <2>9
<1>7. CASE ~(file /\ written > server.pos)
      <2>1. server' = [server EXCEPT !.at = "status"] /\ wire' = wire  BY <1>7 DEF ReadLog
      <2>2. server' = [at |-> "status", start |-> server.start, pos |-> server.pos,
                       seen |-> server.seen]
            BY <1>2, <2>1
      <2>3. /\ server'.at = "status" /\ server'.start = server.start /\ server'.pos = server.pos
            /\ server'.seen = server.seen
            BY <2>2
      <2>4. server' \in Streams  BY <1>2, <2>2, StreamsHave
      <2>5. LogTypeOK'  BY <1>1, <2>1, <2>4 DEF LogTypeOK
      <2>6. StreamInv'  BY <1>1, <1>4, <2>3 DEF StreamInv
      <2>7. PosInv'  BY <1>1, <2>1, <2>3 DEF PosInv
      <2>8. WireInv'  BY <1>1, <2>1, <2>3 DEF WireInv, After, Sent
      <2>9. file => server.pos = written  BY <1>2, <1>3, <1>7, BytesAre
      <2>10. DoneInv'  BY <1>1, <2>1, <2>3, <2>9 DEF DoneInv
      <2> QED BY <1>5, <2>5, <2>6, <2>7, <2>8, <2>10
<1> QED BY <1>6, <1>7

LEMMA KeepsLogIInv == LogIInv /\ [LogNext]_logVars => LogIInv'
<1> SUFFICES ASSUME LogIInv, [LogNext]_logVars PROVE LogIInv'  OBVIOUS
<1>1. ASSUME NEW n \in 1 .. Size, AppendLog(n) PROVE LogIInv'  BY <1>1, StepAppendLog
<1>2. CASE SettleRun \/ PruneRow \/ PruneFile  BY <1>2, StepRow
<1>3. CASE LoadRow  BY <1>3, StepLoadRow
<1>4. CASE LoadLog  BY <1>4, StepLoadLog
<1>5. CASE Connect  BY <1>5, StepConnect
<1>6. CASE Receive  BY <1>6, StepReceive
<1>7. CASE LoseConnection \/ ServerDies  BY <1>7, StepLost
<1>8. CASE ReadRow  BY <1>8, StepReadRow
<1>9. CASE RowNotFound  BY <1>9, StepRowNotFound
<1>10. CASE ReadLog  BY <1>10, StepReadLog
<1>11. CASE Round  BY <1>11, StepRound
<1>12. CASE UNCHANGED logVars
       BY <1>12 DEF logVars, LogIInv, LogTypeOK, StreamInv, PosInv, WireInv, DoneInv,
             ShowsEachOnce, DoneHasAll, After, Sent
<1> QED BY <1>1, <1>2, <1>3, <1>4, <1>5, <1>6, <1>7, <1>8, <1>9, <1>10, <1>11, <1>12
        DEF LogNext, Serve

(* The invariant of the live log holds: of the page, the stream and what is  *)
(* between them, whatever is lost, pruned or restarted.                      *)
THEOREM LogInductive == LogSpec => []LogIInv
<1> QED BY StartsLogIInv, KeepsLogIInv, PTL DEF LogSpec

(* The page's offset is never past the end of the file (run_detail and       *)
(* LogTailer count bytes, and each event carries the offset after it).       *)
THEOREM LogTypeCorrect == LogSpec => []LogTypeOK
<1>1. LogIInv => LogTypeOK  BY DEF LogIInv
<1> QED BY <1>1, LogInductive, PTL

(* Whatever is lost and sent again, the page shows every complete character  *)
(* up to its offset once and in order, for every log, unless some decoding   *)
(* had to begin inside a character (LogTailer, run_stream, openStream).      *)
THEOREM EachCharacterOnce == LogSpec => []ShowsEachOnce
<1>1. LogIInv => ShowsEachOnce  BY DEF LogIInv
<1> QED BY <1>1, LogInductive, PTL

(* A page that was told "done" has the whole log (run_stream reads the row   *)
(* before the log, and the row is settled after the log was written).        *)
THEOREM DoneIsWhole == LogSpec => []DoneHasAll
<1>1. LogIInv => DoneHasAll  BY DEF LogIInv
<1> QED BY <1>1, LogInductive, PTL
=============================================================================
