------------------------------ MODULE GuestProof ------------------------------
(***************************************************************************)
(* That what user-data and the user of a machine decided holds, over any     *)
(* number of instances and boots (Guest).                                    *)
(***************************************************************************)
EXTENDS Guest, FiniteSetTheorems, SequenceTheorems, WellFoundedInduction, TLAPS

----------------------------------------------------------------------------
(* Sequences, flattened and filtered.                                       *)

\* The order of the numbers.
Less == {pair \in Nat \X Nat : pair[1] < pair[2]}

\* Every set of numbers that is not empty has a smallest one.
LEMMA Smallest ==
  ASSUME NEW T \in SUBSET Nat, T # {}
  PROVE  \E n \in T : \A m \in Nat : m < n => m \notin T
  <1>1. IsWellFoundedOn(Less, Nat)
    BY NatLessThanWellFounded, Zenon DEF OpToRel, Less
  <1>2. PICK n \in T : \A m \in Nat : <<m, n>> \in Less => m \notin T
    BY <1>1, WFMin
  <1>3. QED
    BY <1>2 DEF Less

\* The recursive function that FlattenSeq is defined by exists.
LEMMA FlattenExists ==
  ASSUME NEW s, NEW n \in Nat
  PROVE  \E f : f = [i \in 1..n |-> IF i = 1 THEN s[i] ELSE f[i - 1] \o s[i]]
  <1> DEFINE P(k) == \E f : f = [i \in 1..k |-> IF i = 1 THEN s[i] ELSE f[i - 1] \o s[i]]
             T == {k \in Nat : ~P(k)}
  <1>1. CASE T = {}
    BY <1>1
  <1>2. CASE T # {}
    <2>1. PICK k \in T : \A m \in Nat : m < k => m \notin T
      BY <1>2, Smallest
    <2>2. k # 0
      <3>1. <<>> = [i \in 1..0 |-> IF i = 1 THEN s[i] ELSE <<>>[i - 1] \o s[i]]
        OBVIOUS
      <3>2. QED
        BY <2>1, <3>1
    <2>3. PICK f : f = [i \in 1..(k - 1) |-> IF i = 1 THEN s[i] ELSE f[i - 1] \o s[i]]
      <3>1. k - 1 \in Nat /\ k - 1 < k
        BY <2>2
      <3>2. P(k - 1)
        BY <2>1, <3>1
      <3>3. QED
        BY <3>2
    <2> DEFINE g == [i \in 1..k |-> IF i = 1 THEN s[i] ELSE IF i = k THEN f[k - 1] \o s[k] ELSE f[i]]
    <2>4. g = [i \in 1..k |-> IF i = 1 THEN s[i] ELSE g[i - 1] \o s[i]]
      <3>1. ASSUME NEW i \in 1..k, i # 1 PROVE g[i] = g[i - 1] \o s[i]
        <4>1. CASE i = k
          <5>1. g[k - 1] = f[k - 1]
            BY <2>2, <2>3, <3>1, <4>1
          <5>2. QED
            BY <4>1, <3>1, <5>1
        <4>2. CASE i # k
          <5>0. i \in 1..(k - 1)
            BY <2>2, <4>2
          <5>1. f[i] = f[i - 1] \o s[i]
            BY <2>3, <3>1, <5>0
          <5>2. g[i - 1] = f[i - 1]
            BY <2>3, <3>1, <4>2
          <5>3. QED
            BY <5>1, <5>2, <3>1, <4>2
        <4>3. QED
          BY <4>1, <4>2
      <3>2. QED
        BY <3>1
    <2>5. QED
      BY <2>1, <2>4
  <1>3. QED
    BY <1>1, <1>2

LEMMA FlattenIs ==
  ASSUME NEW s, Len(s) \in Nat \ {0}
  PROVE  \E f : /\ f = [i \in 1..Len(s) |-> IF i = 1 THEN s[i] ELSE f[i - 1] \o s[i]]
                /\ FlattenSeq(s) = f[Len(s)]
  <1> DEFINE f == CHOOSE f : f = [i \in 1..Len(s) |-> IF i = 1 THEN s[i] ELSE f[i - 1] \o s[i]]
  <1>1. f = [i \in 1..Len(s) |-> IF i = 1 THEN s[i] ELSE f[i - 1] \o s[i]]
    BY FlattenExists
  <1>2. FlattenSeq(s) = f[Len(s)]
    BY DEF FlattenSeq
  <1>3. QED
    BY <1>1, <1>2

LEMMA FlattenEmpty == FlattenSeq(<<>>) = <<>>
  BY DEF FlattenSeq

\* FlattenSeq of sequences over a set is one; it joins one after the other.
LEMMA FlattenAppend ==
  ASSUME NEW X, NEW s \in Seq(Seq(X)), NEW x \in Seq(X)
  PROVE  FlattenSeq(s) \in Seq(X) /\ FlattenSeq(Append(s, x)) = FlattenSeq(s) \o x
  <1> DEFINE n == Len(s)
             t == Append(s, x)
  <1>1. n \in Nat /\ Len(t) = n + 1 /\ t[n + 1] = x /\ \A i \in 1..n : t[i] = s[i] /\ s[i] \in Seq(X)
    OBVIOUS
  <1>2. PICK g : /\ g = [i \in 1..(n + 1) |-> IF i = 1 THEN t[i] ELSE g[i - 1] \o t[i]]
                 /\ FlattenSeq(t) = g[n + 1]
    <2>1. Len(t) \in Nat \ {0}
      BY <1>1
    <2>2. QED
      BY <1>1, <2>1, FlattenIs
  <1>3. CASE n = 0
    BY <1>1, <1>2, <1>3 DEF FlattenSeq
  <1>4. CASE n # 0
    <2>1. PICK f : /\ f = [i \in 1..n |-> IF i = 1 THEN s[i] ELSE f[i - 1] \o s[i]]
                   /\ FlattenSeq(s) = f[n]
      BY <1>1, <1>4, FlattenIs
    <2> DEFINE T == {i \in Nat : i \in 1..n /\ ~(f[i] = g[i] /\ f[i] \in Seq(X))}
    <2>2. T = {}
      <3> SUFFICES ASSUME T # {} PROVE FALSE
        OBVIOUS
      <3>1. PICK i \in T : \A m \in Nat : m < i => m \notin T
        BY Smallest
      <3>2. i \in 1..n /\ i \in 1..(n + 1)
        BY <1>1
      <3>3. CASE i = 1
        BY <3>1, <3>2, <3>3, <1>1, <1>2, <2>1
      <3>4. CASE i # 1
        <4>1. i - 1 \in 1..n /\ i - 1 < i
          BY <3>2, <3>4, <1>1
        <4>2. f[i - 1] = g[i - 1] /\ f[i - 1] \in Seq(X)
          BY <3>1, <4>1
        <4>3. f[i] = f[i - 1] \o s[i] /\ g[i] = g[i - 1] \o t[i]
          BY <3>2, <3>4, <1>2, <2>1
        <4>4. t[i] = s[i] /\ s[i] \in Seq(X)
          BY <3>2, <1>1
        <4>5. f[i] = g[i]
          BY <4>2, <4>3, <4>4
        <4>6. f[i] \in Seq(X)
          <5>1. f[i - 1] \o s[i] \in Seq(X)
            BY <4>2, <4>4
          <5>2. QED
            BY <5>1, <4>3
        <4>7. QED
          BY <3>1, <4>5, <4>6
      <3>5. QED
        BY <3>3, <3>4
    <2>3. f[n] = g[n] /\ f[n] \in Seq(X)
      BY <1>1, <1>4, <2>2
    <2>4. g[n + 1] = g[n] \o t[n + 1]
      <3>1. n + 1 \in 1..(n + 1) /\ n + 1 # 1 /\ (n + 1) - 1 = n
        BY <1>1, <1>4
      <3>2. QED
        BY <1>2, <3>1
    <2>5. QED
      BY <1>1, <1>2, <2>1, <2>3, <2>4
  <1>5. QED
    BY <1>3, <1>4

\* A sequence that is not empty ends with an element.
LEMMA IsAppended ==
  ASSUME NEW X, NEW s \in Seq(X), Len(s) # 0
  PROVE  \E r \in Seq(X), x \in X : s = Append(r, x) /\ Len(r) \in Nat /\ Len(r) < Len(s)
  <1>1. s # <<>>
    OBVIOUS
  <1>2. PICK r \in Seq(X), x \in X : s = Append(r, x)
    BY <1>1, SequenceEmptyOrAppend
  <1>3. Len(s) = Len(r) + 1 /\ Len(r) \in Nat
    BY <1>2, AppendProperties
  <1>4. QED
    BY <1>2, <1>3

\* An element after two sequences.
LEMMA AppendAfter ==
  ASSUME NEW X, NEW s \in Seq(X), NEW t \in Seq(X), NEW x \in X
  PROVE  s \o Append(t, x) = Append(s \o t, x)
  <1>1. s \o t \in Seq(X) /\ <<x>> \in Seq(X)
    BY ConcatProperties
  <1>2. Append(t, x) = t \o <<x>> /\ Append(s \o t, x) = (s \o t) \o <<x>>
    BY <1>1, AppendIsConcat
  <1>3. (s \o t) \o <<x>> = s \o (t \o <<x>>)
    BY <1>1, ConcatAssociative
  <1>4. QED
    BY <1>2, <1>3

\* Two flattened sequences and a third.
LEMMA FlattenAssociative ==
  ASSUME NEW X, NEW a, NEW b, NEW x \in Seq(X), FlattenSeq(a) \in Seq(X), FlattenSeq(b) \in Seq(X)
  PROVE  (FlattenSeq(a) \o FlattenSeq(b)) \o x = FlattenSeq(a) \o (FlattenSeq(b) \o x)
  <1> DEFINE p == FlattenSeq(a)
             q == FlattenSeq(b)
  <1>1. p \in Seq(X) /\ q \in Seq(X)
    OBVIOUS
  <1> HIDE DEF p, q
  <1>2. (p \o q) \o x = p \o (q \o x)
    BY <1>1, ConcatAssociative
  <1>3. QED
    BY <1>2 DEF p, q

\* One sequence more,
LEMMA FlattenOne ==
  ASSUME NEW X, NEW a \in Seq(Seq(X)), NEW b \in Seq(Seq(X)), NEW x \in Seq(X),
         FlattenSeq(a \o b) = FlattenSeq(a) \o FlattenSeq(b)
  PROVE  FlattenSeq(a \o Append(b, x)) = FlattenSeq(a) \o FlattenSeq(Append(b, x))
  <1>1. a \o b \in Seq(Seq(X))
    BY ConcatProperties
  <1>2. a \o Append(b, x) = Append(a \o b, x)
    BY AppendAfter
  <1>3. FlattenSeq(a) \in Seq(X) /\ FlattenSeq(b) \in Seq(X) /\ FlattenSeq(Append(b, x)) = FlattenSeq(b) \o x
    BY FlattenAppend
  <1>4. FlattenSeq(Append(a \o b, x)) = FlattenSeq(a \o b) \o x
    BY <1>1, FlattenAppend
  <1>5. (FlattenSeq(a) \o FlattenSeq(b)) \o x = FlattenSeq(a) \o (FlattenSeq(b) \o x)
    BY <1>3, FlattenAssociative
  <1>6. QED
    BY <1>2, <1>3, <1>4, <1>5

\* and so any number of them: a concatenation is flattened part by part.
LEMMA FlattenConcat ==
  ASSUME NEW X, NEW a \in Seq(Seq(X)), NEW b \in Seq(Seq(X))
  PROVE  FlattenSeq(a \o b) = FlattenSeq(a) \o FlattenSeq(b)
  <1> DEFINE T == {k \in Nat : \E s \in Seq(Seq(X)) :
                     Len(s) = k /\ FlattenSeq(a \o s) # FlattenSeq(a) \o FlattenSeq(s)}
  <1>1. ASSUME T # {} PROVE FALSE
    <2>1. PICK k \in T : \A m \in Nat : m < k => m \notin T
      BY <1>1, Smallest
    <2>2. PICK s \in Seq(Seq(X)) :
             Len(s) = k /\ FlattenSeq(a \o s) # FlattenSeq(a) \o FlattenSeq(s)
      OBVIOUS
    <2>3. CASE k = 0
      <3>1. s = <<>>
        BY <2>2, <2>3
      <3>2. a \o s = a /\ FlattenSeq(a) \in Seq(X)
        BY <3>1, FlattenAppend
      <3>3. QED
        BY <2>2, <3>1, <3>2, FlattenEmpty
    <2>4. CASE k # 0
      <3>1. PICK r \in Seq(Seq(X)), x \in Seq(X) : s = Append(r, x) /\ Len(r) \in Nat /\ Len(r) < k
        BY <2>2, <2>4, IsAppended
      <3>2. FlattenSeq(a \o r) = FlattenSeq(a) \o FlattenSeq(r)
        BY <2>1, <3>1
      <3>3. FlattenSeq(a \o Append(r, x)) = FlattenSeq(a) \o FlattenSeq(Append(r, x))
        BY <3>2, FlattenOne
      <3>4. QED
        BY <2>2, <3>1, <3>3
    <2>5. QED
      BY <2>3, <2>4
  <1>2. Len(b) \in Nat
    OBVIOUS
  <1>3. QED
    BY <1>1, <1>2

\* Nothing but sequences of one element.
LEMMA FlattenSingles ==
  ASSUME NEW X, NEW s \in Seq(X)
  PROVE  FlattenSeq([i \in DOMAIN s |-> <<s[i]>>]) = s
  <1> DEFINE Each(q) == [i \in DOMAIN q |-> <<q[i]>>]
             T == {k \in Nat : \E q \in Seq(X) : Len(q) = k /\ FlattenSeq(Each(q)) # q}
  <1>1. ASSUME T # {} PROVE FALSE
    <2>1. PICK k \in T : \A m \in Nat : m < k => m \notin T
      BY <1>1, Smallest
    <2>2. PICK q \in Seq(X) : Len(q) = k /\ FlattenSeq(Each(q)) # q
      OBVIOUS
    <2>3. CASE k = 0
      <3>1. q = <<>> /\ Each(q) = <<>>
        BY <2>2, <2>3
      <3>2. QED
        BY <2>2, <3>1, FlattenEmpty
    <2>4. CASE k # 0
      <3>1. PICK r \in Seq(X), x \in X : q = Append(r, x) /\ Len(r) \in Nat /\ Len(r) < k
        BY <2>2, <2>4, IsAppended
      <3>2. FlattenSeq(Each(r)) = r
        BY <2>1, <3>1
      <3>3. <<x>> \in Seq(X) /\ DOMAIN r = 1..Len(r) /\ \A i \in 1..Len(r) : <<r[i]>> \in Seq(X)
        <4>1. \A y \in X : <<y>> \in Seq(X)
          OBVIOUS
        <4>2. DOMAIN r = 1..Len(r) /\ \A i \in 1..Len(r) : r[i] \in X
          OBVIOUS
        <4>3. QED
          BY <4>1, <4>2
      <3>4. Each(r) \in Seq(Seq(X)) /\ Len(Each(r)) = Len(r)
        BY <3>1, <3>3
      <3>5. Each(q) = Append(Each(r), <<x>>)
        BY <3>1, <3>3, <3>4
      <3>6. FlattenSeq(Each(q)) = r \o <<x>>
        BY <3>2, <3>3, <3>4, <3>5, FlattenAppend
      <3>7. q = r \o <<x>>
        BY <3>1, AppendIsConcat
      <3>8. QED
        BY <2>2, <3>6, <3>7
    <2>5. QED
      BY <2>3, <2>4
  <1>2. Len(s) \in Nat
    OBVIOUS
  <1>3. FlattenSeq(Each(s)) = s
    BY <1>1, <1>2
  <1>4. QED
    BY <1>3

\* What is at some places of a sequence is a sequence of that.
LEMMA OnlyTyped ==
  ASSUME NEW X, NEW s \in Seq(X), NEW places
  PROVE  Only(s, places) \in Seq({s[n] : n \in places \cap DOMAIN s})
  <1> DEFINE Y == {s[n] : n \in places \cap DOMAIN s}
             parts == [n \in DOMAIN s |-> IF n \in places THEN <<s[n]>> ELSE <<>>]
  <1>1. \A y \in Y : <<y>> \in Seq(Y)
    OBVIOUS
  <1>2. <<>> \in Seq(Y)
    OBVIOUS
  <1>3. DOMAIN s = 1..Len(s) /\ Len(s) \in Nat
    OBVIOUS
  <1>4. \A n \in DOMAIN s : n \in places => s[n] \in Y
    OBVIOUS
  <1> HIDE DEF Y
  <1>5. parts \in [1..Len(s) -> Seq(Y)]
    BY <1>1, <1>2, <1>3, <1>4
  <1>6. parts \in Seq(Seq(Y))
    BY <1>3, <1>5, SeqDef
  <1>7. FlattenSeq(parts) \in Seq(Y)
    BY <1>6, FlattenAppend
  <1>8. QED
    BY <1>7 DEF Only, Y

\* Of all places, it is the sequence,
LEMMA OnlyAll ==
  ASSUME NEW X, NEW s \in Seq(X), NEW places, DOMAIN s \subseteq places
  PROVE  Only(s, places) = s
  <1>1. [n \in DOMAIN s |-> IF n \in places THEN <<s[n]>> ELSE <<>>] = [n \in DOMAIN s |-> <<s[n]>>]
    OBVIOUS
  <1>2. QED
    BY <1>1, FlattenSingles DEF Only

\* of none, empty.
LEMMA OnlyNone ==
  ASSUME NEW X, NEW s \in Seq(X), NEW places, DOMAIN s \cap places = {}
  PROVE  Only(s, places) = <<>>
  <1>1. Only(s, places) \in Seq({})
    <2>1. {s[n] : n \in places \cap DOMAIN s} = {}
      OBVIOUS
    <2>2. QED
      BY <2>1, OnlyTyped
  <1>2. QED
    BY <1>1

----------------------------------------------------------------------------
(* The file of mounts.                                                      *)

\* The lines of two files, one after the other, without those that bear the comment.
LEMMA ForeignConcat ==
  ASSUME NEW X, NEW a \in Seq(X), NEW b \in Seq(X)
  PROVE  Foreign(a \o b) = Foreign(a) \o Foreign(b)
  <1> DEFINE Parts(s) == [n \in DOMAIN s |-> IF ~s[n].ours THEN <<s[n]>> ELSE <<>>]
  <1>1. \A s : Foreign(s) = FlattenSeq(Parts(s))
    <2>1. \A s : [n \in DOMAIN s |-> IF n \in {k \in DOMAIN s : ~s[k].ours} THEN <<s[n]>> ELSE <<>>] = Parts(s)
      OBVIOUS
    <2>2. QED
      BY <2>1 DEF Foreign, Only
  <1>2. \A x \in X : <<x>> \in Seq(X)
    OBVIOUS
  <1>3. ASSUME NEW s \in Seq(X)
        PROVE  Parts(s) \in Seq(Seq(X)) /\ DOMAIN Parts(s) = 1..Len(s) /\ Len(Parts(s)) = Len(s) /\ Len(s) \in Nat
    <2>1. DOMAIN s = 1..Len(s) /\ Len(s) \in Nat /\ \A n \in 1..Len(s) : s[n] \in X
      OBVIOUS
    <2>2. <<>> \in Seq(X)
      OBVIOUS
    <2>3. Parts(s) \in [1..Len(s) -> Seq(X)]
      BY <1>2, <2>1, <2>2
    <2>4. Parts(s) \in Seq(Seq(X))
      BY <2>1, <2>3, SeqDef
    <2>5. QED
      BY <2>1, <2>3, <2>4
  <1>4. a \o b \in Seq(X) /\ Len(a \o b) = Len(a) + Len(b)
    BY ConcatProperties
  <1>5. Parts(a) \o Parts(b) \in Seq(Seq(X)) /\ Len(Parts(a) \o Parts(b)) = Len(a) + Len(b)
    <2>1. Parts(a) \in Seq(Seq(X)) /\ Parts(b) \in Seq(Seq(X)) /\ Len(Parts(a)) = Len(a) /\ Len(Parts(b)) = Len(b)
      BY <1>3
    <2> HIDE DEF Parts
    <2>2. /\ Parts(a) \o Parts(b) \in Seq(Seq(X))
          /\ Len(Parts(a) \o Parts(b)) = Len(Parts(a)) + Len(Parts(b))
      BY <2>1, ConcatProperties, Zenon
    <2>3. QED
      BY <2>1, <2>2
  <1>6. ASSUME NEW n \in 1..(Len(a) + Len(b))
        PROVE  Parts(a \o b)[n] = (Parts(a) \o Parts(b))[n]
    <2>1. /\ Parts(a) \in Seq(Seq(X)) /\ Parts(b) \in Seq(Seq(X)) /\ Len(Parts(a)) = Len(a) /\ Len(Parts(b)) = Len(b)
          /\ Len(a) \in Nat /\ Len(b) \in Nat /\ DOMAIN a = 1..Len(a) /\ DOMAIN b = 1..Len(b)
          /\ DOMAIN (a \o b) = 1..(Len(a) + Len(b))
      BY <1>3, <1>4
    <2>2. CASE n <= Len(a)
      <3>1. n \in 1..Len(a) /\ (a \o b)[n] = a[n]
        BY <2>1, <2>2, ConcatProperties
      <3>2. Parts(a \o b)[n] = Parts(a)[n]
        BY <2>1, <3>1
      <3>3. (Parts(a) \o Parts(b))[n] = Parts(a)[n]
        <4> HIDE DEF Parts
        <4>1. QED
          BY <2>1, <3>1, ConcatProperties
      <3>4. QED
        BY <3>2, <3>3
    <2>3. CASE ~(n <= Len(a))
      <3>1. n - Len(a) \in 1..Len(b) /\ (a \o b)[n] = b[n - Len(a)]
        BY <2>1, <2>3, ConcatProperties
      <3>2. Parts(a \o b)[n] = Parts(b)[n - Len(a)]
        BY <2>1, <3>1
      <3>3. (Parts(a) \o Parts(b))[n] = Parts(b)[n - Len(a)]
        <4> HIDE DEF Parts
        <4>1. QED
          BY <2>1, <2>3, <3>1, ConcatProperties
      <3>4. QED
        BY <3>2, <3>3
    <2>4. QED
      BY <2>2, <2>3
  <1>7. Parts(a \o b) = Parts(a) \o Parts(b)
    <2>1. Parts(a \o b) \in Seq(Seq(X)) /\ Len(Parts(a \o b)) = Len(a) + Len(b)
      BY <1>3, <1>4
    <2> HIDE DEF Parts
    <2>2. QED
      BY <1>5, <1>6, <2>1, SeqEqual
  <1>8. FlattenSeq(Parts(a) \o Parts(b)) = FlattenSeq(Parts(a)) \o FlattenSeq(Parts(b))
    <2>1. Parts(a) \in Seq(Seq(X)) /\ Parts(b) \in Seq(Seq(X))
      BY <1>3
    <2> HIDE DEF Parts
    <2>2. QED
      BY <2>1, FlattenConcat
  <1> HIDE DEF Parts
  <1>9. QED
    BY <1>1, <1>7, <1>8

\* The lines of acts, in a file.
Marked(acts) == [n \in DOMAIN acts |-> [spec |-> acts[n].spec, file |-> acts[n].file, ours |-> TRUE]]

\* None of them is foreign,
LEMMA MarkedIs ==
  ASSUME NEW X, NEW acts \in Seq(X)
  PROVE  /\ Marked(acts) \in Seq(Range(Marked(acts))) /\ Len(Marked(acts)) = Len(acts)
         /\ DOMAIN Marked(acts) = 1..Len(acts) /\ Foreign(Marked(acts)) = <<>>
  <1> DEFINE m == Marked(acts)
  <1>1. DOMAIN acts = 1..Len(acts) /\ Len(acts) \in Nat
    OBVIOUS
  <1>2. DOMAIN m = 1..Len(acts) /\ \A n \in DOMAIN m : m[n].ours = TRUE
    BY <1>1 DEF Marked
  <1>3. m \in [1..Len(acts) -> Range(m)]
    BY <1>1, <1>2 DEF Marked, Range
  <1>4. m \in Seq(Range(m))
    BY <1>1, <1>3, SeqDef
  <1>5. Len(m) = Len(acts)
    BY <1>1, <1>2, <1>4
  <1>6. {n \in DOMAIN m : ~m[n].ours} = {}
    BY <1>2
  <1>7. Foreign(m) = Only(m, {})
    BY <1>6 DEF Foreign
  <1> HIDE DEF m
  <1>8. Only(m, {}) = <<>>
    BY <1>4, OnlyNone
  <1>9. QED
    BY <1>2, <1>4, <1>5, <1>7, <1>8 DEF m

\* and the foreign lines of a file are all foreign.
LEMMA ForeignIs ==
  ASSUME NEW X, NEW lines \in Seq(X)
  PROVE  /\ Foreign(lines) \in Seq({l \in X : ~l.ours})
         /\ Foreign(Foreign(lines)) = Foreign(lines)
  <1> DEFINE places == {n \in DOMAIN lines : ~lines[n].ours}
             Y == {l \in X : ~l.ours}
  <1>1. Foreign(lines) \in Seq(Y)
    <2>1. Foreign(lines) \in Seq({lines[n] : n \in places \cap DOMAIN lines})
      BY OnlyTyped DEF Foreign
    <2>2. {lines[n] : n \in places \cap DOMAIN lines} \subseteq Y
      <3>1. \A n \in DOMAIN lines : lines[n] \in X
        OBVIOUS
      <3>2. QED
        BY <3>1
    <2> HIDE DEF places, Y
    <2>3. QED
      BY <2>1, <2>2, SeqMonotonic
  <1> DEFINE f == Foreign(lines)
  <1>2. \A n \in DOMAIN f : ~f[n].ours
    <2>1. f \in Seq(Y)
      BY <1>1
    <2> HIDE DEF f
    <2>2. \A n \in DOMAIN f : f[n] \in Y
      BY <2>1
    <2>3. QED
      BY <2>2
  <1>3. f \in Seq(Y)
    BY <1>1
  <1> HIDE DEF f, Y
  <1>4. Only(f, {n \in DOMAIN f : ~f[n].ours}) = f
    <2>1. DOMAIN f \subseteq {n \in DOMAIN f : ~f[n].ours}
      BY <1>2
    <2>2. QED
      BY <1>3, <2>1, OnlyAll
  <1>5. Foreign(f) = f
    BY <1>4 DEF Foreign
  <1>6. QED
    BY <1>1, <1>5 DEF f, Y

\* What is written has the foreign lines of the file, and acts.
LEMMA WrittenForeign ==
  ASSUME NEW lines, lines \in Seq(Range(lines)), NEW X, NEW acts \in Seq(X)
  PROVE  LET once == Written(lines, acts)
         IN  /\ Foreign(once) = Foreign(lines)
             /\ once \in Seq(Range(once))
             /\ DOMAIN once = 1..(Len(Foreign(lines)) + Len(acts))
             /\ \A n \in DOMAIN once :
                   once[n].ours => \E k \in 1..Len(acts) : once[n].spec = acts[k].spec /\ once[n].file = acts[k].file
  <1> DEFINE f == Foreign(lines)
             m == Marked(acts)
             Y == {l \in Range(lines) : ~l.ours}
             Z == Y \cup Range(m)
             once == Written(lines, acts)
  <1>1. once = f \o m
    BY DEF Written, Marked
  <1>2. f \in Seq(Y) /\ Foreign(f) = f
    BY ForeignIs
  <1>3. m \in Seq(Range(m)) /\ Len(m) = Len(acts) /\ DOMAIN m = 1..Len(acts) /\ Foreign(m) = <<>>
    BY MarkedIs
  <1>4. \A k \in 1..Len(acts) : m[k].spec = acts[k].spec /\ m[k].file = acts[k].file
    BY DEF Marked
  <1>5. \A l \in Y : ~l.ours
    OBVIOUS
  <1> HIDE DEF f, m, Y
  <1>6. f \in Seq(Z) /\ m \in Seq(Z)
    BY <1>2, <1>3, SeqMonotonic
  <1> HIDE DEF Z
  <1>7. Foreign(f \o m) = f
    <2>1. Foreign(f \o m) = Foreign(f) \o Foreign(m)
      BY <1>6, ForeignConcat
    <2>2. f \o <<>> = f
      BY <1>6, ConcatEmptySeq
    <2>3. QED
      BY <1>2, <1>3, <2>1, <2>2
  <1>8. f \o m \in Seq(Z) /\ Len(f \o m) = Len(f) + Len(acts) /\ Len(f) \in Nat /\ Len(acts) \in Nat
    <2>1. f \o m \in Seq(Z) /\ Len(f \o m) = Len(f) + Len(m)
      BY <1>6, ConcatProperties, Zenon
    <2>2. Len(f) \in Nat /\ Len(m) \in Nat
      BY <1>6, LenProperties, Zenon
    <2>3. QED
      BY <1>3, <2>1, <2>2
  <1>9. DOMAIN (f \o m) = 1..(Len(f) + Len(acts)) /\ f \o m \in Seq(Range(f \o m))
    <2>1. f \o m \in Seq(Range(f \o m))
      BY <1>8, SeqOfRange, Zenon
    <2>2. DOMAIN (f \o m) = 1..Len(f \o m)
      BY <1>8, LenProperties, Zenon
    <2>3. QED
      BY <1>8, <2>1, <2>2
  <1>10. ASSUME NEW n \in 1..(Len(f) + Len(acts)), (f \o m)[n].ours
         PROVE  \E k \in 1..Len(acts) : (f \o m)[n].spec = acts[k].spec /\ (f \o m)[n].file = acts[k].file
    <2>1. CASE n <= Len(f)
      <3>1. n \in 1..Len(f) /\ (f \o m)[n] = f[n]
        BY <1>3, <1>6, <1>8, <2>1, ConcatProperties
      <3>2. f[n] \in Y
        BY <1>2, <3>1
      <3>3. QED
        BY <1>5, <1>10, <3>1, <3>2
    <2>2. CASE ~(n <= Len(f))
      <3>1. n - Len(f) \in 1..Len(acts) /\ (f \o m)[n] = m[n - Len(f)]
        BY <1>3, <1>6, <1>8, <2>2, ConcatProperties
      <3>2. QED
        BY <1>4, <3>1
    <2>3. QED
      BY <2>1, <2>2
  <1>11. QED
    BY <1>1, <1>7, <1>9, <1>10 DEF f

\* The entries of the configuration are a sequence.
LEMMA CfgEntriesAre ==
  ASSUME FstabTypeOK
  PROVE  CfgEntries \in Seq(Range(CfgEntries)) /\ DOMAIN CfgEntries = 1..Len(CfgEntries)
  <1>1. CASE ~Says("mounts")
    <2>1. CfgEntries = <<>>
      BY <1>1 DEF CfgEntries
    <2>2. QED
      BY <2>1
  <1>2. CASE Says("mounts")
    <2> DEFINE n == Len(cfg.mounts)
    <2>1. cfg.mounts \in Seq(Range(cfg.mounts))
      BY <1>2 DEF FstabTypeOK
    <2>2. n \in Nat /\ DOMAIN cfg.mounts = 1..n
      BY <2>1, LenProperties
    <2> HIDE DEF n
    <2>3. CfgEntries = [k \in 1..n |-> Sanitized(cfg.mounts[k])]
      BY <1>2, <2>2 DEF CfgEntries
    <2>4. CfgEntries \in [1..n -> Range(CfgEntries)]
      BY <2>3 DEF Range
    <2>5. CfgEntries \in Seq(Range(CfgEntries))
      BY <2>2, <2>4, SeqDef
    <2>6. QED
      BY <2>5, LenProperties
  <1>3. QED
    BY <1>1, <1>2

\* The default entries are of devices that the configuration does not name.
DefaultSpecs == {Real[inst][s] : s \in {"ephemeral0", "swap"}} \ ({e.spec : e \in Range(CfgEntries)} \cup {NoDevice})

LEMMA DefaultsAre ==
  /\ DefaultEntries \in Seq(Range(DefaultEntries))
  /\ \A d \in Range(DefaultEntries) : Sanitized(d).spec \in DefaultSpecs
  <1> DEFINE defs == <<Entry("ephemeral0", "/mnt"), Entry("swap", "none")>>
             D == {Entry("ephemeral0", "/mnt"), Entry("swap", "none")}
             named == {e.spec : e \in Range(CfgEntries)}
             places == {n \in DOMAIN defs : Real[inst][defs[n].spec] \notin named \cup {NoDevice}}
             Y == {defs[n] : n \in places \cap DOMAIN defs}
  <1>1. defs \in Seq(D) /\ \A n \in DOMAIN defs : defs[n] \in D
    OBVIOUS
  <1>2. DefaultEntries = Only(defs, places)
    BY DEF DefaultEntries
  <1>3. \A d \in Y : d \in D /\ Real[inst][d.spec] \notin named \cup {NoDevice}
    BY <1>1
  <1>4. \A d \in D : d.spec \in {"ephemeral0", "swap"} /\ [d EXCEPT !.spec = Real[inst][d.spec]].spec = Real[inst][d.spec]
    BY DEF Entry
  <1> HIDE DEF defs, D, places
  <1>5. DefaultEntries \in Seq(Y)
    BY <1>1, <1>2, OnlyTyped
  <1> HIDE DEF Y
  <1>6. DefaultEntries \in Seq(Range(DefaultEntries)) /\ Range(DefaultEntries) \subseteq Y
    BY <1>5, SeqOfRange, RangeOfSeq
  <1>7. ASSUME NEW d \in Y PROVE Sanitized(d).spec \in DefaultSpecs
    <2>1. /\ d.spec \in {"ephemeral0", "swap"} /\ Real[inst][d.spec] \notin named \cup {NoDevice}
          /\ Sanitized(d).spec = Real[inst][d.spec]
      BY <1>3, <1>4 DEF Sanitized
    <2>2. QED
      BY <2>1 DEF DefaultSpecs
  <1>8. QED
    BY <1>6, <1>7

\* What is to be in fstab: an entry that no null takes back, a default one, the swap file.
LEMMA ActListIs ==
  ASSUME FstabTypeOK, NEW swap \in BOOLEAN
  PROVE  LET acts == ActList(swap)
         IN  /\ acts \in Seq(Range(acts)) /\ Len(acts) \in Nat
             /\ \A k \in 1..Len(acts) :
                   \/ \E n \in DOMAIN CfgEntries : ~TakenBack(n) /\ acts[k] = CfgEntries[n]
                   \/ acts[k].spec \in DefaultSpecs
                   \/ acts[k].spec = "/swap.img"
  <1> DEFINE places == {n \in DOMAIN CfgEntries : ~TakenBack(n)}
             K == {CfgEntries[n] : n \in places \cap DOMAIN CfgEntries}
             defs == [n \in DOMAIN DefaultEntries |-> Sanitized(DefaultEntries[n])]
             D == {Sanitized(d) : d \in Range(DefaultEntries)}
             S == {Entry("/swap.img", "none")}
             file == IF swap THEN <<Entry("/swap.img", "none")>> ELSE <<>>
             Z == K \cup D \cup S
             acts == ActList(swap)
  <1>1. Only(CfgEntries, places) \in Seq(K)
    BY CfgEntriesAre, OnlyTyped
  <1>2. defs \in Seq(D)
    <2>1. DOMAIN DefaultEntries = 1..Len(DefaultEntries) /\ Len(DefaultEntries) \in Nat
      BY DefaultsAre, LenProperties
    <2>2. defs \in [1..Len(DefaultEntries) -> D]
      BY <2>1 DEF Range
    <2> HIDE DEF defs, D
    <2>3. QED
      BY <2>1, <2>2, SeqDef
  <1>3. file \in Seq(S)
    <2>1. \A e : <<e>> \in Seq({e}) /\ <<>> \in Seq({e})
      OBVIOUS
    <2>2. QED
      BY <2>1, Zenon
  <1>4. acts = (Only(CfgEntries, places) \o defs) \o file
    BY DEF ActList
  <1>5. \A z \in Z : \/ \E n \in DOMAIN CfgEntries : ~TakenBack(n) /\ z = CfgEntries[n]
                     \/ z.spec \in DefaultSpecs
                     \/ z.spec = "/swap.img"
    <2>1. \A z \in K : \E n \in DOMAIN CfgEntries : ~TakenBack(n) /\ z = CfgEntries[n]
      OBVIOUS
    <2>2. \A z \in D : z.spec \in DefaultSpecs
      BY DefaultsAre
    <2>3. \A z \in S : z.spec = "/swap.img"
      BY DEF Entry
    <2> HIDE DEF K, D, S
    <2>4. QED
      BY <2>1, <2>2, <2>3
  <1> HIDE DEF places, K, defs, D, S, file
  <1>6. /\ K \subseteq Z /\ D \subseteq Z /\ S \subseteq Z
    OBVIOUS
  <1> HIDE DEF Z
  <1>7. Only(CfgEntries, places) \in Seq(Z) /\ defs \in Seq(Z) /\ file \in Seq(Z)
    BY <1>1, <1>2, <1>3, <1>6, SeqMonotonic
  <1> DEFINE kept == Only(CfgEntries, places)
  <1>8. kept \in Seq(Z)
    BY <1>7
  <1> HIDE DEF kept
  <1>9. kept \o defs \in Seq(Z)
    BY <1>7, <1>8, ConcatProperties, Zenon
  <1>10. (kept \o defs) \o file \in Seq(Z)
    BY <1>7, <1>9, ConcatProperties, Zenon
  <1>11. acts \in Seq(Z)
    BY <1>4, <1>10 DEF kept
  <1> HIDE DEF acts
  <1>12. acts \in Seq(Range(acts)) /\ Len(acts) \in Nat /\ \A k \in 1..Len(acts) : acts[k] \in Z
    BY <1>11, SeqOfRange, LenProperties, ElementOfSeq
  <1>13. QED
    BY <1>5, <1>12 DEF acts

\* cc_mounts comes to the same file again (FstabSettles), whatever the file is.
LEMMA FstabIsSettled ==
  ASSUME FstabTypeOK
  PROVE  FstabSettles
  <1> USE DEF FstabSettles
  <1> TAKE swap \in BOOLEAN
  <1> DEFINE acts == ActList(swap)
             once == Written(fstab, acts)
  <1>1. /\ acts \in Seq(Range(acts)) /\ Len(acts) \in Nat
        /\ \A k \in 1..Len(acts) :
              \/ \E n \in DOMAIN CfgEntries : ~TakenBack(n) /\ acts[k] = CfgEntries[n]
              \/ acts[k].spec \in DefaultSpecs
              \/ acts[k].spec = "/swap.img"
    BY ActListIs
  <1> HIDE DEF acts
  <1>2. /\ Foreign(once) = Foreign(fstab)
        /\ DOMAIN once = 1..(Len(Foreign(fstab)) + Len(acts))
        /\ \A n \in DOMAIN once :
              once[n].ours => \E k \in 1..Len(acts) : once[n].spec = acts[k].spec /\ once[n].file = acts[k].file
    BY <1>1, WrittenForeign DEF FstabTypeOK
  <1>3. Written(once, acts) = once
    <2>1. \A f, g : Foreign(f) = Foreign(g) => Written(f, acts) = Written(g, acts)
      BY DEF Written
    <2> HIDE DEF once
    <2>2. Written(once, acts) = Written(fstab, acts)
      BY <1>2, <2>1
    <2>3. QED
      BY <2>2 DEF once
  <1>4. ASSUME NEW n \in DOMAIN once, NEW m \in DOMAIN CfgEntries,
               once[n].ours, once[n].spec = CfgEntries[m].spec, once[n].spec # "/swap.img"
        PROVE  \E k \in DOMAIN CfgEntries :
                  /\ CfgEntries[k].spec = once[n].spec /\ CfgEntries[k].file = once[n].file
                  /\ \A j \in k..Len(CfgEntries) :
                        CfgEntries[j].file = Null => CfgEntries[j].spec # once[n].spec
    <2>1. PICK k \in 1..Len(acts) : once[n].spec = acts[k].spec /\ once[n].file = acts[k].file
      BY <1>2, <1>4
    <2>2. acts[k].spec \notin DefaultSpecs
      BY <1>4, <2>1 DEF DefaultSpecs, Range
    <2>3. PICK l \in DOMAIN CfgEntries : ~TakenBack(l) /\ acts[k] = CfgEntries[l]
      BY <1>1, <1>4, <2>1, <2>2
    <2>4. \A j \in l..Len(CfgEntries) : CfgEntries[j].file = Null => CfgEntries[j].spec # CfgEntries[l].spec
      BY <2>3 DEF TakenBack
    <2>5. QED
      BY <2>1, <2>3, <2>4
  <1>5. QED
    BY <1>2, <1>3, <1>4 DEF acts

----------------------------------------------------------------------------
(* The order of a boot.                                                     *)

\* Places are passed in their order,
LEMMA PlaceAfter ==
  ASSUME NEW k \in 1..11
  PROVE  After(Places[k]) = Places[k + 1]
  <1>1. DOMAIN Places = 1..12 /\ \A m, n \in 1..12 : Places[m] = Places[n] => m = n
    BY DEF Places
  <1> HIDE DEF Places
  <1>2. k \in DOMAIN Places /\ \A n \in DOMAIN Places : Places[n] = Places[k] => n = k
    BY <1>1
  <1>3. (CHOOSE n \in DOMAIN Places : Places[n] = Places[k]) = k
    BY <1>2
  <1>4. After(Places[k]) = Places[1 + CHOOSE n \in DOMAIN Places : Places[n] = Places[k]]
    BY Zenon DEF After
  <1>5. After(Places[k]) = Places[1 + k]
    BY <1>3, <1>4, Zenon
  <1>6. 1 + k = k + 1
    OBVIOUS
  <1>7. QED
    BY <1>5, <1>6, Zenon

\* Where the steps of a boot lead.
LEMMA BootOrder ==
  /\ After("update") = "user-data" /\ After("user-data") = "vendor-data"
  /\ After("vendor-data") = "mounts" /\ After("mounts") = "set_hostname"
  /\ After("set_hostname") = "update_hostname" /\ After("update_hostname") = "update_etc_hosts"
  /\ After("update_etc_hosts") = "users-groups" /\ After("users-groups") = "ssh"
  /\ After("ssh") = "config" /\ After("config") = "set-passwords" /\ After("set-passwords") = "up"
  <1>1. /\ Places[1] = "update" /\ Places[2] = "user-data" /\ Places[3] = "vendor-data"
        /\ Places[4] = "mounts" /\ Places[5] = "set_hostname" /\ Places[6] = "update_hostname"
        /\ Places[7] = "update_etc_hosts" /\ Places[8] = "users-groups" /\ Places[9] = "ssh"
        /\ Places[10] = "config" /\ Places[11] = "set-passwords" /\ Places[12] = "up"
    BY DEF Places
  <1>2. \A k \in 1..11 : After(Places[k]) = Places[k + 1]
    BY PlaceAfter
  <1> HIDE DEF Places, After
  <1>3. /\ After(Places[1]) = Places[2] /\ After(Places[2]) = Places[3] /\ After(Places[3]) = Places[4]
        /\ After(Places[4]) = Places[5] /\ After(Places[5]) = Places[6] /\ After(Places[6]) = Places[7]
        /\ After(Places[7]) = Places[8] /\ After(Places[8]) = Places[9] /\ After(Places[9]) = Places[10]
        /\ After(Places[10]) = Places[11] /\ After(Places[11]) = Places[12]
    BY <1>2
  <1>4. QED
    BY <1>1, <1>3, Zenon

Early == {"update", "user-data", "vendor-data"}

\* and these are all of them.
LEMMA PlacesAre ==
  Range(Places) = Early \cup Modules \cup {"config", "up"}
  <1>1. Range(Places) = {Places[i] : i \in 1..12}
    BY DEF Range, Places
  <1>2. QED
    BY <1>1 DEF Places, Early, Modules, InitModules, ConfigModules

\* A module is followed by a module, the next stage or the end of the boot.
LEMMA AfterModule ==
  ASSUME NEW m \in Modules
  PROVE  /\ After(m) \in Modules \cup {"config", "up"}
         /\ After(m) \in InitModules => m \in InitModules \ {"ssh"}
         /\ After(m) \in {"config", "set-passwords"} => m = "ssh"
         /\ m \in InitModules => After(m) # "up"
  BY BootOrder, Zenon DEF Modules, InitModules, ConfigModules

----------------------------------------------------------------------------
(* Configurations.                                                          *)

\* The first to say something of a key has it.
LEMMA OverDomain ==
  ASSUME NEW f, NEW g
  PROVE  DOMAIN Over(f, g) = DOMAIN f \cup DOMAIN g
  BY DEF Over

\* A configuration laid over another has its own values,
LEMMA OverFirst ==
  ASSUME NEW f, NEW g, NEW k, k \in DOMAIN f
  PROVE  Over(f, g)[k] = f[k]
  BY DEF Over

\* and the other's where it has none.
LEMMA OverSecond ==
  ASSUME NEW f, NEW g, NEW k, k \in DOMAIN g, k \notin DOMAIN f
  PROVE  Over(f, g)[k] = g[k]
  BY DEF Over

\* What the merged configuration says, one of the configurations says.
LEMMA MergedLookup ==
  ASSUME ConsumptionTypeOK, NEW i \in Instances, NEW k \in DOMAIN Merged(i)
  PROVE  \E c \in Configs \cup {System} : k \in DOMAIN c /\ Merged(i)[k] = c[k]
  <1>1. userFile[i].cfg \in Configs /\ vendorFile[i].cfg \in Configs
    BY DEF ConsumptionTypeOK, Slot
  <1> DEFINE u == userFile[i].cfg
             rest == Over(vendorFile[i].cfg, System)
  <1>2. ASSUME NEW l \in DOMAIN rest
        PROVE  \E c \in Configs \cup {System} : l \in DOMAIN c /\ rest[l] = c[l]
    <2> DEFINE v == vendorFile[i].cfg
    <2>1. v \in Configs /\ rest = Over(v, System)
      BY <1>1
    <2> HIDE DEF v, rest
    <2>2. l \in DOMAIN v \cup DOMAIN System
      BY <1>2, <2>1, OverDomain, Zenon
    <2>3. CASE l \in DOMAIN v
      <3>1. rest[l] = v[l]
        BY <2>1, <2>3, OverFirst, Zenon
      <3>2. QED
        BY <2>1, <2>3, <3>1
    <2>4. CASE l \in DOMAIN System /\ l \notin DOMAIN v
      <3>1. rest[l] = System[l]
        BY <2>1, <2>4, OverSecond, Zenon
      <3>2. QED
        BY <2>4, <3>1
    <2>5. QED
      BY <2>2, <2>3, <2>4
  <1>3. Merged(i) = Over(u, rest)
    BY DEF Merged
  <1> HIDE DEF u, rest
  <1>4. CASE k \in DOMAIN u
    <2>1. Merged(i)[k] = u[k] /\ u \in Configs
      <3>1. Over(u, rest)[k] = u[k]
        BY <1>4, OverFirst, Zenon
      <3>2. QED
        BY <1>1, <1>3, <3>1 DEF u
    <2>2. QED
      BY <1>4, <2>1
  <1>5. CASE k \notin DOMAIN u
    <2>1. k \in DOMAIN rest /\ Merged(i)[k] = rest[k]
      <3>1. k \in DOMAIN u \cup DOMAIN rest
        BY <1>3, OverDomain, Zenon
      <3>2. k \in DOMAIN rest /\ k \notin DOMAIN u
        BY <1>5, <3>1
      <3>3. Over(u, rest)[k] = rest[k]
        BY <3>2, OverSecond, Zenon
      <3>4. QED
        BY <1>3, <3>2, <3>3
    <2>2. QED
      BY <1>2, <2>1
  <1>6. QED
    BY <1>4, <1>5

----------------------------------------------------------------------------
(* The types of the data and its files.                                     *)

\* Data that is absent, or has been fetched.
LEMMA SlotTypes ==
  /\ Absent \in Slot
  /\ \A c \in Configs : Holding(c) \in Slot
  BY ConsumptionAssumption DEF Slot, Absent, Holding

\* The types of data and files, at first,
LEMMA ConsumptionInitTyped ==
  ASSUME ConsumptionInit
  PROVE  ConsumptionTypeOK
  <1>1. /\ data \in [Instances -> [kind : {"plain", "include", "once"}, cfg : Configs]]
        /\ vendor \in [Instances -> [given : BOOLEAN, cfg : Configs]]
    BY ConsumptionAssumption DEF ConsumptionInit
  <1>2. pkl \in [Instances -> [there : BOOLEAN, data : Slot]]
    BY SlotTypes DEF ConsumptionInit
  <1>3. /\ urlcache \in [Instances -> Slot] /\ userFile \in [Instances -> Slot]
        /\ vendorFile \in [Instances -> Slot] /\ processed \in Slot
    BY SlotTypes DEF ConsumptionInit
  <1>4. onced \in [Instances -> SUBSET Configs] /\ said \in [Instances -> SUBSET {"on", "off", "silent"}]
    BY DEF ConsumptionInit
  <1>5. QED
    BY <1>1, <1>2, <1>3, <1>4 DEF ConsumptionInit, ConsumptionTypeOK

\* What a configuration says of vendor-data.
LEMMA SayingType ==
  ASSUME NEW c \in Configs
  PROVE  Saying(c) \in {"on", "off", "silent"}
  BY ConsumptionAssumption DEF Saying

\* after the instance is found,
LEMMA InstancifyTyped ==
  ASSUME ConsumptionTypeOK, NEW i \in Instances, Instancify(i)
  PROVE  ConsumptionTypeOK'
  <1>1. PICK old \in Slot : processed' = old /\ pkl' = [pkl EXCEPT ![i] = [there |-> TRUE, data |-> old]]
    BY SlotTypes DEF Instancify, ConsumptionTypeOK
  <1>2. pkl' \in [Instances -> [there : BOOLEAN, data : Slot]]
    BY <1>1 DEF ConsumptionTypeOK
  <1>3. inst' = i /\ consumed' = FALSE
    BY DEF Instancify
  <1>4. UNCHANGED <<data, vendor, urlcache, userFile, vendorFile, onced, torn, said>>
    BY DEF Instancify, cloud
  <1>5. QED
    BY <1>1, <1>2, <1>3, <1>4 DEF ConsumptionTypeOK

\* after user-data was processed,
LEMMA ProcessTyped ==
  ASSUME ConsumptionTypeOK, Process
  PROVE  ConsumptionTypeOK'
  <1>1. UNCHANGED <<data, vendor, pkl, userFile, vendorFile, inst, consumed, onced, torn, said>>
    BY DEF Process, ProcessAgain, ProcessPlain, IncludeFromCache, IncludeFetched, IncludeNotOk, Keep,
           cvars, cloud, files, process
  <1>2. processed' \in Slot
    <2>1. data[inst].cfg \in Configs /\ urlcache[inst].cfg \in Configs /\ processed \in Slot
      BY DEF ConsumptionTypeOK, Slot
    <2>2. QED
      BY <2>1, SlotTypes, ConsumptionAssumption
         DEF Process, ProcessAgain, ProcessPlain, IncludeFromCache, IncludeFetched, IncludeNotOk, Keep,
             cvars, process
  <1>3. urlcache' \in [Instances -> Slot]
    <2>1. ASSUME NEW c \in Served, IncludeFetched(c)
          PROVE  urlcache' \in [Instances -> Slot]
      <3>1. Holding(c) \in Slot
        BY SlotTypes, ConsumptionAssumption
      <3>2. QED
        BY <2>1, <3>1 DEF IncludeFetched, ConsumptionTypeOK
    <2>2. ~(\E c \in Served : IncludeFetched(c)) => urlcache' = urlcache
      BY DEF Process, ProcessAgain, ProcessPlain, IncludeFromCache, IncludeNotOk, cvars, files
    <2>3. QED
      BY <2>1, <2>2 DEF ConsumptionTypeOK
  <1>4. QED
    BY <1>1, <1>2, <1>3 DEF ConsumptionTypeOK

\* after a cache was cut short,
LEMMA TornTyped ==
  ASSUME ConsumptionTypeOK, IncludeTorn
  PROVE  ConsumptionTypeOK'
  <1>1. Holding(<<>>) \in Slot
    BY SlotTypes, ConsumptionAssumption
  <1>2. urlcache' \in [Instances -> Slot] /\ torn' \subseteq Instances
    BY <1>1 DEF IncludeTorn, ConsumptionTypeOK
  <1>3. QED
    BY <1>2 DEF IncludeTorn, ConsumptionTypeOK, cloud, process

\* after user-data was consumed,
LEMMA UserdataTyped ==
  ASSUME ConsumptionTypeOK, ConsumeUserdata
  PROVE  ConsumptionTypeOK'
  <1>1. processed.cfg \in Configs
    BY DEF ConsumptionTypeOK, Slot
  <1>2. userFile' \in [Instances -> Slot]
    BY DEF ConsumeUserdata, ConsumptionTypeOK
  <1>3. onced' \in [Instances -> SUBSET Configs]
    BY <1>1 DEF ConsumeUserdata, ConsumptionTypeOK
  <1>4. said' \in [Instances -> SUBSET {"on", "off", "silent"}]
    <2>1. Saying(processed.cfg) \in {"on", "off", "silent"}
      BY <1>1, SayingType
    <2>2. QED
      BY <2>1 DEF ConsumeUserdata, ConsumptionTypeOK
  <1>5. QED
    BY <1>2, <1>3, <1>4 DEF ConsumeUserdata, ConsumptionTypeOK, cloud, process

\* after vendor-data was,
LEMMA VendordataTyped ==
  ASSUME ConsumptionTypeOK, ConsumeVendordata
  PROVE  ConsumptionTypeOK'
  <1>1. Holding(vendor[inst].cfg) \in Slot
    BY SlotTypes DEF ConsumptionTypeOK
  <1>2. vendorFile' \in [Instances -> Slot]
    BY <1>1 DEF ConsumeVendordata, ConsumptionTypeOK
  <1>3. pkl' \in [Instances -> [there : BOOLEAN, data : Slot]]
    BY DEF ConsumeVendordata, ConsumptionTypeOK
  <1>4. consumed' \in BOOLEAN
    BY DEF ConsumeVendordata
  <1>5. QED
    BY <1>2, <1>3, <1>4 DEF ConsumeVendordata, ConsumptionTypeOK, cloud

\* and after the other steps.
LEMMA OtherTyped ==
  ASSUME ConsumptionTypeOK, ReadConfig \/ UNCHANGED cvars
  PROVE  ConsumptionTypeOK'
  BY DEF ReadConfig, ConsumptionTypeOK, cvars, cloud, files, process

----------------------------------------------------------------------------
(* An include-once is what its file has.                                    *)

\* That the cache decides, after the instance is found,
LEMMA InstancifyCache ==
  ASSUME ConsumptionTypeOK, CacheDecides, NEW i \in Instances, Instancify(i), at' # "user-data"
  PROVE  CacheDecides'
  <1>1. PICK old : /\ old = Absent \/ (pkl[i].there /\ old = pkl[i].data)
                   /\ processed' = old /\ pkl' = [pkl EXCEPT ![i] = [there |-> TRUE, data |-> old]]
    BY DEF Instancify
  <1>2. pkl'[i].data = old /\ \A j \in Instances : j # i => pkl'[j] = pkl[j]
    BY <1>1 DEF ConsumptionTypeOK
  <1>3. inst' = i /\ UNCHANGED <<data, urlcache, onced, torn>>
    BY DEF Instancify, cloud
  <1>4. ASSUME NEW j \in Instances \ torn
        PROVE  FromCache(j)'
    <2>1. FromCache(j)
      BY DEF CacheDecides
    <2>2. old.there => old = pkl[i].data
      BY <1>1 DEF Absent
    <2>3. QED
      BY <1>1, <1>2, <1>3, <2>1, <2>2 DEF FromCache
  <1>5. QED
    BY <1>1, <1>2, <1>3, <1>4 DEF CacheDecides

\* after user-data was processed,
LEMMA ProcessCache ==
  ASSUME ConsumptionTypeOK, CacheDecides, Process
  PROVE  CacheDecides' /\ processed'.there
  <1>1. UNCHANGED <<data, pkl, inst, onced, torn>>
    BY DEF Process, ProcessAgain, ProcessPlain, IncludeFromCache, IncludeFetched, IncludeNotOk, Keep,
           cvars, cloud, files, process
  <1>2. processed'.there
    BY DEF Process, ProcessAgain, ProcessPlain, IncludeFromCache, IncludeFetched, IncludeNotOk, Keep,
           cvars, process, Holding
  <1>3. CASE UNCHANGED cvars
    BY <1>2, <1>3 DEF CacheDecides, FromCache, cvars, cloud, files, process
  <1>4. ASSUME ~processed.there, urlcache' = urlcache,
               urlcache[inst].there => processed'.cfg = urlcache[inst].cfg
        PROVE  CacheDecides'
    <2>1. ASSUME NEW j \in Instances \ torn
          PROVE  FromCache(j)'
      <3>1. FromCache(j)
        BY DEF CacheDecides
      <3>2. QED
        BY <1>1, <1>4, <3>1 DEF FromCache
    <2>2. QED
      BY <1>1, <1>2, <1>4, <2>1 DEF CacheDecides
  <1>5. CASE ProcessPlain
    <2>1. ~urlcache[inst].there
      BY <1>5 DEF ProcessPlain, CacheDecides, ConsumptionTypeOK
    <2>2. QED
      BY <1>2, <1>4, <1>5, <2>1 DEF ProcessPlain, files
  <1>6. CASE IncludeFromCache
    BY <1>4, <1>6 DEF IncludeFromCache, Keep, Holding, files
  <1>7. CASE IncludeNotOk
    <2>1. ~urlcache[inst].there
      BY <1>7 DEF IncludeNotOk, IncludeOnceCached, CacheDecides, ConsumptionTypeOK
    <2>2. QED
      BY <1>2, <1>4, <1>7, <2>1 DEF IncludeNotOk, files
  <1>8. ASSUME NEW c \in Served, IncludeFetched(c)
        PROVE  CacheDecides'
    <2>1. ~processed.there /\ ~urlcache[inst].there /\ processed' = Holding(c) /\ inst \in Instances
      BY <1>8 DEF IncludeFetched, IncludeOnceCached, CacheDecides, ConsumptionTypeOK, Keep
    <2>2. CASE data[inst].kind # "once"
      BY <1>4, <1>8, <2>1, <2>2 DEF IncludeFetched
    <2>3. CASE data[inst].kind = "once"
      <3>1. urlcache' = [urlcache EXCEPT ![inst] = Holding(c)]
        BY <1>8, <2>3 DEF IncludeFetched
      <3>2. urlcache'[inst] = Holding(c) /\ \A j \in Instances : j # inst => urlcache'[j] = urlcache[j]
        BY <3>1 DEF ConsumptionTypeOK
      <3>3. ASSUME NEW j \in Instances \ torn
            PROVE  FromCache(j)'
        <4>1. FromCache(j) /\ ~pkl[inst].data.there
          BY <2>1 DEF CacheDecides
        <4>2. QED
          BY <1>1, <2>1, <3>2, <4>1 DEF FromCache, Holding
      <3>4. QED
        BY <1>1, <1>2, <2>3, <3>2, <3>3 DEF CacheDecides
    <2>4. QED
      BY <2>2, <2>3
  <1>9. QED
    BY <1>2, <1>3, <1>5, <1>6, <1>7, <1>8 DEF Process, ProcessAgain

\* after a cache was cut short,
LEMMA TornCache ==
  ASSUME ConsumptionTypeOK, CacheDecides, IncludeTorn, at' # "user-data"
  PROVE  CacheDecides'
  <1>1. /\ urlcache' = [urlcache EXCEPT ![inst] = Holding(<<>>)] /\ torn' = torn \cup {inst}
        /\ inst \in Instances /\ data[inst].kind = "once"
        /\ UNCHANGED <<data, pkl, inst, processed, onced>>
    BY DEF IncludeTorn, ConsumptionTypeOK, cloud, process
  <1>2. \A j \in Instances : j # inst => urlcache'[j] = urlcache[j]
    BY <1>1 DEF ConsumptionTypeOK
  <1>3. ASSUME NEW j \in Instances \ torn'
        PROVE  FromCache(j)'
    <2>1. FromCache(j) /\ j # inst
      BY <1>1 DEF CacheDecides
    <2>2. QED
      BY <1>1, <1>2, <2>1 DEF FromCache
  <1>4. QED
    BY <1>1, <1>2, <1>3 DEF CacheDecides

\* after user-data was consumed,
LEMMA UserdataCache ==
  ASSUME ConsumptionTypeOK, CacheDecides, ConsumeUserdata, processed.there, at' # "user-data"
  PROVE  CacheDecides'
  <1>1. inst \in Instances /\ UNCHANGED <<data, pkl, urlcache, inst, processed, torn>>
    BY DEF ConsumeUserdata, ConsumptionTypeOK, cloud, process
  <1>2. /\ \A j \in Instances : j # inst => onced'[j] = onced[j]
        /\ onced'[inst] = IF data[inst].kind = "once" /\ urlcache[inst].there
                          THEN onced[inst] \cup {processed.cfg} ELSE onced[inst]
    BY <1>1 DEF ConsumeUserdata, ConsumptionTypeOK
  <1>3. ASSUME NEW j \in Instances \ torn
        PROVE  FromCache(j)'
    <2>1. FromCache(j)
      BY DEF CacheDecides
    <2>2. QED
      BY <1>1, <1>2, <2>1 DEF FromCache
  <1>4. QED
    BY <1>1, <1>3 DEF CacheDecides

\* after vendor-data was,
LEMMA VendordataCache ==
  ASSUME ConsumptionTypeOK, CacheDecides, ConsumeVendordata, at' # "user-data"
  PROVE  CacheDecides'
  <1>1. /\ inst \in Instances /\ UNCHANGED <<data, urlcache, inst, processed, onced, torn>>
        /\ pkl' = [pkl EXCEPT ![inst] = [there |-> TRUE, data |-> processed]]
    BY DEF ConsumeVendordata, ConsumptionTypeOK, cloud
  <1>2. pkl'[inst].data = processed /\ \A j \in Instances : j # inst => pkl'[j] = pkl[j]
    BY <1>1 DEF ConsumptionTypeOK
  <1>3. ASSUME NEW j \in Instances \ torn
        PROVE  FromCache(j)'
    <2>1. FromCache(j)
      BY DEF CacheDecides
    <2>2. QED
      BY <1>1, <1>2, <2>1 DEF FromCache
  <1>4. QED
    BY <1>1, <1>2, <1>3 DEF CacheDecides

\* and after the other steps.
LEMMA OtherCache ==
  ASSUME ConsumptionTypeOK, CacheDecides, ReadConfig \/ UNCHANGED cvars,
         at' = "user-data" => at = "user-data"
  PROVE  CacheDecides'
  <1>1. UNCHANGED <<data, pkl, urlcache, inst, processed, onced, torn>>
    BY DEF ReadConfig, cvars, cloud, files, process
  <1>2. ASSUME NEW j \in Instances \ torn
        PROVE  FromCache(j)'
    <2>1. FromCache(j)
      BY DEF CacheDecides
    <2>2. QED
      BY <1>1, <2>1 DEF FromCache
  <1>3. QED
    BY <1>1, <1>2 DEF CacheDecides

----------------------------------------------------------------------------
(* The files are what the data said.                                        *)

\* Init.cfg has vendor-data allowed, if nobody forbids it.
LEMMA MergedAllows ==
  ASSUME ConsumptionTypeOK, NEW i \in Instances, Wanted(i),
         userFile[i] = Absent \/ Saying(userFile[i].cfg) \in said[i],
         vendorFile[i] \in {Absent, Holding(vendor[i].cfg)}
  PROVE  "vendor_data" \in DOMAIN Merged(i) /\ Merged(i).vendor_data = "on"
  <1> DEFINE u == userFile[i].cfg
             v == vendorFile[i].cfg
             k == "vendor_data"
  <1>1. u \in Configs /\ k \in DOMAIN System /\ System[k] = "on"
    BY ConsumptionAssumption DEF ConsumptionTypeOK, Slot, Wanted
  <1>2. k \notin DOMAIN v
    <2>1. k \notin DOMAIN <<>>
      OBVIOUS
    <2>2. v = <<>> \/ v = vendor[i].cfg
      BY DEF Absent, Holding
    <2>3. QED
      BY <2>1, <2>2 DEF Wanted
  <1>3. k \in DOMAIN u => u[k] = "on"
    <2>1. k \in DOMAIN u => userFile[i] # Absent
      BY DEF Absent
    <2>2. QED
      BY <1>1, <2>1, ConsumptionAssumption DEF Saying, Wanted
  <1> DEFINE rest == Over(v, System)
  <1>4. Merged(i) = Over(u, rest)
    BY DEF Merged
  <1> HIDE DEF u, v
  <1>5. rest[k] = "on"
    <2>1. k \in DOMAIN System /\ k \notin DOMAIN v
      BY <1>1, <1>2
    <2>2. Over(v, System)[k] = System[k]
      BY <2>1 DEF Over
    <2>3. QED
      BY <1>1, <2>2
  <1>6. k \in DOMAIN rest
    <2>1. DOMAIN Over(v, System) = DOMAIN v \cup DOMAIN System
      BY OverDomain, Zenon
    <2>2. QED
      BY <1>1, <2>1
  <1> HIDE DEF rest
  <1>7. k \in DOMAIN Over(u, rest)
    <2>1. DOMAIN Over(u, rest) = DOMAIN u \cup DOMAIN rest
      BY OverDomain, Zenon
    <2>2. QED
      BY <1>6, <2>1
  <1>8. Over(u, rest)[k] = "on"
    <2>1. CASE k \in DOMAIN u
      <3>1. Over(u, rest)[k] = u[k]
        BY <2>1, OverFirst, Zenon
      <3>2. QED
        BY <1>3, <2>1, <3>1
    <2>2. CASE k \notin DOMAIN u
      <3>1. Over(u, rest)[k] = rest[k]
        BY <1>6, <2>2 DEF Over
      <3>2. QED
        BY <1>5, <3>1
    <2>3. QED
      BY <2>1, <2>2
  <1>9. QED
    BY <1>4, <1>7, <1>8

\* The decision of _consume_vendordata is that of the user, or else of Init.cfg.
LEMMA VendorEnabledIs ==
  ASSUME ConsumptionTypeOK
  PROVE  /\ "vendor_data" \in DOMAIN userFile[inst].cfg =>
              (VendorEnabled <=> userFile[inst].cfg.vendor_data = "on")
         /\ "vendor_data" \notin DOMAIN userFile[inst].cfg /\ "vendor_data" \in DOMAIN base =>
              (VendorEnabled <=> base.vendor_data = "on")
  <1> DEFINE u == userFile[inst].cfg
  <1>1. ASSUME "vendor_data" \in DOMAIN u
        PROVE  Over(u, base)["vendor_data"] = u["vendor_data"]
    BY <1>1, OverFirst, Zenon
  <1>2. ASSUME "vendor_data" \notin DOMAIN u, "vendor_data" \in DOMAIN base
        PROVE  Over(u, base)["vendor_data"] = base["vendor_data"]
    BY <1>2 DEF Over
  <1>3. QED
    BY <1>1, <1>2 DEF VendorEnabled

\* That the files decide, after the instance is found,
LEMMA InstancifyFiles ==
  ASSUME ConsumptionTypeOK, FilesDecide, NEW i \in Instances, Instancify(i), at' = "update"
  PROVE  FilesDecide'
  <1>1. /\ inst' = i /\ cfg' = <<>> /\ base' = Merged(i)
        /\ UNCHANGED <<vendor, userFile, vendorFile, said>>
    BY DEF Instancify, cloud
  <1>2. Wanted(i)' <=> Wanted(i)
    BY <1>1 DEF Wanted
  <1>3. Wanted(i) => "vendor_data" \in DOMAIN Merged(i) /\ Merged(i).vendor_data = "on"
    BY MergedAllows DEF FilesDecide
  <1>4. at' \notin Modules \cup {"config", "up"}
    BY DEF Modules, InitModules, ConfigModules
  <1>5. QED
    BY <1>1, <1>2, <1>3, <1>4 DEF FilesDecide, Wanted

\* after user-data was processed,
LEMMA ProcessFiles ==
  ASSUME ConsumptionTypeOK, FilesDecide, Process \/ IncludeTorn \/ UNCHANGED cvars,
         at' \in {"off", "user-data", "config"}, at \in {"update"}, at' = "config" => ~processed'.there
  PROVE  FilesDecide'
  <1>1. UNCHANGED <<vendor, userFile, vendorFile, said, inst, cfg, base>>
    BY DEF Process, ProcessAgain, ProcessPlain, IncludeFromCache, IncludeFetched, IncludeNotOk, Keep,
           IncludeTorn, cvars, cloud, files, process
  <1>2. cfg = <<>> /\ "user-data" \notin Modules \cup {"config", "up"} /\ "off" \notin Modules \cup {"config", "up"}
    BY DEF FilesDecide, Modules, InitModules, ConfigModules
  <1>3. QED
    BY <1>1, <1>2 DEF FilesDecide, Wanted

\* after user-data was consumed,
LEMMA UserdataFiles ==
  ASSUME ConsumptionTypeOK, FilesDecide, ConsumeUserdata, at = "user-data", at' = "vendor-data"
  PROVE  FilesDecide'
  <1>1. /\ inst \in Instances /\ UNCHANGED <<vendor, vendorFile, inst, cfg, base, processed>>
        /\ cfg = <<>>
    BY DEF ConsumeUserdata, ConsumptionTypeOK, FilesDecide, cloud, process
  <1>2. /\ userFile'[inst] = processed
        /\ \A j \in Instances : j # inst => userFile'[j] = userFile[j] /\ said'[j] = said[j]
        /\ said'[inst] = said[inst] \cup {Saying(processed.cfg)}
    BY <1>1 DEF ConsumeUserdata, ConsumptionTypeOK
  <1>3. \A i \in Instances :
           /\ userFile'[i] = Absent \/ Saying(userFile'[i].cfg) \in said'[i]
           /\ said'[i] \subseteq {"off"} => ~vendorFile[i].there
           /\ vendorFile[i] \in {Absent, Holding(vendor[i].cfg)}
    BY <1>2 DEF FilesDecide
  <1>4. Saying(userFile'[inst].cfg) \in said'[inst]
    BY <1>2
  <1>5. Wanted(inst)' => Wanted(inst)
    BY <1>1, <1>2 DEF Wanted
  <1>6. Wanted(inst) => "vendor_data" \in DOMAIN base /\ base.vendor_data = "on"
    BY DEF FilesDecide
  <1>7. at' \notin Modules \cup {"config", "up"}
    BY DEF Modules, InitModules, ConfigModules
  <1>8. (Saying(userFile[inst].cfg) \in said[inst])' /\ \A i \in Instances : (Saying(userFile[i].cfg))' = Saying(userFile'[i].cfg)
    BY <1>1, <1>4 DEF Saying
  <1>9. QED
    BY <1>1, <1>3, <1>5, <1>6, <1>7, <1>8 DEF FilesDecide

\* after vendor-data was,
LEMMA VendordataFiles ==
  ASSUME ConsumptionTypeOK, FilesDecide, ConsumeVendordata, at = "vendor-data", at' = "mounts"
  PROVE  FilesDecide'
  <1>1. inst \in Instances /\ UNCHANGED <<vendor, userFile, inst, processed, said>>
    BY DEF ConsumeVendordata, ConsumptionTypeOK, cloud
  <1> DEFINE use == vendor[inst].given /\ VendorEnabled
             u == userFile[inst].cfg
  <1>2. /\ vendorFile'[inst] = IF use THEN Holding(vendor[inst].cfg) ELSE vendorFile[inst]
        /\ \A j \in Instances : j # inst => vendorFile'[j] = vendorFile[j]
    BY <1>1 DEF ConsumeVendordata, ConsumptionTypeOK
  <1>3. said[inst] \subseteq {"off"} => ~use
    <2>1. Saying(u) \in said[inst] /\ u \in Configs
      BY DEF FilesDecide, ConsumptionTypeOK, Slot
    <2>2. Saying(u) = "off" => "vendor_data" \in DOMAIN u /\ u.vendor_data = "off"
      BY DEF Saying
    <2>3. QED
      BY <2>1, <2>2, VendorEnabledIs
  <1>4. Wanted(inst) => use
    <2>1. Saying(u) \in said[inst] /\ u \in Configs
      BY DEF FilesDecide, ConsumptionTypeOK, Slot
    <2>2. Wanted(inst) /\ "vendor_data" \in DOMAIN u => u.vendor_data = "on"
      BY <2>1, ConsumptionAssumption DEF Saying, Wanted
    <2>3. Wanted(inst) => vendor[inst].given /\ "vendor_data" \in DOMAIN base /\ base.vendor_data = "on"
      BY DEF FilesDecide, Wanted
    <2>4. QED
      BY <2>2, <2>3, VendorEnabledIs
  <1> HIDE DEF use, u
  <1>5. Wanted(inst)' <=> Wanted(inst)
    BY <1>1 DEF Wanted
  <1>6. \A i \in Instances :
           /\ vendorFile'[i] \in {Absent, Holding(vendor[i].cfg)}
           /\ said[i] \subseteq {"off"} => ~vendorFile'[i].there
    BY <1>2, <1>3 DEF FilesDecide
  <1>7. Wanted(inst) => vendorFile'[inst] = Holding(vendor[inst].cfg)
    BY <1>2, <1>4
  <1>8. QED
    BY <1>1, <1>5, <1>6, <1>7 DEF FilesDecide

\* The rest of the boot, and what is between boots, changes nothing of it.
LEMMA OtherFiles ==
  ASSUME ConsumptionTypeOK, FilesDecide, UNCHANGED cvars, at' \notin {"update", "user-data", "vendor-data"},
         at \in {"update", "user-data", "vendor-data"} => at' = "off",
         at = "off" => at' = "off",
         at \in Early \cup Modules \cup {"config", "up", "off"}
  PROVE  FilesDecide'
  <1>1. UNCHANGED <<vendor, userFile, vendorFile, said, inst, cfg, base, processed>>
    BY DEF cvars, cloud, files, process
  <1>2. at' \in Modules \cup {"config", "up"} => at \in Modules \cup {"config", "up"}
    BY DEF Early, Modules, InitModules, ConfigModules
  <1>3. QED
    BY <1>1, <1>2 DEF FilesDecide, Wanted

\* and after the config stage read its configuration.
LEMMA ReadConfigFiles ==
  ASSUME ConsumptionTypeOK, FilesDecide, ReadConfig, at = "config", at' = "set-passwords"
  PROVE  FilesDecide'
  <1>1. UNCHANGED <<vendor, userFile, vendorFile, said, inst, base, processed>>
    BY DEF ReadConfig, cloud, files
  <1>2. QED
    BY <1>1 DEF FilesDecide, Wanted

----------------------------------------------------------------------------
(* What the modules take from the configuration.                            *)

\* What the modules find, a configuration or the system says.
LEMMA SettingsAre ==
  ASSUME ConsumptionTypeOK, cfg = Merged(inst), NEW key, Says(key)
  PROVE  \E c \in Configs \cup {System} : key \in DOMAIN c /\ cfg[key] = c[key]
  <1>1. inst \in Instances
    BY DEF ConsumptionTypeOK
  <1>2. key \in DOMAIN Merged(inst)
    BY DEF Says
  <1>3. \E c \in Configs \cup {System} : key \in DOMAIN c /\ Merged(inst)[key] = c[key]
    BY <1>1, <1>2, MergedLookup
  <1>4. QED
    BY <1>3

\* The host name is none that users choose.
LEMMA HostnameApart ==
  ASSUME ConsumptionTypeOK, cfg = Merged(inst)
  PROVE  Hostname \notin UserNames
  <1>1. CASE Says("hostname")
    <2>1. PICK c \in Configs \cup {System} : "hostname" \in DOMAIN c /\ cfg["hostname"] = c["hostname"]
      BY <1>1, SettingsAre
    <2>2. {cfg.hostname, ShortOf[cfg.hostname]} \cap UserNames = {}
      BY <2>1, NamesAssumption
    <2>3. QED
      BY <1>1, <2>2 DEF Hostname
  <1>2. CASE ~Says("hostname") /\ Says("fqdn")
    <2>1. PICK c \in Configs \cup {System} : "fqdn" \in DOMAIN c /\ cfg["fqdn"] = c["fqdn"]
      BY <1>2, SettingsAre
    <2>2. ShortOf[cfg.fqdn] \notin UserNames
      BY <2>1, NamesAssumption
    <2>3. QED
      BY <1>2, <2>2 DEF Hostname
  <1>3. CASE ~Says("hostname") /\ ~Says("fqdn")
    BY <1>3, NamesAssumption DEF Hostname, ConsumptionTypeOK
  <1>4. QED
    BY <1>1, <1>2, <1>3

\* The users of the configuration are accounts there may be.
LEMMA ListedAre ==
  ASSUME ConsumptionTypeOK, cfg = Merged(inst)
  PROVE  DOMAIN Listed \subseteq Users
  <1>1. CASE Says("users")
    <2>1. PICK c \in Configs \cup {System} : "users" \in DOMAIN c /\ cfg["users"] = c["users"]
      BY <1>1, SettingsAre
    <2>2. QED
      BY <1>1, <2>1, AccountsAssumption DEF Listed, Setting
  <1>2. CASE ~Says("users")
    BY <1>2 DEF Listed, Setting
  <1>3. QED
    BY <1>1, <1>2

\* The keys of the cloud and of the configuration are authorized keys.
LEMMA KeysAre ==
  ASSUME ConsumptionTypeOK, cfg = Merged(inst)
  PROVE  InstanceKeys \subseteq AuthKeys
  <1>1. CloudKeys[inst] \subseteq AuthKeys
    BY AccountsAssumption DEF ConsumptionTypeOK
  <1>2. CASE Says("ssh_authorized_keys")
    <2>1. PICK c \in Configs \cup {System} :
            "ssh_authorized_keys" \in DOMAIN c /\ cfg["ssh_authorized_keys"] = c["ssh_authorized_keys"]
      BY <1>2, SettingsAre
    <2>2. QED
      BY <1>1, <1>2, <2>1, AccountsAssumption DEF InstanceKeys, Setting
  <1>3. CASE ~Says("ssh_authorized_keys")
    BY <1>1, <1>3 DEF InstanceKeys, Setting
  <1>4. QED
    BY <1>2, <1>3

----------------------------------------------------------------------------
(* The steps of Guest.                                                      *)

\* The inputs and files stay what they are while modules run, and the merged
\* configuration with them.
LEMMA MergedStays ==
  ASSUME UNCHANGED cvars \/ ReadConfig
  PROVE  Merged(inst)' = Merged(inst)
  BY DEF Merged, cvars, cloud, files, process, ReadConfig

\* Where a step of the boot leads.
LEMMA AtModule ==
  ASSUME NEW m \in Modules, Module(m)
  PROVE  /\ at = m /\ at' = After(m) /\ UNCHANGED cvars
         /\ at' \in Modules \cup {"config", "up"}
         /\ at' \in InitModules => m \in InitModules \ {"ssh"}
         /\ at' \in {"config", "set-passwords"} => m = "ssh"
         /\ m \in InitModules => at' # "up"
  BY AfterModule DEF Module, Goes

\* The places of the early stages, and those of the modules.
LEMMA PlacesOfBoot ==
  /\ \A place \in Early : place \notin Modules \cup {"config", "up", "off"}
  /\ {"config", "up", "off"} \cap Modules = {}
  /\ InitModules \subseteq Modules /\ "set-passwords" \in Modules \ InitModules
  /\ "mounts" \in InitModules /\ "ssh" \in InitModules
  BY DEF Early, Modules, InitModules, ConfigModules

\* The three parts about data and files, of every step.
LEMMA ConsumptionStep ==
  ASSUME TypeOK, CacheDecides, FilesDecide, [Next]_vars
  PROVE  ConsumptionTypeOK' /\ CacheDecides' /\ FilesDecide'
  <1>1. ConsumptionTypeOK /\ at \in Early \cup Modules \cup {"config", "up", "off"}
    BY PlacesAre DEF TypeOK
  <1>2. CASE UNCHANGED vars
    <2>1. UNCHANGED cvars /\ at' = at
      BY <1>2 DEF vars, guest
    <2>2. UNCHANGED <<data, vendor, pkl, urlcache, userFile, vendorFile, inst, processed, base, cfg,
                      onced, torn, said>>
      BY <2>1 DEF cvars, cloud, files, process
    <2>3. FilesDecide'
      BY <2>1, <2>2 DEF FilesDecide, Wanted, Saying
    <2>4. QED
      BY <1>1, <2>1, <2>3, OtherTyped, OtherCache
  <1>3. ASSUME NEW i \in Instances, PowerOn(i)
        PROVE  ConsumptionTypeOK' /\ CacheDecides' /\ FilesDecide'
    <2>1. Instancify(i) /\ at' = "update"
      BY <1>3 DEF PowerOn
    <2>2. QED
      BY <1>1, <2>1, InstancifyTyped, InstancifyCache, InstancifyFiles
  <1>4. CASE Update
    <2>1. Process /\ at = "update" /\ at' = "user-data"
      BY <1>4, BootOrder DEF Update, Goes
    <2>2. QED
      BY <1>1, <2>1, ProcessTyped, ProcessCache, ProcessFiles
  <1>5. CASE UpdateFails
    <2>1. UNCHANGED cvars /\ at = "update" /\ at' = "config" /\ ~processed.there /\ processed' = processed
      BY <1>5 DEF UpdateFails, IncludeRaises, cvars, process
    <2>2. QED
      BY <1>1, <2>1, OtherTyped, OtherCache, ProcessFiles
  <1>6. CASE ConsumeUser
    <2>1. ConsumeUserdata /\ at = "user-data" /\ at' = "vendor-data"
      BY <1>6, BootOrder DEF ConsumeUser, Goes
    <2>2. processed.there
      BY <2>1 DEF CacheDecides
    <2>3. QED
      BY <1>1, <2>1, <2>2, UserdataTyped, UserdataCache, UserdataFiles
  <1>7. CASE ConsumeVendor
    <2>1. ConsumeVendordata /\ at = "vendor-data" /\ at' = "mounts"
      BY <1>7, BootOrder DEF ConsumeVendor, Goes
    <2>2. QED
      BY <1>1, <2>1, VendordataTyped, VendordataCache, VendordataFiles
  <1>8. CASE StageConfig
    <2>1. ReadConfig /\ at = "config" /\ at' = "set-passwords"
      BY <1>8, BootOrder DEF StageConfig, Goes
    <2>2. QED
      BY <1>1, <2>1, OtherTyped, OtherCache, ReadConfigFiles
  <1>9. ASSUME NEW m \in Modules, Module(m)
        PROVE  ConsumptionTypeOK' /\ CacheDecides' /\ FilesDecide'
    <2>1. UNCHANGED cvars /\ at = m /\ at' \in Modules \cup {"config", "up"}
      BY <1>9, AtModule
    <2>2. /\ at' \notin Early /\ at \notin Early /\ at # "off" /\ at' # "user-data"
      BY <2>1, PlacesOfBoot DEF Early
    <2>3. FilesDecide'
      BY <1>1, <2>1, <2>2, OtherFiles DEF Early
    <2>4. QED
      BY <1>1, <2>1, <2>2, <2>3, OtherTyped, OtherCache
  <1>10. CASE Killed
    <2>1. at' = "off" /\ (UNCHANGED cvars \/ (at = "update" /\ IncludeTorn))
      BY <1>10 DEF Killed
    <2>2. CASE UNCHANGED cvars
      BY <1>1, <2>1, <2>2, OtherTyped, OtherCache, OtherFiles
    <2>3. CASE at = "update" /\ IncludeTorn
      BY <1>1, <2>1, <2>3, TornTyped, TornCache, ProcessFiles
    <2>4. QED
      BY <2>1, <2>2, <2>3
  <1>11. CASE UserActs
    <2>1. at = "up" /\ at' = "off" /\ UNCHANGED cvars
      BY <1>11 DEF UserActs
    <2>2. QED
      BY <1>1, <2>1, OtherTyped, OtherCache, OtherFiles
  <1>12. QED
    BY <1>2, <1>3, <1>4, <1>5, <1>6, <1>7, <1>8, <1>9, <1>10, <1>11 DEF Next

\* The configuration of the modules, and whether ssh has run, of every step.
LEMMA ConfiguredStep ==
  ASSUME TypeOK, ModulesConfigured, [Next]_vars
  PROVE  ModulesConfigured'
  <1>1. CASE UNCHANGED vars
    <2>1. UNCHANGED cvars /\ at' = at /\ called' = called
      BY <1>1 DEF vars, guest
    <2>2. cfg' = cfg /\ Merged(inst)' = Merged(inst)
      BY <2>1, MergedStays DEF cvars, process
    <2>3. QED
      BY <2>1, <2>2 DEF ModulesConfigured
  <1>2. ASSUME NEW i \in Instances, PowerOn(i)
        PROVE  ModulesConfigured'
    BY <1>2 DEF PowerOn, ModulesConfigured, InitModules
  <1>3. CASE Update \/ ConsumeUser
    <2>1. at' \in {"user-data", "vendor-data"} /\ at \in {"update", "user-data"} /\ called' = called
      BY <1>3, BootOrder DEF Update, ConsumeUser, Goes
    <2>2. QED
      BY <2>1 DEF ModulesConfigured, InitModules
  <1>4. CASE UpdateFails
    BY <1>4 DEF UpdateFails, ModulesConfigured, InitModules
  <1>5. CASE ConsumeVendor
    <2>1. at = "vendor-data" /\ at' = "mounts" /\ called' = called /\ cfg' = Merged(inst)'
      BY <1>5, BootOrder DEF ConsumeVendor, ConsumeVendordata, Goes
    <2>2. QED
      BY <2>1 DEF ModulesConfigured
  <1>6. CASE StageConfig
    <2>1. at = "config" /\ at' = "set-passwords" /\ called' = called /\ cfg' = Merged(inst) /\ ReadConfig
      BY <1>6, BootOrder DEF StageConfig, ReadConfig, Goes
    <2>2. Merged(inst)' = Merged(inst)
      BY <2>1, MergedStays
    <2>3. QED
      BY <2>1, <2>2 DEF ModulesConfigured, InitModules
  <1>7. ASSUME NEW m \in Modules, Module(m)
        PROVE  ModulesConfigured'
    <2>1. /\ at = m /\ UNCHANGED cvars /\ at' \in Modules \cup {"config", "up"}
          /\ at' \in InitModules => m \in InitModules \ {"ssh"}
          /\ at' \in {"config", "set-passwords"} => m = "ssh"
          /\ m \in InitModules => at' # "up"
      BY <1>7, AtModule
    <2>2. cfg' = cfg /\ Merged(inst)' = Merged(inst)
      BY <2>1, MergedStays DEF cvars, process
    <2>3. called' \subseteq called \cup {m}
      BY <1>7 DEF Module
    <2>4. at' \in InitModules => cfg = Merged(inst) /\ "ssh" \notin called'
      BY <2>1, <2>3 DEF ModulesConfigured
    <2>5. at' \notin Early
      BY <2>1, PlacesOfBoot
    <2>6. at' \in {"config", "set-passwords"} => cfg = Merged(inst)
      BY <2>1, PlacesOfBoot DEF ModulesConfigured
    <2>7. at' = "up" /\ "ssh" \in called' => cfg = Merged(inst)
      <3>1. at' = "up" => m = "set-passwords"
        BY <2>1 DEF Modules, ConfigModules
      <3>2. QED
        BY <2>1, <2>3, <3>1 DEF ModulesConfigured
    <2>8. QED
      BY <2>2, <2>4, <2>5, <2>6, <2>7 DEF ModulesConfigured, Early
  <1>8. CASE Killed \/ UserActs
    BY <1>8 DEF Killed, UserActs, ModulesConfigured, InitModules
  <1>9. QED
    BY <1>1, <1>2, <1>3, <1>4, <1>5, <1>6, <1>7, <1>8 DEF Next

\* A module that is called runs its handler, with the configuration of the files.
LEMMA HandlerRuns ==
  ASSUME NEW m \in InitModules, ModulesConfigured, Module(m)
  PROVE  /\ cfg = Merged(inst) /\ UNCHANGED cvars
         /\ \/ UNCHANGED <<names, mounts, accounts, sems, called>>
            \/ Handler(m) /\ sems' = sems \cup {<<inst, m>>} /\ called' = called \cup {m}
  BY DEF Module, Goes, ModulesConfigured

\* SetHostname and UpdateHostname keep a user's name apart from cloud-init's.
LEMMA SetHostnameApart ==
  ASSUME ConsumptionTypeOK, cfg = Merged(inst), NamesApart, SetHostname
  PROVE  NamesApart' /\ (chosen # NoName /\ chosen' = chosen => sysName' = sysName)
  BY DEF SetHostname, NamesApart, names

\* update_hostname keeps a name that the user chose.
LEMMA UpdateHostnameApart ==
  ASSUME ConsumptionTypeOK, cfg = Merged(inst), NamesApart, UpdateHostname
  PROVE  NamesApart' /\ (chosen # NoName /\ chosen' = chosen => sysName' = sysName)
  <1>1. Hostname \notin UserNames
    BY HostnameApart
  <1>2. CASE True("preserve_hostname")
    BY <1>2 DEF UpdateHostname, NamesApart, names
  <1>3. CASE ~True("preserve_hostname")
    <2>1. PICK written \in SUBSET FilesToWrite :
             /\ prevName' = IF "previous" \in written THEN Hostname ELSE prevName
             /\ sysName' = IF "system" \in written THEN Hostname ELSE sysName
      BY <1>3 DEF UpdateHostname
    <2>2. chosen' = chosen
      BY <1>3 DEF UpdateHostname
    <2>3. chosen # NoName => "system" \notin FilesToWrite
      BY NamesAssumption DEF NamesApart, FilesToWrite, UserMaintained
    <2>4. chosen # NoName => sysName' = sysName
      BY <2>1, <2>3
    <2>5. prevName' \in {Hostname, prevName}
      BY <2>1
    <2>6. QED
      BY <1>1, <2>2, <2>4, <2>5 DEF NamesApart
  <1>4. QED
    BY <1>2, <1>3

\* The host name, of every step.
LEMMA NamesStep ==
  ASSUME TypeOK, ModulesConfigured, NamesApart, [Next]_vars
  PROVE  NamesApart' /\ (chosen # NoName /\ chosen' = chosen => sysName' = sysName)
  <1>1. ConsumptionTypeOK
    BY DEF TypeOK
  <1>2. ASSUME UNCHANGED <<sysName, prevName, chosen>>
        PROVE  NamesApart' /\ (chosen # NoName /\ chosen' = chosen => sysName' = sysName)
    BY <1>2 DEF NamesApart
  <1>3. CASE UNCHANGED vars
    BY <1>2, <1>3 DEF vars, names
  <1>4. ASSUME NEW i \in Instances, PowerOn(i)
        PROVE  UNCHANGED <<sysName, prevName, chosen>>
    BY <1>4 DEF PowerOn
  <1>5. CASE Update \/ UpdateFails \/ ConsumeUser \/ ConsumeVendor \/ StageConfig \/ Killed
    BY <1>2, <1>5 DEF Update, UpdateFails, ConsumeUser, ConsumeVendor, StageConfig, Killed, names
  <1>6. ASSUME NEW m \in Modules, Module(m)
        PROVE  NamesApart' /\ (chosen # NoName /\ chosen' = chosen => sysName' = sysName)
    <2>1. CASE m = "set-passwords"
      <3>1. UNCHANGED names
        BY <1>6, <2>1 DEF Module, Handler
      <3>2. QED
        BY <1>2, <3>1 DEF names
    <2>2. CASE m \in InitModules
      <3>1. cfg = Merged(inst) /\ (UNCHANGED names \/ Handler(m))
        BY <1>6, <2>2, HandlerRuns
      <3>2. CASE UNCHANGED names
        BY <1>2, <3>2 DEF names
      <3>3. CASE SetHostname
        BY <1>1, <3>1, <3>3, SetHostnameApart
      <3>4. CASE UpdateHostname
        BY <1>1, <3>1, <3>4, UpdateHostnameApart
      <3>5. CASE UpdateEtcHosts
        BY <1>2, <3>5 DEF UpdateEtcHosts
      <3>6. QED
        BY <3>1, <3>2, <3>3, <3>4, <3>5 DEF Handler
    <2>3. QED
      BY <2>1, <2>2 DEF Modules, ConfigModules
  <1>7. CASE UserActs
    <2>1. CASE UNCHANGED names
      BY <1>2, <2>1 DEF names
    <2>2. ASSUME NEW n \in UserNames, UserRenames(n)
          PROVE  NamesApart' /\ (chosen # NoName /\ chosen' = chosen => sysName' = sysName)
      BY <2>2 DEF UserRenames, NamesApart
    <2>3. QED
      BY <1>7, <2>1, <2>2 DEF UserActs
  <1>8. QED
    BY <1>2, <1>3, <1>4, <1>5, <1>6, <1>7 DEF Next

----------------------------------------------------------------------------
(* The machine's users, keys and swap file.                                 *)

AccountsTypeOK ==
    /\ exist \subseteq Users /\ locked \cup expired \subseteq exist
    /\ authorized \in [Users \cup {"root"} -> [AuthKeys -> {"open", "restricted", "absent"}]]

\* Keys that are added to a file of keys.
LEMMA WithKeysType ==
  ASSUME NEW old \in [AuthKeys -> {"open", "restricted", "absent"}], NEW keys,
         NEW how \in {"open", "restricted", "absent"}
  PROVE  WithKeys(old, keys, how) \in [AuthKeys -> {"open", "restricted", "absent"}]
  BY DEF WithKeys

\* The types of users and keys, after users-groups,
LEMMA UsersTyped ==
  ASSUME ConsumptionTypeOK, cfg = Merged(inst), AccountsTypeOK, UsersGroups
  PROVE  AccountsTypeOK'
  <1>1. PICK done \in SUBSET DOMAIN Listed : Created(done)
    BY DEF UsersGroups
  <1>2. done \subseteq Users
    BY ListedAre
  <1>3. exist' = exist \cup done /\ locked' \subseteq locked \cup done /\ expired' = expired
    BY <1>1 DEF Created, UsersGroups
  <1>4. authorized' \in [Users \cup {"root"} -> [AuthKeys -> {"open", "restricted", "absent"}]]
    <2>1. \A u \in Users \cup {"root"} :
             WithKeys(authorized[u], Listed[u].keys, "open") \in [AuthKeys -> {"open", "restricted", "absent"}]
      BY WithKeysType DEF AccountsTypeOK
    <2>2. QED
      BY <1>1, <2>1 DEF Created, AccountsTypeOK
  <1>5. QED
    BY <1>2, <1>3, <1>4 DEF AccountsTypeOK

\* ssh,
LEMMA SshTyped ==
  ASSUME AccountsTypeOK, Ssh
  PROVE  AccountsTypeOK'
  <1>1. UNCHANGED <<exist, locked, expired>>
    BY DEF Ssh
  <1>2. authorized' \in [Users \cup {"root"} -> [AuthKeys -> {"open", "restricted", "absent"}]]
    <2>1. \A u \in Users \cup {"root"} : \A how \in {"open", "restricted"} :
             WithKeys(authorized[u], InstanceKeys, how) \in [AuthKeys -> {"open", "restricted", "absent"}]
      BY WithKeysType DEF AccountsTypeOK
    <2>2. CASE ~(DefaultUser \subseteq exist)
      BY <2>2 DEF Ssh, Credentials, AccountsTypeOK
    <2>3. CASE DefaultUser \subseteq exist
      <3>1. PICK how \in {"open", "restricted"} : authorized' =
               [u \in DOMAIN authorized |->
                  IF u = "root" THEN WithKeys(authorized[u], InstanceKeys, how)
                  ELSE IF u \in DefaultUser THEN WithKeys(authorized[u], InstanceKeys, "open")
                  ELSE authorized[u]]
        BY <2>3 DEF Ssh, Credentials
      <3>2. QED
        BY <2>1, <3>1 DEF AccountsTypeOK
    <2>4. QED
      BY <2>2, <2>3
  <1>3. QED
    BY <1>1, <1>2 DEF AccountsTypeOK

\* and set-passwords; and that of the swap file.
LEMMA PasswordsTyped ==
  ASSUME AccountsTypeOK, SetPasswords
  PROVE  AccountsTypeOK'
  <1>1. UNCHANGED <<exist, authorized>> /\ locked' \subseteq locked /\ expired' \subseteq expired \cup exist
    BY DEF SetPasswords
  <1>2. QED
    BY <1>1 DEF AccountsTypeOK

\* The swap file, after mounts and at boot.
LEMMA SwapTyped ==
  ASSUME swapFile \in {"absent", "made", "used"}, SwapAtBoot \/ HandleMounts
  PROVE  swapFile' \in {"absent", "made", "used"}
  BY DEF SwapAtBoot, HandleMounts, SwapReturns

\* The configuration that a step leaves is none, the same, or that of the files.
LEMMA CfgStep ==
  ASSUME [Next]_vars
  PROVE  cfg' \in {<<>>, cfg, Merged(inst)'}
  <1>1. UNCHANGED cvars => cfg' = cfg
    BY DEF cvars, process
  <1>2. CASE UNCHANGED vars
    BY <1>1, <1>2 DEF vars
  <1>3. ASSUME NEW i \in Instances, PowerOn(i) PROVE cfg' = <<>>
    BY <1>3 DEF PowerOn, Instancify
  <1>4. CASE Update
    BY <1>1, <1>4 DEF Update, Process, ProcessAgain, ProcessPlain, IncludeFromCache, IncludeFetched,
                      IncludeNotOk, Keep
  <1>5. CASE UpdateFails
    BY <1>1, <1>5 DEF UpdateFails, IncludeRaises
  <1>6. CASE ConsumeUser
    BY <1>6 DEF ConsumeUser, ConsumeUserdata, process
  <1>7. CASE ConsumeVendor
    BY <1>7 DEF ConsumeVendor, ConsumeVendordata
  <1>8. CASE StageConfig
    <2>1. cfg' = Merged(inst) /\ Merged(inst)' = Merged(inst)
      BY <1>8, MergedStays DEF StageConfig, ReadConfig
    <2>2. QED
      BY <2>1
  <1>9. ASSUME NEW m \in Modules, Module(m) PROVE cfg' = cfg
    BY <1>1, <1>9 DEF Module
  <1>10. CASE Killed
    BY <1>1, <1>10 DEF Killed, IncludeTorn, process
  <1>11. CASE UserActs
    BY <1>1, <1>11 DEF UserActs
  <1>12. QED
    BY <1>2, <1>3, <1>4, <1>5, <1>6, <1>7, <1>8, <1>9, <1>10, <1>11 DEF Next

\* What the files say of mounts is a sequence, now
LEMMA MountsMerged ==
  ConsumptionTypeOK /\ cfg = Merged(inst) => (Says("mounts") => cfg.mounts \in Seq(Range(cfg.mounts)))
  <1>1. ASSUME ConsumptionTypeOK, cfg = Merged(inst), Says("mounts")
        PROVE  cfg.mounts \in Seq(Range(cfg.mounts))
    <2>1. PICK c \in Configs \cup {System} : "mounts" \in DOMAIN c /\ cfg["mounts"] = c["mounts"]
      BY <1>1, SettingsAre
    <2>2. QED
      BY <2>1, MountsAssumption
  <1>2. QED
    BY <1>1

\* and after a step.
LEMMA MountsThen ==
  (ConsumptionTypeOK /\ cfg = Merged(inst) => (Says("mounts") => cfg.mounts \in Seq(Range(cfg.mounts))))'
  BY MountsMerged, PTL

\* fstab stays a sequence of lines, of every step.
LEMMA FstabStep ==
  ASSUME FstabTypeOK, ConsumptionTypeOK', [Next]_vars
  PROVE  FstabTypeOK'
  <1>1. (Says("mounts") => cfg.mounts \in Seq(Range(cfg.mounts)))'
    <2>1. CASE cfg' = <<>>
      BY <2>1 DEF Says
    <2>2. CASE cfg' = cfg
      BY <2>2 DEF Says, FstabTypeOK
    <2>3. CASE cfg' = Merged(inst)'
      BY <2>3, MountsThen
    <2>4. QED
      BY <2>1, <2>2, <2>3, CfgStep
  <1>2. fstab' \in Seq(Range(fstab'))
    <2>1. UNCHANGED fstab => fstab' \in Seq(Range(fstab'))
      BY DEF FstabTypeOK
    <2>2. ASSUME HandleMounts PROVE fstab' \in Seq(Range(fstab'))
      <3>1. PICK swap \in BOOLEAN :
               fstab' = IF ActList(swap) = <<>> THEN fstab ELSE Written(fstab, ActList(swap))
        BY <2>2 DEF HandleMounts
      <3>2. ActList(swap) \in Seq(Range(ActList(swap)))
        BY ActListIs
      <3>3. Written(fstab, ActList(swap)) \in Seq(Range(Written(fstab, ActList(swap))))
        BY <3>2, WrittenForeign DEF FstabTypeOK
      <3>4. QED
        BY <2>1, <3>1, <3>3
    <2>3. ASSUME NEW l, UserMounts(l) PROVE fstab' \in Seq(Range(fstab'))
      <3> DEFINE Z == Range(fstab) \cup {l}
      <3>1. fstab \in Seq(Z) /\ l \in Z
        BY SeqMonotonic DEF FstabTypeOK
      <3> HIDE DEF Z
      <3>2. fstab' \in Seq(Z)
        BY <2>3, <3>1, AppendProperties DEF UserMounts
      <3>3. QED
        BY <3>2, SeqOfRange
    <2>4. UNCHANGED mounts \/ SwapAtBoot => UNCHANGED fstab
      BY DEF mounts, SwapAtBoot
    <2>5. CASE UNCHANGED vars
      BY <2>1, <2>4, <2>5 DEF vars
    <2>6. ASSUME NEW i \in Instances, PowerOn(i) PROVE UNCHANGED fstab
      BY <2>4, <2>6 DEF PowerOn
    <2>7. ASSUME NEW m \in Modules, Module(m) PROVE UNCHANGED mounts \/ HandleMounts
      BY <2>7 DEF Module, Handler
    <2>8. UserActs => UNCHANGED mounts \/ \E l : UserMounts(l)
      BY DEF UserActs
    <2>9. CASE Update \/ UpdateFails \/ ConsumeUser \/ ConsumeVendor \/ StageConfig \/ Killed
      BY <2>1, <2>4, <2>9 DEF Update, UpdateFails, ConsumeUser, ConsumeVendor, StageConfig, Killed
    <2>10. QED
      BY <2>1, <2>2, <2>3, <2>4, <2>5, <2>6, <2>7, <2>8, <2>9 DEF Next
  <1>3. QED
    BY <1>1, <1>2 DEF FstabTypeOK

\* Users and their keys, and the swap file, of every step.
LEMMA AccountsStep ==
  ASSUME TypeOK, ModulesConfigured, [Next]_vars
  PROVE  AccountsTypeOK' /\ swapFile' \in {"absent", "made", "used"}
  <1>1. ConsumptionTypeOK /\ AccountsTypeOK /\ swapFile \in {"absent", "made", "used"}
    BY DEF TypeOK, AccountsTypeOK
  <1>2. UNCHANGED accounts => AccountsTypeOK'
    BY <1>1 DEF accounts, AccountsTypeOK
  <1>3. UNCHANGED mounts => swapFile' \in {"absent", "made", "used"}
    BY <1>1 DEF mounts
  <1>4. CASE UNCHANGED vars
    BY <1>2, <1>3, <1>4 DEF vars
  <1>5. ASSUME NEW i \in Instances, PowerOn(i)
        PROVE  AccountsTypeOK' /\ swapFile' \in {"absent", "made", "used"}
    BY <1>1, <1>2, <1>5, SwapTyped DEF PowerOn
  <1>6. CASE Update \/ UpdateFails \/ ConsumeUser \/ ConsumeVendor \/ StageConfig \/ Killed
    BY <1>2, <1>3, <1>6 DEF Update, UpdateFails, ConsumeUser, ConsumeVendor, StageConfig, Killed
  <1>7. ASSUME NEW m \in Modules, Module(m)
        PROVE  AccountsTypeOK' /\ swapFile' \in {"absent", "made", "used"}
    <2>1. UNCHANGED <<mounts, accounts>> \/ Handler(m)
      BY <1>7 DEF Module
    <2>2. CASE m \in InitModules
      <3>1. cfg = Merged(inst)
        BY <1>7, <2>2, HandlerRuns
      <3>2. CASE UNCHANGED <<mounts, accounts>>
        BY <1>2, <1>3, <3>2
      <3>3. CASE HandleMounts /\ UNCHANGED <<names, accounts>>
        BY <1>1, <1>2, <3>3, SwapTyped
      <3>4. CASE UsersGroups /\ UNCHANGED <<names, mounts>>
        BY <1>1, <1>3, <3>1, <3>4, UsersTyped
      <3>5. CASE Ssh /\ UNCHANGED <<names, mounts>>
        BY <1>1, <1>3, <3>5, SshTyped
      <3>6. QED
        BY <2>1, <2>2, <3>2, <3>3, <3>4, <3>5 DEF Handler, InitModules
    <2>3. CASE m = "set-passwords"
      <3>1. UNCHANGED <<mounts, accounts>> \/ (SetPasswords /\ UNCHANGED <<names, mounts>>)
        BY <2>1, <2>3 DEF Handler
      <3>2. QED
        BY <1>1, <1>2, <1>3, <3>1, PasswordsTyped
    <2>4. QED
      BY <2>2, <2>3 DEF Modules, ConfigModules
  <1>8. CASE UserActs
    <2>1. \A l : UserMounts(l) => swapFile' = swapFile
      BY DEF UserMounts
    <2>2. swapFile' \in {"absent", "made", "used"}
      BY <1>1, <1>3, <1>8, <2>1 DEF UserActs
    <2>3. ASSUME NEW k \in AuthKeys, UserAuthorizes(k)
          PROVE  AccountsTypeOK'
      BY <1>1, <2>3 DEF UserAuthorizes, AccountsTypeOK
    <2>4. QED
      BY <1>2, <1>8, <2>2, <2>3 DEF UserActs
  <1>9. QED
    BY <1>4, <1>5, <1>6, <1>7, <1>8 DEF Next

\* The host keys that cc_ssh leaves, of those it could delete, are its own.
LEMMA KeysRenewed ==
  ASSUME NEW resisted, NEW ungenerated, HostKeys(resisted, ungenerated)
  PROVE  HostKeysOfInstance'
  <1>1. CASE ~Deleted
    <2>1. rid' = <<NoDevice, {}>>
      BY <1>1 DEF HostKeys
    <2>2. QED
      BY <2>1 DEF HostKeysOfInstance
  <1>2. CASE Deleted
    <2>1. rid' = <<inst, resisted>>
      BY <1>2 DEF HostKeys
    <2>2. ASSUME NEW t \in KeyTypes, <<t, "key">> \notin resisted
          PROVE  hostKeys'[t] \in {inst, NoDevice}
      BY <1>2, <2>2 DEF HostKeys, StaticFiles
    <2>3. ASSUME NEW t \in KeyTypes, <<t, "pub">> \notin resisted
          PROVE  hostPubs'[t] \in {inst, NoDevice}
      BY <1>2, <2>3 DEF HostKeys, StaticFiles
    <2>4. QED
      BY <2>1, <2>2, <2>3 DEF HostKeysOfInstance
  <1>3. QED
    BY <1>1, <1>2

\* The host keys, of every step.
LEMMA HostKeysStep ==
  ASSUME HostKeysOfInstance, [Next]_vars
  PROVE  HostKeysOfInstance'
  <1>1. ASSUME UNCHANGED <<hostKeys, hostPubs, rid>>
        PROVE  HostKeysOfInstance'
    BY <1>1 DEF HostKeysOfInstance
  <1>2. CASE UNCHANGED vars
    BY <1>1, <1>2 DEF vars, accounts
  <1>3. ASSUME NEW i \in Instances, PowerOn(i)
        PROVE  HostKeysOfInstance'
    BY <1>1, <1>3 DEF PowerOn, accounts
  <1>4. CASE Update \/ UpdateFails \/ ConsumeUser \/ ConsumeVendor \/ StageConfig \/ Killed
    BY <1>1, <1>4 DEF Update, UpdateFails, ConsumeUser, ConsumeVendor, StageConfig, Killed, accounts
  <1>5. ASSUME NEW m \in Modules, Module(m)
        PROVE  HostKeysOfInstance'
    <2>1. UNCHANGED accounts \/ UsersGroups \/ Ssh \/ SetPasswords
      BY <1>5 DEF Module, Handler
    <2>2. CASE UNCHANGED accounts \/ UsersGroups \/ SetPasswords
      BY <1>1, <2>2 DEF accounts, UsersGroups, SetPasswords
    <2>3. CASE Ssh
      BY <2>3, KeysRenewed DEF Ssh
    <2>4. QED
      BY <2>1, <2>2, <2>3
  <1>6. CASE UserActs
    BY <1>1, <1>6 DEF UserActs, accounts, UserAuthorizes
  <1>7. QED
    BY <1>2, <1>3, <1>4, <1>5, <1>6 DEF Next

\* cc_ssh restricts its keys in root's file, whatever the file had.
LEMMA SshRestricts ==
  ASSUME ConsumptionTypeOK, cfg = Merged(inst), AccountsTypeOK, Ssh, UNCHANGED cvars,
         DefaultUser' \subseteq exist', Setting("disable_root", "true")' = "true"
  PROVE  \A k \in InstanceKeys' : authorized'["root"][k] # "open"
  <1>1. /\ DefaultUser' = DefaultUser /\ InstanceKeys' = InstanceKeys /\ exist' = exist
        /\ Setting("disable_root", "true")' = Setting("disable_root", "true")
    BY DEF DefaultUser, InstanceKeys, Listed, Setting, Says, cvars, process, Ssh
  <1>2. authorized' = [u \in DOMAIN authorized |->
               IF u = "root" THEN WithKeys(authorized[u], InstanceKeys, "restricted")
               ELSE IF u \in DefaultUser THEN WithKeys(authorized[u], InstanceKeys, "open")
               ELSE authorized[u]]
    BY <1>1 DEF Ssh, Credentials
  <1>3. authorized'["root"] = WithKeys(authorized["root"], InstanceKeys, "restricted")
    BY <1>2 DEF AccountsTypeOK
  <1>4. QED
    BY <1>1, <1>3, KeysAre DEF WithKeys

\* Root's file, of every step.
LEMMA RootStep ==
  ASSUME TypeOK, ModulesConfigured, RootStaysRestricted, [Next]_vars
  PROVE  RootStaysRestricted'
  <1>1. ConsumptionTypeOK /\ AccountsTypeOK
    BY DEF TypeOK, AccountsTypeOK
  <1>2. ASSUME at \in {"config", "set-passwords", "up"}, "ssh" \in called' => "ssh" \in called,
               UNCHANGED <<inst, cfg, exist, authorized>>
        PROVE  RootStaysRestricted'
    BY <1>2 DEF RootStaysRestricted, DefaultUser, InstanceKeys, Listed, Setting, Says
  <1>3. CASE UNCHANGED vars
    BY <1>3 DEF vars, guest, accounts, cvars, process,
                RootStaysRestricted, DefaultUser, InstanceKeys, Listed, Setting, Says
  <1>4. ASSUME NEW i \in Instances, PowerOn(i)
        PROVE  RootStaysRestricted'
    BY <1>4 DEF PowerOn, RootStaysRestricted
  <1>5. CASE Update \/ ConsumeUser \/ ConsumeVendor
    <2>1. at' \in {"user-data", "vendor-data", "mounts"}
      BY <1>5, BootOrder DEF Update, ConsumeUser, ConsumeVendor, Goes
    <2>2. QED
      BY <2>1 DEF RootStaysRestricted
  <1>6. CASE UpdateFails
    <2>1. "ssh" \notin called'
      BY <1>6 DEF UpdateFails, ModulesConfigured
    <2>2. QED
      BY <2>1 DEF RootStaysRestricted
  <1>7. CASE StageConfig
    <2>1. at = "config" /\ called' = called /\ cfg' = Merged(inst) /\ UNCHANGED <<inst, exist, authorized>>
      BY <1>7 DEF StageConfig, Goes, ReadConfig, accounts
    <2>2. CASE "ssh" \notin called
      BY <2>1, <2>2 DEF RootStaysRestricted
    <2>3. CASE "ssh" \in called
      <3>1. cfg' = cfg
        BY <2>1, <2>3 DEF ModulesConfigured
      <3>2. QED
        BY <1>2, <2>1, <3>1
    <2>4. QED
      BY <2>2, <2>3
  <1>8. ASSUME NEW m \in Modules, Module(m)
        PROVE  RootStaysRestricted'
    <2>1. /\ at = m /\ UNCHANGED cvars
          /\ at' \in {"config", "set-passwords"} => m = "ssh"
          /\ m \in InitModules => at' # "up"
      BY <1>8, AtModule
    <2>2. CASE at' \notin {"config", "set-passwords", "up"}
      BY <2>2 DEF RootStaysRestricted
    <2>3. CASE m = "ssh"
      <3>1. m \in InitModules
        BY <2>3, PlacesOfBoot
      <3>2. cfg = Merged(inst)
        BY <1>8, <3>1, HandlerRuns
      <3>3. called' = called \/ Ssh
        BY <1>8, <2>3 DEF Module, Handler
      <3>4. CASE Ssh
        BY <1>1, <2>1, <3>2, <3>4, SshRestricts DEF RootStaysRestricted
      <3>5. CASE called' = called
        BY <2>1, <3>1, <3>5 DEF ModulesConfigured, RootStaysRestricted
      <3>6. QED
        BY <3>3, <3>4, <3>5
    <2>4. CASE m = "set-passwords"
      <3>1. UNCHANGED <<exist, authorized>> /\ called' \subseteq called \cup {"set-passwords"}
        BY <1>8, <2>4 DEF Module, Handler, SetPasswords, accounts
      <3>2. QED
        BY <1>2, <2>1, <2>4, <3>1 DEF cvars, process
    <2>5. QED
      BY <2>1, <2>2, <2>3, <2>4 DEF Modules, ConfigModules
  <1>9. CASE Killed \/ UserActs
    BY <1>9 DEF Killed, UserActs, RootStaysRestricted
  <1>10. QED
    BY <1>3, <1>4, <1>5, <1>6, <1>7, <1>8, <1>9 DEF Next

----------------------------------------------------------------------------
(* The theorems.                                                            *)

\* A boot is at a place, and calls modules there.
LEMMA PlaceTypes ==
  ASSUME TypeOK, [Next]_vars
  PROVE  /\ at' \in Range(Places) \cup {"off"}
         /\ called' \subseteq Range(Places) /\ sems' \subseteq Instances \X Range(Places)
  <1>1. inst \in Instances
    BY DEF TypeOK, ConsumptionTypeOK
  <1>2. \A place \in {"update", "user-data", "vendor-data", "config"} :
           After(place) \in Range(Places)
    BY BootOrder, PlacesAre, PlacesOfBoot DEF Early
  <1>3. Early \cup Modules \cup {"config", "up"} = Range(Places)
    BY PlacesAre
  <1>4. CASE UNCHANGED vars
    BY <1>4 DEF TypeOK, vars, guest
  <1>5. ASSUME NEW i \in Instances, PowerOn(i)
        PROVE  at' \in Range(Places) \cup {"off"} /\ called' = {} /\ sems' = sems
    BY <1>3, <1>5 DEF PowerOn, Early
  <1>6. CASE Update \/ ConsumeUser \/ ConsumeVendor \/ StageConfig
    BY <1>2, <1>6 DEF TypeOK, Update, ConsumeUser, ConsumeVendor, StageConfig, Goes
  <1>7. CASE UpdateFails
    BY <1>3, <1>7 DEF TypeOK, UpdateFails
  <1>8. ASSUME NEW m \in Modules, Module(m)
        PROVE  /\ at' \in Range(Places) \cup {"off"}
               /\ called' \subseteq Range(Places) /\ sems' \subseteq Instances \X Range(Places)
    <2>1. m \in Range(Places) /\ at' \in Range(Places)
      BY <1>3, <1>8, AtModule
    <2>2. called' \subseteq called \cup {m} /\ sems' \subseteq sems \cup {<<inst, m>>}
      BY <1>8 DEF Module
    <2>3. QED
      BY <1>1, <2>1, <2>2 DEF TypeOK
  <1>9. CASE Killed
    <2>1. at \in Range(Places)
      BY <1>9 DEF Killed, TypeOK
    <2>2. at' = "off" /\ called' = called /\ sems' \subseteq sems \cup {<<inst, at>>}
      BY <1>9 DEF Killed
    <2>3. QED
      BY <1>1, <2>1, <2>2 DEF TypeOK
  <1>10. CASE UserActs
    BY <1>10 DEF TypeOK, UserActs
  <1>11. QED
    BY <1>4, <1>5, <1>6, <1>7, <1>8, <1>9, <1>10 DEF Next, TypeOK

\* The invariant holds at first,
LEMMA InitHolds ==
  ASSUME Init
  PROVE  GuestInv
  <1>1. ConsumptionTypeOK
    BY ConsumptionInitTyped DEF Init
  <1>2. /\ at = "off" /\ sems = {} /\ called = {} /\ processed = Absent /\ cfg = <<>>
        /\ torn = {} /\ NamesInit /\ AccountsInit /\ swapFile = "absent"
    BY DEF Init, ConsumptionInit, MountsInit
  <1>3. \A i \in Instances : /\ pkl[i] = [there |-> FALSE, data |-> Absent] /\ urlcache[i] = Absent
                              /\ userFile[i] = Absent /\ vendorFile[i] = Absent
                              /\ onced[i] = {} /\ said[i] = {}
    BY DEF Init, ConsumptionInit
  <1>4. TypeOK
    <2>1. FstabTypeOK
      BY <1>2, MountsAssumption DEF Init, MountsInit, FstabTypeOK, Says
    <2>2. QED
      BY <1>1, <1>2, <2>1 DEF TypeOK, AccountsInit
  <1>5. CacheDecides
    BY <1>1, <1>2, <1>3 DEF CacheDecides, FromCache, ConsumptionTypeOK, Absent
  <1>6. FilesDecide
    BY <1>2, <1>3 DEF FilesDecide, Modules, InitModules, ConfigModules, Absent
  <1>7. NamesApart
    BY <1>2, NamesAssumption DEF NamesInit, NamesApart
  <1>8. ModulesConfigured /\ RootStaysRestricted
    BY <1>2 DEF ModulesConfigured, RootStaysRestricted, InitModules
  <1>9. HostKeysOfInstance
    BY <1>2 DEF AccountsInit, HostKeysOfInstance
  <1>10. QED
    BY <1>4, <1>5, <1>6, <1>7, <1>8, <1>9 DEF GuestInv

\* and after every step.
LEMMA GuestInvStays ==
  ASSUME GuestInv, [Next]_vars
  PROVE  GuestInv'
  <1>1. /\ TypeOK /\ CacheDecides /\ FilesDecide /\ NamesApart
        /\ ModulesConfigured /\ HostKeysOfInstance /\ RootStaysRestricted
    BY DEF GuestInv
  <1>2. ConsumptionTypeOK' /\ CacheDecides' /\ FilesDecide'
    BY <1>1, ConsumptionStep
  <1>3. ModulesConfigured' /\ NamesApart' /\ HostKeysOfInstance' /\ RootStaysRestricted'
    BY <1>1, ConfiguredStep, NamesStep, HostKeysStep, RootStep
  <1>4. TypeOK'
    <2>1. FstabTypeOK'
      BY <1>1, <1>2, FstabStep DEF TypeOK
    <2>2. QED
      BY <1>1, <1>2, <2>1, AccountsStep, PlaceTypes DEF TypeOK, AccountsTypeOK
  <1>5. QED
    BY <1>2, <1>3, <1>4 DEF GuestInv

\* GuestInv is an invariant: the types, what the files of an instance have to do with
\* what its data said, and what the modules run with.
THEOREM GuestInvAlways == Spec => []GuestInv
  BY InitHolds, GuestInvStays, PTL DEF Spec

\* Every variable has its type (TypeOK), for any instances, configurations and worlds.
THEOREM GuestTypes == Spec => []TypeOK
  <1>1. GuestInv => TypeOK
    BY DEF GuestInv
  <1>2. QED
    BY <1>1, GuestInvAlways, PTL

\* What _do_include has of a url that is to be read once is one content for all boots of
\* an instance (OnceIsKept), unless the file of the url cache was cut short.
THEOREM OnceIsKeptAlways == Spec => []OnceIsKept
  <1>1. ASSUME GuestInv, NEW i \in Instances \ torn
        PROVE  Cardinality(onced[i]) <= 1
    <2>1. FromCache(i)
      BY <1>1 DEF GuestInv, CacheDecides
    <2>2. PICK c : onced[i] \subseteq {c}
      BY <2>1 DEF FromCache
    <2>3. onced[i] = {} \/ onced[i] = {c}
      BY <2>2
    <2>4. Cardinality({}) = 0 /\ Cardinality({c}) = 1
      BY FS_EmptySet, FS_Singleton
    <2>5. QED
      BY <2>3, <2>4
  <1>2. GuestInv => OnceIsKept
    BY <1>1 DEF OnceIsKept
  <1>3. QED
    BY <1>2, GuestInvAlways, PTL

\* Vendor-data is used as the user said (UserDecides): never where user-data said no in all
\* boots, and always where it never did and neither the system nor vendor-data objects.
THEOREM UserDecidesAlways == Spec => []UserDecides
  <1>1. ASSUME GuestInv
        PROVE  UserDecides
    <2>1. FilesDecide
      BY <1>1 DEF GuestInv
    <2>2. QED
      BY <2>1 DEF FilesDecide, UserDecides, Wanted
  <1>2. QED
    BY <1>1, GuestInvAlways, PTL

\* Where cc_ssh ran last, no host key is another machine's (HostKeysOfInstance), but those
\* whose files could not be deleted.
THEOREM HostKeysAlways == Spec => []HostKeysOfInstance
  <1>1. GuestInv => HostKeysOfInstance
    BY DEF GuestInv
  <1>2. QED
    BY <1>1, GuestInvAlways, PTL

\* The keys of an instance log nobody in as root while root is disabled, from cc_ssh to the
\* end of the boot (RootStaysRestricted).
THEOREM RootStaysRestrictedAlways == Spec => []RootStaysRestricted
  <1>1. GuestInv => RootStaysRestricted
    BY DEF GuestInv
  <1>2. QED
    BY <1>1, GuestInvAlways, PTL

\* No step takes back a name that the user gave the machine (UserNameKept).
THEOREM UserNameIsKept == Spec => UserNameKept
  <1>1. ASSUME GuestInv, [Next]_vars
        PROVE  [chosen # NoName /\ chosen' = chosen => sysName' = sysName]_<<cvars, names>>
    BY <1>1, NamesStep DEF GuestInv
  <1>2. QED
    BY <1>1, GuestInvAlways, PTL DEF Spec, UserNameKept

\* cc_mounts, run again, comes to the same file, with the lines of others as they were, and
\* mounts nothing that a null took back (FstabSettles): in every state, so whatever the file
\* of the image, the entries of the configurations, and what was done to the file before.
THEOREM FstabSettlesAlways == Spec => []FstabSettles
  <1>1. GuestInv => FstabSettles
    BY FstabIsSettled DEF GuestInv, TypeOK
  <1>2. QED
    BY <1>1, GuestInvAlways, PTL
=============================================================================
