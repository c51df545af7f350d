---------------------------- MODULE IngestionProofs ----------------------------
(***************************************************************************)
(* Theorems about Ingestion, for every set of quotes and receive times,    *)
(* every interval, lateness, retention and silence, and any number of      *)
(* crashes.                                                                *)
(*                                                                         *)
(* The invariants speak of All, the log followed by the events of the      *)
(* running call, so that a call appears at once and AppendNext changes     *)
(* nothing.  IngestInv settles expiry, the bounds of the builder and the   *)
(* reports of silences; Held and Left say what each bucket, kept or        *)
(* dropped, has to do with the quotes and bars of the session.             *)
(*                                                                         *)
(* Facts about lists, minima and cardinalities are proved from the least   *)
(* element of a set of numbers, not by induction.                          *)
(***************************************************************************)
EXTENDS Ingestion, FiniteSetTheorems, SequenceTheorems, WellFoundedInduction, TLAPS

----------------------------------------------------------------------------
(* Least and greatest elements, in the place of an induction rule.         *)

\* Every set of natural numbers that is not empty has a least element.
LEMMA LeastNat ==
    ASSUME NEW T \in SUBSET Nat, T # {}
    PROVE  \E x \in T : \A y \in T : x =< y
  <1> DEFINE R == OpToRel(<, Nat)
  <1>1. IsWellFoundedOn(R, Nat)
    BY NatLessThanWellFounded
  <1>2. \A x, y \in Nat : y < x => <<y, x>> \in R
    BY DEF OpToRel
  <1> HIDE DEF R
  <1>3. PICK x \in T : \A y \in T : ~(<<y, x>> \in R)
    BY <1>1, WFMin
  <1>4. \A y \in T : ~(y < x)
    BY <1>2, <1>3
  <1>5. \A y \in T : x =< y
    BY <1>4
  <1> QED BY <1>5

\* Every set of subsets of a finite set has a smallest member.
LEMMA LeastSet ==
    ASSUME NEW S, IsFiniteSet(S), NEW T \in SUBSET (SUBSET S), T # {}
    PROVE  \E x \in T : \A y \in T : y \subseteq x => y = x
  <1> DEFINE R == StrictSubsetOrdering(S)
  <1>1. IsWellFoundedOn(R, FiniteSubsetsOf(S))
    BY FS_StrictSubsetOrderingWellFounded
  <1>2. T \subseteq FiniteSubsetsOf(S)
    BY FS_Subset DEF FiniteSubsetsOf
  <1>3. \A x, y \in T : y \subseteq x /\ y # x => <<y, x>> \in R
    BY DEF StrictSubsetOrdering
  <1> HIDE DEF R
  <1>4. \E x \in T : \A y \in T : ~(<<y, x>> \in R)
    BY <1>1, <1>2, WFMin
  <1> QED BY <1>3, <1>4

\* A finite set of integers; the definition is opened only for arithmetic.
Numbers(S) == S \subseteq Int
HasGreatest(S) == \E x \in S : \A y \in S : y =< x

\* A finite set of integers that is not empty has a greatest element.
LEMMA GreatestInt ==
    ASSUME NEW S, IsFiniteSet(S), Numbers(S), S # {}
    PROVE  HasGreatest(S)
  <1> DEFINE Odd == {x \in SUBSET S : x # {} /\ ~HasGreatest(x)}
  <1> SUFFICES ASSUME Odd # {} PROVE FALSE
    BY DEF HasGreatest
  <1>0. Odd \in SUBSET (SUBSET S) /\ IsFiniteSet(S)
    OBVIOUS
  <1> HIDE DEF Odd
  <1>1. PICK x \in Odd : \A y \in Odd : y \subseteq x => y = x
    BY <1>0, LeastSet
  <1> USE DEF Odd
  <1>2. x # {} /\ x \subseteq S /\ ~HasGreatest(x)
    OBVIOUS
  <1>3. PICK e : e \in x
    BY <1>2
  <1>4. CASE x \ {e} = {}
    <2>1. e \in Int /\ \A y \in x : y = e
      BY <1>2, <1>3, <1>4 DEF Numbers
    <2> QED BY <1>2, <1>3, <2>1 DEF HasGreatest
  <1>5. CASE x \ {e} # {}
    <2>1. x \ {e} \notin Odd
      BY <1>1, <1>3
    <2>2. HasGreatest(x \ {e})
      BY <1>2, <1>5, <2>1
    <2>3. PICK m \in x \ {e} : \A y \in x \ {e} : y =< m
      BY <2>2 DEF HasGreatest
    <2>4. e \in Int /\ m \in Int /\ x \subseteq Int
      BY <1>2, <1>3 DEF Numbers
    <2>5. \/ \A y \in x : y =< m
          \/ \A y \in x : y =< e
      BY <2>3, <2>4
    <2> QED BY <1>2, <1>3, <2>5 DEF HasGreatest
  <1> QED BY <1>4, <1>5

\* The numbers up to the greatest one of a set that is closed downwards.
LEMMA PrefixCardinality ==
    ASSUME NEW L \in Nat, NEW D \in SUBSET (1 .. L),
           \A m \in 1 .. L, n \in D : m =< n => m \in D
    PROVE  Cardinality(D) \in 0 .. L /\ D = 1 .. Cardinality(D)
  <1>1. IsFiniteSet(D)
    <2>1. D \in SUBSET Nat /\ \A s \in D : s =< L
      OBVIOUS
    <2> QED BY <2>1, FS_BoundedSetOfNaturals
  <1>2. CASE D = {}
    BY <1>2, FS_EmptySet
  <1>3. CASE D # {}
    <2>1. HasGreatest(D)
      <3>1. Numbers(D)
        BY DEF Numbers
      <3> QED BY <1>1, <1>3, <3>1, GreatestInt
    <2>2. PICK m \in D : \A y \in D : y =< m
      BY <2>1 DEF HasGreatest
    <2>3. D = 1 .. m
      <3>1. m \in 1 .. L
        OBVIOUS
      <3>2. \A n \in 1 .. m : n \in 1 .. L /\ n =< m
        BY <3>1
      <3>3. \A n \in 1 .. m : n \in D
        BY <3>2
      <3>4. \A n \in D : n \in 1 .. m
        BY <2>2, <3>1
      <3> QED BY <3>3, <3>4
    <2>4. Cardinality(1 .. m) = m
      BY FS_Interval
    <2> QED BY <2>2, <2>3, <2>4
  <1> QED BY <1>2, <1>3

----------------------------------------------------------------------------
(* Sequences that list a set: each member once.                            *)

Lists(t, K) ==
    /\ t \in Seq(K)
    /\ \A e \in K : \E p \in DOMAIN t : t[p] = e
    /\ \A p, r \in DOMAIN t : t[p] = t[r] => p = r

\* Two lists of disjoint sets, one after the other.
LEMMA ListsConcat ==
    ASSUME NEW K, NEW L, NEW t, NEW u, Lists(t, K), Lists(u, L), K \cap L = {}
    PROVE  Lists(t \o u, K \cup L)
  <1>1. t \in Seq(K \cup L) /\ u \in Seq(K \cup L) /\ Len(t) \in Nat /\ Len(u) \in Nat
        /\ DOMAIN t = 1 .. Len(t) /\ DOMAIN u = 1 .. Len(u)
    BY DEF Lists
  <1>2. /\ t \o u \in Seq(K \cup L) /\ DOMAIN (t \o u) = 1 .. (Len(t) + Len(u))
        /\ \A p \in 1 .. Len(t) : (t \o u)[p] = t[p]
        /\ \A p \in 1 .. Len(u) : (t \o u)[Len(t) + p] = u[p]
        /\ \A p \in (Len(t) + 1) .. (Len(t) + Len(u)) : (t \o u)[p] = u[p - Len(t)]
    BY <1>1
  <1>3. (\A p \in DOMAIN t : t[p] \in K) /\ (\A p \in DOMAIN u : u[p] \in L)
    BY DEF Lists
  <1>4. ASSUME NEW e \in K \cup L PROVE \E p \in DOMAIN (t \o u) : (t \o u)[p] = e
    <2>1. CASE e \in K
      <3>1. PICK p \in DOMAIN t : t[p] = e
        BY <2>1 DEF Lists
      <3> QED BY <1>1, <1>2, <3>1
    <2>2. CASE e \in L
      <3>1. PICK p \in DOMAIN u : u[p] = e
        BY <2>2 DEF Lists
      <3>2. Len(t) + p \in 1 .. (Len(t) + Len(u))
        BY <1>1, <3>1
      <3> QED BY <1>1, <1>2, <3>1, <3>2
    <2> QED BY <2>1, <2>2
  <1>5. ASSUME NEW p \in DOMAIN (t \o u), NEW r \in DOMAIN (t \o u), (t \o u)[p] = (t \o u)[r]
        PROVE  p = r
    <2>1. p \in 1 .. Len(t) \/ (p - Len(t) \in 1 .. Len(u) /\ (t \o u)[p] = u[p - Len(t)])
      BY <1>1, <1>2
    <2>2. r \in 1 .. Len(t) \/ (r - Len(t) \in 1 .. Len(u) /\ (t \o u)[r] = u[r - Len(t)])
      BY <1>1, <1>2
    <2>3. CASE p \in 1 .. Len(t) /\ r \in 1 .. Len(t)
      BY <1>1, <1>2, <1>5, <2>3 DEF Lists
    <2>4. CASE p \notin 1 .. Len(t) /\ r \notin 1 .. Len(t)
      <3>1. p - Len(t) = r - Len(t)
        BY <1>1, <1>5, <2>1, <2>2, <2>4 DEF Lists
      <3> QED BY <1>1, <1>2, <3>1
    <2>5. CASE p \in 1 .. Len(t) /\ r \notin 1 .. Len(t)
      BY <1>1, <1>2, <1>3, <1>5, <2>2, <2>5
    <2>6. CASE p \notin 1 .. Len(t) /\ r \in 1 .. Len(t)
      BY <1>1, <1>2, <1>3, <1>5, <2>1, <2>6
    <2> QED BY <2>3, <2>4, <2>5, <2>6
  <1> QED BY <1>2, <1>4, <1>5 DEF Lists

\* The sorted enumeration of a finite set of intervals lists it.
LEMMA InOrderLists ==
    ASSUME NEW S, IsFiniteSet(S), Numbers(S)
    PROVE  Lists(InOrder(S), S)
  <1> DEFINE Up(x, s) == /\ s \in [1 .. Cardinality(x) -> x]
                         /\ \A m, n \in DOMAIN s : m < n => s[m] < s[n]
             Odd == {x \in SUBSET S : ~\E s : Up(x, s)}
  <1>1. Odd = {}
    <2> SUFFICES ASSUME Odd # {} PROVE FALSE
      OBVIOUS
    <2>0. Odd \in SUBSET (SUBSET S) /\ IsFiniteSet(S)
      OBVIOUS
    <2> HIDE DEF Odd
    <2>1. PICK x \in Odd : \A y \in Odd : y \subseteq x => y = x
      BY <2>0, LeastSet
    <2> USE DEF Odd
    <2>2. IsFiniteSet(x) /\ x \in SUBSET S /\ ~\E s : Up(x, s)
      BY FS_Subset
    <2>3. CASE x = {}
      <3>1. Cardinality(x) = 0
        BY <2>3, FS_EmptySet
      <3>2. Up(x, <<>>)
        BY <2>3, <3>1
      <3> QED BY <2>2, <3>2
    <2>4. CASE x # {}
      <3>1. HasGreatest(x)
        <4>1. Numbers(x)
          BY <2>2 DEF Numbers
        <4> QED BY <2>2, <2>4, <4>1, GreatestInt
      <3>2. PICK m \in x : \A y \in x : y =< m
        BY <3>1 DEF HasGreatest
      <3>3. x \ {m} \notin Odd
        BY <2>1, <3>2
      <3>4. PICK s : Up(x \ {m}, s)
        BY <2>2, <3>3
      <3>5. Cardinality(x) \in Nat /\ Cardinality(x \ {m}) = Cardinality(x) - 1
            /\ Cardinality(x \ {m}) \in Nat
        BY <2>2, FS_RemoveElement, FS_CardinalityType
      <3>6. PICK c : c = Cardinality(x)
        OBVIOUS
      <3>7. c \in Nat \ {0} /\ s \in [1 .. (c - 1) -> x \ {m}]
            /\ \A k, n \in 1 .. (c - 1) : k < n => s[k] < s[n]
        <4>1. Cardinality(x \ {m}) = c - 1 /\ c \in Nat \ {0}
          BY <3>5, <3>6
        <4> QED BY <3>4, <4>1
      <3>8. x \subseteq Int /\ m \in Int
        BY <2>2 DEF Numbers
      <3> DEFINE t == [n \in 1 .. c |-> IF n = c THEN m ELSE s[n]]
      <3>9. t \in [1 .. c -> x]
        BY <3>7
      <3>10. \A k, n \in 1 .. c : k < n => t[k] < t[n]
        <4> SUFFICES ASSUME NEW k \in 1 .. c, NEW n \in 1 .. c, k < n PROVE t[k] < t[n]
          OBVIOUS
        <4>1. k \in 1 .. (c - 1) /\ t[k] = s[k] /\ s[k] \in x \ {m}
          BY <3>7
        <4>2. CASE n = c
          <5>1. s[k] =< m /\ s[k] # m /\ s[k] \in Int
            BY <3>2, <3>8, <4>1
          <5>2. s[k] < m
            BY <3>8, <5>1
          <5> QED BY <4>1, <4>2, <5>2
        <4>3. CASE n # c
          BY <3>7, <4>1, <4>3
        <4> QED BY <4>2, <4>3
      <3> HIDE DEF t
      <3>11. Up(x, t)
        BY <3>6, <3>9, <3>10
      <3> QED BY <2>2, <3>11
    <2> QED BY <2>3, <2>4
  <1>2. Up(S, InOrder(S))
    <2>1. PICK s : Up(S, s)
      BY <1>1
    <2> QED BY <2>1 DEF InOrder
  <1>3. Cardinality(S) \in Nat
    BY FS_CardinalityType
  <1>4. PICK s, c : s = InOrder(S) /\ c = Cardinality(S)
    OBVIOUS
  <1>5. c \in Nat /\ s \in [1 .. c -> S] /\ \A m, n \in 1 .. c : m < n => s[m] < s[n]
    BY <1>2, <1>3, <1>4
  <1>6. \A p, r \in 1 .. c : s[p] = s[r] => p = r
    <2>1. \A p, r \in 1 .. c : p # r => s[p] # s[r]
      <3> SUFFICES ASSUME NEW p \in 1 .. c, NEW r \in 1 .. c, p # r PROVE s[p] # s[r]
        OBVIOUS
      <3>1. s[p] \in Int /\ s[r] \in Int
        BY <1>5 DEF Numbers
      <3>2. s[p] < s[r] \/ s[r] < s[p]
        BY <1>5
      <3> QED BY <3>1, <3>2
    <2> QED BY <2>1
  <1>7. s \in Injection(1 .. c, S)
    BY <1>5, <1>6 DEF Injection, IsInjective
  <1>8. Cardinality(1 .. c) = c
    BY <1>5, FS_Interval
  <1>9. s \in Surjection(1 .. c, S)
    BY <1>4, <1>7, <1>8, FS_Injection
  <1>10. \A e \in S : \E p \in 1 .. c : s[p] = e
    BY <1>9 DEF Surjection
  <1>11. s \in Seq(S) /\ DOMAIN s = 1 .. c
    BY <1>5
  <1> QED BY <1>4, <1>6, <1>10, <1>11 DEF Lists

\* The equation of the recursive function that FlattenSeq is, at one index.
Flattened(ss, f, i) == IF i = 1 THEN ss[i] ELSE f[i - 1] \o ss[i]
Flat(ss) == CHOOSE f : f = [i \in 1 .. Len(ss) |-> Flattened(ss, f, i)]

\* What the operator of the library unfolds to.
LEMMA FlattenIsFlat ==
    ASSUME NEW ss
    PROVE  FlattenSeq(ss) = IF Len(ss) = 0 THEN ss ELSE Flat(ss)[Len(ss)]
  BY DEF FlattenSeq, Flat, Flattened

\* The recursive function exists.
LEMMA FlatDefined ==
    ASSUME NEW ss, Len(ss) \in Nat
    PROVE  Flat(ss) = [i \in 1 .. Len(ss) |-> Flattened(ss, Flat(ss), i)]
  <1> DEFINE Upto(n, g) == g = [i \in 1 .. n |-> Flattened(ss, g, i)]
             Bad == {n \in Nat : ~\E g : Upto(n, g)}
  <1>1. 0 \notin Bad
    <2> DEFINE g == [i \in 1 .. 0 |-> 0]
    <2>1. Upto(0, g)
      OBVIOUS
    <2> QED BY <2>1
  <1>2. ASSUME NEW n \in Nat, n \notin Bad PROVE n + 1 \notin Bad
    <2>1. PICK g : Upto(n, g)
      BY <1>2
    <2> DEFINE h == [i \in 1 .. (n + 1) |-> IF i = n + 1 THEN Flattened(ss, g, i) ELSE g[i]]
    <2>2. ASSUME NEW i \in 1 .. (n + 1) PROVE h[i] = Flattened(ss, h, i)
      <3>1. h[i] = Flattened(ss, g, i)
        BY <2>1
      <3>2. i # 1 => h[i - 1] = g[i - 1]
        OBVIOUS
      <3> HIDE DEF h
      <3> QED BY <3>1, <3>2 DEF Flattened
    <2>3. h = [i \in 1 .. (n + 1) |-> h[i]]
      OBVIOUS
    <2> HIDE DEF h
    <2>4. Upto(n + 1, h)
      BY <2>2, <2>3
    <2> QED BY <2>4
  <1>3. Bad = {}
    <2> SUFFICES ASSUME Bad # {} PROVE FALSE
      OBVIOUS
    <2>0. Bad \subseteq Nat
      OBVIOUS
    <2> HIDE DEF Bad
    <2>1. PICK m \in Bad : \A k \in Bad : m =< k
      BY <2>0, LeastNat
    <2>2. m # 0 /\ m - 1 \in Nat /\ m - 1 \notin Bad
      BY <1>1, <2>0, <2>1
    <2>3. (m - 1) + 1 \notin Bad
      BY <1>2, <2>2
    <2> QED BY <2>0, <2>1, <2>3
  <1>4. \E g : Upto(Len(ss), g)
    BY <1>3
  <1> QED BY <1>4 DEF Flat

\* The lists of disjoint sets, one after the other, list their union.
LEMMA FlattenLists ==
    ASSUME NEW ss, Len(ss) \in Nat, DOMAIN ss = 1 .. Len(ss), Len(ss) = 0 => ss = <<>>,
           NEW K, \A c \in 1 .. Len(ss) : Lists(ss[c], K[c]),
           \A c, d \in 1 .. Len(ss) : c # d => K[c] \cap K[d] = {}
    PROVE  Lists(FlattenSeq(ss), UNION {K[c] : c \in 1 .. Len(ss)})
  <1> DEFINE Bad == {n \in Nat : /\ n \in 1 .. Len(ss)
                                 /\ ~Lists(Flat(ss)[n], UNION {K[c] : c \in 1 .. n})}
  <1>1. 1 \notin Bad
    <2> SUFFICES ASSUME 1 \in 1 .. Len(ss)
                 PROVE  Lists(Flat(ss)[1], UNION {K[c] : c \in 1 .. 1})
      OBVIOUS
    <2>1. Flat(ss)[1] = ss[1]
      BY FlatDefined DEF Flattened
    <2>2. UNION {K[c] : c \in 1 .. 1} = K[1]
      <3>1. 1 .. 1 = {1}
        OBVIOUS
      <3> QED BY <3>1
    <2> QED BY <2>1, <2>2
  <1>2. ASSUME NEW n \in Nat \ {0}, n \notin Bad PROVE n + 1 \notin Bad
    <2> SUFFICES ASSUME n + 1 \in 1 .. Len(ss)
                 PROVE  Lists(Flat(ss)[n + 1], UNION {K[c] : c \in 1 .. (n + 1)})
      OBVIOUS
    <2>1. n \in 1 .. Len(ss) /\ Lists(Flat(ss)[n], UNION {K[c] : c \in 1 .. n})
      BY <1>2
    <2>2. Flat(ss)[n + 1] = Flat(ss)[n] \o ss[n + 1]
      <3>1. PICK f : f = Flat(ss)
        OBVIOUS
      <3>2. f = [i \in 1 .. Len(ss) |-> Flattened(ss, f, i)]
        BY <3>1, FlatDefined
      <3>3. f[n + 1] = Flattened(ss, f, n + 1)
        BY <3>2
      <3>4. n + 1 # 1 /\ (n + 1) - 1 = n
        OBVIOUS
      <3> QED BY <3>1, <3>3, <3>4 DEF Flattened
    <2>3. (UNION {K[c] : c \in 1 .. n}) \cap K[n + 1] = {}
      <3> SUFFICES ASSUME NEW c \in 1 .. n PROVE K[c] \cap K[n + 1] = {}
        OBVIOUS
      <3>1. c \in 1 .. Len(ss) /\ c # n + 1
        BY <2>1
      <3> QED BY <3>1
    <2>4. UNION {K[c] : c \in 1 .. (n + 1)} = (UNION {K[c] : c \in 1 .. n}) \cup K[n + 1]
      <3>1. 1 .. (n + 1) = (1 .. n) \cup {n + 1}
        OBVIOUS
      <3> QED BY <3>1, Zenon
    <2>5. Lists(ss[n + 1], K[n + 1])
      OBVIOUS
    <2> QED BY <2>1, <2>2, <2>3, <2>4, <2>5, ListsConcat
  <1>3. Bad = {}
    <2> SUFFICES ASSUME Bad # {} PROVE FALSE
      OBVIOUS
    <2>0. Bad \subseteq Nat \ {0}
      OBVIOUS
    <2> HIDE DEF Bad
    <2>1. PICK m \in Bad : \A k \in Bad : m =< k
      BY <2>0, LeastNat
    <2>2. m # 1 /\ m - 1 \in Nat \ {0} /\ m - 1 \notin Bad
      BY <1>1, <2>0, <2>1
    <2>3. (m - 1) + 1 \notin Bad
      BY <1>2, <2>2
    <2> QED BY <2>0, <2>1, <2>3
  <1>4. CASE Len(ss) = 0
    <2>1. FlattenSeq(ss) = <<>> /\ 1 .. Len(ss) = {}
      BY <1>4, FlattenIsFlat
    <2>2. UNION {K[c] : c \in 1 .. Len(ss)} = {}
      BY <2>1
    <2> QED BY <2>1, <2>2 DEF Lists
  <1>5. CASE Len(ss) # 0
    <2>1. Len(ss) \notin Bad
      BY <1>3
    <2> QED BY <1>5, <2>1, FlattenIsFlat
  <1> QED BY <1>4, <1>5

----------------------------------------------------------------------------
(* The samples, buckets and events.                                        *)

SampleType == [time : Nat, price : Nat]
BucketType == [closed : BOOLEAN, samples : [Basis -> Seq(SampleType)], revisions : [Basis -> Nat]]

QuoteEvents == {[type |-> "quote", quote |-> q] : q \in Quotes}
GapEvents == {Gap(r, from, to) : r \in {"SILENCE", "EXPIRED"}, from \in Int, to \in Int}
BarEvents == {Bar(i, bucket, b) : i \in Int, bucket \in BucketType, b \in Basis}
Events == QuoteEvents \cup GapEvents \cup BarEvents

\* What the assumption says of one quote.
LEMMA QuoteFacts ==
    ASSUME NEW q \in Quotes
    PROVE  /\ q.time \in Nat /\ q.bid \in Nat /\ q.ask \in Nat
           /\ q.bidTime \in Nat /\ q.askTime \in Nat /\ q.healthy \in BOOLEAN
           /\ IntervalStart(q) \in Int
  <1>1. /\ q.time \in Nat /\ q.bid \in Nat /\ q.ask \in Nat
        /\ q.bidTime \in Nat /\ q.askTime \in Nat /\ q.healthy \in BOOLEAN
    BY IngestionAssumption
  <1>2. Interval \in Nat \ {0}
    BY IngestionAssumption
  <1>3. q.time % Interval \in Int
    BY <1>1, <1>2
  <1> QED BY <1>1, <1>3 DEF IntervalStart

\* A quote contributes one sample or none to a basis.
LEMMA SampleTyped ==
    ASSUME NEW q \in Quotes, NEW b \in Basis
    PROVE  Sample(q, b) = <<>> \/ \E s \in SampleType : Sample(q, b) = <<s>>
  BY QuoteFacts DEF Sample, SampleType, Basis

\* The type of an event tells its kind, and a bar its interval and basis.
LEMMA EventFacts ==
    /\ \A e \in QuoteEvents : e.type = "quote" /\ e.quote \in Quotes
    /\ \A e \in GapEvents : e.type = "gap"
    /\ \A e \in BarEvents : e.type = "bar"
    /\ \A i, bucket, b : /\ Bar(i, bucket, b).type = "bar" /\ Bar(i, bucket, b).start = i
                         /\ Bar(i, bucket, b).basis = b
    /\ \A r, from, to : Gap(r, from, to).type = "gap" /\ Gap(r, from, to).reason = r
                        /\ Gap(r, from, to).start = from
  <1>1. \A e \in QuoteEvents : e.type = "quote" /\ e.quote \in Quotes
    BY DEF QuoteEvents
  <1>2. \A r, from, to : Gap(r, from, to).type = "gap" /\ Gap(r, from, to).reason = r
                         /\ Gap(r, from, to).start = from
    BY DEF Gap
  <1>3. \A i, bucket, b : /\ Bar(i, bucket, b).type = "bar" /\ Bar(i, bucket, b).start = i
                          /\ Bar(i, bucket, b).basis = b
    BY DEF Bar
  <1>4. \A e \in GapEvents : e.type = "gap"
    BY <1>2 DEF GapEvents
  <1>5. \A e \in BarEvents : e.type = "bar"
    BY <1>3 DEF BarEvents
  <1> QED BY <1>1, <1>2, <1>3, <1>4, <1>5

\* The bases in the order of their names list the set of bases.
LEMMA SortedLists ==
    ASSUME NEW bases \in SUBSET Basis
    PROVE  Lists(Sorted(bases), bases)
  <1> DEFINE only(b) == IF b \in bases THEN <<b>> ELSE <<>>
  <1>1. ASSUME NEW b \in Basis PROVE Lists(only(b), bases \cap {b})
    <2>1. CASE b \in bases
      <3>1. only(b) = <<b>> /\ bases \cap {b} = {b}
        BY <2>1
      <3>2. Lists(<<b>>, {b})
        BY DEF Lists
      <3> QED BY <3>1, <3>2
    <2>2. CASE b \notin bases
      <3>1. only(b) = <<>> /\ bases \cap {b} = {}
        BY <2>2
      <3>2. Lists(<<>>, {})
        BY DEF Lists
      <3> QED BY <3>1, <3>2
    <2> QED BY <2>1, <2>2
  <1>2. Lists(only("ASK") \o only("BID"), (bases \cap {"ASK"}) \cup (bases \cap {"BID"}))
    BY <1>1, ListsConcat DEF Basis
  <1>3. Lists((only("ASK") \o only("BID")) \o only("MID"),
              ((bases \cap {"ASK"}) \cup (bases \cap {"BID"})) \cup (bases \cap {"MID"}))
    BY <1>1, <1>2, ListsConcat DEF Basis
  <1>4. bases = ((bases \cap {"ASK"}) \cup (bases \cap {"BID"})) \cup (bases \cap {"MID"})
    BY DEF Basis
  <1> QED BY <1>3, <1>4 DEF Sorted

BarSet(i, bucket, bases) == {Bar(i, bucket, b) : b \in bases}

\* One bar for each of the bases.
LEMMA BarsList ==
    ASSUME NEW i, NEW bucket, NEW bases \in SUBSET Basis
    PROVE  Lists(Bars(i, bucket, bases), BarSet(i, bucket, bases))
  <1>1. PICK u : u = Sorted(bases)
    OBVIOUS
  <1>2. Lists(u, bases)
    BY <1>1, SortedLists
  <1>3. PICK t : t = Bars(i, bucket, bases)
    OBVIOUS
  <1>4. t = [n \in DOMAIN u |-> Bar(i, bucket, u[n])]
    BY <1>1, <1>3 DEF Bars
  <1>5. u \in Seq(bases) /\ DOMAIN u = 1 .. Len(u) /\ Len(u) \in Nat
    BY <1>2 DEF Lists
  <1>6. t \in Seq(BarSet(i, bucket, bases)) /\ DOMAIN t = DOMAIN u
    BY <1>4, <1>5 DEF BarSet
  <1>7. \A e \in BarSet(i, bucket, bases) : \E p \in DOMAIN t : t[p] = e
    BY <1>2, <1>4 DEF BarSet, Lists
  <1>8. \A p, r \in DOMAIN t : t[p] = t[r] => p = r
    <2> SUFFICES ASSUME NEW p \in DOMAIN u, NEW r \in DOMAIN u, t[p] = t[r] PROVE p = r
      BY <1>4
    <2>1. Bar(i, bucket, u[p]) = Bar(i, bucket, u[r])
      BY <1>4
    <2>2. u[p] = u[r]
      BY <2>1, EventFacts
    <2> QED BY <1>2, <2>2 DEF Lists
  <1> QED BY <1>3, <1>6, <1>7, <1>8 DEF Lists

\* u is t with the element s put in after the first k.
Inserted(u, t, k, s) ==
    /\ Len(u) = Len(t) + 1 /\ DOMAIN u = 1 .. (Len(t) + 1)
    /\ \A p \in 1 .. k : u[p] = t[p]
    /\ u[k + 1] = s
    /\ \A p \in (k + 2) .. (Len(t) + 1) : u[p] = t[p - 1]

\* What InsertAt does.
LEMMA InsertFacts ==
    ASSUME NEW S, NEW t \in Seq(S), NEW k \in 0 .. Len(t), NEW s \in S
    PROVE  InsertAt(t, k + 1, s) \in Seq(S) /\ Inserted(InsertAt(t, k + 1, s), t, k, s)
  <1>1. Len(t) \in Nat
    OBVIOUS
  <1>2. PICK a : a = SubSeq(t, 1, k)
    OBVIOUS
  <1>3. PICK c : c = SubSeq(t, k + 1, Len(t))
    OBVIOUS
  <1>4. a \in Seq(S) /\ Len(a) = k /\ \A p \in 1 .. k : a[p] = t[p]
    BY <1>1, <1>2
  <1>5. c \in Seq(S) /\ Len(c) = Len(t) - k /\ \A p \in 1 .. (Len(t) - k) : c[p] = t[k + p]
    BY <1>1, <1>3
  <1>6. <<s>> \in Seq(S) /\ Len(<<s>>) = 1 /\ <<s>>[1] = s
    OBVIOUS
  <1>7. PICK d : d = a \o <<s>>
    OBVIOUS
  <1>8. d \in Seq(S) /\ Len(d) = k + 1 /\ (\A p \in 1 .. k : d[p] = t[p]) /\ d[k + 1] = s
    BY <1>4, <1>6, <1>7
  <1>9. PICK u : u = d \o c
    OBVIOUS
  <1>10. /\ u \in Seq(S) /\ Len(u) = Len(t) + 1
         /\ \A p \in 1 .. (k + 1) : u[p] = d[p]
         /\ \A p \in (k + 2) .. (Len(t) + 1) : u[p] = c[p - (k + 1)]
    BY <1>1, <1>5, <1>8, <1>9
  <1>11. \A p \in (k + 2) .. (Len(t) + 1) : u[p] = t[p - 1]
    <2> SUFFICES ASSUME NEW p \in (k + 2) .. (Len(t) + 1) PROVE u[p] = t[p - 1]
      OBVIOUS
    <2>1. p - (k + 1) \in 1 .. (Len(t) - k) /\ k + (p - (k + 1)) = p - 1
      BY <1>1
    <2> QED BY <1>5, <1>10, <2>1
  <1>12. InsertAt(t, k + 1, s) = u
    <2>1. (k + 1) - 1 = k
      OBVIOUS
    <2> QED BY <1>2, <1>3, <1>7, <1>9, <2>1 DEF InsertAt
  <1>13. DOMAIN u = 1 .. (Len(t) + 1) /\ (\A p \in 1 .. k : u[p] = t[p]) /\ u[k + 1] = s
    BY <1>8, <1>10
  <1> QED BY <1>10, <1>11, <1>12, <1>13 DEF Inserted

\* The number of samples that are not later is a place in the list.
LEMMA BeforeTyped ==
    ASSUME NEW t \in Seq(SampleType), NEW x \in Nat
    PROVE  Cardinality({n \in DOMAIN t : t[n].time =< x}) \in 0 .. Len(t)
  <1> DEFINE D == {n \in DOMAIN t : t[n].time =< x}
  <1>1. Len(t) \in Nat /\ DOMAIN t = 1 .. Len(t)
    OBVIOUS
  <1>2. IsFiniteSet(1 .. Len(t)) /\ Cardinality(1 .. Len(t)) = Len(t)
    BY <1>1, FS_Interval
  <1>3. D \in SUBSET (1 .. Len(t))
    BY <1>1
  <1> HIDE DEF D
  <1>4. IsFiniteSet(D) /\ Cardinality(D) =< Cardinality(1 .. Len(t)) /\ Cardinality(D) \in Nat
    BY <1>2, <1>3, FS_Subset, FS_CardinalityType
  <1>5. Cardinality(D) \in 0 .. Len(t)
    BY <1>1, <1>2, <1>4
  <1> QED BY <1>5 DEF D

\* A list of samples with one more.
LEMMA AddSampleTyped ==
    ASSUME NEW t \in Seq(SampleType), NEW s \in SampleType
    PROVE  AddSample(t, s) \in Seq(SampleType)
  <1>1. s.time \in Nat
    BY DEF SampleType
  <1>2. PICK k \in 0 .. Len(t) : k = Cardinality({n \in DOMAIN t : t[n].time =< s.time})
    BY <1>1, BeforeTyped
  <1>3. InsertAt(t, k + 1, s) \in Seq(SampleType)
    BY InsertFacts
  <1> QED BY <1>2, <1>3 DEF AddSample

\* The bucket after a quote.
LEMMA WithSamplesFacts ==
    ASSUME NEW bucket \in BucketType, NEW q \in Quotes
    PROVE  /\ WithSamples(bucket, q) \in BucketType
           /\ WithSamples(bucket, q).closed = bucket.closed
           /\ WithSamples(bucket, q).revisions = bucket.revisions
           /\ \A b \in Basis : WithSamples(bucket, q).samples[b] =
                  IF Sample(q, b) = <<>> THEN bucket.samples[b]
                                         ELSE AddSample(bucket.samples[b], Sample(q, b)[1])
  <1>1. \A b \in Basis : Sample(q, b) # <<>> => Sample(q, b)[1] \in SampleType
    BY SampleTyped
  <1>2. bucket.samples \in [Basis -> Seq(SampleType)]
    BY DEF BucketType
  <1> DEFINE f == [b \in Basis |->
                      IF Sample(q, b) = <<>> THEN bucket.samples[b]
                                             ELSE AddSample(bucket.samples[b], Sample(q, b)[1])]
  <1>3. f \in [Basis -> Seq(SampleType)]
    BY <1>1, <1>2, AddSampleTyped
  <1>4. WithSamples(bucket, q) = [bucket EXCEPT !.samples = f]
    BY DEF WithSamples
  <1>5. \A b \in Basis : f[b] = IF Sample(q, b) = <<>> THEN bucket.samples[b]
                                   ELSE AddSample(bucket.samples[b], Sample(q, b)[1])
    OBVIOUS
  <1> HIDE DEF f
  <1> QED BY <1>3, <1>4, <1>5 DEF BucketType

\* The bucket after bars were built.
LEMMA BuiltFacts ==
    ASSUME NEW bucket \in BucketType, NEW bases
    PROVE  /\ Built(bucket, bases) \in BucketType
           /\ Built(bucket, bases).closed = bucket.closed
           /\ Built(bucket, bases).samples = bucket.samples
           /\ \A b \in Basis : Built(bucket, bases).revisions[b] =
                  bucket.revisions[b] + (IF b \in bases THEN 1 ELSE 0)
  <1>1. bucket.revisions \in [Basis -> Nat]
    BY DEF BucketType
  <1> DEFINE f == [b \in DOMAIN bucket.revisions |->
                      bucket.revisions[b] + (IF b \in bases THEN 1 ELSE 0)]
  <1>2. f \in [Basis -> Nat]
        /\ \A b \in Basis : f[b] = bucket.revisions[b] + (IF b \in bases THEN 1 ELSE 0)
    BY <1>1
  <1>3. Built(bucket, bases) = [bucket EXCEPT !.revisions = f]
    BY DEF Built
  <1> HIDE DEF f
  <1> QED BY <1>2, <1>3 DEF BucketType

\* A bucket nobody has written to.
LEMMA NewBucketTyped == NewBucket \in BucketType
  BY DEF NewBucket, BucketType

----------------------------------------------------------------------------
(* The type of the state.                                                  *)

BucketsOK == /\ DOMAIN buckets \subseteq Int /\ IsFiniteSet(DOMAIN buckets)
             /\ buckets \in [DOMAIN buckets -> BucketType]

IngestTypeOK ==
    /\ log \in Seq(Events) /\ todo \in Seq(Events)
    /\ processed \in BOOLEAN /\ watermark \in Int /\ cutoff \in Int
    /\ BucketsOK
    /\ last \in Quotes \cup {NoQuote}
    /\ base \in 0 .. Len(log)

\* The bucket of an interval, kept or new.
LEMMA BucketTyped ==
    ASSUME BucketsOK, NEW i
    PROVE  Bucket(i) \in BucketType
  BY NewBucketTyped DEF BucketsOK, Bucket

\* The bars of the buckets that a watermark closes.
DueBars(w) == UNION {BarSet(i, buckets[i], Filled(buckets[i])) : i \in Due(w)}

\* What advance_bars builds: one bar for each basis with samples of each due bucket.
LEMMA AdvanceLists ==
    ASSUME IngestTypeOK
    PROVE  LET due == InOrder(Due(watermark))
               bars == [n \in DOMAIN due |->
                           Bars(due[n], buckets[due[n]], Filled(buckets[due[n]]))]
           IN  Lists(FlattenSeq(bars), DueBars(watermark))
  <1>1. PICK D : D = Due(watermark)
    OBVIOUS
  <1>2. Lists(InOrder(D), D)
    <2>1. D \in SUBSET DOMAIN buckets /\ IsFiniteSet(DOMAIN buckets) /\ Numbers(D)
      BY <1>1 DEF Due, IngestTypeOK, BucketsOK, Numbers
    <2> QED BY <2>1, FS_Subset, InOrderLists
  <1>3. PICK due : due = InOrder(D)
    OBVIOUS
  <1>4. PICK bars : bars = [n \in DOMAIN due |->
                              Bars(due[n], buckets[due[n]], Filled(buckets[due[n]]))]
    OBVIOUS
  <1>5. due \in Seq(D) /\ DOMAIN due = 1 .. Len(due) /\ Len(due) \in Nat
    BY <1>2, <1>3 DEF Lists
  <1>6. DOMAIN bars = 1 .. Len(bars) /\ Len(bars) \in Nat /\ DOMAIN bars = DOMAIN due
        /\ (Len(bars) = 0 => bars = <<>>)
    <2>1. bars \in Seq({bars[n] : n \in DOMAIN due}) /\ DOMAIN bars = DOMAIN due
      BY <1>4, <1>5
    <2> QED BY <2>1
  <1> DEFINE K == [n \in DOMAIN due |-> BarSet(due[n], buckets[due[n]], Filled(buckets[due[n]]))]
  <1>7. \A c \in 1 .. Len(bars) : Lists(bars[c], K[c])
    <2> SUFFICES ASSUME NEW c \in DOMAIN due PROVE Lists(bars[c], K[c])
      BY <1>6
    <2>1. Filled(buckets[due[c]]) \in SUBSET Basis
      BY DEF Filled
    <2> QED BY <1>4, <2>1, BarsList
  <1>8. \A c, d \in 1 .. Len(bars) : c # d => K[c] \cap K[d] = {}
    <2> SUFFICES ASSUME NEW c \in DOMAIN due, NEW d \in DOMAIN due, c # d,
                        NEW e \in K[c], e \in K[d]
                 PROVE  FALSE
      BY <1>6
    <2>1. e.start = due[c] /\ e.start = due[d]
      BY EventFacts DEF BarSet
    <2>2. due[c] # due[d]
      BY <1>2, <1>3 DEF Lists
    <2> QED BY <2>1, <2>2
  <1>9. DueBars(watermark) = UNION {K[c] : c \in 1 .. Len(bars)}
    <2>1. \A i \in D : \E c \in DOMAIN due : due[c] = i
      BY <1>2, <1>3 DEF Lists
    <2>2. \A c \in DOMAIN due : due[c] \in D
      BY <1>5
    <2>3. ASSUME NEW e \in DueBars(watermark) PROVE e \in UNION {K[c] : c \in DOMAIN due}
      <3>1. PICK i \in D : e \in BarSet(i, buckets[i], Filled(buckets[i]))
        BY <1>1 DEF DueBars
      <3>2. PICK c \in DOMAIN due : due[c] = i
        BY <2>1
      <3>3. e \in K[c]
        BY <3>1, <3>2
      <3> QED BY <3>2, <3>3
    <2>4. ASSUME NEW c \in DOMAIN due, NEW e \in K[c] PROVE e \in DueBars(watermark)
      <3>1. /\ due[c] \in Due(watermark)
            /\ e \in BarSet(due[c], buckets[due[c]], Filled(buckets[due[c]]))
        BY <1>1, <2>2
      <3> QED BY <3>1 DEF DueBars
    <2> HIDE DEF K
    <2> QED BY <1>6, <2>3, <2>4
  <1> HIDE DEF K
  <1>10. Lists(FlattenSeq(bars), DueBars(watermark))
    BY <1>6, <1>7, <1>8, <1>9, FlattenLists
  <1> QED BY <1>1, <1>3, <1>4, <1>10

\* The constants that are numbers.
LEMMA Constants ==
    /\ Interval \in Nat \ {0} /\ Lateness \in Nat /\ Retention \in Nat /\ MaxSilence \in Nat
    /\ Times \subseteq Nat
  BY IngestionAssumption

\* The events of the log and those of the running call that are still to come.
All == log \o todo

\* Everything but what waits for the append is as before.
Kept == /\ All' = All
        /\ UNCHANGED <<buckets, cutoff, last, base>>
        /\ log' \in Seq(Events) /\ todo' \in Seq(Events) /\ Len(log') \in Nat
        /\ Len(log) =< Len(log')
        /\ processed' \in BOOLEAN /\ watermark' \in Int
        /\ ~processed' => (~processed /\ watermark' = watermark)

\* A duplicate or a quarantined record moves the watermark only, an append moves
\* one event from the call to the log.
LEMMA KeptSteps ==
    ASSUME IngestTypeOK,
           \/ \E q \in Quotes, t \in Times : Duplicate(q, t)
           \/ \E t \in Times : Quarantine(t)
           \/ AppendNext
           \/ UNCHANGED vars
    PROVE  Kept
  <1> USE DEF IngestTypeOK
  <1>1. CASE \E q \in Quotes, t \in Times : Duplicate(q, t)
    BY <1>1, Constants DEF Duplicate, Received, Kept, All, memory
  <1>2. CASE \E t \in Times : Quarantine(t)
    BY <1>2, Constants DEF Quarantine, Received, Kept, All, memory
  <1>3. CASE AppendNext
    <2>1. todo # <<>> /\ log' = Append(log, Head(todo)) /\ todo' = Tail(todo)
      BY <1>3 DEF AppendNext
    <2>2. /\ log' \in Seq(Events) /\ todo' \in Seq(Events) /\ Len(log') = Len(log) + 1
          /\ Len(todo') = Len(todo) - 1 /\ Len(log) \in Nat /\ Len(todo) \in Nat \ {0}
      BY <2>1
    <2>3. \A n \in 1 .. Len(log) : log'[n] = log[n]
      BY <2>1
    <2>4. log'[Len(log) + 1] = todo[1]
      BY <2>1
    <2>5. \A n \in 1 .. Len(todo') : todo'[n] = todo[n + 1]
      BY <2>1
    <2>6. All \in Seq(Events) /\ All' \in Seq(Events) /\ Len(All') = Len(All)
          /\ Len(All) = Len(log) + Len(todo)
      <3>1. log \in Seq(Events) /\ todo \in Seq(Events)
        BY DEF IngestTypeOK
      <3>2. All \in Seq(Events) /\ Len(All) = Len(log) + Len(todo)
        BY <3>1 DEF All
      <3>3. All' \in Seq(Events) /\ Len(All') = Len(log') + Len(todo')
        BY <2>2 DEF All
      <3> QED BY <2>2, <3>2, <3>3
    <2>7. ASSUME NEW n \in 1 .. Len(All) PROVE All'[n] = All[n]
      <3>1. CASE n \in 1 .. Len(log)
        BY <2>2, <2>3, <3>1 DEF All
      <3>2. CASE n = Len(log) + 1
        <4>1. All'[n] = log'[n] /\ All[n] = todo[1]
          BY <2>2, <3>2 DEF All
        <4> QED BY <2>4, <3>2, <4>1
      <3>3. CASE n > Len(log) + 1
        <4>1. n - (Len(log) + 1) \in 1 .. Len(todo') /\ (n - (Len(log) + 1)) + 1 = n - Len(log)
          BY <2>2, <2>6, <3>3
        <4>2. All'[n] = todo'[n - (Len(log) + 1)] /\ All[n] = todo[n - Len(log)]
          BY <2>2, <2>6, <3>3 DEF All
        <4> QED BY <2>5, <4>1, <4>2
      <3> QED BY <2>2, <2>6, <3>1, <3>2, <3>3
    <2>8. All' = All
      BY <2>6, <2>7
    <2> QED BY <1>3, <2>2, <2>8 DEF AppendNext, Kept, memory
  <1>4. CASE UNCHANGED vars
    BY <1>4 DEF vars, memory, Kept, All
  <1> QED BY <1>1, <1>2, <1>3, <1>4

\* The events of a call follow what was there.
Extended(e) ==
    /\ All \in Seq(Events) /\ All' \in Seq(Events) /\ e \in Seq(Events)
    /\ Len(All) \in Nat /\ Len(e) \in Nat
    /\ Len(All') = Len(All) + Len(e)
    /\ \A n \in 1 .. Len(All) : All'[n] = All[n]
    /\ \A n \in (Len(All) + 1) .. Len(All') : All'[n] = e[n - Len(All)]

\* The gap that a silence before the quote gives.
LEMMA ObserveFacts ==
    ASSUME IngestTypeOK, NEW q \in Quotes
    PROVE  \/ /\ last \in Quotes /\ last.healthy /\ q.healthy /\ q.time > last.time + MaxSilence
              /\ Observe(q) = <<Gap("SILENCE", last.time, q.time)>>
              /\ Gap("SILENCE", last.time, q.time) \in Events
           \/ /\ ~(last.healthy /\ q.healthy /\ q.time > last.time + MaxSilence)
              /\ Observe(q) = <<>>
  <1> USE DEF Observe
  <1>1. CASE last.healthy /\ q.healthy /\ q.time > last.time + MaxSilence
    <2>1. last \in Quotes
      BY <1>1 DEF IngestTypeOK, NoQuote
    <2>2. last.time \in Int /\ q.time \in Int
      BY <2>1, QuoteFacts
    <2>3. Gap("SILENCE", last.time, q.time) \in Events
      BY <2>2 DEF Events, GapEvents
    <2> QED BY <1>1, <2>1, <2>3
  <1>2. CASE ~(last.healthy /\ q.healthy /\ q.time > last.time + MaxSilence)
    BY <1>2
  <1> QED BY <1>1, <1>2

\* At most one event, and a gap.
LEMMA ObserveTyped ==
    ASSUME IngestTypeOK, NEW q \in Quotes
    PROVE  Observe(q) \in Seq(Events)
  <1>1. \A e \in Events : <<e>> \in Seq(Events)
    OBVIOUS
  <1>2. <<>> \in Seq(Events)
    OBVIOUS
  <1> QED BY <1>1, <1>2, ObserveFacts

\* The log with an event appended and then the call's, or with all of them.
LEMMA AppendCall ==
    ASSUME NEW S, NEW l \in Seq(S), NEW e \in S, NEW o \in Seq(S), NEW g \in Seq(S)
    PROVE  Append(l, e) \o (o \o g) = l \o (<<e>> \o o \o g)
  <1>1. <<e>> \in Seq(S) /\ Append(l, e) = l \o <<e>>
    BY AppendIsConcat
  <1>2. PICK d : d = <<e>>
    OBVIOUS
  <1>3. (l \o d) \o (o \o g) = l \o (d \o (o \o g))
    BY <1>1, <1>2, ConcatProperties, ConcatAssociative
  <1>4. d \o (o \o g) = d \o o \o g
    BY <1>1, <1>2, ConcatAssociative
  <1> QED BY <1>1, <1>2, <1>3, <1>4

\* What a quote of an expired interval adds: itself, a silence, the gap.
LEMMA ProcessExpired ==
    ASSUME IngestTypeOK, NEW q \in Quotes, NEW t \in Times, Process(q, t), CorrectionExpired(q)
    PROVE  LET i == IntervalStart(q)
               gap == Gap("EXPIRED", i, i + Interval)
           IN  /\ Extended(<<[type |-> "quote", quote |-> q]>> \o Observe(q) \o <<gap>>)
               /\ todo' \in Seq(Events) /\ log' \in Seq(Events) /\ Len(log') = Len(log) + 1
  <1>1. PICK i \in Int : i = IntervalStart(q)
    BY QuoteFacts
  <1>2. PICK gap : gap = Gap("EXPIRED", i, i + Interval)
    OBVIOUS
  <1>3. gap \in Events
    BY <1>1, <1>2, Constants DEF Events, GapEvents
  <1>4. PICK o \in Seq(Events) : o = Observe(q)
    BY ObserveTyped
  <1>5. PICK e : e = [type |-> "quote", quote |-> q]
    OBVIOUS
  <1>6. e \in Events
    BY <1>5 DEF Events, QuoteEvents
  <1>7. log' = Append(log, e) /\ todo' = o \o <<gap>> /\ todo = <<>> /\ log \in Seq(Events)
    BY <1>1, <1>2, <1>4, <1>5 DEF Process, Quiet, IngestTypeOK
  <1>8. All = log
    BY <1>7 DEF All
  <1>9. PICK x : x = <<e>> \o o \o <<gap>>
    OBVIOUS
  <1>10. x \in Seq(Events) /\ All' = log \o x /\ todo' \in Seq(Events) /\ log' \in Seq(Events)
         /\ Len(log') = Len(log) + 1
    BY <1>3, <1>6, <1>7, <1>9 DEF All
  <1>11. Extended(x)
    BY <1>7, <1>8, <1>10 DEF Extended
  <1> QED BY <1>1, <1>2, <1>4, <1>5, <1>9, <1>10, <1>11

\* What a quote the builder accepts adds: itself, a silence, new revisions.
LEMMA ProcessAccepted ==
    ASSUME IngestTypeOK, NEW q \in Quotes, NEW t \in Times, Process(q, t), ~CorrectionExpired(q)
    PROVE  LET i == IntervalStart(q)
               bucket == WithSamples(Bucket(i), q)
               bases == IF bucket.closed THEN Changed(q) ELSE {}
           IN  /\ Extended(<<[type |-> "quote", quote |-> q]>> \o Observe(q)
                               \o Bars(i, bucket, bases))
               /\ todo' \in Seq(Events) /\ log' \in Seq(Events) /\ Len(log') = Len(log) + 1
               /\ Bars(i, bucket, bases) \in Seq(BarEvents)
  <1>1. PICK i \in Int : i = IntervalStart(q)
    BY QuoteFacts
  <1>2. PICK bucket \in BucketType : bucket = WithSamples(Bucket(i), q)
    BY BucketTyped, WithSamplesFacts DEF IngestTypeOK
  <1>3. PICK bases \in SUBSET Basis : bases = IF bucket.closed THEN Changed(q) ELSE {}
    BY DEF Changed
  <1>4. PICK bars : bars = Bars(i, bucket, bases)
    OBVIOUS
  <1>5. bars \in Seq(BarEvents)
    <2>1. Lists(bars, BarSet(i, bucket, bases))
      BY <1>4, BarsList
    <2>2. BarSet(i, bucket, bases) \subseteq BarEvents
      BY DEF BarSet, BarEvents
    <2> QED BY <2>1, <2>2 DEF Lists
  <1>6. bars \in Seq(Events)
    BY <1>5 DEF Events
  <1>7. PICK o \in Seq(Events) : o = Observe(q)
    BY ObserveTyped
  <1>8. PICK e : e = [type |-> "quote", quote |-> q]
    OBVIOUS
  <1>9. e \in Events
    BY <1>8 DEF Events, QuoteEvents
  <1>10. log' = Append(log, e) /\ todo' = o \o bars /\ todo = <<>> /\ log \in Seq(Events)
    BY <1>1, <1>2, <1>3, <1>4, <1>7, <1>8 DEF Process, Quiet, IngestTypeOK
  <1>11. All = log
    BY <1>10 DEF All
  <1>12. PICK x : x = <<e>> \o o \o bars
    OBVIOUS
  <1>13. x \in Seq(Events) /\ All' = log \o x /\ todo' \in Seq(Events) /\ log' \in Seq(Events)
         /\ Len(log') = Len(log) + 1
    <2>1. All' = log \o x
      BY <1>6, <1>9, <1>10, <1>12, AppendCall DEF All
    <2>2. <<e>> \in Seq(Events)
      BY <1>9
    <2>3. x \in Seq(Events)
      BY <1>6, <1>12, <2>2
    <2> QED BY <1>6, <1>9, <1>10, <2>1, <2>3
  <1>14. Extended(x)
    BY <1>10, <1>11, <1>13 DEF Extended
  <1> QED BY <1>1, <1>2, <1>3, <1>4, <1>5, <1>7, <1>8, <1>12, <1>13, <1>14

\* What advance_bars adds: the bars of the due buckets.
LEMMA AdvanceExtends ==
    ASSUME IngestTypeOK, AdvanceBars
    PROVE  /\ Extended(todo') /\ Lists(todo', DueBars(watermark))
           /\ DueBars(watermark) \subseteq BarEvents
  <1>1. Lists(todo', DueBars(watermark))
    BY AdvanceLists DEF AdvanceBars
  <1>2. DueBars(watermark) \subseteq BarEvents
    BY DEF DueBars, BarSet, BarEvents, Due, Filled, IngestTypeOK, BucketsOK
  <1>3. todo' \in Seq(Events)
    BY <1>1, <1>2 DEF Lists, Events
  <1>4. log' = log /\ todo = <<>> /\ log \in Seq(Events)
    BY DEF AdvanceBars, IngestTypeOK
  <1>5. All = log /\ All' = log \o todo'
    BY <1>4 DEF All
  <1>6. Extended(todo')
    BY <1>3, <1>4, <1>5 DEF Extended
  <1> QED BY <1>1, <1>2, <1>6

\* What one step adds to an interval that stays or becomes known.
LEMMA ProcessBuckets ==
    ASSUME IngestTypeOK, NEW q \in Quotes, NEW t \in Times, Process(q, t), ~CorrectionExpired(q)
    PROVE  LET i == IntervalStart(q)
               bucket == WithSamples(Bucket(i), q)
               bases == IF bucket.closed THEN Changed(q) ELSE {}
           IN  /\ DOMAIN buckets' = DOMAIN buckets \cup {i}
               /\ buckets'[i] = Built(bucket, bases)
               /\ \A j \in DOMAIN buckets \ {i} : buckets'[j] = buckets[j]
  BY DEF Process

\* The buckets that advance_bars leaves.
LEMMA AdvanceBuckets ==
    ASSUME IngestTypeOK, AdvanceBars
    PROVE  /\ DOMAIN buckets' = DOMAIN buckets \ Expired(watermark)
           /\ \A i \in DOMAIN buckets' : buckets'[i] =
                  IF i \in Due(watermark)
                  THEN [Built(buckets[i], Filled(buckets[i])) EXCEPT !.closed = TRUE]
                  ELSE buckets[i]
           /\ cutoff' \in Int /\ cutoff =< cutoff' /\ watermark - Retention =< cutoff'
           /\ cutoff' = cutoff \/ cutoff' = watermark - Retention
  <1>1. cutoff \in Int /\ watermark - Retention \in Int
    BY Constants DEF IngestTypeOK
  <1>2. \A x, y \in Int : Max({x, y}) \in {x, y} /\ x =< Max({x, y}) /\ y =< Max({x, y})
    <2> SUFFICES ASSUME NEW x \in Int, NEW y \in Int
                 PROVE  Max({x, y}) \in {x, y} /\ x =< Max({x, y}) /\ y =< Max({x, y})
      OBVIOUS
    <2>1. \E m \in {x, y} : \A n \in {x, y} : m >= n
      OBVIOUS
    <2> QED BY <2>1 DEF Max
  <1>3. cutoff' = Max({cutoff, watermark - Retention})
    BY DEF AdvanceBars, Cutoff
  <1> QED BY <1>1, <1>2, <1>3 DEF AdvanceBars

\* An event, then a sequence, then another one.
LEMMA TripleFacts ==
    ASSUME NEW S, NEW e \in S, NEW o \in Seq(S), NEW r \in Seq(S)
    PROVE  LET x == <<e>> \o o \o r
           IN  /\ x \in Seq(S) /\ Len(x) = 1 + Len(o) + Len(r)
               /\ x[1] = e
               /\ \A k \in 1 .. Len(o) : x[1 + k] = o[k]
               /\ \A k \in 1 .. Len(r) : x[1 + Len(o) + k] = r[k]
  <1>1. PICK d : d = <<e>> \o o
    OBVIOUS
  <1>2. d \in Seq(S) /\ Len(d) = 1 + Len(o) /\ d[1] = e /\ \A k \in 1 .. Len(o) : d[1 + k] = o[k]
        /\ Len(o) \in Nat /\ Len(r) \in Nat
    BY <1>1
  <1>3. PICK x : x = d \o r
    OBVIOUS
  <1>4. /\ x \in Seq(S) /\ Len(x) = 1 + Len(o) + Len(r)
        /\ \A k \in 1 .. (1 + Len(o)) : x[k] = d[k]
        /\ \A k \in 1 .. Len(r) : x[Len(d) + k] = r[k]
    <2>1. /\ x \in Seq(S) /\ Len(x) = Len(d) + Len(r)
          /\ \A k \in 1 .. (Len(d) + Len(r)) : x[k] =
                 IF k =< Len(d) THEN d[k] ELSE r[k - Len(d)]
      <3>1. d \in Seq(S)
        BY <1>2
      <3> QED BY <1>3, <3>1, ConcatProperties
    <2>2. \A k \in 1 .. Len(r) : x[Len(d) + k] = r[k]
      <3> SUFFICES ASSUME NEW k \in 1 .. Len(r) PROVE x[Len(d) + k] = r[k]
        OBVIOUS
      <3>1. Len(d) + k \in 1 .. (Len(d) + Len(r)) /\ ~(Len(d) + k =< Len(d))
            /\ (Len(d) + k) - Len(d) = k
        BY <1>2
      <3> QED BY <2>1, <3>1
    <2>3. \A k \in 1 .. (1 + Len(o)) : x[k] = d[k]
      BY <1>2, <2>1
    <2> QED BY <1>2, <2>1, <2>2, <2>3
  <1>5. x[1] = e /\ (\A k \in 1 .. Len(o) : x[1 + k] = o[k])
    BY <1>2, <1>4
  <1> QED BY <1>1, <1>2, <1>3, <1>4, <1>5

\* A quote at p, k gaps behind it, and the rest of a call.
Placed(q, r, p, k) ==
    /\ p \in Nat /\ k \in {0, 1} /\ Len(All') = p + k + Len(r)
    /\ All'[p] = [type |-> "quote", quote |-> q]
    /\ last.healthy /\ q.healthy /\ q.time > last.time + MaxSilence =>
          k = 1 /\ All'[p + 1] = Gap("SILENCE", last.time, q.time)
    /\ \A n \in (p + 1) .. (p + k) : All'[n] = Gap("SILENCE", last.time, q.time)
    /\ \A n \in 1 .. Len(r) : All'[p + k + n] = r[n]
    /\ \A n \in (p + k + 1) .. Len(All') : All'[n] = r[n - (p + k)]
    /\ \A n \in 1 .. Len(All) : All'[n] = All[n]

\* Where the events of a call on a quote are: the quote, a silence, the rest.
LEMMA CallPlaces ==
    ASSUME NEW q \in Quotes, IngestTypeOK, NEW r \in Seq(Events),
           Extended(<<[type |-> "quote", quote |-> q]>> \o Observe(q) \o r)
    PROVE  Placed(q, r, Len(All) + 1, Len(Observe(q)))
  <1>1. PICK e : e = [type |-> "quote", quote |-> q]
    OBVIOUS
  <1>2. e \in Events
    BY <1>1 DEF Events, QuoteEvents
  <1>3. PICK o \in Seq(Events) : o = Observe(q)
    BY ObserveTyped
  <1>4. PICK p, k : p = Len(All) + 1 /\ k = Len(o)
    OBVIOUS
  <1>5. PICK x : x = <<e>> \o o \o r
    OBVIOUS
  <1>6. /\ x \in Seq(Events) /\ Len(x) = 1 + k + Len(r) /\ x[1] = e /\ Len(r) \in Nat
        /\ \A n \in 1 .. k : x[1 + n] = o[n]
        /\ \A n \in 1 .. Len(r) : x[1 + k + n] = r[n]
    BY <1>2, <1>4, <1>5, TripleFacts
  <1>7. /\ k \in {0, 1}
        /\ last.healthy /\ q.healthy /\ q.time > last.time + MaxSilence => k = 1
        /\ k = 1 => o[1] = Gap("SILENCE", last.time, q.time)
    <2>1. CASE o = <<>>
      <3>1. ~(last.healthy /\ q.healthy /\ q.time > last.time + MaxSilence)
        <4>1. Len(o) = 0 /\ Len(<<Gap("SILENCE", last.time, q.time)>>) = 1
          BY <2>1
        <4>2. o # <<Gap("SILENCE", last.time, q.time)>>
          BY <4>1
        <4> QED BY <1>3, <4>2, ObserveFacts
      <3> QED BY <1>4, <2>1, <3>1
    <2>2. CASE o # <<>>
      <3>1. o = <<Gap("SILENCE", last.time, q.time)>>
        BY <1>3, <2>2, ObserveFacts
      <3> QED BY <1>4, <3>1
    <2> QED BY <2>1, <2>2
  <1>8. Extended(x)
    BY <1>1, <1>3, <1>5
  <1>9. /\ p \in Nat \ {0} /\ Len(All') = p + k + Len(r) /\ Len(All) = p - 1
        /\ \A n \in 1 .. Len(All) : All'[n] = All[n]
        /\ \A n \in p .. Len(All') : All'[n] = x[n - (p - 1)]
    <2>1. Len(All) \in Nat /\ Len(All') = Len(All) + Len(x)
      BY <1>8 DEF Extended
    <2>2. p \in Nat \ {0} /\ Len(All') = p + k + Len(r) /\ Len(All) = p - 1
      BY <1>4, <1>6, <1>7, <2>1
    <2>3. \A n \in (Len(All) + 1) .. Len(All') : All'[n] = x[n - Len(All)]
      BY <1>8 DEF Extended
    <2>4. \A n \in p .. Len(All') : All'[n] = x[n - (p - 1)]
      BY <1>4, <2>2, <2>3
    <2>5. \A n \in 1 .. Len(All) : All'[n] = All[n]
      BY <1>8 DEF Extended
    <2> QED BY <2>2, <2>4, <2>5
  <1>10. All'[p] = e
    <2>1. p \in p .. Len(All') /\ p - (p - 1) = 1
      BY <1>6, <1>7, <1>9
    <2> QED BY <1>6, <1>9, <2>1
  <1>11. \A n \in (p + 1) .. (p + k) : All'[n] = Gap("SILENCE", last.time, q.time)
    <2> SUFFICES ASSUME NEW n \in (p + 1) .. (p + k)
                 PROVE  All'[n] = Gap("SILENCE", last.time, q.time)
      OBVIOUS
    <2>1. k = 1 /\ n = p + 1 /\ n \in p .. Len(All') /\ n - (p - 1) = 1 + 1
      BY <1>6, <1>7, <1>9
    <2>2. x[1 + 1] = o[1]
      BY <1>6, <2>1
    <2> QED BY <1>7, <1>9, <2>1, <2>2
  <1>12. \A n \in 1 .. Len(r) : All'[p + k + n] = r[n]
    <2> SUFFICES ASSUME NEW n \in 1 .. Len(r) PROVE All'[p + k + n] = r[n]
      OBVIOUS
    <2>1. p + k + n \in p .. Len(All') /\ (p + k + n) - (p - 1) = 1 + k + n
      BY <1>6, <1>7, <1>9
    <2> QED BY <1>6, <1>9, <2>1
  <1>13. \A n \in (p + k + 1) .. Len(All') : All'[n] = r[n - (p + k)]
    <2> SUFFICES ASSUME NEW n \in (p + k + 1) .. Len(All') PROVE All'[n] = r[n - (p + k)]
      OBVIOUS
    <2>1. n - (p + k) \in 1 .. Len(r) /\ p + k + (n - (p + k)) = n
      BY <1>6, <1>7, <1>9
    <2> QED BY <1>12, <2>1
  <1>14. k = 1 => All'[p + 1] = Gap("SILENCE", last.time, q.time)
    BY <1>7, <1>9, <1>11
  <1> QED BY <1>1, <1>3, <1>4, <1>7, <1>9, <1>10, <1>11, <1>12, <1>13, <1>14 DEF Placed

\* The process starts again: nothing is left of the session.
LEMMA CrashFacts ==
    ASSUME IngestTypeOK, Crash
    PROVE  /\ All' = log /\ base' = Len(log) /\ log' = log /\ todo' = <<>> /\ Len(log) \in Nat
           /\ DOMAIN buckets' = {} /\ last' = NoQuote /\ cutoff' = Never
  <1>1. log \in Seq(Events) /\ todo' = <<>> /\ log' = log
    BY DEF IngestTypeOK, Crash
  <1>2. All' = log
    BY <1>1 DEF All
  <1>3. DOMAIN buckets' = {}
    BY DEF Crash, Empty
  <1> QED BY <1>1, <1>2, <1>3 DEF Crash

----------------------------------------------------------------------------

\* The next-state relation, by what a step does to the events.
LEMMA StepKinds ==
    ASSUME IngestTypeOK, [Next]_vars
    PROVE  \/ Kept
           \/ \E q \in Quotes, t \in Times : Process(q, t)
           \/ AdvanceBars
           \/ Crash
  BY KeptSteps DEF Next

\* Each step keeps the type of the state.
LEMMA TypeStep ==
    ASSUME IngestTypeOK, [Next]_vars
    PROVE  IngestTypeOK'
  <1>0. BucketsOK /\ Len(log) \in Nat /\ base \in 0 .. Len(log)
    BY DEF IngestTypeOK
  <1>1. CASE Kept
    <2>1. BucketsOK'
      BY <1>0, <1>1 DEF Kept, BucketsOK
    <2>2. base' \in 0 .. Len(log')
      BY <1>0, <1>1 DEF Kept
    <2> QED BY <1>1, <2>1, <2>2 DEF Kept, IngestTypeOK
  <1>2. ASSUME NEW q \in Quotes, NEW t \in Times, Process(q, t) PROVE IngestTypeOK'
    <2>1. last' = q /\ watermark' = t /\ processed' = TRUE /\ cutoff' = cutoff /\ base' = base
      BY <1>2 DEF Process, Received
    <2>2. todo' \in Seq(Events) /\ log' \in Seq(Events) /\ Len(log') = Len(log) + 1
      BY <1>2, ProcessExpired, ProcessAccepted
    <2>3. t \in Int
      BY Constants
    <2>4. BucketsOK'
      <3>1. CASE CorrectionExpired(q)
        BY <1>0, <1>2, <3>1 DEF Process, BucketsOK
      <3>2. CASE ~CorrectionExpired(q)
        <4>1. PICK i \in Int : i = IntervalStart(q)
          BY QuoteFacts
        <4>2. PICK bucket \in BucketType : bucket = WithSamples(Bucket(i), q)
          BY <1>0, BucketTyped, WithSamplesFacts
        <4>3. PICK bases : bases = IF bucket.closed THEN Changed(q) ELSE {}
          OBVIOUS
        <4>4. buckets' = [j \in DOMAIN buckets \cup {i} |->
                                  IF j = i THEN Built(bucket, bases) ELSE buckets[j]]
          BY <1>2, <3>2, <4>1, <4>2, <4>3 DEF Process
        <4>5. Built(bucket, bases) \in BucketType
          BY BuiltFacts
        <4>6. IsFiniteSet(DOMAIN buckets \cup {i})
          BY <1>0, FS_AddElement DEF BucketsOK
        <4> QED BY <1>0, <4>4, <4>5, <4>6 DEF BucketsOK
      <3> QED BY <3>1, <3>2
    <2> QED BY <1>0, <2>1, <2>2, <2>3, <2>4 DEF IngestTypeOK
  <1>3. CASE AdvanceBars
    <2>1. todo' \in Seq(Events)
      BY <1>3, AdvanceExtends DEF Extended
    <2>2. cutoff' \in Int
      BY <1>3, AdvanceBuckets
    <2>3. BucketsOK'
      <3>1. IsFiniteSet(DOMAIN buckets \ Expired(watermark))
        BY <1>0, FS_Difference DEF BucketsOK
      <3>2. \A i \in DOMAIN buckets :
               [Built(buckets[i], Filled(buckets[i])) EXCEPT !.closed = TRUE] \in BucketType
        <4> SUFFICES ASSUME NEW i \in DOMAIN buckets
                     PROVE  [Built(buckets[i], Filled(buckets[i])) EXCEPT !.closed = TRUE]
                                \in BucketType
          OBVIOUS
        <4>1. PICK b \in BucketType : b = Built(buckets[i], Filled(buckets[i]))
          BY <1>0, BuiltFacts DEF BucketsOK
        <4>2. [b EXCEPT !.closed = TRUE] \in BucketType
          BY DEF BucketType
        <4> QED BY <4>1, <4>2
      <3>3. buckets' = [i \in DOMAIN buckets \ Expired(watermark) |->
                          IF i \in Due(watermark)
                          THEN [Built(buckets[i], Filled(buckets[i])) EXCEPT !.closed = TRUE]
                          ELSE buckets[i]]
        BY <1>3 DEF AdvanceBars
      <3> QED BY <1>0, <3>1, <3>2, <3>3 DEF BucketsOK
    <2> QED BY <1>3, <2>1, <2>2, <2>3 DEF AdvanceBars, IngestTypeOK
  <1>4. CASE Crash
    <2>1. BucketsOK'
      <3>1. DOMAIN buckets' = {} /\ buckets' = Empty
        BY <1>4, CrashFacts DEF Crash
      <3> QED BY <3>1, FS_EmptySet DEF BucketsOK, Empty
    <2>2. Never \in Int
      BY DEF Never
    <2>3. todo' \in Seq(Events)
      BY <1>4 DEF Crash
    <2>4. base' \in 0 .. Len(log')
      BY <1>0, <1>4 DEF Crash
    <2> QED BY <1>4, <2>1, <2>2, <2>3, <2>4 DEF Crash, IngestTypeOK
  <1> QED BY <1>1, <1>2, <1>3, <1>4, StepKinds

\* The initial state has its type.
LEMMA TypeInit == Init => IngestTypeOK
  <1> SUFFICES ASSUME Init PROVE IngestTypeOK
    OBVIOUS
  <1>1. BucketsOK
    <2>1. buckets = Empty /\ DOMAIN buckets = {}
      BY DEF Init, Empty
    <2> QED BY <2>1, FS_EmptySet DEF BucketsOK, Empty
  <1>2. <<>> \in Seq(Events) /\ Len(<<>>) = 0 /\ Never \in Int
    BY DEF Never
  <1>3. log \in Seq(Events) /\ todo \in Seq(Events) /\ base \in 0 .. Len(log)
    BY <1>2 DEF Init
  <1>4. processed \in BOOLEAN /\ last \in Quotes \cup {NoQuote}
    BY Zenon DEF Init
  <1>5. watermark \in Int /\ cutoff \in Int
    BY DEF Init, Never
  <1> QED BY <1>1, <1>3, <1>4, <1>5 DEF IngestTypeOK

----------------------------------------------------------------------------
(* The three invariants that do not look into the bars.                    *)

\* The positions of the events of the process.
Span == (base + 1) .. Len(All)
QuoteIn(F, n) == F[n].type = "quote"
ExpiredIn(F, n) == F[n].type = "gap" /\ F[n].reason = "EXPIRED"
BarIn(F, n, i) == F[n].type = "bar" /\ F[n].start = i

\* A kept bucket is recent, or open and its lateness has not passed for any
\* watermark that has moved the cutoff; between two records it has not passed at all.
Recent ==
    \A i \in DOMAIN buckets :
        /\ \/ i + Interval > cutoff
           \/ ~buckets[i].closed /\ i + Interval + Lateness > cutoff + Retention
        /\ ~processed /\ ~buckets[i].closed => i + Interval + Lateness > watermark

\* The interval of an expired gap is behind the cutoff and has no bucket, and
\* nothing that is logged or waits after the gap is a bar of it.
Gone ==
    \A g \in Span : ExpiredIn(All, g) =>
        /\ All[g].start \notin DOMAIN buckets /\ All[g].start + Interval =< cutoff
        /\ All[g].start \in Int
        /\ \A n \in Span : g < n => ~BarIn(All, n, All[g].start)

\* _last_quote is the last quote of the session.
LastSeen ==
    \/ last = NoQuote /\ \A n \in Span : ~QuoteIn(All, n)
    \/ \E n \in Span : /\ QuoteIn(All, n) /\ All[n].quote = last
                       /\ \A m \in Span : n < m => ~QuoteIn(All, m)

Adjacent(F, n, m) == n < m /\ QuoteIn(F, n) /\ QuoteIn(F, m)
                     /\ \A k \in (n + 1) .. (m - 1) : ~QuoteIn(F, k)
Silent(q, r) == q.healthy /\ r.healthy /\ r.time > q.time + MaxSilence

\* The gap of a silence follows the quote that ends it.
Reported ==
    \A n, m \in Span : Adjacent(All, n, m) /\ Silent(All[n].quote, All[m].quote) =>
        /\ m + 1 \in Span
        /\ All[m + 1] = Gap("SILENCE", All[n].quote.time, All[m].quote.time)

IngestInv == IngestTypeOK /\ Recent /\ Gone /\ LastSeen /\ Reported

\* The events of the process are numbers in the sequence.
LEMMA SpanTyped ==
    ASSUME IngestTypeOK
    PROVE  /\ All \in Seq(Events) /\ Len(All) \in Nat /\ base \in Nat /\ base =< Len(All)
           /\ Span \subseteq 1 .. Len(All)
           /\ \A n \in 1 .. Len(All) : All[n] \in Events
  <1>1. log \in Seq(Events) /\ todo \in Seq(Events) /\ base \in 0 .. Len(log)
    BY DEF IngestTypeOK
  <1>2. All \in Seq(Events) /\ Len(All) = Len(log) + Len(todo) /\ Len(log) \in Nat
        /\ Len(todo) \in Nat
    BY <1>1 DEF All
  <1> QED BY <1>1, <1>2 DEF Span

\* What is said of the events of the session holds of the same events.
LEMMA KeptEvents ==
    ASSUME Kept
    PROVE  Span' = Span /\ (Gone <=> Gone') /\ (LastSeen <=> LastSeen')
           /\ (Reported <=> Reported')
  BY DEF Kept, Span, Gone, ExpiredIn, BarIn, LastSeen, QuoteIn, Reported, Adjacent

\* Each step keeps the buckets recent.
LEMMA RecentStep ==
    ASSUME IngestTypeOK, Recent, [Next]_vars
    PROVE  Recent'
  <1>0. /\ BucketsOK /\ cutoff \in Int /\ watermark \in Int
        /\ Interval \in Nat \ {0} /\ Lateness \in Nat /\ Retention \in Nat
    BY Constants DEF IngestTypeOK
  <1>1. CASE Kept
    BY <1>1 DEF Kept, Recent
  <1>2. ASSUME NEW q \in Quotes, NEW t \in Times, Process(q, t) PROVE Recent'
    <2>1. processed' = TRUE /\ cutoff' = cutoff
      BY <1>2 DEF Process, Received
    <2>2. CASE CorrectionExpired(q)
      BY <1>2, <2>1, <2>2 DEF Process, Recent
    <2>3. CASE ~CorrectionExpired(q)
      <3>1. PICK i \in Int : i = IntervalStart(q)
        BY QuoteFacts
      <3>2. /\ DOMAIN buckets' = DOMAIN buckets \cup {i}
            /\ \A j \in DOMAIN buckets \ {i} : buckets'[j] = buckets[j]
        BY <1>2, <2>3, <3>1, ProcessBuckets
      <3>3. buckets'[i].closed = Bucket(i).closed
        <4>1. Bucket(i) \in BucketType
          BY <1>0, BucketTyped
        <4>2. PICK bucket \in BucketType : bucket = WithSamples(Bucket(i), q)
          BY <4>1, WithSamplesFacts
        <4>3. bucket.closed = Bucket(i).closed
          BY <4>1, <4>2, WithSamplesFacts
        <4>4. \E bases : buckets'[i] = Built(bucket, bases)
          BY <1>2, <2>3, <3>1, <4>2, ProcessBuckets
        <4> QED BY <4>3, <4>4, BuiltFacts
      <3>4. i \in DOMAIN buckets \/ (i + Interval > cutoff /\ i \notin DOMAIN buckets)
        BY <1>0, <2>3, <3>1 DEF CorrectionExpired
      <3>5. i \in DOMAIN buckets => Bucket(i) = buckets[i]
        BY DEF Bucket
      <3> QED BY <2>1, <3>2, <3>3, <3>4, <3>5 DEF Recent
    <2> QED BY <2>2, <2>3
  <1>3. CASE AdvanceBars
    <2>1. watermark' = watermark
      BY <1>3 DEF AdvanceBars
    <2>2. /\ cutoff' \in Int /\ cutoff =< cutoff' /\ watermark - Retention =< cutoff'
          /\ cutoff' = cutoff \/ cutoff' = watermark - Retention
      BY <1>3, AdvanceBuckets
    <2> SUFFICES ASSUME NEW i \in DOMAIN buckets'
                 PROVE  /\ \/ i + Interval > cutoff'
                           \/ /\ ~buckets'[i].closed
                              /\ i + Interval + Lateness > cutoff' + Retention
                        /\ ~buckets'[i].closed => i + Interval + Lateness > watermark
      BY <2>1 DEF Recent
    <2>3. i \in DOMAIN buckets /\ i \notin Expired(watermark) /\ i \in Int
      BY <1>0, <1>3, AdvanceBuckets DEF BucketsOK
    <2>4. \/ i + Interval > cutoff
          \/ ~buckets[i].closed /\ i + Interval + Lateness > cutoff + Retention
      BY <2>3 DEF Recent
    <2>5. CASE i \in Due(watermark)
      <3>1. i + Interval + Lateness =< watermark
        BY <2>5 DEF Due
      <3>2. ~(i + Interval =< watermark - Retention)
        BY <2>3, <2>5 DEF Expired
      <3>3. i + Interval > cutoff'
        BY <1>0, <2>2, <2>3, <2>4, <3>1, <3>2
      <3>4. buckets'[i].closed
        <4>1. PICK b \in BucketType : b = Built(buckets[i], Filled(buckets[i]))
          BY <1>0, <2>3, BuiltFacts DEF BucketsOK
        <4>2. [b EXCEPT !.closed = TRUE].closed = TRUE
          BY DEF BucketType
        <4> QED BY <1>3, <2>5, <4>1, <4>2, AdvanceBuckets
      <3> QED BY <3>3, <3>4
    <2>6. CASE i \notin Due(watermark)
      <3>1. buckets'[i] = buckets[i]
        BY <1>3, <2>6, AdvanceBuckets
      <3>2. CASE buckets[i].closed
        <4>1. ~(i + Interval =< watermark - Retention)
          BY <2>3, <3>2 DEF Expired
        <4> QED BY <1>0, <2>2, <2>3, <2>4, <3>1, <3>2, <4>1
      <3>3. CASE ~buckets[i].closed
        <4>1. ~(i + Interval + Lateness =< watermark)
          BY <2>3, <2>6, <3>3 DEF Due
        <4>2. i + Interval + Lateness > watermark
          BY <1>0, <2>3, <4>1
        <4>3. i + Interval > cutoff' \/ i + Interval + Lateness > cutoff' + Retention
          BY <1>0, <2>2, <2>3, <2>4, <4>2
        <4> QED BY <3>1, <3>3, <4>2, <4>3
      <3> QED BY <3>2, <3>3
    <2> QED BY <2>5, <2>6
  <1>4. CASE Crash
    BY <1>4, CrashFacts DEF Recent
  <1> QED BY <1>1, <1>2, <1>3, <1>4, StepKinds

\* The rest of the events of a call on a quote: the gap, or the revisions.
Rest(q) ==
    LET i == IntervalStart(q)
        bucket == WithSamples(Bucket(i), q)
        bases == IF bucket.closed THEN Changed(q) ELSE {}
    IN  IF CorrectionExpired(q) THEN <<Gap("EXPIRED", i, i + Interval)>>
                                ELSE Bars(i, bucket, bases)

\* The rest are gaps and bars of the interval of the quote.
LEMMA RestTyped ==
    ASSUME IngestTypeOK, NEW q \in Quotes, NEW t \in Times, Process(q, t)
    PROVE  /\ Rest(q) \in Seq(Events) /\ Len(Rest(q)) \in Nat
           /\ Extended(<<[type |-> "quote", quote |-> q]>> \o Observe(q) \o Rest(q))
           /\ CorrectionExpired(q) => Rest(q) =
                 <<Gap("EXPIRED", IntervalStart(q), IntervalStart(q) + Interval)>>
           /\ ~CorrectionExpired(q) => \A k \in 1 .. Len(Rest(q)) :
                 Rest(q)[k].type = "bar" /\ Rest(q)[k].start = IntervalStart(q)
           /\ \A k \in 1 .. Len(Rest(q)) : Rest(q)[k].type # "quote"
  <1>1. CASE CorrectionExpired(q)
    <2>1. PICK gap : gap = Gap("EXPIRED", IntervalStart(q), IntervalStart(q) + Interval)
      OBVIOUS
    <2>2. gap \in Events /\ gap.type = "gap"
      BY <2>1, QuoteFacts, Constants, EventFacts DEF Events, GapEvents
    <2>3. Rest(q) = <<gap>>
      BY <1>1, <2>1 DEF Rest
    <2>4. Rest(q) \in Seq(Events) /\ Len(Rest(q)) = 1 /\ Rest(q)[1] = gap
      BY <2>2, <2>3
    <2>5. Extended(<<[type |-> "quote", quote |-> q]>> \o Observe(q) \o Rest(q))
      BY <1>1, <2>1, <2>3, ProcessExpired
    <2> QED BY <1>1, <2>1, <2>2, <2>3, <2>4, <2>5
  <1>2. CASE ~CorrectionExpired(q)
    <2>1. PICK i : i = IntervalStart(q)
      OBVIOUS
    <2>2. PICK bucket : bucket = WithSamples(Bucket(i), q)
      OBVIOUS
    <2>3. PICK bases \in SUBSET Basis : bases = IF bucket.closed THEN Changed(q) ELSE {}
      BY DEF Changed
    <2>4. PICK r : r = Rest(q)
      OBVIOUS
    <2>5. r = Bars(i, bucket, bases)
      BY <1>2, <2>1, <2>2, <2>3, <2>4 DEF Rest
    <2>6. /\ Extended(<<[type |-> "quote", quote |-> q]>> \o Observe(q) \o r)
          /\ r \in Seq(BarEvents)
      BY <1>2, <2>1, <2>2, <2>3, <2>5, ProcessAccepted
    <2>7. r \in Seq(BarSet(i, bucket, bases))
      BY <2>5, BarsList DEF Lists
    <2>8. \A k \in 1 .. Len(r) : r[k].type = "bar" /\ r[k].start = i
      <3>1. \A k \in 1 .. Len(r) : r[k] \in BarSet(i, bucket, bases)
        BY <2>7
      <3> QED BY <3>1, EventFacts DEF BarSet
    <2>9. r \in Seq(Events) /\ Len(r) \in Nat
      BY <2>6 DEF Events
    <2> QED BY <1>2, <2>1, <2>4, <2>6, <2>8, <2>9
  <1> QED BY <1>1, <1>2

\* The session after a call on a quote: the quote at p, a silence behind it.
LEMMA ProcessSpan ==
    ASSUME IngestTypeOK, NEW q \in Quotes, NEW t \in Times, Process(q, t)
    PROVE  LET p == Len(All) + 1
               k == Len(Observe(q))
           IN  /\ p \in Nat /\ k \in {0, 1} /\ Len(All') = p + k + Len(Rest(q))
               /\ Span' = Span \cup (p .. Len(All')) /\ p \in Span'
               /\ \A n \in Span : n \in Nat /\ n < p /\ All'[n] = All[n]
               /\ All'[p] = [type |-> "quote", quote |-> q]
               /\ Silent(last, q) =>
                     k = 1 /\ All'[p + 1] = Gap("SILENCE", last.time, q.time)
               /\ \A n \in (p + 1) .. (p + k) : All'[n] = Gap("SILENCE", last.time, q.time)
               /\ \A n \in (p + k + 1) .. Len(All') :
                     /\ All'[n] = Rest(q)[n - (p + k)]
                     /\ n - (p + k) \in 1 .. Len(Rest(q))
               /\ \A n \in 1 .. Len(Rest(q)) : All'[p + k + n] = Rest(q)[n]
               /\ \A n \in (p + 1) .. Len(All') : All'[n].type # "quote"
  <1>1. PICK p, k, r : p = Len(All) + 1 /\ k = Len(Observe(q)) /\ r = Rest(q)
    OBVIOUS
  <1>2. /\ p \in Nat /\ k \in {0, 1} /\ Len(All') = p + k + Len(r)
        /\ All'[p] = [type |-> "quote", quote |-> q]
        /\ last.healthy /\ q.healthy /\ q.time > last.time + MaxSilence =>
              k = 1 /\ All'[p + 1] = Gap("SILENCE", last.time, q.time)
        /\ \A n \in (p + 1) .. (p + k) : All'[n] = Gap("SILENCE", last.time, q.time)
        /\ \A n \in 1 .. Len(r) : All'[p + k + n] = r[n]
        /\ \A n \in (p + k + 1) .. Len(All') : All'[n] = r[n - (p + k)]
        /\ \A n \in 1 .. Len(All) : All'[n] = All[n]
    <2>1. r \in Seq(Events)
          /\ Extended(<<[type |-> "quote", quote |-> q]>> \o Observe(q) \o r)
      BY <1>1, RestTyped
    <2>2. Placed(q, r, p, k)
      BY <1>1, <2>1, CallPlaces
    <2> QED BY <2>2 DEF Placed
  <1>3. base' = base /\ base \in Nat /\ base =< p - 1 /\ Len(All) = p - 1 /\ Len(r) \in Nat
    BY <1>1, SpanTyped, RestTyped DEF Process
  <1>4. Span' = Span \cup (p .. Len(All')) /\ p \in Span'
    BY <1>2, <1>3 DEF Span
  <1>5. \A n \in Span : n \in Nat /\ n < p /\ All'[n] = All[n]
    BY <1>2, <1>3 DEF Span
  <1>6. \A n \in (p + k + 1) .. Len(All') : n - (p + k) \in 1 .. Len(r)
    BY <1>2, <1>3
  <1>7. \A n \in (p + 1) .. Len(All') : All'[n].type # "quote"
    <2> SUFFICES ASSUME NEW n \in (p + 1) .. Len(All') PROVE All'[n].type # "quote"
      OBVIOUS
    <2>1. n \in (p + 1) .. (p + k) \/ n \in (p + k + 1) .. Len(All')
      BY <1>2
    <2>2. CASE n \in (p + 1) .. (p + k)
      BY <1>2, <2>2, EventFacts
    <2>3. CASE n \in (p + k + 1) .. Len(All')
      BY <1>1, <1>2, <1>6, <2>3, RestTyped
    <2> QED BY <2>1, <2>2, <2>3
  <1> QED BY <1>1, <1>2, <1>4, <1>5, <1>6, <1>7 DEF Silent

\* The session after advance_bars: bars of due buckets behind it.
LEMMA AdvanceSpan ==
    ASSUME IngestTypeOK, AdvanceBars
    PROVE  LET p == Len(All)
           IN  /\ p \in Nat /\ Len(All') = p + Len(todo') /\ Len(todo') \in Nat
               /\ Span' = Span \cup ((p + 1) .. Len(All'))
               /\ \A n \in Span : n \in Nat /\ n =< p /\ All'[n] = All[n]
               /\ \A n \in (p + 1) .. Len(All') :
                     All'[n] = todo'[n - p] /\ n - p \in DOMAIN todo'
               /\ \A n \in DOMAIN todo' : All'[p + n] = todo'[n]
               /\ \A n \in (p + 1) .. Len(All') : /\ All'[n].type = "bar"
                                                  /\ All'[n].start \in Due(watermark)
  <1>1. PICK p, e : p = Len(All) /\ e = todo'
    OBVIOUS
  <1>2. /\ p \in Nat /\ e \in Seq(Events) /\ Len(All') = p + Len(e)
        /\ \A n \in 1 .. p : All'[n] = All[n]
        /\ \A n \in (p + 1) .. Len(All') : All'[n] = e[n - p]
    BY <1>1, AdvanceExtends DEF Extended
  <1>3. base' = base /\ base \in Nat /\ base =< p
    BY <1>1, SpanTyped DEF AdvanceBars
  <1>4. Len(e) \in Nat /\ DOMAIN e = 1 .. Len(e)
    BY <1>2
  <1>5. Span' = Span \cup ((p + 1) .. Len(All'))
    BY <1>1, <1>2, <1>3, <1>4 DEF Span
  <1>6. \A n \in Span : n \in Nat /\ n =< p /\ All'[n] = All[n]
    BY <1>1, <1>2, <1>3 DEF Span
  <1>7. \A n \in (p + 1) .. Len(All') : n - p \in DOMAIN e
    BY <1>2, <1>4
  <1>8. \A n \in DOMAIN e : All'[p + n] = e[n]
    <2> SUFFICES ASSUME NEW n \in DOMAIN e PROVE All'[p + n] = e[n]
      OBVIOUS
    <2>1. p + n \in (p + 1) .. Len(All') /\ (p + n) - p = n
      BY <1>2, <1>4
    <2> QED BY <1>2, <2>1
  <1>9. \A n \in DOMAIN e : e[n].type = "bar" /\ e[n].start \in Due(watermark)
    <2> SUFFICES ASSUME NEW n \in DOMAIN e
                 PROVE  e[n].type = "bar" /\ e[n].start \in Due(watermark)
      OBVIOUS
    <2>1. e[n] \in DueBars(watermark)
      BY <1>1, AdvanceExtends DEF Lists
    <2>2. PICK i \in Due(watermark) : e[n] \in BarSet(i, buckets[i], Filled(buckets[i]))
      BY <2>1 DEF DueBars
    <2> QED BY <2>2, EventFacts DEF BarSet
  <1>10. \A n \in (p + 1) .. Len(All') : /\ All'[n].type = "bar"
                                         /\ All'[n].start \in Due(watermark)
    BY <1>2, <1>7, <1>9
  <1>11. \A n \in (p + 1) .. Len(All') : All'[n] = e[n - p] /\ n - p \in DOMAIN e
    BY <1>2, <1>7
  <1> QED BY <1>1, <1>2, <1>4, <1>5, <1>6, <1>8, <1>10, <1>11

\* After a restart the session is empty.
LEMMA CrashSpan ==
    ASSUME IngestTypeOK, Crash
    PROVE  Span' = {}
  BY CrashFacts DEF Span

\* Each step keeps expired intervals out.
LEMMA GoneStep ==
    ASSUME IngestTypeOK, Gone, [Next]_vars
    PROVE  Gone'
  <1>0. /\ cutoff \in Int /\ Interval \in Nat
    BY Constants DEF IngestTypeOK
  <1>1. CASE Kept
    BY <1>1, KeptEvents
  <1>2. ASSUME NEW q \in Quotes, NEW t \in Times, Process(q, t) PROVE Gone'
    <2>1. PICK p, k : p = Len(All) + 1 /\ k = Len(Observe(q))
      OBVIOUS
    <2>2. PICK i \in Int : i = IntervalStart(q)
      BY QuoteFacts
    <2>3. /\ p \in Nat /\ k \in {0, 1}
          /\ Span' = Span \cup (p .. Len(All'))
          /\ \A n \in Span : n \in Nat /\ n < p /\ All'[n] = All[n]
          /\ All'[p] = [type |-> "quote", quote |-> q]
          /\ \A n \in (p + 1) .. (p + k) : All'[n] = Gap("SILENCE", last.time, q.time)
          /\ Len(All') = p + k + Len(Rest(q)) /\ Len(Rest(q)) \in Nat
          /\ \A n \in (p + k + 1) .. Len(All') :
                All'[n] = Rest(q)[n - (p + k)] /\ n - (p + k) \in 1 .. Len(Rest(q))
      BY <1>2, <2>1, ProcessSpan, RestTyped
    <2>4. \A n \in Span' : \/ n \in Span \/ n = p \/ n \in (p + 1) .. (p + k)
                           \/ n \in (p + k + 1) .. Len(All')
      BY <2>3
    <2>5. cutoff' = cutoff
      BY <1>2 DEF Process
    <2>6. \A n \in p .. (p + k) : ~ExpiredIn(All', n) /\ \A j : ~BarIn(All', n, j)
      <3> SUFFICES ASSUME NEW n \in p .. (p + k)
                   PROVE  ~ExpiredIn(All', n) /\ \A j : ~BarIn(All', n, j)
        OBVIOUS
      <3>1. n = p \/ n \in (p + 1) .. (p + k)
        BY <2>3
      <3>2. \/ All'[n].type = "quote"
            \/ All'[n].type = "gap" /\ All'[n].reason = "SILENCE"
        <4>1. CASE n = p
          BY <2>3, <4>1
        <4>2. CASE n \in (p + 1) .. (p + k)
          <5>1. All'[n] = Gap("SILENCE", last.time, q.time)
            BY <2>3, <4>2
          <5> QED BY <5>1, EventFacts
        <4> QED BY <3>1, <4>1, <4>2
      <3> QED BY <3>2 DEF ExpiredIn, BarIn
    <2>7. CASE CorrectionExpired(q)
      <3>1. UNCHANGED buckets
        BY <1>2, <2>7 DEF Process
      <3>2. Rest(q) = <<Gap("EXPIRED", i, i + Interval)>>
        BY <1>2, <2>2, <2>7, RestTyped
      <3>3. i \notin DOMAIN buckets /\ i + Interval =< cutoff
        BY <2>2, <2>7 DEF CorrectionExpired
      <3>4. Len(Rest(q)) = 1 /\ Rest(q)[1] = Gap("EXPIRED", i, i + Interval)
        BY <3>2
      <3>5. \A n \in (p + k + 1) .. Len(All') :
               n = Len(All') /\ All'[n] = Gap("EXPIRED", i, i + Interval)
        BY <2>3, <3>4
      <3>6. \A n \in (p + k + 1) .. Len(All') : \A j : ~BarIn(All', n, j)
        BY <3>5, EventFacts DEF BarIn
      <3>7. \A n \in p .. Len(All') : \A j : ~BarIn(All', n, j)
        BY <2>3, <2>6, <3>6
      <3> SUFFICES ASSUME NEW g \in Span', ExpiredIn(All', g)
                   PROVE  /\ All'[g].start \notin DOMAIN buckets
                          /\ All'[g].start + Interval =< cutoff
                          /\ All'[g].start \in Int
                          /\ \A n \in Span' : g < n => ~BarIn(All', n, All'[g].start)
        BY <2>5, <3>1 DEF Gone
      <3>8. CASE g \in Span
        <4>1. All'[g] = All[g] /\ ExpiredIn(All, g)
          BY <2>3, <3>8 DEF ExpiredIn
        <4>2. \A n \in Span : g < n => ~BarIn(All', n, All[g].start)
          BY <2>3, <3>8, <4>1 DEF Gone, BarIn
        <4>3. \A n \in Span' : g < n => ~BarIn(All', n, All[g].start)
          BY <2>3, <3>7, <4>2
        <4> QED BY <3>8, <4>1, <4>3 DEF Gone
      <3>9. CASE g \notin Span
        <4>1. g \in (p + k + 1) .. Len(All')
          BY <2>3, <2>4, <2>6, <3>9
        <4>2. g = Len(All') /\ All'[g].start = i
          BY <3>5, <4>1, EventFacts
        <4>3. \A n \in Span' : ~(g < n)
          BY <2>3, <4>2
        <4> QED BY <3>3, <4>2, <4>3
      <3> QED BY <3>8, <3>9
    <2>8. CASE ~CorrectionExpired(q)
      <3>1. DOMAIN buckets' = DOMAIN buckets \cup {i}
        BY <1>2, <2>2, <2>8, ProcessBuckets
      <3>2. \A n \in (p + k + 1) .. Len(All') : All'[n].type = "bar" /\ All'[n].start = i
        BY <1>2, <2>2, <2>3, <2>8, RestTyped
      <3>3. i \in DOMAIN buckets \/ ~(i + Interval =< cutoff)
        BY <2>2, <2>8 DEF CorrectionExpired
      <3> SUFFICES ASSUME NEW g \in Span', ExpiredIn(All', g)
                   PROVE  /\ All'[g].start \notin DOMAIN buckets'
                          /\ All'[g].start + Interval =< cutoff
                          /\ All'[g].start \in Int
                          /\ \A n \in Span' : g < n => ~BarIn(All', n, All'[g].start)
        BY <2>5 DEF Gone
      <3>4. g \in Span
        <4>1. \A n \in (p + k + 1) .. Len(All') : ~ExpiredIn(All', n)
          BY <3>2 DEF ExpiredIn
        <4>2. g \in Span \/ g \in p .. (p + k) \/ g \in (p + k + 1) .. Len(All')
          BY <2>3
        <4> QED BY <2>6, <4>1, <4>2
      <3>5. All'[g] = All[g] /\ ExpiredIn(All, g)
        BY <2>3, <3>4 DEF ExpiredIn
      <3>6. All[g].start \notin DOMAIN buckets /\ All[g].start + Interval =< cutoff
            /\ All[g].start \in Int
        BY <3>4, <3>5 DEF Gone
      <3>7. All[g].start # i
        BY <3>3, <3>6
      <3>8. \A n \in Span : g < n => ~BarIn(All', n, All[g].start)
        BY <2>3, <3>4, <3>5 DEF Gone, BarIn
      <3>9. \A n \in p .. Len(All') : ~BarIn(All', n, All[g].start)
        <4>1. \A n \in (p + k + 1) .. Len(All') : ~BarIn(All', n, All[g].start)
          BY <3>2, <3>7 DEF BarIn
        <4>2. \A n \in p .. Len(All') : n \in p .. (p + k) \/ n \in (p + k + 1) .. Len(All')
          BY <2>3
        <4> QED BY <2>6, <4>1, <4>2
      <3> QED BY <2>3, <3>1, <3>5, <3>6, <3>7, <3>8, <3>9
    <2> QED BY <2>7, <2>8
  <1>3. CASE AdvanceBars
    <2>1. PICK p : p = Len(All)
      OBVIOUS
    <2>2. /\ p \in Nat
          /\ Span' = Span \cup ((p + 1) .. Len(All'))
          /\ \A n \in Span : n \in Nat /\ n =< p /\ All'[n] = All[n]
          /\ \A n \in (p + 1) .. Len(All') : /\ All'[n].type = "bar"
                                             /\ All'[n].start \in Due(watermark)
      BY <1>3, <2>1, AdvanceSpan
    <2>3. cutoff' \in Int /\ cutoff =< cutoff' /\ DOMAIN buckets' \subseteq DOMAIN buckets
      BY <1>3, AdvanceBuckets
    <2> SUFFICES ASSUME NEW g \in Span', ExpiredIn(All', g)
                 PROVE  /\ All'[g].start \notin DOMAIN buckets'
                        /\ All'[g].start + Interval =< cutoff'
                        /\ All'[g].start \in Int
                        /\ \A n \in Span' : g < n => ~BarIn(All', n, All'[g].start)
      BY DEF Gone
    <2>4. g \in Span
      <3>1. \A n \in (p + 1) .. Len(All') : ~ExpiredIn(All', n)
        BY <2>2 DEF ExpiredIn
      <3> QED BY <2>2, <3>1
    <2>5. All'[g] = All[g] /\ ExpiredIn(All, g)
      BY <2>2, <2>4 DEF ExpiredIn
    <2>6. All[g].start \notin DOMAIN buckets /\ All[g].start + Interval =< cutoff
          /\ All[g].start \in Int
      BY <2>4, <2>5 DEF Gone
    <2>7. All[g].start \notin Due(watermark)
      BY <2>6 DEF Due
    <2>8. \A n \in Span : g < n => ~BarIn(All', n, All[g].start)
      BY <2>2, <2>4, <2>5 DEF Gone, BarIn
    <2>9. \A n \in (p + 1) .. Len(All') : ~BarIn(All', n, All[g].start)
      BY <2>2, <2>7 DEF BarIn
    <2>10. All[g].start + Interval =< cutoff'
      BY <1>0, <2>3, <2>6
    <2> QED BY <2>2, <2>3, <2>5, <2>6, <2>8, <2>9, <2>10
  <1>4. CASE Crash
    BY <1>4, CrashSpan DEF Gone
  <1> QED BY <1>1, <1>2, <1>3, <1>4, StepKinds

\* Each step keeps track of the last quote.
LEMMA LastSeenStep ==
    ASSUME IngestTypeOK, LastSeen, [Next]_vars
    PROVE  LastSeen'
  <1>1. CASE Kept
    BY <1>1, KeptEvents
  <1>2. ASSUME NEW q \in Quotes, NEW t \in Times, Process(q, t) PROVE LastSeen'
    <2>1. PICK p : p = Len(All) + 1
      OBVIOUS
    <2>2. /\ p \in Nat /\ p \in Span'
          /\ Span' = Span \cup (p .. Len(All'))
          /\ \A n \in Span : n \in Nat /\ n < p
          /\ All'[p] = [type |-> "quote", quote |-> q]
          /\ \A n \in (p + 1) .. Len(All') : All'[n].type # "quote"
      BY <1>2, <2>1, ProcessSpan
    <2>3. \A m \in Span' : p < m => ~QuoteIn(All', m)
      <3> SUFFICES ASSUME NEW m \in Span', p < m PROVE ~QuoteIn(All', m)
        OBVIOUS
      <3>1. m \in (p + 1) .. Len(All')
        BY <2>2
      <3> QED BY <2>2, <3>1 DEF QuoteIn
    <2>4. QuoteIn(All', p) /\ All'[p].quote = q /\ last' = q
      BY <1>2, <2>2 DEF QuoteIn, Process
    <2> QED BY <2>2, <2>3, <2>4 DEF LastSeen
  <1>3. CASE AdvanceBars
    <2>1. PICK p : p = Len(All)
      OBVIOUS
    <2>2. /\ Span' = Span \cup ((p + 1) .. Len(All'))
          /\ \A n \in Span : All'[n] = All[n]
          /\ \A n \in (p + 1) .. Len(All') : All'[n].type = "bar"
      BY <1>3, <2>1, AdvanceSpan
    <2>3. \A n \in Span : QuoteIn(All', n) <=> QuoteIn(All, n)
      BY <2>2 DEF QuoteIn
    <2>4. \A n \in Span' : QuoteIn(All', n) => n \in Span
      BY <2>2 DEF QuoteIn
    <2>5. last' = last
      BY <1>3 DEF AdvanceBars
    <2>6. CASE last = NoQuote /\ \A n \in Span : ~QuoteIn(All, n)
      BY <2>3, <2>4, <2>5, <2>6 DEF LastSeen
    <2>7. CASE \E n \in Span : /\ QuoteIn(All, n) /\ All[n].quote = last
                               /\ \A m \in Span : n < m => ~QuoteIn(All, m)
      <3>1. PICK n \in Span : /\ QuoteIn(All, n) /\ All[n].quote = last
                              /\ \A m \in Span : n < m => ~QuoteIn(All, m)
        BY <2>7
      <3>2. n \in Span' /\ QuoteIn(All', n) /\ All'[n].quote = last'
        BY <2>2, <2>3, <2>5, <3>1
      <3>3. \A m \in Span' : n < m => ~QuoteIn(All', m)
        BY <2>3, <2>4, <3>1
      <3> QED BY <3>2, <3>3 DEF LastSeen
    <2> QED BY <2>6, <2>7 DEF LastSeen
  <1>4. CASE Crash
    <2>1. last' = NoQuote /\ Span' = {}
      BY <1>4, CrashSpan, CrashFacts
    <2> QED BY <2>1 DEF LastSeen
  <1> QED BY <1>1, <1>2, <1>3, <1>4, StepKinds

\* Adjacent quotes stay adjacent when the events up to the second stay the same.
LEMMA AdjacentSame ==
    ASSUME NEW F, NEW G, NEW n \in Int, NEW m \in Int, Adjacent(G, n, m),
           \A k \in n .. m : G[k] = F[k]
    PROVE  Adjacent(F, n, m)
  <1>1. n < m /\ n \in n .. m /\ m \in n .. m
    BY DEF Adjacent
  <1>2. \A k \in (n + 1) .. (m - 1) : k \in n .. m
    OBVIOUS
  <1> QED BY <1>1, <1>2 DEF Adjacent, QuoteIn

\* Each step keeps silences reported.
LEMMA ReportedStep ==
    ASSUME IngestTypeOK, LastSeen, Reported, [Next]_vars
    PROVE  Reported'
  <1>1. CASE Kept
    BY <1>1, KeptEvents
  <1>2. ASSUME NEW q \in Quotes, NEW t \in Times, Process(q, t) PROVE Reported'
    <2>1. PICK p, k : p = Len(All) + 1 /\ k = Len(Observe(q))
      OBVIOUS
    <2>2. /\ p \in Nat /\ k \in {0, 1} /\ p \in Span'
          /\ Len(All') = p + k + Len(Rest(q)) /\ Len(Rest(q)) \in Nat
          /\ Span' = Span \cup (p .. Len(All'))
          /\ \A n \in Span : n \in Nat /\ n < p /\ All'[n] = All[n]
          /\ All'[p] = [type |-> "quote", quote |-> q]
          /\ Silent(last, q) => k = 1 /\ All'[p + 1] = Gap("SILENCE", last.time, q.time)
          /\ \A n \in (p + 1) .. Len(All') : All'[n].type # "quote"
      BY <1>2, <2>1, ProcessSpan, RestTyped
    <2>3. Span = (base + 1) .. (p - 1) /\ base \in Nat
      BY <2>1, SpanTyped DEF Span
    <2> SUFFICES ASSUME NEW n \in Span', NEW m \in Span', Adjacent(All', n, m),
                        Silent(All'[n].quote, All'[m].quote)
                 PROVE  /\ m + 1 \in Span'
                        /\ All'[m + 1] = Gap("SILENCE", All'[n].quote.time, All'[m].quote.time)
      BY DEF Reported
    <2>4. n < m /\ QuoteIn(All', n) /\ QuoteIn(All', m)
          /\ \A j \in (n + 1) .. (m - 1) : ~QuoteIn(All', j)
      BY DEF Adjacent
    <2>5. (m \in Span \/ m = p) /\ n \in Span
      <3>1. \A j \in Span' : QuoteIn(All', j) => j \in Span \/ j = p
        BY <2>2 DEF QuoteIn
      <3>2. m \in Span \/ m = p
        BY <2>4, <3>1
      <3>3. n \in Span \/ n = p
        BY <2>4, <3>1
      <3> QED BY <2>2, <2>4, <3>2, <3>3
    <2>6. CASE m \in Span
      <3>1. n \in Int /\ m \in Int
        <4>1. \A j \in Span : j \in Int
          BY <2>2
        <4> QED BY <2>5, <2>6, <4>1
      <3>2. \A j \in n .. m : All'[j] = All[j]
        BY <2>2, <2>3, <2>5, <2>6
      <3>3. Adjacent(All, n, m)
        BY <3>1, <3>2, AdjacentSame
      <3>4. n \in n .. m /\ m \in n .. m
        BY <2>4, <3>1
      <3>5. All'[n] = All[n] /\ All'[m] = All[m]
        BY <3>2, <3>4
      <3>6. /\ m + 1 \in Span
            /\ All[m + 1] = Gap("SILENCE", All[n].quote.time, All[m].quote.time)
        BY <2>5, <2>6, <3>3, <3>5 DEF Reported
      <3> QED BY <2>2, <3>5, <3>6
    <2>7. CASE m = p
      <3>1. All'[n] = All[n] /\ QuoteIn(All, n)
        BY <2>2, <2>4, <2>5 DEF QuoteIn
      <3>2. \A j \in Span : n < j => ~QuoteIn(All, j)
        <4> SUFFICES ASSUME NEW j \in Span, n < j PROVE ~QuoteIn(All, j)
          OBVIOUS
        <4>1. j \in (n + 1) .. (m - 1)
          BY <2>2, <2>5, <2>7
        <4> QED BY <2>2, <2>4, <4>1 DEF QuoteIn
      <3>3. last = All[n].quote
        <4>1. PICK l \in Span : /\ QuoteIn(All, l) /\ All[l].quote = last
                                /\ \A j \in Span : l < j => ~QuoteIn(All, j)
          BY <2>5, <3>1 DEF LastSeen
        <4>2. ~(n < l) /\ ~(l < n) /\ n \in Int /\ l \in Int
          BY <2>2, <2>5, <3>1, <3>2, <4>1
        <4>3. n = l
          BY <4>2
        <4> QED BY <4>1, <4>3
      <3>4. All'[m].quote = q
        BY <2>2, <2>7
      <3>5. k = 1 /\ All'[m + 1] = Gap("SILENCE", last.time, q.time)
        BY <2>2, <2>7, <3>1, <3>3, <3>4
      <3>6. m + 1 \in Span'
        BY <2>2, <2>7, <3>5
      <3> QED BY <3>1, <3>3, <3>4, <3>5, <3>6
    <2> QED BY <2>5, <2>6, <2>7
  <1>3. CASE AdvanceBars
    <2>1. PICK p : p = Len(All)
      OBVIOUS
    <2>2. /\ p \in Nat
          /\ Span' = Span \cup ((p + 1) .. Len(All'))
          /\ \A n \in Span : n \in Nat /\ All'[n] = All[n]
          /\ \A n \in (p + 1) .. Len(All') : All'[n].type = "bar"
      BY <1>3, <2>1, AdvanceSpan
    <2>3. Span = (base + 1) .. p /\ base \in Nat
      BY <2>1, SpanTyped DEF Span
    <2> SUFFICES ASSUME NEW n \in Span', NEW m \in Span', Adjacent(All', n, m),
                        Silent(All'[n].quote, All'[m].quote)
                 PROVE  /\ m + 1 \in Span'
                        /\ All'[m + 1] = Gap("SILENCE", All'[n].quote.time, All'[m].quote.time)
      BY DEF Reported
    <2>4. n < m /\ QuoteIn(All', n) /\ QuoteIn(All', m)
      BY DEF Adjacent
    <2>5. m \in Span /\ n \in Span
      BY <2>2, <2>4 DEF QuoteIn
    <2>6. n \in Int /\ m \in Int /\ n \in n .. m /\ m \in n .. m
      BY <2>2, <2>4, <2>5
    <2>7. \A j \in n .. m : All'[j] = All[j]
      BY <2>2, <2>3, <2>5
    <2>8. Adjacent(All, n, m)
      BY <2>6, <2>7, AdjacentSame
    <2>9. All'[n] = All[n] /\ All'[m] = All[m]
      BY <2>6, <2>7
    <2>10. /\ m + 1 \in Span
           /\ All[m + 1] = Gap("SILENCE", All[n].quote.time, All[m].quote.time)
      BY <2>5, <2>8, <2>9 DEF Reported
    <2> QED BY <2>2, <2>9, <2>10
  <1>4. CASE Crash
    <2>1. Span' = {}
      BY <1>4, CrashSpan
    <2> QED BY <2>1 DEF Reported
  <1> QED BY <1>1, <1>2, <1>3, <1>4, StepKinds

\* The initial state satisfies the invariant.
LEMMA IngestInvInit == Init => IngestInv
  <1> SUFFICES ASSUME Init PROVE IngestInv
    OBVIOUS
  <1>1. IngestTypeOK
    BY TypeInit
  <1>2. Span = {}
    <2>1. log = <<>> /\ todo = <<>> /\ base = 0
      BY DEF Init
    <2>2. Len(All) = 0
      BY <2>1 DEF All
    <2> QED BY <2>1, <2>2 DEF Span
  <1>3. DOMAIN buckets = {} /\ last = NoQuote
    BY DEF Init, Empty
  <1> QED BY <1>1, <1>2, <1>3 DEF IngestInv, Recent, Gone, LastSeen, Reported

\* The invariant holds in every reachable state.
THEOREM Ingested == Spec => []IngestInv
  <1>1. IngestInv /\ [Next]_vars => IngestInv'
    BY TypeStep, RecentStep, GoneStep, LastSeenStep, ReportedStep DEF IngestInv
  <1> QED BY <1>1, IngestInvInit, PTL DEF Spec

\* The events that are logged are those of the session, in their places.
LEMMA LogIsAll ==
    ASSUME IngestTypeOK
    PROVE  /\ Session \subseteq Span /\ (\A n \in Session : log[n] = All[n])
           /\ Len(log) \in Nat /\ Session \subseteq Nat
           /\ Quiet => All = log /\ Session = Span
  <1>1. log \in Seq(Events) /\ todo \in Seq(Events) /\ base \in 0 .. Len(log)
    BY DEF IngestTypeOK
  <1>2. Len(All) = Len(log) + Len(todo) /\ Len(log) \in Nat /\ Len(todo) \in Nat
        /\ \A n \in 1 .. Len(log) : All[n] = log[n]
    BY <1>1 DEF All
  <1>3. Quiet => All = log
    BY <1>1 DEF Quiet, All
  <1> QED BY <1>1, <1>2, <1>3 DEF Session, Span

\* Once an interval has expired, no bar of it is appended any more.
THEOREM ExpiredIntervalsStayOut == Spec => []ExpiredStaysOut
  <1>1. IngestInv => ExpiredStaysOut
    <2> SUFFICES ASSUME IngestInv, NEW g \in Session, NEW n \in Session,
                        log[g].type = "gap", log[g].reason = "EXPIRED", g < n
                 PROVE  ~(log[n].type = "bar" /\ log[n].start = log[g].start)
      BY DEF ExpiredStaysOut
    <2>1. g \in Span /\ n \in Span /\ log[g] = All[g] /\ log[n] = All[n]
      BY LogIsAll DEF IngestInv
    <2>2. ExpiredIn(All, g)
      BY <2>1 DEF ExpiredIn
    <2>3. ~BarIn(All, n, All[g].start)
      BY <2>1, <2>2 DEF IngestInv, Gone
    <2> QED BY <2>1, <2>3 DEF BarIn
  <1> QED BY <1>1, Ingested, PTL

\* The builder keeps an interval as long as it is open or can be corrected.
THEOREM BuilderIsBounded == Spec => []StateIsBounded
  <1>1. IngestInv => StateIsBounded
    <2> SUFFICES ASSUME IngestInv, Quiet, NEW i \in DOMAIN buckets
                 PROVE  IF buckets[i].closed THEN i + Interval > cutoff
                                             ELSE i + Interval + Lateness > watermark
      BY DEF StateIsBounded
    <2> QED BY DEF IngestInv, Recent, Quiet
  <1> QED BY <1>1, Ingested, PTL

\* The minimum of a set of natural numbers is its least element.
LEMMA MinLeast ==
    ASSUME NEW T \in SUBSET Nat, T # {}
    PROVE  Min(T) \in T /\ \A y \in T : Min(T) =< y
  <1>1. \E x \in T : \A y \in T : x =< y
    BY LeastNat
  <1> QED BY <1>1 DEF Min

\* The next quote of the session, or the end of the log.
LEMMA NextQuoteFacts ==
    ASSUME IngestTypeOK, NEW n \in Session
    PROVE  /\ NextQuote(n) \in Nat /\ n < NextQuote(n) /\ NextQuote(n) =< Len(log) + 1
           /\ NextQuote(n) =< Len(log) => NextQuote(n) \in Session /\ QuoteIn(log, NextQuote(n))
           /\ \A k \in (n + 1) .. (NextQuote(n) - 1) : k \in Session /\ ~QuoteIn(log, k)
  <1>1. log \in Seq(Events) /\ Len(log) \in Nat /\ base \in 0 .. Len(log)
        /\ DOMAIN log = 1 .. Len(log)
    BY DEF IngestTypeOK
  <1>2. Session = (base + 1) .. Len(log)
    BY DEF Session
  <1> DEFINE T == {Len(log) + 1} \cup {m \in Session : m > n /\ IsQuote(m)}
  <1>3. T \in SUBSET Nat /\ T # {} /\ Len(log) + 1 \in T
    BY <1>1, <1>2
  <1>4. PICK m : m = NextQuote(n)
    OBVIOUS
  <1>5. m \in T /\ \A y \in T : m =< y
    BY <1>3, <1>4, MinLeast DEF NextQuote
  <1>6. \A k \in Session : IsQuote(k) <=> QuoteIn(log, k)
    BY <1>1, <1>2 DEF IsQuote, QuoteIn
  <1>7. m \in Nat /\ n < m /\ m =< Len(log) + 1
    BY <1>1, <1>2, <1>3, <1>5
  <1>8. m =< Len(log) => m \in Session /\ QuoteIn(log, m)
    BY <1>1, <1>5, <1>6
  <1>9. \A k \in (n + 1) .. (m - 1) : k \in Session /\ ~QuoteIn(log, k)
    <2> SUFFICES ASSUME NEW k \in (n + 1) .. (m - 1) PROVE k \in Session /\ ~QuoteIn(log, k)
      OBVIOUS
    <2>1. k \in Session /\ k > n /\ ~(m =< k)
      BY <1>1, <1>2, <1>7
    <2>2. k \notin T
      BY <1>5, <2>1
    <2> QED BY <1>6, <2>1, <2>2
  <1> HIDE DEF T
  <1> QED BY <1>4, <1>7, <1>8, <1>9

\* Between two records, the log has a gap event for every silence between two
\* adjacent healthy quotes of the running process (GapDetector.observe and the
\* append that follows the quote), for any quotes and any maximum silence.
THEOREM SilencesAreReported == Spec => []SilenceIsReported
  <1>1. IngestInv => SilenceIsReported
    <2> SUFFICES ASSUME IngestInv, Quiet, NEW n \in Session,
                        IsQuote(n), NextQuote(n) =< Len(log),
                        log[n].quote.healthy, log[NextQuote(n)].quote.healthy,
                        log[NextQuote(n)].quote.time > log[n].quote.time + MaxSilence
                 PROVE  \E g \in NextQuote(n) + 1 .. NextQuote(NextQuote(n)) - 1 :
                            log[g] = Gap("SILENCE", log[n].quote.time,
                                         log[NextQuote(n)].quote.time)
      BY DEF SilenceIsReported
    <2>0. IngestTypeOK
      BY DEF IngestInv
    <2>1. PICK m : m = NextQuote(n)
      OBVIOUS
    <2>2. /\ m \in Nat /\ n < m /\ m \in Session /\ QuoteIn(log, m)
          /\ \A k \in (n + 1) .. (m - 1) : ~QuoteIn(log, k)
      BY <2>0, <2>1, NextQuoteFacts
    <2>3. Session = Span /\ All = log /\ Len(log) \in Nat /\ Session \subseteq Nat
      BY <2>0, LogIsAll
    <2>4. Adjacent(log, n, m)
      BY <2>2 DEF Adjacent, IsQuote, QuoteIn
    <2>5. Silent(log[n].quote, log[m].quote)
      BY <2>1 DEF Silent
    <2>6. /\ m + 1 \in Session
          /\ log[m + 1] = Gap("SILENCE", log[n].quote.time, log[m].quote.time)
      BY <2>2, <2>3, <2>4, <2>5 DEF IngestInv, Reported
    <2>7. PICK l : l = NextQuote(m)
      OBVIOUS
    <2>8. l \in Nat /\ m < l /\ (l =< Len(log) => QuoteIn(log, l))
      BY <2>0, <2>2, <2>7, NextQuoteFacts
    <2>9. l # m + 1
      <3> SUFFICES ASSUME l = m + 1 PROVE FALSE
        OBVIOUS
      <3>1. l =< Len(log)
        BY <2>3, <2>6 DEF Session
      <3>2. log[l].type = "quote"
        BY <2>8, <3>1 DEF QuoteIn
      <3>3. log[l].type = "gap"
        BY <2>6, EventFacts
      <3> QED BY <3>2, <3>3
    <2>10. m + 1 \in (m + 1) .. (l - 1)
      BY <2>2, <2>8, <2>9
    <2> QED BY <2>1, <2>6, <2>7, <2>10
  <1> QED BY <1>1, Ingested, PTL

----------------------------------------------------------------------------
(* The samples of a bucket and the quotes they came from.                  *)

\* t lists the samples that arrived (arrivals[s] are the places of the quotes
\* that brought s), by time and then by first arrival.
Collected(t, arrivals) ==
    /\ t \in Seq(SampleType)
    /\ \A s \in SampleType : arrivals[s] # {} <=> \E n \in DOMAIN t : t[n] = s
    /\ \A m, n \in DOMAIN t : m < n =>
           \/ t[m].time < t[n].time
           \/ /\ t[m].time = t[n].time
              /\ \E a \in arrivals[t[m]] : \A c \in arrivals[t[n]] : a < c

\* A sample that has just arrived, after all others.
LEMMA AddSampleCollected ==
    ASSUME NEW arrivals \in [SampleType -> SUBSET Nat], NEW t, Collected(t, arrivals),
           NEW s \in SampleType, NEW p \in Nat,
           \A x \in SampleType : \A a \in arrivals[x] : a < p
    PROVE  Collected(AddSample(t, s), [arrivals EXCEPT ![s] = @ \cup {p}])
  <1> DEFINE later == [arrivals EXCEPT ![s] = @ \cup {p}]
  <1>1. /\ t \in Seq(SampleType) /\ Len(t) \in Nat /\ DOMAIN t = 1 .. Len(t)
        /\ \A n \in DOMAIN t : t[n] \in SampleType /\ t[n].time \in Nat
    <2>1. t \in Seq(SampleType)
      BY DEF Collected
    <2>2. \A x \in SampleType : x.time \in Nat
      BY DEF SampleType
    <2> QED BY <2>1, <2>2
  <1>2. /\ later[s] = arrivals[s] \cup {p}
        /\ \A x \in SampleType : x # s => later[x] = arrivals[x]
    OBVIOUS
  <1>3. \A n \in DOMAIN t : arrivals[t[n]] # {}
    BY <1>1 DEF Collected
  <1>4. ASSUME NEW m \in DOMAIN t, NEW n \in DOMAIN t, m < n
        PROVE  \/ t[m].time < t[n].time
               \/ /\ t[m].time = t[n].time
                  /\ \E a \in later[t[m]] : \A c \in later[t[n]] : a < c
    <2>1. \/ t[m].time < t[n].time
          \/ /\ t[m].time = t[n].time
             /\ \E a \in arrivals[t[m]] : \A c \in arrivals[t[n]] : a < c
      BY <1>4 DEF Collected
    <2>2. ASSUME NEW a \in arrivals[t[m]], \A c \in arrivals[t[n]] : a < c
          PROVE  a \in later[t[m]] /\ \A c \in later[t[n]] : a < c
      <3>1. a < p
        BY <1>1
      <3>2. a \in later[t[m]]
        BY <1>1, <1>2
      <3>3. \A c \in later[t[n]] : c \in arrivals[t[n]] \/ c = p
        BY <1>1, <1>2
      <3> QED BY <2>2, <3>1, <3>2, <3>3
    <2> QED BY <2>1, <2>2
  <1>5. CASE s \in Range(t)
    <2>1. AddSample(t, s) = t
      BY <1>5 DEF AddSample
    <2>2. \E n \in DOMAIN t : t[n] = s
      BY <1>5 DEF Range
    <2>3. \A x \in SampleType : later[x] # {} <=> \E n \in DOMAIN t : t[n] = x
      BY <1>2, <2>2 DEF Collected
    <2> HIDE DEF later
    <2>4. Collected(t, later)
      BY <1>1, <1>4, <2>3 DEF Collected
    <2> QED BY <2>1, <2>4 DEF later
  <1>6. CASE s \notin Range(t)
    <2> DEFINE D == {n \in DOMAIN t : t[n].time =< s.time}
    <2>0. s.time \in Nat
      BY DEF SampleType
    <2>1. \A m, n \in DOMAIN t : m =< n => t[m].time =< t[n].time
      <3> SUFFICES ASSUME NEW m \in DOMAIN t, NEW n \in DOMAIN t, m =< n
                   PROVE  t[m].time =< t[n].time
        OBVIOUS
      <3>1. m = n \/ m < n
        BY <1>1
      <3>2. CASE m = n
        BY <1>1, <3>2
      <3>3. CASE m < n
        BY <1>1, <1>4, <3>3
      <3> QED BY <3>1, <3>2, <3>3
    <2>2. D \in SUBSET (1 .. Len(t)) /\ \A m \in 1 .. Len(t), n \in D : m =< n => m \in D
      <3>1. D \in SUBSET (1 .. Len(t))
        BY <1>1
      <3>2. ASSUME NEW m \in 1 .. Len(t), NEW n \in D, m =< n PROVE m \in D
        <4>1. m \in DOMAIN t /\ n \in DOMAIN t /\ t[n].time =< s.time
          BY <1>1
        <4>2. t[m].time =< t[n].time
          BY <2>1, <3>2, <4>1
        <4>3. t[m].time =< s.time
          BY <1>1, <2>0, <4>1, <4>2
        <4> QED BY <4>1, <4>3
      <3> QED BY <3>1, <3>2
    <2>3. PICK k : k = Cardinality(D)
      OBVIOUS
    <2> HIDE DEF D
    <2>4. k \in 0 .. Len(t) /\ D = 1 .. k
      BY <1>1, <2>2, <2>3, PrefixCardinality
    <2> USE DEF D
    <2>5. PICK u : u = InsertAt(t, k + 1, s)
      OBVIOUS
    <2>6. AddSample(t, s) = u
      BY <1>6, <2>3, <2>5 DEF AddSample
    <2>7. /\ u \in Seq(SampleType) /\ Len(u) = Len(t) + 1 /\ DOMAIN u = 1 .. (Len(t) + 1)
          /\ \A n \in 1 .. k : u[n] = t[n]
          /\ u[k + 1] = s
          /\ \A n \in (k + 2) .. (Len(t) + 1) : u[n] = t[n - 1]
      <3>1. t \in Seq(SampleType) /\ k \in 0 .. Len(t)
        BY <1>1, <2>4
      <3>2. u \in Seq(SampleType) /\ Inserted(u, t, k, s)
        BY <2>5, <3>1, InsertFacts
      <3> QED BY <3>2 DEF Inserted
    <2>8. \A n \in 1 .. k : n \in DOMAIN t /\ t[n].time =< s.time
      BY <2>4
    <2>9. \A n \in (k + 1) .. Len(t) : n \in DOMAIN t /\ s.time < t[n].time
      <3> SUFFICES ASSUME NEW n \in (k + 1) .. Len(t)
                   PROVE  n \in DOMAIN t /\ s.time < t[n].time
        OBVIOUS
      <3>1. n \in DOMAIN t /\ n \notin 1 .. k
        BY <1>1, <2>4
      <3>2. ~(t[n].time =< s.time)
        BY <2>4, <3>1
      <3> QED BY <1>1, <2>0, <3>1, <3>2
    <2>10. \A n \in DOMAIN u : n \in 1 .. k \/ n = k + 1 \/ n \in (k + 2) .. (Len(t) + 1)
      BY <1>1, <2>4, <2>7
    <2>11. \A n \in (k + 2) .. (Len(t) + 1) : n - 1 \in (k + 1) .. Len(t)
      BY <1>1, <2>4
    <2> HIDE DEF D
    <2>12. \A n \in DOMAIN u : u[n] = s \/ \E m \in DOMAIN t : u[n] = t[m]
      <3>1. \A n \in 1 .. k : n \in DOMAIN t
        BY <2>8
      <3>2. \A n \in (k + 2) .. (Len(t) + 1) : n - 1 \in DOMAIN t
        BY <2>9, <2>11
      <3> QED BY <2>7, <2>10, <3>1, <3>2
    <2>13. ASSUME NEW m \in DOMAIN t PROVE \E n \in DOMAIN u : u[n] = t[m]
      <3>1. CASE m =< k
        BY <1>1, <2>4, <2>7, <3>1
      <3>2. CASE ~(m =< k)
        <4>1. m + 1 \in (k + 2) .. (Len(t) + 1) /\ (m + 1) - 1 = m /\ m + 1 \in DOMAIN u
          BY <1>1, <2>4, <2>7, <3>2
        <4> QED BY <2>7, <4>1
      <3> QED BY <3>1, <3>2
    <2>14. k + 1 \in DOMAIN u /\ u[k + 1] = s
      BY <1>1, <2>4, <2>7
    <2>15. \A x \in SampleType : later[x] # {} <=> \E n \in DOMAIN u : u[n] = x
      <3> SUFFICES ASSUME NEW x \in SampleType
                   PROVE  later[x] # {} <=> \E n \in DOMAIN u : u[n] = x
        OBVIOUS
      <3>1. CASE x = s
        BY <1>2, <2>14, <3>1
      <3>2. CASE x # s
        <4>1. later[x] # {} <=> \E n \in DOMAIN t : t[n] = x
          BY <1>2, <3>2 DEF Collected
        <4>2. (\E n \in DOMAIN t : t[n] = x) <=> (\E n \in DOMAIN u : u[n] = x)
          BY <2>12, <2>13, <3>2
        <4> QED BY <4>1, <4>2
      <3> QED BY <3>1, <3>2
    <2>16. ASSUME NEW m \in DOMAIN u, NEW n \in DOMAIN u, m < n
           PROVE  \/ u[m].time < u[n].time
                  \/ /\ u[m].time = u[n].time
                     /\ \E a \in later[u[m]] : \A c \in later[u[n]] : a < c
      <3>0. m \in Nat /\ n \in Nat
        BY <2>7
      <3>1. CASE m \in 1 .. k /\ n \in 1 .. k
        <4>1. m \in DOMAIN t /\ n \in DOMAIN t /\ u[m] = t[m] /\ u[n] = t[n]
          BY <2>7, <2>8, <3>1
        <4> HIDE DEF later
        <4> QED BY <1>4, <2>16, <4>1
      <3>2. CASE m \in 1 .. k /\ n = k + 1
        <4>1. m \in DOMAIN t /\ u[m] = t[m] /\ u[n] = s /\ t[m].time =< s.time
          BY <2>7, <2>8, <3>2
        <4>2. PICK a : a \in arrivals[t[m]]
          BY <1>3, <4>1
        <4>3. t[m] # s /\ t[m] \in SampleType
          BY <1>1, <1>6, <4>1 DEF Range
        <4>4. a \in later[t[m]] /\ a < p
          BY <1>2, <4>2, <4>3
        <4>5. arrivals[s] = {}
          BY <1>6 DEF Collected, Range
        <4>6. \A c \in later[s] : c = p
          BY <1>2, <4>5
        <4>7. t[m].time < s.time \/ t[m].time = s.time
          BY <1>1, <2>0, <4>1
        <4> HIDE DEF later
        <4> QED BY <4>1, <4>4, <4>6, <4>7
      <3>3. CASE m \in 1 .. (k + 1) /\ n \in (k + 2) .. (Len(t) + 1)
        <4>1. u[n] = t[n - 1] /\ n - 1 \in DOMAIN t /\ s.time < t[n - 1].time
          BY <2>7, <2>9, <2>11, <3>3
        <4>2. u[m].time \in Nat /\ u[m].time =< s.time
          <5>1. CASE m = k + 1
            BY <2>0, <2>7, <5>1
          <5>2. CASE m # k + 1
            <6>1. m \in 1 .. k
              BY <2>4, <3>3, <5>2
            <6>2. u[m] = t[m] /\ m \in DOMAIN t /\ t[m].time =< s.time
              BY <2>7, <2>8, <6>1
            <6> QED BY <1>1, <6>2
          <5> QED BY <5>1, <5>2
        <4>3. u[m].time < u[n].time
          BY <1>1, <2>0, <4>1, <4>2
        <4> QED BY <4>3
      <3>4. CASE m \in (k + 2) .. (Len(t) + 1) /\ n \in (k + 2) .. (Len(t) + 1)
        <4>1. /\ u[m] = t[m - 1] /\ u[n] = t[n - 1] /\ m - 1 \in DOMAIN t /\ n - 1 \in DOMAIN t
          BY <2>7, <2>9, <2>11, <3>4
        <4>2. m - 1 < n - 1
          BY <2>16, <3>0
        <4> HIDE DEF later
        <4> QED BY <1>4, <4>1, <4>2
      <3>5. \/ m \in 1 .. k /\ n \in 1 .. k
            \/ m \in 1 .. k /\ n = k + 1
            \/ m \in 1 .. (k + 1) /\ n \in (k + 2) .. (Len(t) + 1)
            \/ m \in (k + 2) .. (Len(t) + 1) /\ n \in (k + 2) .. (Len(t) + 1)
        BY <1>1, <2>4, <2>7, <2>16
      <3> QED BY <3>1, <3>2, <3>3, <3>4, <3>5
    <2> HIDE DEF later
    <2>17. Collected(u, later)
      BY <2>7, <2>15, <2>16 DEF Collected
    <2> QED BY <2>6, <2>17 DEF later
  <1> QED BY <1>5, <1>6

\* A sample with its first arrival.
Arrived(s, arrivals) == [time |-> s.time, price |-> s.price, at |-> Min(arrivals[s])]

\* The order of arrivals is strict.
LEMMA EarlierStrict ==
    ASSUME NEW r, NEW s, r.time \in Nat, s.time \in Nat, r.at \in Nat, s.at \in Nat
    PROVE  ~(Earlier(r, s) /\ Earlier(s, r)) /\ ~Earlier(r, r)
  BY DEF Earlier

\* The bar of a list of samples is the bar of the set of the arrived samples.
LEMMA CollectedBar ==
    ASSUME NEW arrivals \in [SampleType -> SUBSET Nat], NEW t, Collected(t, arrivals), t # <<>>
    PROVE  LET R == {Arrived(s, arrivals) : s \in {x \in SampleType : arrivals[x] # {}}}
           IN  /\ First(R).price = t[1].price /\ Final(R).price = t[Len(t)].price
               /\ {r.price : r \in R} = {t[n].price : n \in DOMAIN t}
               /\ Cardinality(R) = Len(t)
  <1>1. /\ t \in Seq(SampleType) /\ Len(t) \in Nat \ {0} /\ DOMAIN t = 1 .. Len(t)
        /\ \A n \in DOMAIN t : t[n] \in SampleType
    <2>1. t \in Seq(SampleType)
      BY DEF Collected
    <2> QED BY <2>1
  <1> DEFINE R == {Arrived(s, arrivals) : s \in {x \in SampleType : arrivals[x] # {}}}
             rho == [n \in DOMAIN t |-> Arrived(t[n], arrivals)]
  <1>2. R = {rho[n] : n \in DOMAIN t}
    <2>1. \A s \in SampleType : arrivals[s] # {} <=> \E n \in DOMAIN t : t[n] = s
      BY DEF Collected
    <2>2. ASSUME NEW r \in R PROVE r \in {rho[n] : n \in DOMAIN t}
      <3>1. PICK s \in SampleType : arrivals[s] # {} /\ r = Arrived(s, arrivals)
        OBVIOUS
      <3>2. PICK n \in DOMAIN t : t[n] = s
        BY <2>1, <3>1
      <3>3. r = rho[n]
        BY <3>1, <3>2
      <3> QED BY <3>3
    <2>3. ASSUME NEW n \in DOMAIN t PROVE rho[n] \in R
      <3>1. t[n] \in SampleType /\ arrivals[t[n]] # {}
        BY <1>1, <2>1
      <3> QED BY <3>1
    <2> HIDE DEF R, rho
    <2> QED BY <2>2, <2>3
  <1>3. \A n \in DOMAIN t : /\ rho[n].time = t[n].time /\ rho[n].price = t[n].price
                            /\ rho[n].time \in Nat
                            /\ rho[n].at \in Nat /\ rho[n].at \in arrivals[t[n]]
                            /\ \A c \in arrivals[t[n]] : rho[n].at =< c
    <2> SUFFICES ASSUME NEW n \in DOMAIN t
                 PROVE  /\ rho[n].time = t[n].time /\ rho[n].price = t[n].price
                        /\ rho[n].time \in Nat
                        /\ rho[n].at \in Nat /\ rho[n].at \in arrivals[t[n]]
                        /\ \A c \in arrivals[t[n]] : rho[n].at =< c
      OBVIOUS
    <2>1. PICK T : T = arrivals[t[n]]
      OBVIOUS
    <2>2. T \in SUBSET Nat /\ T # {}
      BY <1>1, <2>1 DEF Collected
    <2>3. Min(T) \in T /\ \A y \in T : Min(T) =< y
      BY <2>2, MinLeast
    <2>4. rho[n] = [time |-> t[n].time, price |-> t[n].price, at |-> Min(T)]
      BY <2>1 DEF Arrived
    <2>5. t[n].time \in Nat
      BY <1>1 DEF SampleType
    <2> HIDE DEF rho
    <2> QED BY <2>1, <2>2, <2>3, <2>4, <2>5
  <1> HIDE DEF R, rho
  <1>4. ASSUME NEW m \in DOMAIN t, NEW n \in DOMAIN t, m < n PROVE Earlier(rho[m], rho[n])
    <2>1. CASE t[m].time < t[n].time
      BY <1>3, <2>1 DEF Earlier
    <2>2. CASE /\ t[m].time = t[n].time
               /\ \E a \in arrivals[t[m]] : \A c \in arrivals[t[n]] : a < c
      <3>1. PICK a \in arrivals[t[m]] : \A c \in arrivals[t[n]] : a < c
        BY <2>2
      <3>2. a \in Nat /\ rho[m].at =< a /\ a < rho[n].at
        BY <1>1, <1>3, <3>1
      <3>3. rho[m].at \in Nat /\ rho[n].at \in Nat /\ rho[m].time = rho[n].time
        BY <1>3, <2>2
      <3>4. rho[m].at < rho[n].at
        BY <3>2, <3>3
      <3> QED BY <3>3, <3>4 DEF Earlier
    <2> QED BY <1>4, <2>1, <2>2 DEF Collected
  <1>5. ASSUME NEW m \in DOMAIN t, NEW n \in DOMAIN t
        PROVE  /\ ~(Earlier(rho[m], rho[n]) /\ Earlier(rho[n], rho[m]))
               /\ ~Earlier(rho[m], rho[m])
    BY <1>3, EarlierStrict
  <1>6. \A m, n \in DOMAIN t : rho[m] = rho[n] => m = n
    <2> SUFFICES ASSUME NEW m \in DOMAIN t, NEW n \in DOMAIN t, rho[m] = rho[n], m # n
                 PROVE  FALSE
      OBVIOUS
    <2>1. m < n \/ n < m
      BY <1>1
    <2> QED BY <1>4, <1>5, <2>1
  <1>7. First(R) = rho[1]
    <2>1. 1 \in DOMAIN t
      BY <1>1
    <2>2. \A n \in DOMAIN t : n # 1 => Earlier(rho[1], rho[n])
      BY <1>1, <1>4, <2>1
    <2>3. rho[1] \in R /\ \A s \in R \ {rho[1]} : Earlier(rho[1], s)
      BY <1>2, <2>1, <2>2
    <2>4. ASSUME NEW r \in R, \A s \in R \ {r} : Earlier(r, s) PROVE r = rho[1]
      <3> SUFFICES ASSUME r # rho[1] PROVE FALSE
        OBVIOUS
      <3>1. Earlier(r, rho[1]) /\ Earlier(rho[1], r)
        BY <2>3, <2>4
      <3>2. PICK n \in DOMAIN t : r = rho[n]
        BY <1>2
      <3> QED BY <1>5, <2>1, <3>1, <3>2
    <2> QED BY <2>3, <2>4 DEF First
  <1>8. Final(R) = rho[Len(t)]
    <2>1. Len(t) \in DOMAIN t
      BY <1>1
    <2>2. \A n \in DOMAIN t : n # Len(t) => Earlier(rho[n], rho[Len(t)])
      BY <1>1, <1>4, <2>1
    <2>3. rho[Len(t)] \in R /\ \A s \in R \ {rho[Len(t)]} : Earlier(s, rho[Len(t)])
      BY <1>2, <2>1, <2>2
    <2>4. ASSUME NEW r \in R, \A s \in R \ {r} : Earlier(s, r) PROVE r = rho[Len(t)]
      <3> SUFFICES ASSUME r # rho[Len(t)] PROVE FALSE
        OBVIOUS
      <3>1. Earlier(rho[Len(t)], r) /\ Earlier(r, rho[Len(t)])
        BY <2>3, <2>4
      <3>2. PICK n \in DOMAIN t : r = rho[n]
        BY <1>2
      <3> QED BY <1>5, <2>1, <3>1, <3>2
    <2> QED BY <2>3, <2>4 DEF Final
  <1>9. {r.price : r \in R} = {t[n].price : n \in DOMAIN t}
    <2>1. ASSUME NEW r \in R PROVE \E n \in DOMAIN t : r.price = t[n].price
      BY <1>2, <1>3
    <2>2. ASSUME NEW n \in DOMAIN t PROVE \E r \in R : r.price = t[n].price
      BY <1>2, <1>3
    <2> QED BY <2>1, <2>2
  <1>10. Cardinality(R) = Len(t)
    <2>1. rho \in [1 .. Len(t) -> R]
      BY <1>1, <1>2 DEF rho
    <2>2. rho \in Bijection(1 .. Len(t), R)
      BY <1>1, <1>2, <1>6, <2>1 DEF Bijection, Injection, Surjection, IsInjective
    <2>3. ExistsBijection(1 .. Len(t), R)
      BY <2>2 DEF ExistsBijection
    <2> QED BY <1>1, <2>3, FS_CountingElements
  <1>11. rho[1].price = t[1].price /\ rho[Len(t)].price = t[Len(t)].price
    BY <1>1, <1>3
  <1>12. /\ First(R).price = t[1].price /\ Final(R).price = t[Len(t)].price
         /\ {r.price : r \in R} = {t[n].price : n \in DOMAIN t}
         /\ Cardinality(R) = Len(t)
    BY <1>7, <1>8, <1>9, <1>10, <1>11
  <1> QED BY <1>12 DEF R

----------------------------------------------------------------------------
(* What the events say of an interval.  F is a sequence of events and S    *)
(* the places of a session in it.                                          *)

QuoteOf(F, n, i) == QuoteIn(F, n) /\ IntervalStart(F[n].quote) = i
GapOf(F, g, i) == ExpiredIn(F, g) /\ F[g].start = i

\* The quotes of an interval that no gap follows before the next quote.
Taken(F, S, i) ==
    {n \in S : /\ QuoteOf(F, n, i)
               /\ \A g \in S : GapOf(F, g, i) => \E m \in S : QuoteIn(F, m) /\ n < m /\ m < g}

Arrivals(F, S, i, b) ==
    [s \in SampleType |-> {n \in Taken(F, S, i) : Sample(F[n].quote, b) = <<s>>}]

BarFor(F, n, i, b) == BarIn(F, n, i) /\ F[n].basis = b
BarPlaces(F, S, i, b) == {n \in S : BarFor(F, n, i, b)}

\* More events behind those of a session.
Grown(F, S, G, T, N) ==
    /\ T = S \cup N /\ T \subseteq Nat
    /\ \A n \in S : G[n] = F[n]
    /\ \A m \in S, n \in N : m < n

\* Events that are neither quotes nor expired gaps of an interval do not change
\* which of its quotes were taken.
LEMMA TakenSame ==
    ASSUME NEW F, NEW S, NEW G, NEW T, NEW N, NEW i, Grown(F, S, G, T, N),
           \A n \in N : ~QuoteOf(G, n, i) /\ ~GapOf(G, n, i)
    PROVE  Taken(G, T, i) = Taken(F, S, i)
  <1>1. \A n \in S : /\ QuoteOf(G, n, i) <=> QuoteOf(F, n, i)
                     /\ GapOf(G, n, i) <=> GapOf(F, n, i)
                     /\ QuoteIn(G, n) <=> QuoteIn(F, n)
    BY DEF Grown, QuoteOf, GapOf, QuoteIn, ExpiredIn
  <1>2. ASSUME NEW n \in Taken(G, T, i) PROVE n \in Taken(F, S, i)
    <2>1. n \in T /\ QuoteOf(G, n, i)
      BY DEF Taken
    <2>2. n \in S /\ QuoteOf(F, n, i)
      BY <1>1, <2>1 DEF Grown
    <2>3. ASSUME NEW g \in S, GapOf(F, g, i)
          PROVE  \E m \in S : QuoteIn(F, m) /\ n < m /\ m < g
      <3>1. g \in T /\ GapOf(G, g, i)
        BY <1>1, <2>3 DEF Grown
      <3>2. PICK m \in T : QuoteIn(G, m) /\ n < m /\ m < g
        BY <3>1 DEF Taken
      <3>3. m \in S
        <4> SUFFICES ASSUME m \in N PROVE FALSE
          BY DEF Grown
        <4>1. g < m /\ g \in Nat /\ m \in Nat
          BY DEF Grown
        <4> QED BY <3>2, <4>1
      <3> QED BY <1>1, <3>2, <3>3
    <2> QED BY <2>2, <2>3 DEF Taken
  <1>3. ASSUME NEW n \in Taken(F, S, i) PROVE n \in Taken(G, T, i)
    <2>1. n \in S /\ n \in T /\ QuoteOf(G, n, i)
      BY <1>1 DEF Taken, Grown
    <2>2. ASSUME NEW g \in T, GapOf(G, g, i)
          PROVE  \E m \in T : QuoteIn(G, m) /\ n < m /\ m < g
      <3>1. g \in S /\ GapOf(F, g, i)
        BY <1>1, <2>2 DEF Grown
      <3>2. PICK m \in S : QuoteIn(F, m) /\ n < m /\ m < g
        BY <3>1 DEF Taken
      <3> QED BY <1>1, <3>2 DEF Grown
    <2> QED BY <2>1, <2>2 DEF Taken
  <1> QED BY <1>2, <1>3

\* A quote whose gap follows at once is not taken and changes nothing.
LEMMA TakenExpired ==
    ASSUME NEW F, NEW S, NEW G, NEW T, NEW N, NEW i, Grown(F, S, G, T, N),
           NEW p \in N, QuoteIn(G, p), \A n \in N : n # p => ~QuoteIn(G, n),
           NEW g \in N, GapOf(G, g, i), \A n \in N : GapOf(G, n, i) => n = g,
           p < g
    PROVE  Taken(G, T, i) = Taken(F, S, i)
  <1>1. \A n \in S : /\ QuoteOf(G, n, i) <=> QuoteOf(F, n, i)
                     /\ GapOf(G, n, i) <=> GapOf(F, n, i)
                     /\ QuoteIn(G, n) <=> QuoteIn(F, n)
    BY DEF Grown, QuoteOf, GapOf, QuoteIn, ExpiredIn
  <1>0. T = S \cup N /\ T \subseteq Nat /\ (\A m \in S, n \in N : m < n)
    BY DEF Grown
  <1>2. ASSUME NEW n \in Taken(G, T, i) PROVE n \in Taken(F, S, i)
    <2>1. n \in T /\ QuoteOf(G, n, i) /\ QuoteIn(G, n)
      BY DEF Taken, QuoteOf
    <2>2. n # p
      <3> SUFFICES ASSUME n = p PROVE FALSE
        OBVIOUS
      <3>1. PICK m \in T : QuoteIn(G, m) /\ p < m /\ m < g
        BY <1>0 DEF Taken
      <3>2. m \in N /\ m # p
        BY <1>0, <3>1
      <3> QED BY <3>1, <3>2
    <2>3. n \in S /\ QuoteOf(F, n, i)
      BY <1>0, <1>1, <2>1, <2>2
    <2>4. ASSUME NEW h \in S, GapOf(F, h, i)
          PROVE  \E m \in S : QuoteIn(F, m) /\ n < m /\ m < h
      <3>1. h \in T /\ GapOf(G, h, i)
        BY <1>0, <1>1, <2>4
      <3>2. PICK m \in T : QuoteIn(G, m) /\ n < m /\ m < h
        BY <3>1 DEF Taken
      <3>3. m \in S
        <4> SUFFICES ASSUME m \in N PROVE FALSE
          BY <1>0
        <4>1. h < m /\ h \in Nat /\ m \in Nat
          BY <1>0
        <4> QED BY <3>2, <4>1
      <3> QED BY <1>1, <3>2, <3>3
    <2> QED BY <2>3, <2>4 DEF Taken
  <1>3. ASSUME NEW n \in Taken(F, S, i) PROVE n \in Taken(G, T, i)
    <2>1. n \in S /\ n \in T /\ QuoteOf(G, n, i)
      BY <1>0, <1>1 DEF Taken
    <2>2. ASSUME NEW h \in T, GapOf(G, h, i)
          PROVE  \E m \in T : QuoteIn(G, m) /\ n < m /\ m < h
      <3>1. CASE h \in S
        <4>1. PICK m \in S : QuoteIn(F, m) /\ n < m /\ m < h
          BY <1>1, <2>2, <3>1 DEF Taken
        <4> QED BY <1>0, <1>1, <4>1
      <3>2. CASE h \notin S
        <4>1. h = g
          BY <1>0, <2>2, <3>2
        <4>2. p \in T /\ n < p
          BY <1>0, <2>1
        <4> QED BY <4>1, <4>2
      <3> QED BY <3>1, <3>2
    <2> QED BY <2>1, <2>2 DEF Taken
  <1> QED BY <1>2, <1>3

\* A quote of an interval without a gap is taken.
LEMMA TakenMore ==
    ASSUME NEW F, NEW S, NEW G, NEW T, NEW N, NEW i, Grown(F, S, G, T, N),
           NEW p \in N, QuoteOf(G, p, i), \A n \in N : n # p => ~QuoteIn(G, n),
           \A g \in S : ~GapOf(F, g, i), \A g \in N : ~GapOf(G, g, i)
    PROVE  Taken(G, T, i) = Taken(F, S, i) \cup {p}
  <1>1. \A n \in S : /\ QuoteOf(G, n, i) <=> QuoteOf(F, n, i)
                     /\ GapOf(G, n, i) <=> GapOf(F, n, i)
    BY DEF Grown, QuoteOf, GapOf, QuoteIn, ExpiredIn
  <1>2. T = S \cup N
    BY DEF Grown
  <1>3. \A g \in T : ~GapOf(G, g, i)
    BY <1>1, <1>2
  <1>4. Taken(F, S, i) = {n \in S : QuoteOf(F, n, i)}
    BY DEF Taken
  <1>5. Taken(G, T, i) = {n \in T : QuoteOf(G, n, i)}
    BY <1>3 DEF Taken
  <1>6. \A n \in N : QuoteOf(G, n, i) <=> n = p
    BY DEF QuoteOf
  <1> QED BY <1>1, <1>2, <1>4, <1>5, <1>6

\* The places that arrivals name.
LEMMA ArrivalsTyped ==
    ASSUME NEW F, NEW S \in SUBSET Nat, NEW i, NEW b
    PROVE  /\ Arrivals(F, S, i, b) \in [SampleType -> SUBSET Nat]
           /\ \A s \in SampleType : Arrivals(F, S, i, b)[s] \subseteq S
  BY DEF Arrivals, Taken

\* The same quotes, the same arrivals.
LEMMA ArrivalsSame ==
    ASSUME NEW F, NEW S, NEW G, NEW T, NEW i, NEW b,
           Taken(G, T, i) = Taken(F, S, i), \A n \in S : G[n] = F[n]
    PROVE  Arrivals(G, T, i, b) = Arrivals(F, S, i, b)
  <1>1. \A n \in Taken(F, S, i) : G[n] = F[n]
    BY DEF Taken
  <1>2. \A s : {n \in Taken(F, S, i) : Sample(G[n].quote, b) = <<s>>}
             = {n \in Taken(F, S, i) : Sample(F[n].quote, b) = <<s>>}
    BY <1>1
  <1> QED BY <1>2 DEF Arrivals

\* One quote more: its sample has arrived once more.
OneMore(F, S, G, T, i, b, p) ==
    /\ Sample(G[p].quote, b) = <<>> => Arrivals(G, T, i, b) = Arrivals(F, S, i, b)
    /\ \A s \in SampleType : Sample(G[p].quote, b) = <<s>> =>
          Arrivals(G, T, i, b) = [Arrivals(F, S, i, b) EXCEPT ![s] = @ \cup {p}]

\* It has, when the quote is taken.
LEMMA ArrivalsMore ==
    ASSUME NEW F, NEW S, NEW G, NEW T, NEW i, NEW b, NEW p,
           Taken(G, T, i) = Taken(F, S, i) \cup {p}, \A n \in S : G[n] = F[n]
    PROVE  OneMore(F, S, G, T, i, b, p)
  <1>1. \A n \in Taken(F, S, i) : G[n] = F[n]
    BY DEF Taken
  <1>2. ASSUME NEW x
        PROVE  {n \in Taken(G, T, i) : Sample(G[n].quote, b) = <<x>>} =
               {n \in Taken(F, S, i) : Sample(F[n].quote, b) = <<x>>}
                   \cup (IF Sample(G[p].quote, b) = <<x>> THEN {p} ELSE {})
    BY <1>1
  <1>3. ASSUME Sample(G[p].quote, b) = <<>>
        PROVE  Arrivals(G, T, i, b) = Arrivals(F, S, i, b)
    <2>1. \A x : Sample(G[p].quote, b) # <<x>>
      <3>1. \A x : Len(<<x>>) = 1 /\ Len(<<>>) = 0
        OBVIOUS
      <3> QED BY <1>3, <3>1
    <2>2. \A x : {n \in Taken(G, T, i) : Sample(G[n].quote, b) = <<x>>} =
                 {n \in Taken(F, S, i) : Sample(F[n].quote, b) = <<x>>}
      BY <1>2, <2>1
    <2> QED BY <2>2 DEF Arrivals
  <1>4. ASSUME NEW s \in SampleType, Sample(G[p].quote, b) = <<s>>
        PROVE  Arrivals(G, T, i, b) = [Arrivals(F, S, i, b) EXCEPT ![s] = @ \cup {p}]
    <2>1. \A x : Sample(G[p].quote, b) = <<x>> <=> x = s
      BY <1>4
    <2>2. \A x : {n \in Taken(G, T, i) : Sample(G[n].quote, b) = <<x>>} =
                 {n \in Taken(F, S, i) : Sample(F[n].quote, b) = <<x>>}
                     \cup (IF x = s THEN {p} ELSE {})
      BY <1>2, <2>1
    <2>3. PICK A : A = Arrivals(F, S, i, b)
      OBVIOUS
    <2>4. PICK B : B = Arrivals(G, T, i, b)
      OBVIOUS
    <2>5. DOMAIN A = SampleType /\ A = [x \in SampleType |-> A[x]]
          /\ B = [x \in SampleType |-> B[x]]
      BY <2>3, <2>4 DEF Arrivals
    <2>6. \A x \in SampleType : B[x] = A[x] \cup (IF x = s THEN {p} ELSE {})
      BY <2>2, <2>3, <2>4 DEF Arrivals
    <2>7. \A x \in SampleType : B[x] = [A EXCEPT ![s] = @ \cup {p}][x]
      BY <2>5, <2>6
    <2> QED BY <2>3, <2>4, <2>5, <2>7
  <1> QED BY <1>3, <1>4 DEF OneMore

----------------------------------------------------------------------------
(* The last bar of an interval.                                            *)

BarRecord(i, b, t, r) ==
    LET prices == {t[n].price : n \in DOMAIN t}
    IN  [type |-> "bar", start |-> i, basis |-> b, open |-> t[1].price, high |-> Max(prices),
         low |-> Min(prices), close |-> t[Len(t)].price, count |-> Len(t), revision |-> r]

\* The bar of a bucket depends on its samples and its revision.
LEMMA BarIsRecord ==
    ASSUME NEW i, NEW bucket, NEW b
    PROVE  Bar(i, bucket, b) = BarRecord(i, b, bucket.samples[b], bucket.revisions[b] + 1)
  BY DEF Bar, BarRecord

\* The last bar shows the samples, and its revision counts the bars.
Shown(F, S, i, b, t) ==
    IF t = <<>> THEN BarPlaces(F, S, i, b) = {}
    ELSE \E n \in BarPlaces(F, S, i, b) :
             /\ \A m \in BarPlaces(F, S, i, b) : m =< n
             /\ F[n] = BarRecord(i, b, t, Cardinality(BarPlaces(F, S, i, b)))

\* Without a new bar of the interval, the last bar is the last bar.
LEMMA ShownSame ==
    ASSUME NEW F, NEW S, NEW G, NEW T, NEW N, NEW i, NEW b, Grown(F, S, G, T, N),
           \A n \in N : ~BarFor(G, n, i, b)
    PROVE  /\ BarPlaces(G, T, i, b) = BarPlaces(F, S, i, b)
           /\ \A t : Shown(F, S, i, b, t) => Shown(G, T, i, b, t)
  <1>1. BarPlaces(G, T, i, b) = BarPlaces(F, S, i, b)
    BY DEF BarPlaces, BarFor, BarIn, Grown
  <1>2. \A n \in BarPlaces(F, S, i, b) : G[n] = F[n]
    BY DEF BarPlaces, Grown
  <1> QED BY <1>1, <1>2 DEF Shown

\* A new bar of the interval is the last one.
LEMMA ShownNew ==
    ASSUME NEW F, NEW S, NEW G, NEW T, NEW N, NEW i, NEW b, Grown(F, S, G, T, N),
           IsFiniteSet(S), NEW p \in N, NEW t, t # <<>>,
           G[p] = BarRecord(i, b, t, Cardinality(BarPlaces(F, S, i, b)) + 1),
           \A n \in N : BarFor(G, n, i, b) => n = p
    PROVE  /\ Cardinality(BarPlaces(G, T, i, b)) = Cardinality(BarPlaces(F, S, i, b)) + 1
           /\ Shown(G, T, i, b, t)
  <1>1. BarFor(G, p, i, b)
    BY DEF BarFor, BarIn, BarRecord
  <1>2. BarPlaces(G, T, i, b) = BarPlaces(F, S, i, b) \cup {p}
    BY <1>1 DEF BarPlaces, BarFor, BarIn, Grown
  <1>3. p \notin S /\ T \subseteq Nat /\ S \subseteq T /\ p \in T
    <2>1. p \in S => p < p
      BY DEF Grown
    <2>2. p \in Nat
      BY DEF Grown
    <2> QED BY <2>1, <2>2 DEF Grown
  <1>4. PICK K : K = BarPlaces(F, S, i, b)
    OBVIOUS
  <1>5. K \in SUBSET S /\ IsFiniteSet(K)
    <2>1. K \in SUBSET S
      BY <1>4 DEF BarPlaces
    <2> QED BY <2>1, FS_Subset
  <1>6. Cardinality(K \cup {p}) = Cardinality(K) + 1
    BY <1>3, <1>5, FS_AddElement
  <1>7. \A m \in K \cup {p} : m =< p
    <2>1. \A m \in K : m < p /\ m \in Nat /\ p \in Nat
      BY <1>3, <1>5 DEF Grown
    <2> QED BY <1>3, <2>1
  <1> QED BY <1>2, <1>4, <1>6, <1>7 DEF Shown

----------------------------------------------------------------------------
(* Buckets and events agree.                                               *)

\* A bucket that is kept: its samples are those of the quotes that were taken,
\* its revision is the number of its bars, and a closed one has shown its samples.
HeldAt(F, S, i, b, bucket) ==
    /\ Collected(bucket.samples[b], Arrivals(F, S, i, b))
    /\ Cardinality(BarPlaces(F, S, i, b)) = bucket.revisions[b]
    /\ IF bucket.closed THEN Shown(F, S, i, b, bucket.samples[b])
                        ELSE BarPlaces(F, S, i, b) = {}

\* An interval without a bucket: nothing has happened yet, or it is behind the
\* cutoff and the last bar shows all samples.
LeftAt(F, S, i, b, limit) ==
    /\ i + Interval > limit => Taken(F, S, i) = {} /\ BarPlaces(F, S, i, b) = {}
    /\ \E t : Collected(t, Arrivals(F, S, i, b)) /\ Shown(F, S, i, b, t)

Held == \A i \in DOMAIN buckets, b \in Basis : HeldAt(All, Span, i, b, buckets[i])
Left == \A i \in Int \ DOMAIN buckets, b \in Basis : LeftAt(All, Span, i, b, cutoff)

\* Events of other intervals change nothing.
LEMMA AtSame ==
    ASSUME NEW F, NEW S, NEW G, NEW T, NEW N, NEW i, NEW b, Grown(F, S, G, T, N),
           Taken(G, T, i) = Taken(F, S, i),
           \A n \in N : ~BarFor(G, n, i, b)
    PROVE  /\ \A bucket : HeldAt(F, S, i, b, bucket) => HeldAt(G, T, i, b, bucket)
           /\ \A limit : LeftAt(F, S, i, b, limit) => LeftAt(G, T, i, b, limit)
           /\ Arrivals(G, T, i, b) = Arrivals(F, S, i, b)
           /\ BarPlaces(G, T, i, b) = BarPlaces(F, S, i, b)
  <1>1. Arrivals(G, T, i, b) = Arrivals(F, S, i, b)
    BY ArrivalsSame DEF Grown
  <1>2. /\ BarPlaces(G, T, i, b) = BarPlaces(F, S, i, b)
        /\ \A t : Shown(F, S, i, b, t) => Shown(G, T, i, b, t)
    BY ShownSame
  <1> QED BY <1>1, <1>2 DEF HeldAt, LeftAt

\* A higher limit asks for less.
LEMMA LeftHigher ==
    ASSUME NEW F, NEW S, NEW i \in Int, NEW b, NEW l \in Int, NEW m \in Int, l =< m,
           LeftAt(F, S, i, b, l)
    PROVE  LeftAt(F, S, i, b, m)
  <1>1. Interval \in Int
    BY Constants
  <1>2. i + Interval > m => i + Interval > l
    BY <1>1
  <1> QED BY <1>2 DEF LeftAt

\* A bucket that is dropped behind the cutoff.
LEMMA HeldLeft ==
    ASSUME NEW F, NEW S, NEW i \in Int, NEW b, NEW m \in Int, NEW bucket,
           HeldAt(F, S, i, b, bucket), bucket.closed, i + Interval =< m
    PROVE  LeftAt(F, S, i, b, m)
  <1>1. ~(i + Interval > m)
    BY Constants
  <1> QED BY <1>1 DEF HeldAt, LeftAt

\* Nothing has arrived and nothing was built.
LEMMA HeldNew ==
    ASSUME NEW F, NEW S, NEW i, NEW b \in Basis,
           Taken(F, S, i) = {}, BarPlaces(F, S, i, b) = {}
    PROVE  HeldAt(F, S, i, b, NewBucket) /\ Collected(<<>>, Arrivals(F, S, i, b))
  <1>1. \A s \in SampleType : Arrivals(F, S, i, b)[s] = {}
    BY DEF Arrivals
  <1>2. <<>> \in Seq(SampleType) /\ DOMAIN <<>> = {}
    OBVIOUS
  <1>3. Collected(<<>>, Arrivals(F, S, i, b))
    BY <1>1, <1>2 DEF Collected
  <1>4. NewBucket.samples[b] = <<>> /\ NewBucket.revisions[b] = 0 /\ ~NewBucket.closed
    BY DEF NewBucket
  <1> QED BY <1>3, <1>4, FS_EmptySet DEF HeldAt

\* A new bar of the samples, with the next revision.
LEMMA HeldBuilt ==
    ASSUME NEW F, NEW S, NEW G, NEW T, NEW N, NEW i, NEW b, Grown(F, S, G, T, N),
           IsFiniteSet(S), NEW p \in N, NEW r \in Nat, NEW bucket,
           Cardinality(BarPlaces(F, S, i, b)) = r,
           bucket.samples[b] # <<>>,
           G[p] = BarRecord(i, b, bucket.samples[b], r + 1),
           \A n \in N : BarFor(G, n, i, b) => n = p,
           Collected(bucket.samples[b], Arrivals(G, T, i, b)),
           bucket.revisions[b] = r + 1, bucket.closed
    PROVE  HeldAt(G, T, i, b, bucket)
  <1>1. /\ Cardinality(BarPlaces(G, T, i, b)) = Cardinality(BarPlaces(F, S, i, b)) + 1
        /\ Shown(G, T, i, b, bucket.samples[b])
    BY ShownNew
  <1> QED BY <1>1 DEF HeldAt

\* The one bar of an interval and a basis among the events of a call.
LEMMA OneBar ==
    ASSUME NEW e, NEW K, Lists(e, K), NEW x \in K, NEW i, NEW b,
           \A y \in K : y.type = "bar" /\ y.start = i /\ y.basis = b => y = x
    PROVE  \E n \in DOMAIN e : /\ e[n] = x
                               /\ \A m \in DOMAIN e :
                                      e[m].type = "bar" /\ e[m].start = i /\ e[m].basis = b
                                      => m = n
  <1>1. PICK n \in DOMAIN e : e[n] = x
    BY DEF Lists
  <1>2. \A m \in DOMAIN e : e[m] \in K
    BY DEF Lists
  <1>3. ASSUME NEW m \in DOMAIN e, e[m].type = "bar", e[m].start = i, e[m].basis = b
        PROVE  m = n
    <2>1. e[m] = e[n]
      BY <1>1, <1>2, <1>3
    <2> QED BY <2>1 DEF Lists
  <1> QED BY <1>1, <1>3

\* The session is finite.
LEMMA SpanFinite ==
    ASSUME IngestTypeOK
    PROVE  IsFiniteSet(Span) /\ Span \subseteq Nat
  <1>1. base \in Nat /\ Len(All) \in Nat
    BY SpanTyped
  <1> QED BY <1>1, FS_Interval DEF Span

\* The buckets after advance_bars, dropped ones included.
Advanced(i) == IF i \in Due(watermark)
               THEN [Built(buckets[i], Filled(buckets[i])) EXCEPT !.closed = TRUE]
               ELSE buckets[i]

\* What Advanced changes.
LEMMA AdvancedFacts ==
    ASSUME IngestTypeOK, NEW i \in DOMAIN buckets
    PROVE  /\ i \notin Due(watermark) => Advanced(i) = buckets[i]
           /\ i \in Due(watermark) =>
                 /\ Advanced(i).closed
                 /\ Advanced(i).samples = buckets[i].samples
                 /\ \A b \in Basis : Advanced(i).revisions[b] =
                       buckets[i].revisions[b] + (IF b \in Filled(buckets[i]) THEN 1 ELSE 0)
           /\ \A b \in Basis : buckets[i].revisions[b] \in Nat
           /\ buckets[i].closed \in BOOLEAN
  <1>1. buckets[i] \in BucketType
    BY DEF IngestTypeOK, BucketsOK
  <1>2. PICK bk \in BucketType : bk = Built(buckets[i], Filled(buckets[i]))
    BY <1>1, BuiltFacts
  <1>3. /\ bk.samples = buckets[i].samples
        /\ \A b \in Basis : bk.revisions[b] =
              buckets[i].revisions[b] + (IF b \in Filled(buckets[i]) THEN 1 ELSE 0)
    BY <1>1, <1>2, BuiltFacts
  <1>4. PICK c : c = [bk EXCEPT !.closed = TRUE]
    OBVIOUS
  <1>5. c.closed = TRUE /\ c.samples = bk.samples /\ c.revisions = bk.revisions
    BY <1>4 DEF BucketType
  <1>6. i \in Due(watermark) => Advanced(i) = c
    BY <1>2, <1>4 DEF Advanced
  <1>7. i \notin Due(watermark) => Advanced(i) = buckets[i]
    BY DEF Advanced
  <1>8. (\A b \in Basis : buckets[i].revisions[b] \in Nat) /\ buckets[i].closed \in BOOLEAN
    BY <1>1 DEF BucketType
  <1> QED BY <1>3, <1>5, <1>6, <1>7, <1>8

\* advance_bars: the session grows by bars of due buckets only.
LEMMA AdvanceGrown ==
    ASSUME IngestTypeOK, AdvanceBars
    PROVE  LET N == (Len(All) + 1) .. Len(All')
           IN  /\ Grown(All, Span, All', Span', N)
               /\ \A n \in N : /\ All'[n].type = "bar" /\ All'[n].start \in Due(watermark)
                               /\ All'[n] = todo'[n - Len(All)] /\ n - Len(All) \in DOMAIN todo'
               /\ \A n \in DOMAIN todo' : Len(All) + n \in N /\ All'[Len(All) + n] = todo'[n]
               /\ \A i : Taken(All', Span', i) = Taken(All, Span, i)
  <1>1. PICK p : p = Len(All)
    OBVIOUS
  <1>2. PICK e : e = todo'
    OBVIOUS
  <1>3. /\ p \in Nat /\ Len(All') = p + Len(e) /\ Len(e) \in Nat
        /\ Span' = Span \cup ((p + 1) .. Len(All'))
        /\ \A n \in Span : n \in Nat /\ n =< p /\ All'[n] = All[n]
        /\ \A n \in (p + 1) .. Len(All') : All'[n] = e[n - p] /\ n - p \in DOMAIN e
        /\ \A n \in DOMAIN e : All'[p + n] = e[n]
        /\ \A n \in (p + 1) .. Len(All') : /\ All'[n].type = "bar"
                                           /\ All'[n].start \in Due(watermark)
    BY <1>1, <1>2, AdvanceSpan
  <1>4. PICK N : N = (p + 1) .. Len(All')
    OBVIOUS
  <1>5. Grown(All, Span, All', Span', N)
    BY <1>3, <1>4 DEF Grown
  <1>6. DOMAIN e = 1 .. Len(e)
    <2>1. e \in Seq(Events)
      BY <1>2, AdvanceExtends DEF Extended
    <2> QED BY <2>1
  <1>7. \A n \in DOMAIN e : p + n \in N
    BY <1>3, <1>4, <1>6
  <1>8. ASSUME NEW i PROVE Taken(All', Span', i) = Taken(All, Span, i)
    <2>1. \A n \in N : ~QuoteOf(All', n, i) /\ ~GapOf(All', n, i)
      BY <1>3, <1>4 DEF QuoteOf, GapOf, QuoteIn, ExpiredIn
    <2> QED BY <1>5, <2>1, TakenSame
  <1> QED BY <1>1, <1>2, <1>3, <1>4, <1>5, <1>7, <1>8

\* advance_bars keeps what is said of each bucket, dropped or not.
LEMMA AdvanceHeld ==
    ASSUME IngestTypeOK, Held, AdvanceBars, NEW i \in DOMAIN buckets, NEW b \in Basis
    PROVE  HeldAt(All', Span', i, b, Advanced(i))
  <1>1. PICK F, S : F = All /\ S = Span
    OBVIOUS
  <1>2. PICK G, T : G = All' /\ T = Span'
    OBVIOUS
  <1>3. PICK N, e, p : N = (Len(All) + 1) .. Len(All') /\ e = todo' /\ p = Len(All)
    OBVIOUS
  <1>4. /\ Grown(F, S, G, T, N)
        /\ \A n \in N : G[n].type = "bar" /\ G[n].start \in Due(watermark)
                        /\ G[n] = e[n - p] /\ n - p \in DOMAIN e
        /\ \A n \in DOMAIN e : p + n \in N /\ G[p + n] = e[n]
        /\ Taken(G, T, i) = Taken(F, S, i)
    BY <1>1, <1>2, <1>3, AdvanceGrown
  <1>5. HeldAt(F, S, i, b, buckets[i])
    BY <1>1 DEF Held
  <1>6. IsFiniteSet(S) /\ S \subseteq Nat /\ p \in Nat
    BY <1>1, <1>3, SpanFinite, SpanTyped
  <1>7. Lists(e, DueBars(watermark))
    BY <1>3, AdvanceExtends
  <1>8. CASE i \notin Due(watermark)
    <2>1. \A n \in N : ~BarFor(G, n, i, b)
      BY <1>4, <1>8 DEF BarFor, BarIn
    <2>2. HeldAt(G, T, i, b, buckets[i])
      BY <1>4, <1>5, <2>1, AtSame
    <2> QED BY <1>2, <1>8, <2>2, AdvancedFacts
  <1>9. CASE i \in Due(watermark) /\ b \notin Filled(buckets[i])
    <2>1. ASSUME NEW n \in N PROVE ~BarFor(G, n, i, b)
      <3> SUFFICES ASSUME BarIn(G, n, i), G[n].basis = b PROVE FALSE
        BY DEF BarFor
      <3>1. G[n] \in DueBars(watermark)
        BY <1>4, <1>7 DEF Lists
      <3>2. PICK j \in Due(watermark) : G[n] \in BarSet(j, buckets[j], Filled(buckets[j]))
        BY <3>1 DEF DueBars
      <3>3. PICK c \in Filled(buckets[j]) : G[n] = Bar(j, buckets[j], c)
        BY <3>2 DEF BarSet
      <3>4. j = i /\ c = b
        BY <3>3, EventFacts DEF BarIn
      <3> QED BY <1>9, <3>3, <3>4
    <2>2. /\ HeldAt(G, T, i, b, buckets[i])
      BY <1>4, <1>5, <2>1, AtSame
    <2>3. buckets[i].samples[b] = <<>>
      BY <1>9 DEF Filled
    <2>4. ~buckets[i].closed
      BY <1>9 DEF Due
    <2>5. BarPlaces(G, T, i, b) = {}
      BY <2>2, <2>4 DEF HeldAt
    <2>6. Shown(G, T, i, b, buckets[i].samples[b])
      BY <2>3, <2>5 DEF Shown
    <2>7. /\ Advanced(i).closed /\ Advanced(i).samples[b] = buckets[i].samples[b]
          /\ Advanced(i).revisions[b] = buckets[i].revisions[b]
      BY <1>9, AdvancedFacts
    <2>8. HeldAt(G, T, i, b, Advanced(i))
      BY <2>2, <2>6, <2>7 DEF HeldAt
    <2> QED BY <1>2, <2>8
  <1>10. CASE i \in Due(watermark) /\ b \in Filled(buckets[i])
    <2>1. PICK x : x = Bar(i, buckets[i], b)
      OBVIOUS
    <2>2. x \in DueBars(watermark)
      BY <1>10, <2>1 DEF DueBars, BarSet
    <2>3. \A y \in DueBars(watermark) : y.type = "bar" /\ y.start = i /\ y.basis = b => y = x
      <3> SUFFICES ASSUME NEW y \in DueBars(watermark), y.start = i, y.basis = b PROVE y = x
        OBVIOUS
      <3>1. PICK j \in Due(watermark) : y \in BarSet(j, buckets[j], Filled(buckets[j]))
        BY DEF DueBars
      <3>2. PICK c \in Filled(buckets[j]) : y = Bar(j, buckets[j], c)
        BY <3>1 DEF BarSet
      <3>3. j = i /\ c = b
        BY <3>2, EventFacts
      <3> QED BY <2>1, <3>2, <3>3
    <2>4. PICK n \in DOMAIN e :
             /\ e[n] = x
             /\ \A m \in DOMAIN e : e[m].type = "bar" /\ e[m].start = i /\ e[m].basis = b => m = n
      BY <1>7, <2>2, <2>3, OneBar
    <2>5. p + n \in N /\ G[p + n] = x
      BY <1>4, <2>4
    <2>6. ASSUME NEW m \in N, BarFor(G, m, i, b) PROVE m = p + n
      <3>1. m - p = n
        BY <1>4, <2>4, <2>6 DEF BarFor, BarIn
      <3>2. m \in Int /\ n \in Int
        BY <1>3, <1>6, <3>1
      <3> QED BY <1>6, <3>1, <3>2
    <2>7. PICK r \in Nat : r = buckets[i].revisions[b]
      BY AdvancedFacts
    <2>8. x = BarRecord(i, b, buckets[i].samples[b], r + 1)
      BY <2>1, <2>7, BarIsRecord
    <2>9. Cardinality(BarPlaces(F, S, i, b)) = r
      BY <1>5, <2>7 DEF HeldAt
    <2>10. buckets[i].samples[b] # <<>>
      BY <1>10 DEF Filled
    <2>11. /\ Advanced(i).closed /\ Advanced(i).samples[b] = buckets[i].samples[b]
           /\ Advanced(i).revisions[b] = r + 1
      BY <1>10, <2>7, AdvancedFacts
    <2>12. Collected(Advanced(i).samples[b], Arrivals(G, T, i, b))
      <3>1. Arrivals(G, T, i, b) = Arrivals(F, S, i, b)
        BY <1>4, ArrivalsSame DEF Grown
      <3> QED BY <1>5, <2>11, <3>1 DEF HeldAt
    <2>13. HeldAt(G, T, i, b, Advanced(i))
      BY <1>4, <1>6, <2>5, <2>6, <2>8, <2>9, <2>10, <2>11, <2>12, HeldBuilt
    <2> QED BY <1>2, <2>13
  <1> QED BY <1>8, <1>9, <1>10

\* The session after a call on a quote: the quote at p, the gap of a silence, and
\* behind d the rest r of its events.
Called(F, S, G, T, N, p, d, r, q) ==
    /\ Grown(F, S, G, T, N) /\ IsFiniteSet(S)
    /\ N \subseteq Nat /\ p \in N /\ d \in Nat /\ p =< d
    /\ G[p] = [type |-> "quote", quote |-> q]
    /\ \A n \in N : n # p => ~QuoteIn(G, n)
    /\ \A n \in N : \/ n = p \/ G[n] = Gap("SILENCE", last.time, q.time)
                    \/ n - d \in 1 .. Len(r) /\ G[n] = r[n - d]
    /\ Len(r) \in Nat
    /\ \A n \in 1 .. Len(r) : d + n \in N /\ G[d + n] = r[n]

\* Process is such a call.
LEMMA ProcessCalled ==
    ASSUME IngestTypeOK, NEW q \in Quotes, NEW t \in Times, Process(q, t)
    PROVE  \E G, T, N, p, d : /\ G = All' /\ T = Span'
                              /\ Called(All, Span, G, T, N, p, d, Rest(q), q)
  <1>1. PICK F, S, G, T : F = All /\ S = Span /\ G = All' /\ T = Span'
    OBVIOUS
  <1>2. PICK p, k, r : p = Len(All) + 1 /\ k = Len(Observe(q)) /\ r = Rest(q)
    OBVIOUS
  <1>3. /\ p \in Nat /\ k \in {0, 1} /\ Len(G) = p + k + Len(r)
        /\ T = S \cup (p .. Len(G)) /\ p \in T
        /\ \A n \in S : n \in Nat /\ n < p /\ G[n] = F[n]
        /\ G[p] = [type |-> "quote", quote |-> q]
        /\ \A n \in (p + 1) .. (p + k) : G[n] = Gap("SILENCE", last.time, q.time)
        /\ \A n \in (p + k + 1) .. Len(G) :
              /\ G[n] = r[n - (p + k)]
              /\ n - (p + k) \in 1 .. Len(r)
        /\ \A n \in 1 .. Len(r) : G[p + k + n] = r[n]
        /\ \A n \in (p + 1) .. Len(G) : G[n].type # "quote"
    <2>1. /\ p \in Nat /\ k \in {0, 1} /\ Len(All') = p + k + Len(r)
          /\ Span' = Span \cup (p .. Len(All')) /\ p \in Span'
          /\ \A n \in Span : n \in Nat /\ n < p /\ All'[n] = All[n]
          /\ All'[p] = [type |-> "quote", quote |-> q]
      BY <1>2, ProcessSpan
    <2>2. \A n \in (p + 1) .. (p + k) : All'[n] = Gap("SILENCE", last.time, q.time)
      BY <1>2, ProcessSpan
    <2>3. \A n \in (p + k + 1) .. Len(All') :
              All'[n] = r[n - (p + k)] /\ n - (p + k) \in 1 .. Len(r)
      BY <1>2, ProcessSpan
    <2>4. \A n \in 1 .. Len(r) : All'[p + k + n] = r[n]
      BY <1>2, ProcessSpan
    <2>5. \A n \in (p + 1) .. Len(All') : All'[n].type # "quote"
      BY <1>2, ProcessSpan
    <2> QED BY <1>1, <2>1, <2>2, <2>3, <2>4, <2>5
  <1>4. Len(r) \in Nat
    BY <1>2, RestTyped
  <1>5. PICK l \in Nat : l = Len(r)
    BY <1>4
  <1>6. PICK N : N = p .. Len(G)
    OBVIOUS
  <1>7. PICK d \in Nat : d = p + k
    BY <1>3
  <1>8. Len(G) = d + l /\ p =< d /\ p \in N /\ N \subseteq Nat /\ p \in Nat
    BY <1>3, <1>5, <1>6, <1>7
  <1>9. Grown(F, S, G, T, N)
    <2>1. T = S \cup N /\ T \subseteq Nat
      BY <1>3, <1>6, <1>8
    <2>2. ASSUME NEW m \in S, NEW n \in N PROVE m < n
      <3>1. m \in Nat /\ m < p /\ n \in Nat /\ p =< n
        BY <1>3, <1>6, <1>8
      <3> QED BY <1>8, <3>1
    <2>3. \A n \in S : G[n] = F[n]
      BY <1>3
    <2> QED BY <2>1, <2>2, <2>3 DEF Grown
  <1>10. ASSUME NEW n \in N, n # p PROVE ~QuoteIn(G, n)
    <2>1. n \in (p + 1) .. Len(G)
      BY <1>6, <1>8, <1>10
    <2>2. G[n].type # "quote"
      BY <1>3, <2>1
    <2> QED BY <2>2 DEF QuoteIn
  <1>11. ASSUME NEW n \in N PROVE \/ n = p \/ G[n] = Gap("SILENCE", last.time, q.time)
                                  \/ n - d \in 1 .. Len(r) /\ G[n] = r[n - d]
    <2>1. n = p \/ n \in (p + 1) .. d \/ n \in (d + 1) .. Len(G)
      BY <1>6, <1>8
    <2> QED BY <1>3, <1>7, <2>1
  <1>12. ASSUME NEW n \in 1 .. Len(r) PROVE d + n \in N /\ G[d + n] = r[n]
    <2>1. d + n \in N
      BY <1>5, <1>6, <1>8
    <2>2. G[p + k + n] = r[n] /\ d + n = p + k + n
      BY <1>3, <1>7
    <2> QED BY <2>1, <2>2
  <1>13. IsFiniteSet(S)
    BY <1>1, SpanFinite
  <1>14. Called(F, S, G, T, N, p, d, r, q)
    BY <1>3, <1>4, <1>8, <1>9, <1>10, <1>11, <1>12, <1>13 DEF Called
  <1> QED BY <1>1, <1>2, <1>14

\* A quote of an expired interval leaves what is said of all intervals.
LEMMA ExpiredHeld ==
    ASSUME IngestTypeOK, Held, Left, NEW q \in Quotes, NEW t \in Times, Process(q, t),
           CorrectionExpired(q)
    PROVE  Held' /\ Left'
  <1>1. PICK F, S, r : F = All /\ S = Span /\ r = Rest(q)
    OBVIOUS
  <1>0. PICK G, T, N, p, d : /\ G = All' /\ T = Span'
                             /\ Called(F, S, G, T, N, p, d, r, q)
    BY <1>1, ProcessCalled
  <1>2. /\ Grown(F, S, G, T, N) /\ N \subseteq Nat /\ p \in N /\ d \in Nat /\ p =< d
        /\ G[p] = [type |-> "quote", quote |-> q]
        /\ \A n \in N : n # p => ~QuoteIn(G, n)
        /\ \A n \in N : \/ n = p \/ G[n] = Gap("SILENCE", last.time, q.time)
                        \/ n - d \in 1 .. Len(r) /\ G[n] = r[n - d]
        /\ \A n \in 1 .. Len(r) : d + n \in N /\ G[d + n] = r[n]
    BY <1>0 DEF Called
  <1>3. PICK i : i = IntervalStart(q)
    OBVIOUS
  <1>4. PICK gap : gap = Gap("EXPIRED", i, i + Interval)
    OBVIOUS
  <1>5. gap.type = "gap" /\ gap.reason = "EXPIRED" /\ gap.start = i
    BY <1>4, EventFacts
  <1>6. r = <<gap>>
    BY <1>1, <1>3, <1>4, RestTyped
  <1>7. Len(r) = 1 /\ r[1] = gap
    BY <1>6
  <1>8. d + 1 \in N /\ G[d + 1] = gap /\ p < d + 1
    BY <1>2, <1>7
  <1>9. \A n \in N : n = p \/ G[n] = Gap("SILENCE", last.time, q.time) \/ n = d + 1
    <2> SUFFICES ASSUME NEW n \in N, n - d \in 1 .. Len(r) PROVE n = d + 1
      BY <1>2
    <2>1. n \in Int /\ d \in Int /\ n - d = 1
      BY <1>2, <1>7
    <2> QED BY <2>1
  <1>10. \A n \in N : \A j : GapOf(G, n, j) => n = d + 1 /\ j = i
    <2> SUFFICES ASSUME NEW n \in N, NEW j, GapOf(G, n, j) PROVE n = d + 1 /\ j = i
      OBVIOUS
    <2>1. G[n].type = "gap" /\ G[n].reason = "EXPIRED" /\ G[n].start = j
      BY DEF GapOf, ExpiredIn
    <2>2. n # p
      BY <1>2, <2>1
    <2>3. G[n] # Gap("SILENCE", last.time, q.time)
      BY <2>1, EventFacts
    <2>4. n = d + 1
      BY <1>9, <2>2, <2>3
    <2> QED BY <1>5, <1>8, <2>1, <2>4
  <1>11. ASSUME NEW j PROVE Taken(G, T, j) = Taken(F, S, j)
    <2>1. CASE j = i
      <3>1. GapOf(G, d + 1, i)
        BY <1>5, <1>8 DEF GapOf, ExpiredIn
      <3>2. \A n \in N : GapOf(G, n, i) => n = d + 1
        BY <1>10
      <3>4. Grown(F, S, G, T, N) /\ p \in N /\ \A n \in N : n # p => ~QuoteIn(G, n)
        BY <1>2
      <3>5. QuoteIn(G, p) /\ d + 1 \in N /\ p < d + 1
        BY <1>2, <1>8 DEF QuoteIn
      <3>3. Taken(G, T, i) = Taken(F, S, i)
        BY <3>1, <3>2, <3>4, <3>5, TakenExpired
      <3> QED BY <2>1, <3>3
    <2>2. CASE j # i
      <3>1. ASSUME NEW n \in N PROVE ~QuoteOf(G, n, j) /\ ~GapOf(G, n, j)
        <4>1. ~GapOf(G, n, j)
          BY <1>10, <2>2
        <4>2. CASE n = p
          <5>1. G[n].quote = q
            BY <1>2, <4>2
          <5> QED BY <1>3, <2>2, <4>1, <5>1 DEF QuoteOf
        <4>3. CASE n # p
          BY <1>2, <4>1, <4>3 DEF QuoteOf
        <4> QED BY <4>2, <4>3
      <3>2. Grown(F, S, G, T, N)
        BY <1>2
      <3> QED BY <3>1, <3>2, TakenSame
    <2> QED BY <2>1, <2>2
  <1>12. ASSUME NEW j, NEW b PROVE \A n \in N : ~BarFor(G, n, j, b)
    <2> SUFFICES ASSUME NEW n \in N, BarFor(G, n, j, b) PROVE FALSE
      OBVIOUS
    <2>1. G[n].type = "bar"
      BY DEF BarFor, BarIn
    <2>2. G[n].type = "quote" \/ G[n].type = "gap"
      BY <1>2, <1>5, <1>8, <1>9, EventFacts
    <2> QED BY <2>1, <2>2
  <1>13. buckets' = buckets /\ cutoff' = cutoff
    BY DEF Process
  <1>14. ASSUME NEW j \in DOMAIN buckets, NEW b \in Basis PROVE HeldAt(G, T, j, b, buckets[j])
    <2>1. HeldAt(F, S, j, b, buckets[j])
      BY <1>1 DEF Held
    <2>2. Taken(G, T, j) = Taken(F, S, j) /\ \A n \in N : ~BarFor(G, n, j, b)
      BY <1>11, <1>12
    <2> QED BY <1>2, <2>1, <2>2, AtSame
  <1>15. ASSUME NEW j \in Int \ DOMAIN buckets, NEW b \in Basis PROVE LeftAt(G, T, j, b, cutoff)
    <2>1. LeftAt(F, S, j, b, cutoff)
      BY <1>1 DEF Left
    <2>2. Taken(G, T, j) = Taken(F, S, j) /\ \A n \in N : ~BarFor(G, n, j, b)
      BY <1>11, <1>12
    <2> QED BY <1>2, <2>1, <2>2, AtSame
  <1> QED BY <1>0, <1>13, <1>14, <1>15 DEF Held, Left

\* The sample of a quote that was taken is collected with the others.
LEMMA QuoteCollected ==
    ASSUME NEW F, NEW S, NEW G, NEW T, NEW N, Grown(F, S, G, T, N), NEW i, NEW b \in Basis,
           NEW p \in N, NEW q \in Quotes, G[p].quote = q,
           Taken(G, T, i) = Taken(F, S, i) \cup {p},
           NEW bucket \in BucketType, Collected(bucket.samples[b], Arrivals(F, S, i, b))
    PROVE  /\ Collected(WithSamples(bucket, q).samples[b], Arrivals(G, T, i, b))
           /\ Sample(q, b) # <<>> => WithSamples(bucket, q).samples[b] # <<>>
           /\ Sample(q, b) = <<>> => WithSamples(bucket, q).samples[b] = bucket.samples[b]
  <1>1. S \subseteq Nat /\ p \in Nat /\ (\A n \in S : G[n] = F[n]) /\ \A n \in S : n < p
    BY DEF Grown
  <1>2. PICK u : u = bucket.samples[b]
    OBVIOUS
  <1>3. PICK w : w = WithSamples(bucket, q).samples[b]
    OBVIOUS
  <1>4. w = IF Sample(q, b) = <<>> THEN u ELSE AddSample(u, Sample(q, b)[1])
    BY <1>2, <1>3, WithSamplesFacts
  <1>7. OneMore(F, S, G, T, i, b, p)
    BY <1>1, ArrivalsMore
  <1>5. CASE Sample(q, b) = <<>>
    <2>0. Sample(G[p].quote, b) = <<>>
      BY <1>5
    <2>1. Arrivals(G, T, i, b) = Arrivals(F, S, i, b)
      BY <1>7, <2>0 DEF OneMore
    <2> QED BY <1>2, <1>3, <1>4, <1>5, <2>1
  <1>6. CASE Sample(q, b) # <<>>
    <2>1. PICK s \in SampleType : Sample(q, b) = <<s>>
      BY <1>6, SampleTyped
    <2>2. Sample(q, b)[1] = s
      BY <2>1
    <2>3. w = AddSample(u, s)
      BY <1>4, <1>6, <2>2
    <2>4. PICK A : A = Arrivals(F, S, i, b)
      OBVIOUS
    <2>5. A \in [SampleType -> SUBSET Nat] /\ \A x \in SampleType : A[x] \subseteq S
      BY <1>1, <2>4, ArrivalsTyped
    <2>6. \A x \in SampleType : \A a \in A[x] : a < p
      BY <1>1, <2>5
    <2>7. PICK B : B = [A EXCEPT ![s] = @ \cup {p}]
      OBVIOUS
    <2>8. Arrivals(G, T, i, b) = B
      <3>1. Sample(G[p].quote, b) = <<s>>
        BY <2>1
      <3>2. Arrivals(G, T, i, b) = [Arrivals(F, S, i, b) EXCEPT ![s] = @ \cup {p}]
        BY <1>7, <3>1 DEF OneMore
      <3> QED BY <2>4, <2>7, <3>2
    <2>9. Collected(w, B)
      BY <1>1, <1>2, <2>3, <2>4, <2>5, <2>6, <2>7, AddSampleCollected
    <2>10. w # <<>>
      <3>1. B[s] # {}
        BY <2>5, <2>7
      <3>2. \E n \in DOMAIN w : w[n] = s
        BY <2>9, <3>1 DEF Collected
      <3>3. DOMAIN <<>> = {}
        OBVIOUS
      <3> QED BY <3>2, <3>3
    <2> QED BY <1>3, <1>6, <2>8, <2>9, <2>10
  <1> QED BY <1>5, <1>6

\* What a call on a quote that the builder takes says of the intervals.
Accepting(F, S, G, T, N, p, q, i) ==
    /\ Taken(G, T, i) = Taken(F, S, i) \cup {p}
    /\ \A j : j # i => Taken(G, T, j) = Taken(F, S, j) /\ \A n \in N : ~BarIn(G, n, j)

\* A call whose rest are bars of the interval of its quote.
LEMMA AcceptingCall ==
    ASSUME NEW F, NEW S, NEW G, NEW T, NEW N, NEW p, NEW d, NEW r, NEW q, NEW i,
           Called(F, S, G, T, N, p, d, r, q), i = IntervalStart(q),
           \A k \in 1 .. Len(r) : r[k].type = "bar" /\ r[k].start = i,
           \A g \in S : ~GapOf(F, g, i)
    PROVE  Accepting(F, S, G, T, N, p, q, i)
  <1>1. /\ Grown(F, S, G, T, N) /\ p \in N
        /\ G[p] = [type |-> "quote", quote |-> q]
        /\ \A n \in N : n # p => ~QuoteIn(G, n)
        /\ \A n \in N : \/ n = p \/ G[n] = Gap("SILENCE", last.time, q.time)
                        \/ n - d \in 1 .. Len(r) /\ G[n] = r[n - d]
    BY DEF Called
  <1>2. G[p].type = "quote" /\ G[p].quote = q
    BY <1>1
  <1>3. ASSUME NEW n \in N
        PROVE  \/ n = p
               \/ G[n].type = "gap" /\ G[n].reason = "SILENCE"
               \/ G[n].type = "bar" /\ G[n].start = i
    <2>1. CASE n = p
      BY <2>1
    <2>2. CASE G[n] = Gap("SILENCE", last.time, q.time)
      BY <2>2, EventFacts
    <2>3. CASE n - d \in 1 .. Len(r) /\ G[n] = r[n - d]
      BY <2>3
    <2> QED BY <1>1, <2>1, <2>2, <2>3
  <1>4. ASSUME NEW n \in N, NEW j PROVE ~GapOf(G, n, j)
    BY <1>2, <1>3 DEF GapOf, ExpiredIn
  <1>5. ASSUME NEW n \in N, NEW j, j # i PROVE ~BarIn(G, n, j) /\ ~QuoteOf(G, n, j)
    <2>1. ~BarIn(G, n, j)
      BY <1>2, <1>3, <1>5 DEF BarIn
    <2>2. CASE n = p
      BY <1>2, <1>5, <2>1, <2>2 DEF QuoteOf
    <2>3. CASE n # p
      BY <1>1, <2>1, <2>3 DEF QuoteOf
    <2> QED BY <2>2, <2>3
  <1>6. ASSUME NEW j, j # i PROVE Taken(G, T, j) = Taken(F, S, j)
    <2>1. \A n \in N : ~QuoteOf(G, n, j) /\ ~GapOf(G, n, j)
      BY <1>4, <1>5, <1>6
    <2>2. Grown(F, S, G, T, N)
      BY <1>1
    <2> QED BY <2>1, <2>2, TakenSame
  <1>7. Taken(G, T, i) = Taken(F, S, i) \cup {p}
    <2>1. QuoteOf(G, p, i)
      BY <1>2 DEF QuoteOf, QuoteIn
    <2>2. Grown(F, S, G, T, N) /\ p \in N /\ \A n \in N : n # p => ~QuoteIn(G, n)
      BY <1>1
    <2>3. \A g \in N : ~GapOf(G, g, i)
      BY <1>4
    <2> QED BY <2>1, <2>2, <2>3, TakenMore
  <1> QED BY <1>5, <1>6, <1>7 DEF Accepting

\* The bucket that takes a quote keeps agreeing with the events.
LEMMA AcceptedAt ==
    ASSUME NEW F, NEW S, NEW G, NEW T, NEW N, NEW p, NEW d, NEW r, NEW q \in Quotes, NEW i,
           Called(F, S, G, T, N, p, d, r, q), Accepting(F, S, G, T, N, p, q, i),
           NEW bucket \in BucketType, NEW b \in Basis, HeldAt(F, S, i, b, bucket),
           NEW next \in BucketType, next = WithSamples(bucket, q),
           NEW bases \in SUBSET Basis, bases = IF next.closed THEN Changed(q) ELSE {},
           r = Bars(i, next, bases)
    PROVE  HeldAt(G, T, i, b, Built(next, bases))
  <1>1. /\ Grown(F, S, G, T, N) /\ p \in N /\ IsFiniteSet(S) /\ N \subseteq Nat /\ d \in Nat
        /\ G[p] = [type |-> "quote", quote |-> q]
        /\ \A n \in N : \/ n = p \/ G[n] = Gap("SILENCE", last.time, q.time)
                        \/ n - d \in 1 .. Len(r) /\ G[n] = r[n - d]
        /\ \A n \in 1 .. Len(r) : d + n \in N /\ G[d + n] = r[n]
        /\ Len(r) \in Nat
    BY DEF Called
  <1>2. Taken(G, T, i) = Taken(F, S, i) \cup {p} /\ G[p].quote = q
    BY <1>1 DEF Accepting
  <1>3. Collected(bucket.samples[b], Arrivals(F, S, i, b))
    BY DEF HeldAt
  <1>4. /\ Collected(next.samples[b], Arrivals(G, T, i, b))
        /\ Sample(q, b) # <<>> => next.samples[b] # <<>>
        /\ Sample(q, b) = <<>> => next.samples[b] = bucket.samples[b]
    <2>1. Grown(F, S, G, T, N) /\ p \in N
      BY <1>1
    <2> QED BY <1>2, <1>3, <2>1, QuoteCollected
  <1>5. next.closed = bucket.closed /\ next.revisions = bucket.revisions
    BY WithSamplesFacts
  <1>6. bucket.closed \in BOOLEAN /\ bucket.revisions[b] \in Nat
    BY DEF BucketType
  <1>7. PICK bk : bk = Built(next, bases)
    OBVIOUS
  <1>8. /\ bk.closed = bucket.closed /\ bk.samples = next.samples
        /\ bk.revisions[b] = bucket.revisions[b] + (IF b \in bases THEN 1 ELSE 0)
    BY <1>5, <1>7, BuiltFacts
  <1>9. Lists(r, BarSet(i, next, bases)) /\ DOMAIN r = 1 .. Len(r)
    <2>1. Lists(r, BarSet(i, next, bases))
      BY BarsList
    <2> QED BY <2>1 DEF Lists
  <1>10. \A n \in N : BarFor(G, n, i, b) => n - d \in DOMAIN r /\ G[n] = r[n - d]
    <2> SUFFICES ASSUME NEW n \in N, G[n].type = "bar"
                 PROVE  n - d \in DOMAIN r /\ G[n] = r[n - d]
      BY DEF BarFor, BarIn
    <2>1. n # p
      BY <1>1
    <2>2. G[n] # Gap("SILENCE", last.time, q.time)
      BY EventFacts
    <2> QED BY <1>1, <1>9, <2>1, <2>2
  <1>11. CASE b \in bases
    <2>1. PICK x : x = Bar(i, next, b)
      OBVIOUS
    <2>2. x \in BarSet(i, next, bases)
      BY <1>11, <2>1 DEF BarSet
    <2>3. \A y \in BarSet(i, next, bases) : y.type = "bar" /\ y.start = i /\ y.basis = b => y = x
      BY <2>1, EventFacts DEF BarSet
    <2>4. PICK n \in DOMAIN r :
             /\ r[n] = x
             /\ \A m \in DOMAIN r : r[m].type = "bar" /\ r[m].start = i /\ r[m].basis = b => m = n
      BY <1>9, <2>2, <2>3, OneBar
    <2>5. d + n \in N /\ G[d + n] = x /\ n \in Int
      BY <1>1, <1>9, <2>4
    <2>6. ASSUME NEW m \in N, BarFor(G, m, i, b) PROVE m = d + n
      <3>1. m - d \in DOMAIN r /\ G[m] = r[m - d]
        BY <1>10, <2>6
      <3>2. r[m - d].type = "bar" /\ r[m - d].start = i /\ r[m - d].basis = b
        BY <2>6, <3>1 DEF BarFor, BarIn
      <3>3. m - d = n
        BY <2>4, <3>1, <3>2
      <3>4. m \in Int /\ d \in Int
        BY <1>1
      <3> QED BY <2>5, <3>3, <3>4
    <2>7. PICK v \in Nat : v = bucket.revisions[b]
      BY <1>6
    <2>8. x = BarRecord(i, b, bk.samples[b], v + 1)
      BY <1>5, <1>8, <2>1, <2>7, BarIsRecord
    <2>9. Cardinality(BarPlaces(F, S, i, b)) = v
      BY <2>7 DEF HeldAt
    <2>10. next.closed /\ b \in Changed(q)
      BY <1>11
    <2>11. bk.samples[b] # <<>>
      BY <1>4, <1>8, <2>10 DEF Changed
    <2>12. bk.closed /\ bk.revisions[b] = v + 1
      BY <1>5, <1>8, <1>11, <2>7, <2>10
    <2>13. Collected(bk.samples[b], Arrivals(G, T, i, b))
      BY <1>4, <1>8
    <2>14. Grown(F, S, G, T, N) /\ IsFiniteSet(S)
      BY <1>1
    <2>15. PICK w : w = d + n
      OBVIOUS
    <2>16. w \in N /\ G[w] = BarRecord(i, b, bk.samples[b], v + 1)
           /\ \A m \in N : BarFor(G, m, i, b) => m = w
      BY <2>5, <2>6, <2>8, <2>15
    <2>17. HeldAt(G, T, i, b, bk)
      BY <2>9, <2>11, <2>12, <2>13, <2>14, <2>16, HeldBuilt
    <2> QED BY <1>7, <2>17
  <1>12. CASE b \notin bases
    <2>1. \A n \in N : ~BarFor(G, n, i, b)
      <3> SUFFICES ASSUME NEW n \in N, BarFor(G, n, i, b) PROVE FALSE
        OBVIOUS
      <3>1. G[n] \in BarSet(i, next, bases)
        BY <1>9, <1>10 DEF Lists
      <3>2. PICK c \in bases : G[n] = Bar(i, next, c)
        BY <3>1 DEF BarSet
      <3>3. c = b
        BY <3>2, EventFacts DEF BarFor
      <3> QED BY <1>12, <3>3
    <2>2. Grown(F, S, G, T, N)
      BY <1>1
    <2>3. /\ BarPlaces(G, T, i, b) = BarPlaces(F, S, i, b)
          /\ \A t : Shown(F, S, i, b, t) => Shown(G, T, i, b, t)
      BY <2>1, <2>2, ShownSame
    <2>4. bk.revisions[b] = bucket.revisions[b]
      BY <1>6, <1>8, <1>12
    <2>5. CASE ~bucket.closed
      BY <1>4, <1>7, <1>8, <2>3, <2>4, <2>5 DEF HeldAt
    <2>6. CASE bucket.closed
      <3>1. Sample(q, b) = <<>>
        BY <1>5, <1>12, <2>6 DEF Changed
      <3>2. bk.samples[b] = bucket.samples[b]
        BY <1>4, <1>8, <3>1
      <3> QED BY <1>4, <1>7, <1>8, <2>3, <2>4, <2>6, <3>2 DEF HeldAt
    <2> QED BY <1>6, <2>5, <2>6
  <1> QED BY <1>11, <1>12

\* A quote that the builder takes.
LEMMA AcceptedHeld ==
    ASSUME IngestTypeOK, Gone, Held, Left, NEW q \in Quotes, NEW t \in Times, Process(q, t),
           ~CorrectionExpired(q)
    PROVE  Held' /\ Left'
  <1>1. PICK F, S, r : F = All /\ S = Span /\ r = Rest(q)
    OBVIOUS
  <1>2. PICK G, T, N, p, d : /\ G = All' /\ T = Span'
                             /\ Called(F, S, G, T, N, p, d, r, q)
    BY <1>1, ProcessCalled
  <1>3. PICK i \in Int : i = IntervalStart(q)
    BY QuoteFacts
  <1>4. i \in DOMAIN buckets \/ i + Interval > cutoff
    BY <1>3, Constants DEF CorrectionExpired, IngestTypeOK
  <1>5. \A g \in S : ~GapOf(F, g, i)
    <2> SUFFICES ASSUME NEW g \in S, GapOf(F, g, i) PROVE FALSE
      OBVIOUS
    <2>1. g \in Span /\ ExpiredIn(All, g) /\ All[g].start = i
      BY <1>1 DEF GapOf
    <2>2. i \notin DOMAIN buckets /\ i + Interval =< cutoff
      BY <2>1 DEF Gone
    <2> QED BY <1>4, <2>2, Constants DEF IngestTypeOK
  <1>6. \A k \in 1 .. Len(r) : r[k].type = "bar" /\ r[k].start = i
    BY <1>1, <1>3, RestTyped
  <1>7. Accepting(F, S, G, T, N, p, q, i)
    BY <1>2, <1>3, <1>5, <1>6, AcceptingCall
  <1>8. PICK bucket \in BucketType : bucket = Bucket(i)
    BY BucketTyped DEF IngestTypeOK
  <1>9. PICK next \in BucketType : next = WithSamples(bucket, q)
    BY WithSamplesFacts
  <1>10. PICK bases \in SUBSET Basis : bases = IF next.closed THEN Changed(q) ELSE {}
    BY DEF Changed
  <1>11. r = Bars(i, next, bases)
    BY <1>1, <1>3, <1>8, <1>9, <1>10 DEF Rest
  <1>12. /\ DOMAIN buckets' = DOMAIN buckets \cup {i} /\ buckets'[i] = Built(next, bases)
         /\ \A j \in DOMAIN buckets \ {i} : buckets'[j] = buckets[j]
         /\ cutoff' = cutoff
    <2>1. cutoff' = cutoff
      BY DEF Process
    <2> QED BY <1>3, <1>8, <1>9, <1>10, <2>1, ProcessBuckets
  <1>13. ASSUME NEW b \in Basis PROVE HeldAt(F, S, i, b, bucket)
    <2>1. CASE i \in DOMAIN buckets
      BY <1>1, <1>8, <2>1 DEF Held, Bucket
    <2>2. CASE i \notin DOMAIN buckets
      <3>1. LeftAt(F, S, i, b, cutoff)
        BY <1>1, <2>2 DEF Left
      <3>2. Taken(F, S, i) = {} /\ BarPlaces(F, S, i, b) = {}
        BY <1>4, <2>2, <3>1 DEF LeftAt
      <3> QED BY <1>8, <2>2, <3>2, HeldNew DEF Bucket
    <2> QED BY <2>1, <2>2
  <1>14. ASSUME NEW b \in Basis PROVE HeldAt(G, T, i, b, Built(next, bases))
    <2>1. HeldAt(F, S, i, b, bucket)
      BY <1>13
    <2> QED BY <1>2, <1>7, <1>9, <1>10, <1>11, <2>1, AcceptedAt
  <1>15. ASSUME NEW j, j # i, NEW b
         PROVE  /\ \A bk : HeldAt(F, S, j, b, bk) => HeldAt(G, T, j, b, bk)
                /\ LeftAt(F, S, j, b, cutoff) => LeftAt(G, T, j, b, cutoff)
    <2>1. Taken(G, T, j) = Taken(F, S, j) /\ \A n \in N : ~BarFor(G, n, j, b)
      BY <1>7, <1>15 DEF Accepting, BarFor
    <2>2. Grown(F, S, G, T, N)
      BY <1>2 DEF Called
    <2> QED BY <2>1, <2>2, AtSame
  <1>16. ASSUME NEW j \in DOMAIN buckets', NEW b \in Basis
         PROVE  HeldAt(G, T, j, b, buckets'[j])
    <2>1. CASE j = i
      BY <1>12, <1>14, <2>1
    <2>2. CASE j # i
      <3>1. j \in DOMAIN buckets /\ buckets'[j] = buckets[j]
        BY <1>12, <2>2
      <3>2. HeldAt(F, S, j, b, buckets[j])
        BY <1>1, <3>1 DEF Held
      <3>3. HeldAt(G, T, j, b, buckets[j])
        BY <1>15, <2>2, <3>2
      <3> QED BY <3>1, <3>3
    <2> QED BY <2>1, <2>2
  <1>17. ASSUME NEW j \in Int \ DOMAIN buckets', NEW b \in Basis
         PROVE  LeftAt(G, T, j, b, cutoff')
    <2>1. j # i /\ j \notin DOMAIN buckets
      BY <1>12
    <2>2. LeftAt(F, S, j, b, cutoff)
      BY <1>1, <2>1 DEF Left
    <2>3. LeftAt(G, T, j, b, cutoff)
      BY <1>15, <2>1, <2>2
    <2> QED BY <1>12, <2>3
  <1>18. Held'
    BY <1>2, <1>16 DEF Held
  <1>19. Left'
    BY <1>2, <1>17 DEF Left
  <1> QED BY <1>18, <1>19

\* A session without events.
LEMMA EmptySession ==
    ASSUME NEW F, NEW i, NEW b \in Basis, NEW limit
    PROVE  LeftAt(F, {}, i, b, limit)
  <1>1. Taken(F, {}, i) = {} /\ BarPlaces(F, {}, i, b) = {}
    BY DEF Taken, BarPlaces
  <1>2. Collected(<<>>, Arrivals(F, {}, i, b))
    BY <1>1, HeldNew
  <1>3. Shown(F, {}, i, b, <<>>)
    BY <1>1 DEF Shown
  <1> QED BY <1>1, <1>2, <1>3 DEF LeftAt

\* advance_bars: what is dropped is closed and behind the cutoff.
LEMMA AdvanceLeft ==
    ASSUME IngestTypeOK, Held, Left, AdvanceBars
    PROVE  Held' /\ Left'
  <1>1. PICK F, S : F = All /\ S = Span
    OBVIOUS
  <1>2. PICK G, T : G = All' /\ T = Span'
    OBVIOUS
  <1>3. PICK N : N = (Len(All) + 1) .. Len(All')
    OBVIOUS
  <1>4. /\ Grown(F, S, G, T, N)
        /\ \A n \in N : G[n].type = "bar" /\ G[n].start \in Due(watermark)
        /\ \A i : Taken(G, T, i) = Taken(F, S, i)
    BY <1>1, <1>2, <1>3, AdvanceGrown
  <1>5. /\ DOMAIN buckets' = DOMAIN buckets \ Expired(watermark)
        /\ \A i \in DOMAIN buckets' : buckets'[i] = Advanced(i)
        /\ cutoff' \in Int /\ cutoff =< cutoff' /\ watermark - Retention =< cutoff'
    BY AdvanceBuckets DEF Advanced
  <1>6. /\ cutoff \in Int /\ watermark \in Int /\ DOMAIN buckets \subseteq Int
        /\ Interval \in Nat /\ Retention \in Nat
    BY Constants DEF IngestTypeOK, BucketsOK
  <1>7. ASSUME NEW i \in DOMAIN buckets, NEW b \in Basis PROVE HeldAt(G, T, i, b, Advanced(i))
    BY <1>2, AdvanceHeld
  <1>8. ASSUME NEW i \in Int \ DOMAIN buckets', NEW b \in Basis
        PROVE  LeftAt(G, T, i, b, cutoff')
    <2>1. CASE i \in DOMAIN buckets
      <3>1. /\ buckets[i].closed \/ i \in Due(watermark)
            /\ i + Interval =< watermark - Retention
        BY <1>5, <2>1 DEF Expired
      <3>2. i + Interval =< cutoff'
        BY <1>5, <1>6, <3>1
      <3>3. Advanced(i).closed
        BY <2>1, <3>1, AdvancedFacts
      <3>4. HeldAt(G, T, i, b, Advanced(i))
        BY <1>7, <2>1
      <3> QED BY <1>5, <3>2, <3>3, <3>4, HeldLeft
    <2>2. CASE i \notin DOMAIN buckets
      <3>1. LeftAt(F, S, i, b, cutoff)
        BY <1>1, <2>2 DEF Left
      <3>2. i \notin Due(watermark)
        BY <2>2 DEF Due
      <3>3. \A n \in N : ~BarFor(G, n, i, b)
        BY <1>4, <3>2 DEF BarFor, BarIn
      <3>4. Grown(F, S, G, T, N) /\ Taken(G, T, i) = Taken(F, S, i)
        BY <1>4
      <3>5. LeftAt(G, T, i, b, cutoff)
        BY <3>1, <3>3, <3>4, AtSame
      <3> QED BY <1>5, <1>6, <3>5, LeftHigher
    <2> QED BY <2>1, <2>2
  <1>9. \A i \in DOMAIN buckets', b \in Basis : HeldAt(G, T, i, b, buckets'[i])
    BY <1>5, <1>7
  <1>10. Held'
    BY <1>2, <1>9 DEF Held
  <1>11. Left'
    BY <1>2, <1>8 DEF Left
  <1> QED BY <1>10, <1>11

\* Each step keeps buckets and events in agreement.
LEMMA AgreeStep ==
    ASSUME IngestTypeOK, Gone, Held, Left, [Next]_vars
    PROVE  Held' /\ Left'
  <1>1. CASE Kept
    <2>1. Span' = Span
      BY <1>1, KeptEvents
    <2>2. All' = All /\ buckets' = buckets /\ cutoff' = cutoff
      BY <1>1 DEF Kept
    <2> QED BY <2>1, <2>2 DEF Held, Left
  <1>2. ASSUME NEW q \in Quotes, NEW t \in Times, Process(q, t) PROVE Held' /\ Left'
    <2>1. CASE CorrectionExpired(q)
      BY <1>2, <2>1, ExpiredHeld
    <2>2. CASE ~CorrectionExpired(q)
      BY <1>2, <2>2, AcceptedHeld
    <2> QED BY <2>1, <2>2
  <1>3. CASE AdvanceBars
    BY <1>3, AdvanceLeft
  <1>4. CASE Crash
    <2>1. Span' = {}
      BY <1>4, CrashSpan
    <2>2. DOMAIN buckets' = {}
      BY <1>4 DEF Crash, Empty
    <2>3. PICK G, c : G = All' /\ c = cutoff'
      OBVIOUS
    <2>4. \A i \in Int, b \in Basis : LeftAt(G, {}, i, b, c)
      BY EmptySession
    <2>5. Held'
      BY <2>2 DEF Held
    <2>6. Left'
      BY <2>1, <2>3, <2>4 DEF Left
    <2> QED BY <2>5, <2>6
  <1> QED BY <1>1, <1>2, <1>3, <1>4, StepKinds

\* Initially there is nothing to agree on.
LEMMA AgreeInit == Init => Held /\ Left
  <1> SUFFICES ASSUME Init PROVE Held /\ Left
    OBVIOUS
  <1>1. Span = {}
    <2>1. log = <<>> /\ todo = <<>> /\ base = 0
      BY DEF Init
    <2>2. Len(All) = 0
      BY <2>1 DEF All
    <2> QED BY <2>1, <2>2 DEF Span
  <1>2. DOMAIN buckets = {}
    BY DEF Init, Empty
  <1>3. \A i \in Int, b \in Basis : LeftAt(All, {}, i, b, cutoff)
    BY EmptySession
  <1> QED BY <1>1, <1>2, <1>3 DEF Held, Left

\* Buckets and events agree in every reachable state.
THEOREM BucketsAgreeWithEvents == Spec => [](IngestInv /\ Held /\ Left)
  <1>1. IngestInv /\ Held /\ Left /\ [Next]_vars => (Held /\ Left)'
    BY AgreeStep DEF IngestInv
  <1> QED BY <1>1, AgreeInit, Ingested, PTL DEF Spec

----------------------------------------------------------------------------
(* Between two records the bars are those of the log.                      *)

\* The quotes that reached the builder are those that were taken.
LEMMA AcceptedTaken ==
    ASSUME IngestTypeOK, NEW i
    PROVE  Accepted(i) = Taken(log, Session, i)
  <1>1. \A n \in Session : IsQuote(n) <=> QuoteIn(log, n)
    <2>1. Session \subseteq DOMAIN log
      BY DEF IngestTypeOK, Session
    <2> QED BY <2>1 DEF IsQuote, QuoteIn
  <1>2. \A g : g \in GapsOf(i) <=> g \in Session /\ GapOf(log, g, i)
    BY DEF GapsOf, GapOf, ExpiredIn
  <1>3. Session \subseteq Nat /\ Len(log) \in Nat /\ \A g \in Session : g =< Len(log)
    <2>1. Session \subseteq Nat /\ Len(log) \in Nat
      BY LogIsAll
    <2> QED BY <2>1 DEF Session
  <1>4. ASSUME NEW n \in Session, NEW g \in Session
        PROVE  g > NextQuote(n) <=> \E m \in Session : QuoteIn(log, m) /\ n < m /\ m < g
    <2>1. PICK l : l = NextQuote(n)
      OBVIOUS
    <2>2. /\ l \in Nat /\ n < l
          /\ l =< Len(log) => l \in Session /\ QuoteIn(log, l)
          /\ \A k \in (n + 1) .. (l - 1) : ~QuoteIn(log, k)
      BY <2>1, NextQuoteFacts
    <2>3. ASSUME g > l PROVE \E m \in Session : QuoteIn(log, m) /\ n < m /\ m < g
      <3>1. l =< Len(log) /\ l < g
        BY <1>3, <2>2, <2>3
      <3> QED BY <2>2, <3>1
    <2>4. ASSUME NEW m \in Session, QuoteIn(log, m), n < m, m < g PROVE g > l
      <3>1. m \notin (n + 1) .. (l - 1)
        BY <2>2, <2>4
      <3>2. m \in Nat /\ n \in Nat /\ g \in Nat
        BY <1>3
      <3> QED BY <2>2, <2>4, <3>1, <3>2
    <2> QED BY <2>1, <2>3, <2>4
  <1>5. ASSUME NEW n \in Session
        PROVE  (\A g \in GapsOf(i) : g > NextQuote(n)) <=>
               \A g \in Session : GapOf(log, g, i) =>
                   \E m \in Session : QuoteIn(log, m) /\ n < m /\ m < g
    BY <1>2, <1>4
  <1>6. \A n : n \in Accepted(i) <=> n \in Taken(log, Session, i)
    BY <1>1, <1>5 DEF Accepted, Taken, QuoteOf
  <1> QED BY <1>6

\* The reference is the set of the samples that arrived.
LEMMA ReferenceArrived ==
    ASSUME IngestTypeOK, NEW i, NEW b \in Basis, NEW A, A = Arrivals(log, Session, i, b)
    PROVE  Reference(i, b) = {Arrived(s, A) : s \in {x \in SampleType : A[x] # {}}}
  <1>1. PICK K : K = Taken(log, Session, i)
    OBVIOUS
  <1>2. Accepted(i) = K
    BY <1>1, AcceptedTaken
  <1>3. A = [s \in SampleType |-> {n \in K : Sample(log[n].quote, b) = <<s>>}]
    BY <1>1 DEF Arrivals
  <1>4. ASSUME NEW n \in K
        PROVE  Sample(log[n].quote, b) = <<>> \/
               \E s \in SampleType : Sample(log[n].quote, b) = <<s>>
    <2>1. n \in Session /\ log[n].type = "quote"
      BY <1>1 DEF Taken, QuoteOf, QuoteIn
    <2>2. log[n] \in Events
      BY <2>1 DEF IngestTypeOK, Session
    <2>3. log[n].quote \in Quotes
      BY <2>1, <2>2, EventFacts DEF Events
    <2> QED BY <2>3, SampleTyped
  <1> DEFINE P == {Sample(log[n].quote, b)[1] :
                      n \in {m \in K : Sample(log[m].quote, b) # <<>>}}
             Q == {x \in SampleType : A[x] # {}}
  <1>5. \A x : <<x>> # <<>> /\ <<x>>[1] = x
    <2>1. \A x : Len(<<x>>) = 1 /\ Len(<<>>) = 0 /\ <<x>>[1] = x
      OBVIOUS
    <2> QED BY <2>1
  <1>6. ASSUME NEW x \in P PROVE x \in Q
    <2>1. PICK n \in K : Sample(log[n].quote, b) # <<>> /\ x = Sample(log[n].quote, b)[1]
      OBVIOUS
    <2>2. PICK s \in SampleType : Sample(log[n].quote, b) = <<s>>
      BY <1>4, <2>1
    <2>3. x = s
      BY <1>5, <2>1, <2>2
    <2>4. n \in A[s]
      BY <1>3, <2>2
    <2> QED BY <2>3, <2>4
  <1>7. ASSUME NEW x \in Q PROVE x \in P
    <2>1. PICK n \in A[x] : TRUE
      OBVIOUS
    <2>2. n \in K /\ Sample(log[n].quote, b) = <<x>>
      BY <1>3, <2>1
    <2>3. Sample(log[n].quote, b) # <<>> /\ Sample(log[n].quote, b)[1] = x
      BY <1>5, <2>2
    <2> QED BY <2>2, <2>3
  <1>8. P = Q
    <2> HIDE DEF P, Q
    <2> QED BY <1>6, <1>7
  <1>9. Reference(i, b) =
        {[time |-> s.time, price |-> s.price,
          at |-> Min({n \in K : Sample(log[n].quote, b) = <<s>>})] : s \in P}
    BY <1>2 DEF Reference
  <1>10. \A s \in Q : [time |-> s.time, price |-> s.price,
                       at |-> Min({n \in K : Sample(log[n].quote, b) = <<s>>})] = Arrived(s, A)
    BY <1>3 DEF Arrived
  <1> HIDE DEF P
  <1> QED BY <1>8, <1>9, <1>10

\* The last bar of an interval that has shown its samples.
LEMMA ShownBar ==
    ASSUME NEW F, NEW S \in SUBSET Nat, NEW i, NEW b, NEW t, t # <<>>, Shown(F, S, i, b, t)
    PROVE  LET built == BarPlaces(F, S, i, b)
           IN  built # {} /\ F[Max(built)] = BarRecord(i, b, t, Cardinality(built))
  <1>1. PICK K : K = BarPlaces(F, S, i, b)
    OBVIOUS
  <1>2. K \subseteq Nat
    BY <1>1 DEF BarPlaces
  <1>3. PICK n \in K : (\A m \in K : m =< n) /\ F[n] = BarRecord(i, b, t, Cardinality(K))
    BY <1>1 DEF Shown
  <1>4. \A m \in K : n >= m
    BY <1>2, <1>3
  <1>5. PICK x : x = Max(K)
    OBVIOUS
  <1>6. x \in K /\ \A m \in K : x >= m
    BY <1>4, <1>5 DEF Max
  <1>7. x = n
    <2>1. x \in Nat /\ n \in Nat /\ x >= n /\ n >= x
      BY <1>2, <1>4, <1>6
    <2> QED BY <2>1
  <1> QED BY <1>1, <1>3, <1>5, <1>7

\* The bar of a set of arrived samples.
BarOfSet(i, b, R, k) ==
    [type |-> "bar", start |-> i, basis |-> b, open |-> First(R).price,
     high |-> Max({r.price : r \in R}), low |-> Min({r.price : r \in R}),
     close |-> Final(R).price, count |-> Cardinality(R), revision |-> k]

\* The bar of a list that was collected is the bar of the reference.
LEMMA ReferenceBar ==
    ASSUME NEW A \in [SampleType -> SUBSET Nat], NEW t, Collected(t, A), t # <<>>, NEW R,
           R = {Arrived(s, A) : s \in {x \in SampleType : A[x] # {}}}, NEW i, NEW b, NEW k
    PROVE  BarRecord(i, b, t, k) = BarOfSet(i, b, R, k)
  <1>1. /\ First(R).price = t[1].price /\ Final(R).price = t[Len(t)].price
        /\ {r.price : r \in R} = {t[n].price : n \in DOMAIN t}
        /\ Cardinality(R) = Len(t)
    BY CollectedBar
  <1> QED BY <1>1 DEF BarRecord, BarOfSet

\* The last bar of a closed interval is what the quotes of the log give.
THEOREM BarsAgreeWithLog == Spec => []BarsMatchLog
  <1>1. IngestInv /\ Held /\ Left => BarsMatchLog
    <2> SUFFICES ASSUME IngestInv, Held, Left, Quiet,
                        NEW i \in {IntervalStart(log[n].quote) :
                                      n \in {m \in Session : IsQuote(m)}},
                        NEW b \in Basis, Reference(i, b) # {}
                 PROVE  IF i \in DOMAIN buckets /\ ~buckets[i].closed
                        THEN BarsOf(i, b) = {} /\ i + Interval + Lateness > watermark
                        ELSE /\ BarsOf(i, b) # {}
                             /\ log[Max(BarsOf(i, b))] =
                                  [type |-> "bar", start |-> i, basis |-> b,
                                   open |-> First(Reference(i, b)).price,
                                   high |-> Max({r.price : r \in Reference(i, b)}),
                                   low |-> Min({r.price : r \in Reference(i, b)}),
                                   close |-> Final(Reference(i, b)).price,
                                   count |-> Cardinality(Reference(i, b)),
                                   revision |-> Cardinality(BarsOf(i, b))]
      BY DEF BarsMatchLog
    <2>1. IngestTypeOK
      BY DEF IngestInv
    <2>2. All = log /\ Session = Span /\ Session \subseteq Nat
      BY <2>1, LogIsAll
    <2>3. i \in Int
      <3>1. PICK n \in Session : IsQuote(n) /\ i = IntervalStart(log[n].quote)
        OBVIOUS
      <3>2. log[n] \in Events /\ log[n].type = "quote"
        BY <2>1, <3>1 DEF IngestTypeOK, IsQuote
      <3>3. log[n].quote \in Quotes
        BY <3>2, EventFacts DEF Events
      <3> QED BY <3>1, <3>3, QuoteFacts
    <2>4. PICK A : A = Arrivals(log, Session, i, b)
      OBVIOUS
    <2>5. A \in [SampleType -> SUBSET Nat]
      BY <2>2, <2>4, ArrivalsTyped
    <2>6. PICK R : R = Reference(i, b)
      OBVIOUS
    <2>7. R = {Arrived(s, A) : s \in {x \in SampleType : A[x] # {}}} /\ R # {}
      BY <2>1, <2>4, <2>6, ReferenceArrived
    <2>8. PICK K : K = BarsOf(i, b)
      OBVIOUS
    <2>9. K = BarPlaces(log, Session, i, b)
      BY <2>8 DEF BarsOf, BarPlaces, BarFor, BarIn
    <2>10. CASE i \in DOMAIN buckets /\ ~buckets[i].closed
      <3>1. HeldAt(log, Session, i, b, buckets[i])
        BY <2>2, <2>10 DEF Held
      <3>2. K = {}
        BY <2>9, <2>10, <3>1 DEF HeldAt
      <3>3. i + Interval + Lateness > watermark
        BY <2>10 DEF IngestInv, Recent, Quiet
      <3> QED BY <2>8, <2>10, <3>2, <3>3
    <2>11. CASE ~(i \in DOMAIN buckets /\ ~buckets[i].closed)
      <3>1. \E t : Collected(t, A) /\ Shown(log, Session, i, b, t)
        <4>1. CASE i \in DOMAIN buckets
          <5>1. HeldAt(log, Session, i, b, buckets[i]) /\ buckets[i].closed
            BY <2>2, <2>11, <4>1 DEF Held
          <5> QED BY <2>4, <5>1 DEF HeldAt
        <4>2. CASE i \notin DOMAIN buckets
          <5>1. LeftAt(log, Session, i, b, cutoff)
            BY <2>2, <2>3, <4>2 DEF Left
          <5> QED BY <2>4, <5>1 DEF LeftAt
        <4> QED BY <4>1, <4>2
      <3>2. PICK t : Collected(t, A) /\ Shown(log, Session, i, b, t)
        BY <3>1
      <3>3. t # <<>>
        <4>1. PICK x \in SampleType : A[x] # {}
          BY <2>7
        <4>2. \E n \in DOMAIN t : t[n] = x
          BY <3>2, <4>1 DEF Collected
        <4>3. DOMAIN <<>> = {}
          OBVIOUS
        <4> QED BY <4>2, <4>3
      <3>4. K # {} /\ log[Max(K)] = BarRecord(i, b, t, Cardinality(K))
        BY <2>2, <2>9, <3>2, <3>3, ShownBar
      <3>5. BarRecord(i, b, t, Cardinality(K)) = BarOfSet(i, b, R, Cardinality(K))
        BY <2>5, <2>7, <3>2, <3>3, ReferenceBar
      <3> QED BY <2>6, <2>8, <2>11, <3>4, <3>5 DEF BarOfSet
    <2> QED BY <2>10, <2>11
  <1> QED BY <1>1, BucketsAgreeWithEvents, PTL
=============================================================================
