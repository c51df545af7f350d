-------------------------- MODULE PacingLedgerProofs --------------------------
(***************************************************************************)
(* The rules of the pacing ledger for every set of callers and requests,   *)
(* every policy that leaves room for the lag, and without any bound on     *)
(* time or on the number of reservations.                                  *)
(*                                                                         *)
(* CooldownKept is not inductive: the rows that were deleted are no longer *)
(* looked at.  Forgotten says that they are too old to matter, and         *)
(* PacingTypeOK that a caller inside its transaction is at most MaxLag     *)
(* behind the clock.  The limits are about sums over sets of rows: what is *)
(* needed of a sum (its equation, any order, monotonicity) is proved first *)
(* for the fold that Weight is, by looking at a smallest counterexample.   *)
(***************************************************************************)
EXTENDS PacingLedger, FiniteSetTheorems, WellFoundedInduction, TLAPS

----------------------------------------------------------------------------
(* Least elements, in the place of an induction rule.                      *)

\* Every set of natural numbers that is not empty has a least element.
LEMMA LeastNat ==
    ASSUME NEW T \in SUBSET Nat, T # {}
    PROVE  \E x \in T : \A y \in T : x =< y
  <1> DEFINE R == OpToRel(<, Nat)
  <1>1. IsWellFoundedOn(R, Nat)
    BY NatLessThanWellFounded
  <1>2. \A x, y \in Nat : y < x => <<y, x>> \in R
    BY DEF OpToRel
  <1> HIDE DEF R
  <1>3. PICK x \in T : \A y \in T : ~(<<y, x>> \in R)
    BY <1>1, WFMin
  <1>4. \A y \in T : ~(y < x)
    BY <1>2, <1>3
  <1>5. \A y \in T : x =< y
    BY <1>4
  <1> QED BY <1>5

\* Every set of subsets of a finite set has a smallest member.
LEMMA LeastSet ==
    ASSUME NEW S, IsFiniteSet(S), NEW T \in SUBSET (SUBSET S), T # {}
    PROVE  \E x \in T : \A y \in T : y \subseteq x => y = x
  <1> DEFINE R == StrictSubsetOrdering(S)
  <1>1. IsWellFoundedOn(R, FiniteSubsetsOf(S))
    BY FS_StrictSubsetOrderingWellFounded
  <1>2. T \subseteq FiniteSubsetsOf(S)
    BY FS_Subset DEF FiniteSubsetsOf
  <1>3. \A x, y \in T : y \subseteq x /\ y # x => <<y, x>> \in R
    BY DEF StrictSubsetOrdering
  <1> HIDE DEF R
  <1>4. \E x \in T : \A y \in T : ~(<<y, x>> \in R)
    BY <1>1, <1>2, WFMin
  <1> QED BY <1>3, <1>4

----------------------------------------------------------------------------
(* The sum of the weights of a finite set of rows.                         *)

Weighted(S) == IsFiniteSet(S) /\ \A r \in S : r.weight \in Nat
Chosen(s) == CHOOSE x \in s : TRUE

\* The equation of the fold that MapThenSumSet is, at one set.
Summed(f, s) == IF s = {} THEN 0 ELSE Chosen(s).weight + f[s \ {Chosen(s)}]
Sums(S) == CHOOSE f : f = [s \in SUBSET S |-> Summed(f, s)]

\* What the sum of the library unfolds to.
LEMMA WeightIsFold == \A S : Weight(S) = Sums(S)[S]
  BY DEF Weight, MapThenSumSet, MapThenFoldSet, Sums, Summed, Chosen

\* The row that is taken next is one of the set.
LEMMA ChosenIn == \A s : s # {} => Chosen(s) \in s
  BY DEF Chosen

\* The fold is well defined on the subsets of a finite set.
LEMMA SumsDefined ==
    ASSUME NEW S, Weighted(S)
    PROVE  /\ Sums(S) = [s \in SUBSET S |-> Summed(Sums(S), s)]
           /\ \A s \in SUBSET S : Sums(S)[s] \in Nat
  <1> DEFINE Upto(n, g) == /\ g \in [SUBSET S -> Nat]
                           /\ \A s \in SUBSET S : Cardinality(s) =< n => g[s] = Summed(g, s)
             Bad == {n \in Nat : ~\E g : Upto(n, g)}
  <1>0. \A s \in SUBSET S : IsFiniteSet(s) /\ Cardinality(s) \in Nat
    BY FS_Subset, FS_CardinalityType DEF Weighted
  <1>1. 0 \notin Bad
    <2> DEFINE g == [s \in SUBSET S |-> 0]
    <2>1. \A s \in SUBSET S : Cardinality(s) =< 0 => s = {}
      BY <1>0, FS_EmptySet
    <2>2. Upto(0, g)
      BY <2>1 DEF Summed
    <2> QED BY <2>2
  <1>2. ASSUME NEW n \in Nat, n \notin Bad PROVE n + 1 \notin Bad
    <2>1. PICK g : Upto(n, g)
      BY <1>2
    <2> DEFINE h == [s \in SUBSET S |-> IF Cardinality(s) = n + 1 THEN Summed(g, s) ELSE g[s]]
    <2>2. \A s \in SUBSET S : s # {} =>
             /\ Chosen(s) \in S /\ Chosen(s).weight \in Nat
             /\ s \ {Chosen(s)} \in SUBSET S
             /\ Cardinality(s \ {Chosen(s)}) = Cardinality(s) - 1
      BY <1>0, ChosenIn, FS_RemoveElement DEF Weighted
    <2>3. \A s \in SUBSET S : Summed(g, s) \in Nat
      BY <2>1, <2>2 DEF Summed
    <2>4. h \in [SUBSET S -> Nat]
      BY <2>1, <2>3
    <2>5. ASSUME NEW s \in SUBSET S, Cardinality(s) =< n + 1 PROVE h[s] = Summed(h, s)
      <3>1. h[s] = Summed(g, s)
        BY <1>0, <2>1, <2>5
      <3>2. s # {} => h[s \ {Chosen(s)}] = g[s \ {Chosen(s)}]
        BY <1>0, <2>2, <2>5
      <3> HIDE DEF h
      <3> QED BY <3>1, <3>2 DEF Summed
    <2>6. Upto(n + 1, h)
      BY <2>4, <2>5
    <2> QED BY <2>6
  <1>3. Bad = {}
    <2> SUFFICES ASSUME Bad # {} PROVE FALSE
      OBVIOUS
    <2>0. Bad \subseteq Nat
      OBVIOUS
    <2> HIDE DEF Bad
    <2>1. PICK m \in Bad : \A k \in Bad : m =< k
      BY <2>0, LeastNat
    <2>2. m # 0 /\ m - 1 \in Nat /\ m - 1 \notin Bad
      BY <1>1, <2>0, <2>1
    <2>3. (m - 1) + 1 \notin Bad
      BY <1>2, <2>2
    <2> QED BY <2>0, <2>1, <2>3
  <1>4. PICK g : Upto(Cardinality(S), g)
    BY <1>0, <1>3
  <1>5. g = [s \in SUBSET S |-> Summed(g, s)]
    BY <1>0, <1>4, FS_Subset DEF Weighted
  <1>6. Sums(S) = [s \in SUBSET S |-> Summed(Sums(S), s)]
    BY <1>5 DEF Sums
  <1>7. \A s \in SUBSET S : Sums(S)[s] \in Nat
    <2> DEFINE Odd == {s \in SUBSET S : Sums(S)[s] \notin Nat}
    <2> SUFFICES ASSUME Odd # {} PROVE FALSE
      OBVIOUS
    <2>0. Odd \in SUBSET (SUBSET S) /\ IsFiniteSet(S)
      BY DEF Weighted
    <2> HIDE DEF Odd
    <2>1. PICK s \in Odd : \A t \in Odd : t \subseteq s => t = s
      BY <2>0, LeastSet
    <2> USE DEF Odd
    <2>2. Sums(S)[s] = Summed(Sums(S), s)
      BY <1>6
    <2>3. s # {}
      BY <2>2, <2>1 DEF Summed
    <2>4. /\ Chosen(s) \in s /\ Chosen(s).weight \in Nat
          /\ s \ {Chosen(s)} \in SUBSET S /\ s \ {Chosen(s)} # s
      BY <2>3, ChosenIn DEF Weighted
    <2>5. Sums(S)[s \ {Chosen(s)}] \in Nat
      BY <2>1, <2>4
    <2> QED BY <2>1, <2>2, <2>3, <2>4, <2>5 DEF Summed
  <1> QED BY <1>6, <1>7

\* The fold over a set agrees with the fold over each of its subsets.
LEMMA SumsAgree ==
    ASSUME NEW S, Weighted(S), NEW U \in SUBSET S
    PROVE  Weighted(U) /\ Sums(S)[U] = Weight(U)
  <1>1. Weighted(U)
    BY FS_Subset DEF Weighted
  <1> DEFINE Odd == {s \in SUBSET U : Sums(S)[s] # Sums(U)[s]}
  <1>2. Odd = {}
    <2> SUFFICES ASSUME Odd # {} PROVE FALSE
      OBVIOUS
    <2>0. Odd \in SUBSET (SUBSET U) /\ IsFiniteSet(U)
      BY <1>1 DEF Weighted
    <2> HIDE DEF Odd
    <2>1. PICK s \in Odd : \A t \in Odd : t \subseteq s => t = s
      BY <2>0, LeastSet
    <2> USE DEF Odd
    <2>2. s \in SUBSET U /\ s \in SUBSET S
      OBVIOUS
    <2>3. Sums(S)[s] = Summed(Sums(S), s) /\ Sums(U)[s] = Summed(Sums(U), s)
      BY <1>1, <2>2, SumsDefined
    <2>4. s # {} => Sums(S)[s \ {Chosen(s)}] = Sums(U)[s \ {Chosen(s)}]
      BY <2>1, <2>2, ChosenIn
    <2> QED BY <2>1, <2>3, <2>4 DEF Summed
  <1> QED BY <1>1, <1>2, WeightIsFold

\* The sum is a natural number.
LEMMA WeightType ==
    ASSUME NEW S, Weighted(S)
    PROVE  Weight(S) \in Nat
  BY SumsDefined, WeightIsFold

\* Any row may be taken out of the sum first.
LEMMA WeightRemove ==
    ASSUME NEW S, Weighted(S), NEW x \in S
    PROVE  Weight(S) = x.weight + Weight(S \ {x})
  <1> DEFINE Odd == {s \in SUBSET S : \E y \in s : Weight(s) # y.weight + Weight(s \ {y})}
  <1>1. \A s \in SUBSET S : Weight(s) \in Nat
    BY SumsAgree, WeightType
  <1>2. \A s \in SUBSET S : s # {} => Weight(s) = Chosen(s).weight + Weight(s \ {Chosen(s)})
    <2> TAKE s \in SUBSET S
    <2> HAVE s # {}
    <2>1. Sums(S)[s] = Chosen(s).weight + Sums(S)[s \ {Chosen(s)}]
      BY SumsDefined DEF Summed
    <2>2. s \ {Chosen(s)} \in SUBSET S
      OBVIOUS
    <2> QED BY <2>1, <2>2, SumsAgree
  <1>3. Odd = {}
    <2> SUFFICES ASSUME Odd # {} PROVE FALSE
      OBVIOUS
    <2>0. Odd \in SUBSET (SUBSET S) /\ IsFiniteSet(S)
      BY DEF Weighted
    <2> HIDE DEF Odd
    <2>1. PICK s \in Odd : \A t \in Odd : t \subseteq s => t = s
      BY <2>0, LeastSet
    <2> USE DEF Odd
    <2>2. PICK y \in s : Weight(s) # y.weight + Weight(s \ {y})
      BY <2>1
    <2>3. PICK p : p = Chosen(s)
      OBVIOUS
    <2>4. p \in s /\ s \in SUBSET S /\ Weight(s) = p.weight + Weight(s \ {p})
      BY <1>2, <2>1, <2>2, <2>3, ChosenIn
    <2>5. p # y
      BY <2>2, <2>4
    <2>6. Weight(s \ {p}) = y.weight + Weight((s \ {p}) \ {y})
      BY <2>1, <2>2, <2>4, <2>5
    <2>7. Weight(s \ {y}) = p.weight + Weight((s \ {y}) \ {p})
      BY <2>1, <2>2, <2>4, <2>5
    <2>8. PICK rest \in SUBSET S : rest = (s \ {p}) \ {y} /\ rest = (s \ {y}) \ {p}
      BY <2>4
    <2>9. p.weight \in Nat /\ y.weight \in Nat /\ Weight(rest) \in Nat
      BY <1>1, <2>2, <2>4 DEF Weighted
    <2>10. Weight(s \ {p}) = y.weight + Weight(rest) /\ Weight(s \ {y}) = p.weight + Weight(rest)
      BY <2>6, <2>7, <2>8
    <2> HIDE DEF Odd
    <2> QED BY <2>2, <2>4, <2>9, <2>10
  <1> QED BY <1>3

\* A row that was not there adds its weight.
LEMMA WeightAdd ==
    ASSUME NEW S, Weighted(S), NEW x, x \notin S, x.weight \in Nat
    PROVE  /\ Weighted(S \cup {x})
           /\ Weight(S \cup {x}) = Weight(S) + x.weight
  <1>1. Weighted(S \cup {x})
    BY FS_AddElement DEF Weighted
  <1>2. (S \cup {x}) \ {x} = S
    OBVIOUS
  <1> QED BY <1>1, <1>2, WeightRemove, WeightType

\* More rows weigh no less.
LEMMA WeightMonotone ==
    ASSUME NEW S, Weighted(S), NEW A \in SUBSET S
    PROVE  Weighted(A) /\ Weight(A) =< Weight(S)
  <1> DEFINE Odd == {s \in SUBSET S : A \subseteq s /\ ~(Weight(A) =< Weight(s))}
  <1>1. \A s \in SUBSET S : Weighted(s) /\ Weight(s) \in Nat
    BY SumsAgree, WeightType
  <1>2. Odd = {}
    <2> SUFFICES ASSUME Odd # {} PROVE FALSE
      OBVIOUS
    <2>0. Odd \in SUBSET (SUBSET S) /\ IsFiniteSet(S)
      BY DEF Weighted
    <2> HIDE DEF Odd
    <2>1. PICK s \in Odd : \A t \in Odd : t \subseteq s => t = s
      BY <2>0, LeastSet
    <2> USE DEF Odd
    <2>2. s \in SUBSET S /\ A \subseteq s /\ ~(Weight(A) =< Weight(s))
      BY <2>1
    <2>3. PICK x \in s : x \notin A
      BY <1>1, <2>2
    <2>4. Weight(s) = x.weight + Weight(s \ {x}) /\ x.weight \in Nat
      BY <1>1, <2>2, WeightRemove DEF Weighted
    <2>5. Weight(A) =< Weight(s \ {x})
      BY <2>1, <2>2, <2>3
    <2>6. Weight(A) \in Nat /\ Weight(s \ {x}) \in Nat
      BY <1>1, <2>2
    <2> HIDE DEF Odd
    <2> QED BY <2>2, <2>4, <2>5, <2>6
  <1> QED BY <1>1, <1>2
----------------------------------------------------------------------------
(* The cooldown.                                                           *)

\* A row that was deleted is older than MaxCooldown.
Forgotten == \A r \in admitted \ rows : r.at < now - MaxCooldown

PacingInv == PacingTypeOK /\ Forgotten /\ CooldownKept

\* The retention is never shorter than the longest cooldown.
LEMMA RetentionIsLong ==
  ASSUME NEW c \in Callers
  PROVE  Retention(c) \in Int /\ Retention(c) >= MaxCooldown
<1> DEFINE S == {MaxCooldown, Cooldown[c], RollingWindow}
<1>1. MaxCooldown \in Int /\ Cooldown[c] \in Int /\ RollingWindow \in Int
  BY PacingAssumption DEF PolicyIsValid
<1>2. \E x \in S : \A y \in S : x >= y
  BY <1>1
<1>3. Max(S) \in S /\ \A y \in S : Max(S) >= y
  BY <1>2 DEF Max
<1> QED BY <1>1, <1>3 DEF Retention

\* Every row the transaction deletes is older than MaxCooldown, even for a
\* caller that is late.
LEMMA KeptIsRecent ==
  ASSUME PacingTypeOK, NEW c \in Callers, asking[c] # NoRequest
  PROVE  /\ Kept(c) \subseteq rows
         /\ \A r \in rows \ Kept(c) : r.at < now - MaxCooldown
<1>1. stamp[c] \in Int /\ now \in Int /\ stamp[c] =< now /\ MaxCooldown \in Int
  BY PacingAssumption DEF PacingTypeOK
<1>2. \A r \in rows : r.at \in Int
  BY DEF PacingTypeOK
<1> QED BY <1>1, <1>2, RetentionIsLong DEF Kept

\* The row to insert is a cooldown away from every identical one.
LEMMA NewRowIsApart ==
  ASSUME PacingTypeOK, Forgotten, NEW c \in Callers, asking[c] # NoRequest,
         ~Duplicated(c, asking[c]), NEW r \in admitted, Identical(r, asking[c])
  PROVE  stamp[c] >= r.at + Cooldown[c]
<1>1. /\ stamp[c] \in Int /\ now \in Int /\ r.at \in Int /\ Cooldown[c] \in Int
      /\ MaxCooldown \in Int /\ MaxLag \in Int
      /\ now =< stamp[c] + MaxLag /\ stamp[c] =< now /\ Cooldown[c] + MaxLag =< MaxCooldown
  BY PacingAssumption DEF PacingTypeOK, PolicyIsValid
<1>2. CASE r \in Kept(c)
  BY <1>1, <1>2 DEF Duplicated, Since
<1>3. CASE r \notin Kept(c)
  <2>1. r.at < now - MaxCooldown
    BY <1>3, KeptIsRecent DEF Forgotten
  <2> QED BY <1>1, <2>1
<1> QED BY <1>2, <1>3

\* The empty ledger satisfies the invariant.
LEMMA InitHasInv == Init => PacingInv
  BY PacingAssumption DEF Init, PacingInv, PacingTypeOK, Forgotten, CooldownKept

\* Clock, callers and transactions keep the invariant.
LEMMA StepKeepsInv == PacingInv /\ [Next]_vars => PacingInv'
<1> SUFFICES ASSUME PacingInv, [Next]_vars PROVE PacingInv'
  OBVIOUS
<1> USE DEF PacingInv
<1>1. ASSUME NEW c \in Callers, NEW q \in Requests, Ask(c, q) PROVE PacingInv'
  <2>1. CooldownKept' /\ Forgotten' BY <1>1 DEF Ask, CooldownKept, Forgotten
  <2>2. PacingTypeOK'
    <3>1. UNCHANGED <<now, rows, admitted>> BY <1>1 DEF Ask
    <3>2. now \in Nat /\ now =< now + MaxLag BY PacingAssumption DEF PacingTypeOK
    <3>3. \A d \in Callers :
            asking'[d] # NoRequest => stamp'[d] \in 0 .. now /\ now =< stamp'[d] + MaxLag
      BY <1>1, <3>2 DEF Ask, PacingTypeOK
    <3>4. /\ asking' \in [Callers -> Requests \cup {NoRequest}]
          /\ stamp' \in [Callers -> Nat]
      BY <1>1, <3>2 DEF Ask, PacingTypeOK
    <3> QED BY <3>1, <3>3, <3>4 DEF PacingTypeOK
  <2> QED BY <2>1, <2>2
<1>2. ASSUME NEW c \in Callers, Reserve(c) PROVE PacingInv'
  <2> DEFINE new == Row(c, asking[c])
  <2>1. /\ asking[c] # NoRequest /\ ~Duplicated(c, asking[c]) /\ now' = now
        /\ rows' = Kept(c) \cup {new} /\ admitted' = admitted \cup {new}
    BY <1>2 DEF Reserve
  <2>2. /\ new.at = stamp[c] /\ new.caller = c /\ new.kind = asking[c].kind
        /\ new.contract = asking[c].contract /\ new.fingerprint = asking[c].fingerprint
        /\ new.weight = asking[c].weight
    BY DEF Row
  <2>3. asking[c] \in Requests /\ stamp[c] \in 0 .. now
    BY <2>1 DEF PacingTypeOK
  <2>4. PacingTypeOK'
    <3> HIDE DEF new
    <3>1. rows' \subseteq admitted'
      BY <2>1, KeptIsRecent DEF PacingTypeOK
    <3>2. \A r \in admitted' :
            r.at \in 0 .. now /\ r.kind \in Kinds /\ r.caller \in Callers /\ r.weight \in Nat
      BY <2>1, <2>2, <2>3, RequestAssumption DEF PacingTypeOK
    <3>3. \A d \in Callers :
            asking'[d] # NoRequest => stamp'[d] \in 0 .. now /\ now =< stamp'[d] + MaxLag
      BY <1>2 DEF Reserve, PacingTypeOK
    <3>4. /\ asking' \in [Callers -> Requests \cup {NoRequest}]
          /\ stamp' \in [Callers -> Nat]
      BY <1>2 DEF Reserve, PacingTypeOK
    <3> QED BY <2>1, <3>1, <3>2, <3>3, <3>4 DEF PacingTypeOK
  <2>5. Forgotten'
    <3> HIDE DEF new
    <3> QED BY <2>1, KeptIsRecent DEF Forgotten
  <2>6. CooldownKept'
    <3> HIDE DEF new
    <3>1. \A r \in admitted : Identical(r, new) => new.at >= r.at + Cooldown[new.caller]
      BY <2>1, <2>2, NewRowIsApart DEF Identical, SameContract
    <3>2. \A r \in admitted : Identical(new, r) => Identical(r, new)
      BY DEF Identical, SameContract
    <3> QED BY <2>1, <3>1, <3>2 DEF CooldownKept
  <2> QED BY <2>4, <2>5, <2>6
<1>3. ASSUME NEW c \in Callers, Refuse(c) PROVE PacingInv'
  <2>1. asking[c] # NoRequest /\ rows' = Kept(c) /\ UNCHANGED <<now, admitted>>
    BY <1>3 DEF Refuse
  <2>2. PacingTypeOK'
    <3>1. \A d \in Callers :
            asking'[d] # NoRequest => stamp'[d] \in 0 .. now /\ now =< stamp'[d] + MaxLag
      BY <1>3 DEF Refuse, PacingTypeOK
    <3>2. /\ asking' \in [Callers -> Requests \cup {NoRequest}]
          /\ stamp' \in [Callers -> Nat]
      BY <1>3 DEF Refuse, PacingTypeOK
    <3> QED BY <2>1, <3>1, <3>2, KeptIsRecent DEF PacingTypeOK
  <2>3. Forgotten' BY <2>1, KeptIsRecent DEF Forgotten
  <2> QED BY <2>1, <2>2, <2>3 DEF CooldownKept
<1>4. CASE Tick
  <2>1. now \in Nat /\ now' = now + 1 /\ now' \in 0 .. MaxTime /\ MaxCooldown \in Nat
    BY <1>4, PacingAssumption DEF Tick, PacingTypeOK
  <2>2. UNCHANGED <<rows, admitted, asking, stamp>> BY <1>4 DEF Tick
  <2>3. \A r \in admitted : r.at \in 0 .. now BY DEF PacingTypeOK
  <2>4. PacingTypeOK' BY <1>4, <2>1, <2>2, <2>3, PacingAssumption DEF Tick, PacingTypeOK
  <2>5. Forgotten' BY <2>1, <2>2, <2>3 DEF Forgotten
  <2> QED BY <2>2, <2>4, <2>5 DEF CooldownKept
<1>5. CASE UNCHANGED vars
  BY <1>5 DEF vars, PacingTypeOK, Forgotten, CooldownKept
<1> QED BY <1>1, <1>2, <1>3, <1>4, <1>5 DEF Next

\* Identical requests stay a cooldown apart in the ledger, whatever the order of
\* the transactions and whatever was deleted.
THEOREM CooldownIsKept == Spec => []CooldownKept
<1> QED BY InitHasInv, StepKeepsInv, PTL DEF Spec, PacingInv

----------------------------------------------------------------------------
(* The limits.                                                             *)

Numbers(S) == S \subseteq Nat

\* A finite set of natural numbers that is not empty has a greatest element.
LEMMA GreatestNat ==
    ASSUME NEW S, Numbers(S), IsFiniteSet(S), S # {}
    PROVE  Max(S) \in S /\ \A y \in S : Max(S) >= y
  <1> DEFINE Odd == {s \in SUBSET S : s # {} /\ ~\E x \in s : \A y \in s : x >= y}
  <1>1. Odd = {}
    <2> SUFFICES ASSUME Odd # {} PROVE FALSE
      OBVIOUS
    <2>0. Odd \in SUBSET (SUBSET S) /\ IsFiniteSet(S)
      OBVIOUS
    <2> HIDE DEF Odd
    <2>1. PICK s \in Odd : \A t \in Odd : t \subseteq s => t = s
      BY <2>0, LeastSet
    <2> USE DEF Odd
    <2>2. s \in SUBSET S /\ s # {} /\ ~\E x \in s : \A y \in s : x >= y
      BY <2>1
    <2>3. PICK x : x \in s
      BY <2>2
    <2>4. s \ {x} # {}
      <3>1. x \in Nat
        BY <2>2, <2>3 DEF Numbers
      <3>2. x >= x
        BY <3>1
      <3> QED BY <2>2, <2>3, <3>2
    <2>5. PICK y \in s \ {x} : \A z \in s \ {x} : y >= z
      <3>1. PICK t : t = s \ {x}
        OBVIOUS
      <3>2. t \notin Odd
        BY <2>1, <2>3, <3>1
      <3>3. t \in SUBSET S /\ t # {}
        BY <2>2, <2>4, <3>1
      <3> QED BY <3>1, <3>2, <3>3
    <2>6. x \in Nat /\ y \in Nat
      BY <2>2, <2>3, <2>5 DEF Numbers
    <2> HIDE DEF Odd
    <2>7. CASE x >= y
      BY <2>2, <2>3, <2>5, <2>6, <2>7 DEF Numbers
    <2>8. CASE y >= x
      BY <2>2, <2>3, <2>5, <2>6, <2>8 DEF Numbers
    <2> QED BY <2>6, <2>7, <2>8
  <1>2. \E x \in S : \A y \in S : x >= y
    BY <1>1
  <1> QED BY <1>2 DEF Max

\* The ledger is finite, and every row of it weighs.
Finite == IsFiniteSet(admitted)

LimitInv == PacingInv /\ Finite /\ LimitsKept

\* The rows of a window that has not ended by the time of the request have not
\* been deleted.
LEMMA WindowIsKept ==
  ASSUME PacingTypeOK, Forgotten, NEW c \in Callers, asking[c] # NoRequest,
         NEW w \in {ContractWindow, RollingWindow, GlobalWindow},
         NEW r \in admitted, r.at > stamp[c] - w
  PROVE  r \in Since(Kept(c), stamp[c] - w)
<1>1. /\ stamp[c] \in Int /\ now \in Int /\ r.at \in Int /\ w \in Int
      /\ MaxCooldown \in Int /\ MaxLag \in Int
      /\ now =< stamp[c] + MaxLag /\ stamp[c] =< now /\ w + MaxLag =< MaxCooldown
  BY PacingAssumption DEF PacingTypeOK
<1>2. ~(r.at < now - MaxCooldown)
  BY <1>1
<1> QED BY <1>2, KeptIsRecent DEF Forgotten, Since

\* The rows that a transaction looks at are finitely many and weigh.
LEMMA RecentIsWeighted ==
  ASSUME PacingTypeOK, Finite, NEW c \in Callers, NEW S \in SUBSET rows
  PROVE  Weighted(S) /\ Weight(S) \in Nat
<1>1. IsFiniteSet(S)
  BY FS_Subset DEF PacingTypeOK, Finite
<1>2. Weighted(S)
  BY <1>1 DEF PacingTypeOK, Weighted
<1> QED BY <1>2, WeightType

\* A window to which the reservation is added holds, with it, no more than what
\* the transaction has counted.
LEMMA NewWindowFits ==
  ASSUME PacingTypeOK, Forgotten, Finite, NEW c \in Callers, asking[c] # NoRequest,
         NEW w \in {ContractWindow, RollingWindow, GlobalWindow},
         NEW A \in SUBSET admitted, \A s \in A : s.at > stamp[c] - w,
         NEW B \in SUBSET rows, A \cap Since(Kept(c), stamp[c] - w) \subseteq B,
         NEW x, x \notin admitted, x.weight \in Nat,
         NEW max \in Nat, Weight(B) + x.weight =< max
  PROVE  Weight(A \cup {x}) =< max
<1>1. A \subseteq B
  BY WindowIsKept
<1>2. Weighted(B) /\ Weight(B) \in Nat
  BY RecentIsWeighted
<1>3. Weighted(A) /\ Weight(A) =< Weight(B)
  BY <1>1, <1>2, WeightMonotone
<1>4. Weight(A \cup {x}) = Weight(A) + x.weight
  BY <1>3, WeightAdd
<1>5. Weight(A) \in Nat
  BY <1>3, WeightType
<1> QED BY <1>2, <1>3, <1>4, <1>5

\* The most liberal policy allows no less than any caller's.
LEMMA PolicyBelowMax ==
  ASSUME NEW c \in Callers
  PROVE  /\ Max({ContractMax[d] : d \in Callers}) \in Nat
         /\ ContractMax[c] =< Max({ContractMax[d] : d \in Callers})
         /\ Max({RollingMax[d] : d \in Callers}) \in Nat
         /\ RollingMax[c] =< Max({RollingMax[d] : d \in Callers})
<1>1. PICK S : S = {ContractMax[d] : d \in Callers}
  OBVIOUS
<1>2. PICK T : T = {RollingMax[d] : d \in Callers}
  OBVIOUS
<1>3. Numbers(S) /\ Numbers(T) /\ ContractMax[c] \in S /\ RollingMax[c] \in T
  BY <1>1, <1>2, PacingAssumption DEF PolicyIsValid, Numbers
<1>4. IsFiniteSet(S)
  <2>1. [d \in Callers |-> ContractMax[d]] \in Surjection(Callers, S)
    BY <1>1 DEF Surjection
  <2> QED BY <2>1, FS_Surjection, PacingAssumption
<1>5. IsFiniteSet(T)
  <2>1. [d \in Callers |-> RollingMax[d]] \in Surjection(Callers, T)
    BY <1>2 DEF Surjection
  <2> QED BY <2>1, FS_Surjection, PacingAssumption
<1>6. /\ Max(S) \in S /\ \A y \in S : Max(S) >= y
      /\ Max(T) \in T /\ \A y \in T : Max(T) >= y
  BY <1>3, <1>4, <1>5, GreatestNat
<1>7. /\ Max(S) \in Nat /\ ContractMax[c] =< Max(S)
      /\ Max(T) \in Nat /\ RollingMax[c] =< Max(T)
  BY <1>3, <1>6 DEF Numbers
<1> QED BY <1>1, <1>2, <1>7

\* A reservation that fits keeps every window within its limit.
LEMMA ReserveKeepsLimits ==
  ASSUME LimitInv, NEW c \in Callers, Reserve(c)
  PROVE  Finite' /\ LimitsKept'
<1> DEFINE q == asking[c]
           recent(w) == Since(Kept(c), stamp[c] - w)
           same == {r \in recent(ContractWindow) : SameContract(r, q)}
           historical == {r \in recent(RollingWindow) : r.kind = "historical"}
<1> USE DEF LimitInv, PacingInv
<1>1. PICK x : x = Row(c, q)
  OBVIOUS
<1>2. /\ asking[c] # NoRequest /\ ~Duplicated(c, asking[c]) /\ Fits(c, asking[c])
      /\ admitted' = admitted \cup {x}
  BY <1>1 DEF Reserve
<1>3. /\ x.at = stamp[c] /\ x.kind = q.kind /\ x.contract = q.contract
      /\ x.fingerprint = q.fingerprint /\ x.weight = q.weight
  BY <1>1 DEF Row
<1>4. q \in Requests /\ stamp[c] \in Nat /\ x.weight \in Nat
  BY <1>2, <1>3, RequestAssumption DEF PacingTypeOK
<1>5. x \notin admitted
  <2> SUFFICES ASSUME x \in admitted PROVE FALSE
    OBVIOUS
  <2>1. Identical(x, asking[c])
    BY <1>3 DEF Identical, SameContract
  <2>2. stamp[c] >= x.at + Cooldown[c]
    BY <1>2, <2>1, NewRowIsApart
  <2>3. Cooldown[c] \in Nat /\ Cooldown[c] >= 1
    BY PacingAssumption DEF PolicyIsValid
  <2> QED BY <1>3, <1>4, <2>2, <2>3
<1>6. Finite'
  BY <1>2, FS_AddElement DEF Finite
<1>7. /\ Weight(recent(GlobalWindow)) + x.weight =< GlobalMax
      /\ x.kind \in {"historical", "BID_ASK"} => Weight(same) + x.weight =< ContractMax[c]
      /\ x.kind = "historical" => Weight(historical) + x.weight =< RollingMax[c]
  BY <1>2, <1>3 DEF Fits
<1>8. \A w : recent(w) \in SUBSET rows
  BY <1>2, KeptIsRecent DEF Since
<1>9. /\ {ContractWindow, RollingWindow, GlobalWindow} \subseteq Nat \ {0}
      /\ GlobalMax \in Nat /\ ContractMax[c] \in Nat /\ RollingMax[c] \in Nat
  BY PacingAssumption DEF PolicyIsValid
<1>10. \A r \in admitted' : r.at \in Nat
  BY <1>2, <1>3, <1>4 DEF PacingTypeOK
<1> HIDE DEF q, recent, same, historical
<1>11. ASSUME NEW r \in admitted'
       PROVE  LET window(w) == {s \in admitted' : r.at =< s.at /\ s.at < r.at + w}
              IN  /\ Weight(window(GlobalWindow)) =< GlobalMax
                  /\ r.kind \in {"historical", "BID_ASK"} =>
                         Weight({s \in window(ContractWindow) : SameContract(s, r)})
                             =< Max({ContractMax[d] : d \in Callers})
                  /\ r.kind = "historical" =>
                         Weight({s \in window(RollingWindow) : s.kind = "historical"})
                             =< Max({RollingMax[d] : d \in Callers})
  <2> DEFINE window(w) == {s \in admitted' : r.at =< s.at /\ s.at < r.at + w}
             before(w) == {s \in admitted : r.at =< s.at /\ s.at < r.at + w}
  <2>1. \A w \in {ContractWindow, RollingWindow, GlobalWindow} :
          IF x \in window(w)
          THEN /\ window(w) = before(w) \cup {x}
               /\ \A s \in before(w) : s.at > stamp[c] - w
          ELSE /\ window(w) = before(w) /\ r \in admitted
    BY <1>2, <1>3, <1>4, <1>9, <1>10
  <2>2. Weight(window(GlobalWindow)) =< GlobalMax
    <3>1. CASE x \in window(GlobalWindow)
      <4>1. before(GlobalWindow) \cap recent(GlobalWindow) \subseteq recent(GlobalWindow)
        OBVIOUS
      <4>2. /\ window(GlobalWindow) = before(GlobalWindow) \cup {x}
            /\ \A s \in before(GlobalWindow) : s.at > stamp[c] - GlobalWindow
            /\ before(GlobalWindow) \in SUBSET admitted
        BY <2>1, <3>1
      <4> HIDE DEF window, before
      <4>3. Weight(before(GlobalWindow) \cup {x}) =< GlobalMax
        BY <1>2, <1>4, <1>5, <1>7, <1>8, <1>9, <4>1, <4>2, NewWindowFits DEF recent
      <4> QED BY <4>2, <4>3
    <3>2. CASE x \notin window(GlobalWindow)
      BY <2>1, <3>2 DEF LimitsKept
    <3> QED BY <3>1, <3>2
  <2>3. ASSUME r.kind \in {"historical", "BID_ASK"}
        PROVE  Weight({s \in window(ContractWindow) : SameContract(s, r)})
                   =< Max({ContractMax[d] : d \in Callers})
    <3>1. CASE x \in window(ContractWindow) /\ SameContract(x, r)
      <4>1. PICK A : A = {s \in before(ContractWindow) : SameContract(s, r)}
        OBVIOUS
      <4>2. \A s : SameContract(s, r) => SameContract(s, q)
        BY <1>3, <3>1 DEF SameContract
      <4>3. A \cap recent(ContractWindow) \subseteq same
        BY <4>1, <4>2 DEF same
      <4>4. /\ {s \in window(ContractWindow) : SameContract(s, r)} = A \cup {x}
            /\ \A s \in A : s.at > stamp[c] - ContractWindow
            /\ A \in SUBSET admitted /\ same \in SUBSET rows
        BY <1>8, <2>1, <3>1, <4>1 DEF same
      <4>5. x.kind \in {"historical", "BID_ASK"}
        BY <2>3, <3>1 DEF SameContract
      <4> HIDE DEF window, before
      <4>6. Weight(A \cup {x}) =< ContractMax[c]
        BY <1>2, <1>4, <1>5, <1>7, <1>9, <4>3, <4>4, <4>5, NewWindowFits DEF recent
      <4>7. Weight(A \cup {x}) \in Nat
        <5>1. IsFiniteSet(A)
          BY <4>4, FS_Subset DEF Finite
        <5>2. Weighted(A)
          BY <4>4, <5>1 DEF Weighted, PacingTypeOK
        <5>3. Weighted(A \cup {x})
          BY <1>4, <1>5, <4>4, <5>2, WeightAdd
        <5> QED BY <5>3, WeightType
      <4>8. PICK m \in Nat : m = Max({ContractMax[d] : d \in Callers}) /\ ContractMax[c] =< m
        BY PolicyBelowMax
      <4>9. Weight(A \cup {x}) =< m
        BY <1>9, <4>6, <4>7, <4>8
      <4> QED BY <4>4, <4>8, <4>9
    <3>2. CASE ~(x \in window(ContractWindow) /\ SameContract(x, r))
      <4>1. {s \in window(ContractWindow) : SameContract(s, r)}
              = {s \in before(ContractWindow) : SameContract(s, r)}
        BY <1>2, <2>1, <3>2
      <4>2. r \in admitted
        <5>1. SameContract(r, r) /\ (r = x => x \in window(ContractWindow))
          BY <1>9, <1>10, <1>11 DEF SameContract
        <5> QED BY <1>2, <3>2, <5>1
      <4> HIDE DEF window
      <4> QED BY <2>3, <4>1, <4>2 DEF LimitsKept
    <3> QED BY <3>1, <3>2
  <2>4. ASSUME r.kind = "historical"
        PROVE  Weight({s \in window(RollingWindow) : s.kind = "historical"})
                   =< Max({RollingMax[d] : d \in Callers})
    <3>1. CASE x \in window(RollingWindow) /\ x.kind = "historical"
      <4>1. PICK A : A = {s \in before(RollingWindow) : s.kind = "historical"}
        OBVIOUS
      <4>3. A \cap recent(RollingWindow) \subseteq historical
        BY <4>1 DEF historical
      <4>4. /\ {s \in window(RollingWindow) : s.kind = "historical"} = A \cup {x}
            /\ \A s \in A : s.at > stamp[c] - RollingWindow
            /\ A \in SUBSET admitted /\ historical \in SUBSET rows
        BY <1>8, <2>1, <3>1, <4>1 DEF historical
      <4> HIDE DEF window, before
      <4>6. Weight(A \cup {x}) =< RollingMax[c]
        BY <1>2, <1>4, <1>5, <1>7, <1>9, <3>1, <4>3, <4>4, NewWindowFits DEF recent
      <4>7. Weight(A \cup {x}) \in Nat
        <5>1. IsFiniteSet(A)
          BY <4>4, FS_Subset DEF Finite
        <5>2. Weighted(A)
          BY <4>4, <5>1 DEF Weighted, PacingTypeOK
        <5>3. Weighted(A \cup {x})
          BY <1>4, <1>5, <4>4, <5>2, WeightAdd
        <5> QED BY <5>3, WeightType
      <4>8. PICK m \in Nat : m = Max({RollingMax[d] : d \in Callers}) /\ RollingMax[c] =< m
        BY PolicyBelowMax
      <4>9. Weight(A \cup {x}) =< m
        BY <1>9, <4>6, <4>7, <4>8
      <4> QED BY <4>4, <4>8, <4>9
    <3>2. CASE ~(x \in window(RollingWindow) /\ x.kind = "historical")
      <4>1. {s \in window(RollingWindow) : s.kind = "historical"}
              = {s \in before(RollingWindow) : s.kind = "historical"}
        BY <1>2, <2>1, <3>2
      <4>2. r \in admitted
        <5>1. r = x => x \in window(RollingWindow)
          BY <1>9, <1>10, <1>11
        <5> QED BY <1>2, <2>4, <3>2, <5>1
      <4> HIDE DEF window
      <4> QED BY <2>4, <4>1, <4>2 DEF LimitsKept
    <3> QED BY <3>1, <3>2
  <2> QED BY <2>2, <2>3, <2>4
<1> QED BY <1>6, <1>11 DEF LimitsKept

\* The empty ledger keeps the limits.
LEMMA InitHasLimits == Init => Finite /\ LimitsKept
  BY FS_EmptySet DEF Init, Finite, LimitsKept

\* Only a reservation adds a row.
LEMMA StepKeepsLimits == LimitInv /\ [Next]_vars => LimitInv'
<1> SUFFICES ASSUME LimitInv, [Next]_vars PROVE LimitInv'
  OBVIOUS
<1>1. PacingInv'
  BY StepKeepsInv DEF LimitInv
<1>2. ASSUME NEW c \in Callers, Reserve(c) PROVE Finite' /\ LimitsKept'
  BY <1>2, ReserveKeepsLimits
<1>3. ASSUME admitted' = admitted PROVE Finite' /\ LimitsKept'
  BY <1>3 DEF LimitInv, Finite, LimitsKept
<1>4. (\E c \in Callers : Reserve(c)) \/ admitted' = admitted
  BY DEF Next, Refuse, Ask, Tick, vars
<1> QED BY <1>1, <1>2, <1>3, <1>4 DEF LimitInv

\* No window of the ledger, wherever it starts, ever holds more than the most
\* liberal policy in use allows (the three SELECTs of reserve_ibkr_request).
THEOREM LimitsAreKept == Spec => []LimitsKept
<1>1. Init => LimitInv
  BY InitHasInv, InitHasLimits DEF LimitInv
<1>2. LimitInv /\ [Next]_vars => LimitInv'
  BY StepKeepsLimits
<1>3. LimitInv => LimitsKept
  BY DEF LimitInv
<1> QED BY <1>1, <1>2, <1>3, PTL DEF Spec

----------------------------------------------------------------------------
(* The pure policy.                                                        *)

\* The rows of a class that a window ending at t holds.
Held(S, t, w) == {r \in S : t - r.at < w}

\* The wait for a window is positive, and until it is over the window keeps
\* exactly the rows it has.
LEMMA WaitForWindow ==
  ASSUME NEW S, \A r \in S : r.at \in Nat, NEW t \in Nat, NEW w \in Nat \ {0}
  PROVE  /\ WaitFor(Held(S, t, w), w, t) \in Nat \ {0}
         /\ \A d \in Nat : d < WaitFor(Held(S, t, w), w, t) => Held(S, t + d, w) = Held(S, t, w)
<1>1. CASE Held(S, t, w) = {}
  <2>1. WaitFor(Held(S, t, w), w, t) = w
    BY <1>1 DEF WaitFor
  <2>2. \A d \in Nat : Held(S, t + d, w) = {}
    BY <1>1 DEF Held
  <2> QED BY <1>1, <2>1, <2>2
<1>2. CASE Held(S, t, w) # {}
  <2> DEFINE T == {r.at : r \in Held(S, t, w)}
  <2>1. T \in SUBSET Nat /\ T # {}
    BY <1>2 DEF Held
  <2> HIDE DEF T
  <2>2. PICK m \in T : \A y \in T : m =< y
    BY <2>1, LeastNat
  <2>3. Min(T) = m
    <3>1. Min(T) \in T /\ \A y \in T : Min(T) =< y
      BY <2>2 DEF Min
    <3>2. Min(T) =< m /\ m =< Min(T) /\ m \in Nat /\ Min(T) \in Nat
      BY <2>1, <2>2, <3>1
    <3> QED BY <3>2
  <2>4. WaitFor(Held(S, t, w), w, t) = m + w - t
    BY <1>2, <2>3 DEF WaitFor, T
  <2>5. /\ m \in Nat /\ t - m < w
        /\ \A r \in Held(S, t, w) : m =< r.at
    BY <2>1, <2>2 DEF T, Held
  <2>6. ASSUME NEW d \in Nat, d < m + w - t PROVE Held(S, t + d, w) = Held(S, t, w)
    <3>1. \A r \in Held(S, t, w) : t + d - r.at < w
      BY <2>5, <2>6 DEF Held
    <3>2. \A r \in S : t + d - r.at < w => t - r.at < w
      BY <2>6
    <3> QED BY <3>1, <3>2 DEF Held
  <2> QED BY <2>4, <2>5, <2>6
<1> QED BY <1>1, <1>2

\* The classes of rows and the limits that bear on a historical request.
Same(S, q) == {r \in S : SameContract(r, q)}
Alike(S, q) == {r \in S : Identical(r, q)}
Historical(S) == {r \in S : r.kind = "historical"}

\* The conditions under which it waits ...
Crowded(q, t, S) == Weight(Held(S, t, GlobalWindow)) + q.weight > GlobalMax
Repeated(q, t, S, cooldown) == Held(Alike(S, q), t, cooldown) # {}
ContractFull(q, t, S, max) == Weight(Held(Same(S, q), t, ContractWindow)) + q.weight > max
RollingFull(q, t, S, max) == Weight(Held(Historical(S), t, RollingWindow)) + q.weight > max

\* ... and how long.
WaitSet(q, t, S, cooldown, contractMax, rollingMax) ==
    {0} \cup (IF Crowded(q, t, S)
              THEN {WaitFor(Held(S, t, GlobalWindow), GlobalWindow, t)} ELSE {})
        \cup (IF Repeated(q, t, S, cooldown)
              THEN {WaitFor(Held(Alike(S, q), t, cooldown), cooldown, t)} ELSE {})
        \cup (IF ContractFull(q, t, S, contractMax)
              THEN {WaitFor(Held(Same(S, q), t, ContractWindow), ContractWindow, t)} ELSE {})
        \cup (IF RollingFull(q, t, S, rollingMax)
              THEN {WaitFor(Held(Historical(S), t, RollingWindow), RollingWindow, t)} ELSE {})

\* WaitSeconds of a historical request is the longest of these waits.
LEMMA WaitIsMax ==
  ASSUME NEW q, q.kind = "historical", NEW t, NEW S, NEW cooldown, NEW contractMax, NEW rollingMax
  PROVE  WaitSeconds(q, t, S, cooldown, contractMax, rollingMax)
           = Max(WaitSet(q, t, S, cooldown, contractMax, rollingMax))
<1>1. /\ \A w : {r \in Held(S, t, w) : SameContract(r, q)} = Held(Same(S, q), t, w)
      /\ {r \in Held(Same(S, q), t, cooldown) : r.fingerprint = q.fingerprint}
           = Held(Alike(S, q), t, cooldown)
      /\ {r \in Held(S, t, RollingWindow) : r.kind = q.kind} = Held(Historical(S), t, RollingWindow)
  BY DEF Held, Same, Alike, Historical, Identical
<1> QED BY <1>1 DEF WaitSeconds, WaitSet, Crowded, Repeated, ContractFull, RollingFull, Held

\* The longest of the waits.
LEMMA WaitSetMax ==
  ASSUME NEW q, NEW t \in Nat, NEW S, \A r \in S : r.at \in Nat,
         NEW cooldown \in Nat \ {0}, NEW contractMax, NEW rollingMax
  PROVE  LET W == WaitSet(q, t, S, cooldown, contractMax, rollingMax)
         IN  Max(W) \in W /\ \A y \in W : y \in Nat /\ Max(W) >= y
<1>1. PICK W : W = WaitSet(q, t, S, cooldown, contractMax, rollingMax)
  OBVIOUS
<1>2. PICK a \in Nat, b \in Nat, c \in Nat, e \in Nat :
        /\ a = WaitFor(Held(S, t, GlobalWindow), GlobalWindow, t)
        /\ b = WaitFor(Held(Alike(S, q), t, cooldown), cooldown, t)
        /\ c = WaitFor(Held(Same(S, q), t, ContractWindow), ContractWindow, t)
        /\ e = WaitFor(Held(Historical(S), t, RollingWindow), RollingWindow, t)
  <2>1. /\ \A r \in Alike(S, q) : r.at \in Nat
        /\ \A r \in Same(S, q) : r.at \in Nat
        /\ \A r \in Historical(S) : r.at \in Nat
    BY DEF Alike, Same, Historical
  <2> QED BY <2>1, WaitForWindow, PacingAssumption
<1>3. 0 \in W /\ W \subseteq {0} \cup {a} \cup {b} \cup {c} \cup {e}
  BY <1>1, <1>2 DEF WaitSet
<1>4. W \in SUBSET Nat /\ a + b + c + e \in Nat /\ \A y \in W : y =< a + b + c + e
  BY <1>3
<1>5. IsFiniteSet(W) /\ W # {} /\ Numbers(W)
  BY <1>3, <1>4, FS_BoundedSetOfNaturals DEF Numbers
<1>6. Max(W) \in W /\ \A y \in W : Max(W) >= y
  BY <1>5, GreatestNat
<1>7. \A y \in W : y \in Nat
  BY <1>5 DEF Numbers
<1> QED BY <1>1, <1>6, <1>7

\* Nothing to wait for, and as long as a wait lasts its reason does.
LEMMA WaitIsMinimal ==
  ASSUME NEW q, q.kind = "historical", NEW t \in Nat, NEW S, \A r \in S : r.at \in Nat,
         NEW cooldown \in Nat \ {0}, NEW contractMax, NEW rollingMax
  PROVE  LET wait(u) == WaitSeconds(q, u, S, cooldown, contractMax, rollingMax)
         IN  /\ wait(t) = 0 <=> /\ ~Crowded(q, t, S) /\ ~Repeated(q, t, S, cooldown)
                                /\ ~ContractFull(q, t, S, contractMax)
                                /\ ~RollingFull(q, t, S, rollingMax)
             /\ \A d \in 1 .. wait(t) - 1 : wait(t + d) > 0
<1> DEFINE wait(u) == WaitSeconds(q, u, S, cooldown, contractMax, rollingMax)
           W(u) == WaitSet(q, u, S, cooldown, contractMax, rollingMax)
           a(u) == WaitFor(Held(S, u, GlobalWindow), GlobalWindow, u)
           b(u) == WaitFor(Held(Alike(S, q), u, cooldown), cooldown, u)
           c(u) == WaitFor(Held(Same(S, q), u, ContractWindow), ContractWindow, u)
           e(u) == WaitFor(Held(Historical(S), u, RollingWindow), RollingWindow, u)
<1>1. \A u \in Nat : wait(u) \in W(u) /\ \A y \in W(u) : y \in Nat /\ wait(u) >= y
  BY WaitIsMax, WaitSetMax
<1>2. /\ \A r \in Alike(S, q) : r.at \in Nat
      /\ \A r \in Same(S, q) : r.at \in Nat
      /\ \A r \in Historical(S) : r.at \in Nat
  BY DEF Alike, Same, Historical
<1>3. \A u \in Nat :
        /\ a(u) \in Nat \ {0} /\ b(u) \in Nat \ {0} /\ c(u) \in Nat \ {0} /\ e(u) \in Nat \ {0}
        /\ \A d \in Nat :
             /\ d < a(u) => Held(S, u + d, GlobalWindow) = Held(S, u, GlobalWindow)
             /\ d < b(u) => Held(Alike(S, q), u + d, cooldown) = Held(Alike(S, q), u, cooldown)
             /\ d < c(u) => Held(Same(S, q), u + d, ContractWindow)
                              = Held(Same(S, q), u, ContractWindow)
             /\ d < e(u) => Held(Historical(S), u + d, RollingWindow)
                              = Held(Historical(S), u, RollingWindow)
  BY <1>2, WaitForWindow, PacingAssumption
<1>4. \A u : /\ 0 \in W(u)
             /\ Crowded(q, u, S) => a(u) \in W(u)
             /\ Repeated(q, u, S, cooldown) => b(u) \in W(u)
             /\ ContractFull(q, u, S, contractMax) => c(u) \in W(u)
             /\ RollingFull(q, u, S, rollingMax) => e(u) \in W(u)
             /\ \A y \in W(u) : \/ y = 0
                                \/ y = a(u) /\ Crowded(q, u, S)
                                \/ y = b(u) /\ Repeated(q, u, S, cooldown)
                                \/ y = c(u) /\ ContractFull(q, u, S, contractMax)
                                \/ y = e(u) /\ RollingFull(q, u, S, rollingMax)
  BY DEF WaitSet
<1> HIDE DEF wait, W, a, b, c, e
<1>5. ASSUME NEW u \in Nat
      PROVE  /\ wait(u) \in Nat
             /\ wait(u) # 0 <=> \/ Crowded(q, u, S) \/ Repeated(q, u, S, cooldown)
                                \/ ContractFull(q, u, S, contractMax)
                                \/ RollingFull(q, u, S, rollingMax)
  <2>1. wait(u) \in W(u) /\ wait(u) \in Nat /\ \A y \in W(u) : y \in Nat /\ wait(u) >= y
    BY <1>1
  <2>2. a(u) \in Nat \ {0} /\ b(u) \in Nat \ {0} /\ c(u) \in Nat \ {0} /\ e(u) \in Nat \ {0}
    BY <1>3
  <2>3. \A y \in Nat \ {0} : y \in W(u) => wait(u) # 0
    BY <2>1
  <2>4. /\ Crowded(q, u, S) => wait(u) # 0
        /\ Repeated(q, u, S, cooldown) => wait(u) # 0
        /\ ContractFull(q, u, S, contractMax) => wait(u) # 0
        /\ RollingFull(q, u, S, rollingMax) => wait(u) # 0
    BY <1>4, <2>2, <2>3
  <2> QED BY <1>4, <2>1, <2>4
<1>6. ASSUME NEW d \in 1 .. wait(t) - 1 PROVE wait(t + d) > 0
  <2>1. wait(t) \in Nat /\ d \in Nat /\ d < wait(t) /\ t + d \in Nat /\ wait(t) # 0
    BY <1>5
  <2>2. \/ Crowded(q, t + d, S)
        \/ Repeated(q, t + d, S, cooldown)
        \/ ContractFull(q, t + d, S, contractMax)
        \/ RollingFull(q, t + d, S, rollingMax)
    <3>1. CASE wait(t) = a(t) /\ Crowded(q, t, S)
      <4>1. Held(S, t + d, GlobalWindow) = Held(S, t, GlobalWindow)
        BY <1>3, <2>1, <3>1
      <4> QED BY <3>1, <4>1 DEF Crowded
    <3>2. CASE wait(t) = b(t) /\ Repeated(q, t, S, cooldown)
      <4>1. Held(Alike(S, q), t + d, cooldown) = Held(Alike(S, q), t, cooldown)
        BY <1>3, <2>1, <3>2
      <4> QED BY <3>2, <4>1 DEF Repeated
    <3>3. CASE wait(t) = c(t) /\ ContractFull(q, t, S, contractMax)
      <4>1. Held(Same(S, q), t + d, ContractWindow) = Held(Same(S, q), t, ContractWindow)
        BY <1>3, <2>1, <3>3
      <4> QED BY <3>3, <4>1 DEF ContractFull
    <3>4. CASE wait(t) = e(t) /\ RollingFull(q, t, S, rollingMax)
      <4>1. Held(Historical(S), t + d, RollingWindow) = Held(Historical(S), t, RollingWindow)
        BY <1>3, <2>1, <3>4
      <4> QED BY <3>4, <4>1 DEF RollingFull
    <3>5. wait(t) \in W(t)
      BY <1>1
    <3> QED BY <1>4, <2>1, <3>1, <3>2, <3>3, <3>4, <3>5
  <2>3. wait(t + d) \in Nat /\ wait(t + d) # 0
    BY <1>5, <2>1, <2>2
  <2> QED BY <2>3
<1> QED BY <1>5, <1>6 DEF wait

\* What the DELETE leaves is all that any window of the caller can hold.
LEMMA HeldIsRecent ==
  ASSUME PacingTypeOK, NEW c \in Callers, asking[c] # NoRequest,
         NEW w \in {ContractWindow, RollingWindow, GlobalWindow, Cooldown[c]}
  PROVE  Held(rows, stamp[c], w) = Since(Kept(c), stamp[c] - w)
<1>1. /\ stamp[c] \in Int /\ w \in Int /\ MaxLag \in Nat /\ MaxCooldown \in Int
      /\ w + MaxLag =< MaxCooldown
  BY PacingAssumption DEF PacingTypeOK, PolicyIsValid
<1>2. \A r \in rows : r.at \in Int
  BY DEF PacingTypeOK
<1>3. Retention(c) \in Int /\ Retention(c) >= MaxCooldown
  BY RetentionIsLong
<1> QED BY <1>1, <1>2, <1>3 DEF Held, Since, Kept

\* In every state of the ledger the two implementations agree.
LEMMA PoliciesAgree ==
  ASSUME PacingTypeOK, Finite
  PROVE  PolicyMatchesLedger
<1> SUFFICES ASSUME NEW c \in Callers, asking[c] # NoRequest, asking[c].kind = "historical"
             PROVE  LET wait(t) == WaitSeconds(asking[c], t, rows, Cooldown[c], ContractMax[c],
                                               RollingMax[c])
                    IN  /\ wait(stamp[c]) = 0 <=> ~Duplicated(c, asking[c]) /\ Fits(c, asking[c])
                        /\ \A d \in 1 .. wait(stamp[c]) - 1 : wait(stamp[c] + d) > 0
  BY DEF PolicyMatchesLedger
<1>1. PICK q \in Requests : q = asking[c]
  BY DEF PacingTypeOK
<1>2. /\ stamp[c] \in Nat /\ (\A r \in rows : r.at \in Nat) /\ q.weight \in Nat
      /\ Cooldown[c] \in Nat \ {0} /\ ContractMax[c] \in Nat /\ RollingMax[c] \in Nat
      /\ GlobalMax \in Nat
  BY PacingAssumption, RequestAssumption DEF PacingTypeOK, PolicyIsValid
<1>3. \A w \in {ContractWindow, RollingWindow, GlobalWindow, Cooldown[c]} :
        Held(rows, stamp[c], w) = Since(Kept(c), stamp[c] - w)
  BY HeldIsRecent
<1>4. Duplicated(c, q) <=> Repeated(q, stamp[c], rows, Cooldown[c])
  <2>1. Held(Alike(rows, q), stamp[c], Cooldown[c])
          = {r \in Since(Kept(c), stamp[c] - Cooldown[c]) : Identical(r, q)}
    BY <1>3 DEF Held, Alike
  <2> QED BY <2>1 DEF Duplicated, Repeated
<1>5. Fits(c, q) <=> /\ ~Crowded(q, stamp[c], rows)
                     /\ ~ContractFull(q, stamp[c], rows, ContractMax[c])
                     /\ ~RollingFull(q, stamp[c], rows, RollingMax[c])
  <2>1. PICK A : A = Held(rows, stamp[c], GlobalWindow)
    OBVIOUS
  <2>2. PICK B : B = Held(Same(rows, q), stamp[c], ContractWindow)
    OBVIOUS
  <2>3. PICK C : C = Held(Historical(rows), stamp[c], RollingWindow)
    OBVIOUS
  <2>4. A \in SUBSET rows /\ B \in SUBSET rows /\ C \in SUBSET rows
    BY <2>1, <2>2, <2>3 DEF Held, Same, Historical
  <2>5. Weight(A) \in Nat /\ Weight(B) \in Nat /\ Weight(C) \in Nat
    BY <2>4, RecentIsWeighted
  <2>6. /\ A = Since(Kept(c), stamp[c] - GlobalWindow)
        /\ B = {r \in Since(Kept(c), stamp[c] - ContractWindow) : SameContract(r, q)}
        /\ C = {r \in Since(Kept(c), stamp[c] - RollingWindow) : r.kind = "historical"}
    BY <1>3, <2>1, <2>2, <2>3 DEF Held, Same, Historical
  <2>7. Fits(c, q) <=> /\ Weight(A) + q.weight =< GlobalMax
                       /\ Weight(B) + q.weight =< ContractMax[c]
                       /\ Weight(C) + q.weight =< RollingMax[c]
    BY <1>1, <2>6 DEF Fits
  <2>8. /\ Crowded(q, stamp[c], rows) <=> Weight(A) + q.weight > GlobalMax
        /\ ContractFull(q, stamp[c], rows, ContractMax[c]) <=> Weight(B) + q.weight > ContractMax[c]
        /\ RollingFull(q, stamp[c], rows, RollingMax[c]) <=> Weight(C) + q.weight > RollingMax[c]
    BY <2>1, <2>2, <2>3 DEF Crowded, ContractFull, RollingFull
  <2> QED BY <1>2, <2>5, <2>7, <2>8
<1>6. q.kind = "historical"
  BY <1>1
<1>7. LET wait(u) == WaitSeconds(q, u, rows, Cooldown[c], ContractMax[c], RollingMax[c])
      IN  /\ wait(stamp[c]) = 0 <=> /\ ~Crowded(q, stamp[c], rows)
                                    /\ ~Repeated(q, stamp[c], rows, Cooldown[c])
                                    /\ ~ContractFull(q, stamp[c], rows, ContractMax[c])
                                    /\ ~RollingFull(q, stamp[c], rows, RollingMax[c])
          /\ \A d \in 1 .. wait(stamp[c]) - 1 : wait(stamp[c] + d) > 0
  BY <1>2, <1>6, WaitIsMinimal
<1> QED BY <1>1, <1>4, <1>5, <1>7

\* IbkrPacingPolicy.wait_seconds and the SQL of reserve_ibkr_request decide
\* alike on a historical request, and as long as the wait lasts the request is
\* still refused, for every policy and every ledger that the transactions can
\* produce.
THEOREM PolicyMatches == Spec => []PolicyMatchesLedger
<1>1. Init => LimitInv
  BY InitHasInv, InitHasLimits DEF LimitInv
<1>2. LimitInv /\ [Next]_vars => LimitInv'
  BY StepKeepsLimits
<1>3. LimitInv => PolicyMatchesLedger
  BY PoliciesAgree DEF LimitInv, PacingInv
<1> QED BY <1>1, <1>2, <1>3, PTL DEF Spec
=============================================================================
