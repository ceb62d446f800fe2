---------------------------- MODULE SearchProofs ----------------------------
(***************************************************************************)
(* Every answer of a search is what it promises (HitsAreCurrent), for      *)
(* every query, every store and every commit between two of its reads.     *)
(*                                                                         *)
(* A search folds over its attempts, its chunks, its hits, the relations   *)
(* and the media.  A fold is a function on sets of positions, defined by   *)
(* recursion on the greatest: WellFoundedInduction gives that function     *)
(* (SetRecursion), and from it the steps of each fold.  What a step keeps  *)
(* then holds of the whole (Closed): hits that are current and of which    *)
(* no two are of one section, within limit and cap, and sums of media.     *)
(*                                                                         *)
(* The references in the texts of the hits follow: one that says which     *)
(* section it means leads there (ReferencesFindTheirTarget).               *)
(***************************************************************************)
EXTENDS Search, References, SequenceTheorems, FiniteSetTheorems, WellFoundedInduction, TLAPS

(* Induction on the numbers up to n, for sets: a set of numbers that fails to hold them all *)
(* would lack a least one.                                                                  *)
Below == {ss \in Nat \X Nat : ss[1] < ss[2]}

(* A set of numbers has a least one. *)
LEMMA LeastNatural ==
  ASSUME NEW T \in SUBSET Nat, T # {}
  PROVE  \E n \in T : \A m \in T : n <= m
<1>1. IsWellFoundedOn(Below, Nat)
  BY NatLessThanWellFounded, Zenon DEF OpToRel, Below
<1>2. \E n \in T : \A m \in T : <<m, n>> \notin Below
  BY <1>1, WFMin, Zenon
<1>3. \A n, m \in Nat : <<m, n>> \notin Below => n <= m
  BY DEF Below
<1> QED BY <1>2, <1>3

(* What holds of 0, and of each number after one of which it holds, holds up to n. *)
LEMMA Climb ==
  ASSUME NEW n \in Nat, NEW T, 0 \in T, \A k \in 1 .. n : k - 1 \in T => k \in T
  PROVE  0 .. n \subseteq T
<1> DEFINE Bad == {k \in 0 .. n : k \notin T}
<1>1. SUFFICES ASSUME Bad # {} PROVE FALSE
  OBVIOUS
<1>2. Bad \in SUBSET Nat
  OBVIOUS
<1>3. PICK k \in Bad : \A i \in Bad : k <= i
  <2> HIDE DEF Bad
  <2> QED BY <1>1, <1>2, LeastNatural
<1>4. k \in 1 .. n /\ k - 1 \in 0 .. n
  BY <1>3
<1>5. k - 1 \notin Bad
  <2> HIDE DEF Bad
  <2> QED BY <1>2, <1>3, <1>4
<1> QED BY <1>3, <1>4, <1>5

(* A set of numbers with a bound has a greatest element. *)
LEMMA GreatestNatural ==
  ASSUME NEW T \in SUBSET Nat, T # {}, NEW k \in Nat, \A n \in T : n <= k
  PROVE  \E n \in T : \A m \in T : m <= n
<1> DEFINE U == {j \in 0 .. k : k - j \in T}
<1>1. U \in SUBSET Nat /\ U # {}
  <2>1. PICK n \in T : TRUE  OBVIOUS
  <2>2. k - n \in 0 .. k /\ k - (k - n) = n  BY <2>1
  <2>3. k - n \in U  BY <2>1, <2>2
  <2>4. U \in SUBSET Nat  OBVIOUS
  <2> HIDE DEF U
  <2> QED BY <2>3, <2>4
<1>2. PICK j \in U : \A i \in U : j <= i
  <2> HIDE DEF U
  <2> QED BY <1>1, LeastNatural
<1>3. \A m \in T : k - m \in U
  OBVIOUS
<1>4. k - j \in T /\ \A m \in T : m \in Nat /\ m <= k /\ j <= k - m
  BY <1>2, <1>3
<1> QED BY <1>4

-----------------------------------------------------------------------------
(* Folds over a sequence *)

(* The greatest of the first numbers is the last of them. *)
LEMMA LastOfFirst ==
  ASSUME NEW k \in Nat \ {0}
  PROVE  Max(1 .. k) = k /\ (1 .. k) \ {k} = 1 .. k - 1 /\ 1 .. k # {}
<1>1. k \in 1 .. k /\ \A i \in 1 .. k : k >= i
  OBVIOUS
<1>2. \A m \in 1 .. k : (\A i \in 1 .. k : m >= i) => m = k
  BY <1>1
<1>3. Max(1 .. k) = CHOOSE m \in 1 .. k : \A i \in 1 .. k : m >= i
  BY DEF Max
<1>4. Max(1 .. k) = k
  BY <1>1, <1>2, <1>3
<1> QED BY <1>1, <1>4

(* The greatest of some of the first numbers. *)
LEMMA GreatestOfSome ==
  ASSUME NEW n \in Nat, NEW T \in SUBSET (1 .. n), T # {}
  PROVE  Max(T) \in T /\ \A i \in T : i <= Max(T)
<1>1. \E m \in T : \A i \in T : i <= m
  <2>1. T \in SUBSET Nat /\ \A i \in T : i <= n
    OBVIOUS
  <2> QED BY <2>1, GreatestNatural
<1>2. Max(T) = CHOOSE m \in T : \A i \in T : m >= i
  BY DEF Max
<1>3. \E m \in T : \A i \in T : m >= i
  BY <1>1
<1>4. Max(T) \in T /\ \A i \in T : Max(T) >= i
  BY <1>2, <1>3
<1> QED BY <1>4

(* Defined on sets of numbers, by recursion on their greatest. *)
Recurs(f, base, step, n) ==
    \A T \in SUBSET (1 .. n) : f[T] = IF T = {} THEN base ELSE step[<<f[T \ {Max(T)}], Max(T)>>]

(* A function so defined exists. *)
LEMMA SetRecursion ==
  ASSUME NEW V, NEW base \in V, NEW n \in Nat, NEW step \in [V \X (1 .. n) -> V]
  PROVE  \E f \in [SUBSET (1 .. n) -> V] : Recurs(f, base, step, n)
<1> DEFINE Good(k) == \E f \in [SUBSET (1 .. k) -> V] : \A T \in SUBSET (1 .. k) :
                         f[T] = IF T = {} THEN base ELSE step[<<f[T \ {Max(T)}], Max(T)>>]
           Goods == {k \in 0 .. n : Good(k)}
<1>1. Good(0)
  <2> DEFINE f == [T \in SUBSET (1 .. 0) |-> base]
  <2>1. f \in [SUBSET (1 .. 0) -> V] /\ \A T \in SUBSET (1 .. 0) : T = {} /\ f[T] = base
    OBVIOUS
  <2> HIDE DEF f
  <2> QED BY <2>1
<1>2. ASSUME NEW k \in 1 .. n, Good(k - 1) PROVE Good(k)
  <2>1. PICK f \in [SUBSET (1 .. k - 1) -> V] : \A T \in SUBSET (1 .. k - 1) :
               f[T] = IF T = {} THEN base ELSE step[<<f[T \ {Max(T)}], Max(T)>>]
    BY <1>2
  <2>2. \A T \in SUBSET (1 .. k) : T \ {k} \in SUBSET (1 .. k - 1) /\ (k \notin T => T \in SUBSET (1 .. k - 1))
    OBVIOUS
  <2>3. ASSUME NEW T \in SUBSET (1 .. k), k \in T PROVE Max(T) = k
    <3>0. k \in Nat /\ T # {} /\ \A i \in T : i \in 1 .. k
      BY <2>3
    <3>1. Max(T) \in T /\ \A i \in T : i <= Max(T)
      BY <3>0, GreatestOfSome, Zenon
    <3>2. PICK m : m = Max(T)
      OBVIOUS
    <3>3. m \in 1 .. k /\ k <= m
      BY <2>3, <3>0, <3>1, <3>2
    <3> QED BY <3>2, <3>3
  <2> DEFINE g == [T \in SUBSET (1 .. k) |-> IF k \in T THEN step[<<f[T \ {k}], k>>] ELSE f[T]]
  <2>4. g \in [SUBSET (1 .. k) -> V]
    BY <2>1, <2>2
  <2>5. \A T \in SUBSET (1 .. k) : k \notin T => g[T] = f[T]
    OBVIOUS
  <2>6. \A T \in SUBSET (1 .. k) : k \in T => g[T] = step[<<f[T \ {k}], k>>]
    OBVIOUS
  <2> HIDE DEF g
  <2>7. ASSUME NEW T \in SUBSET (1 .. k)
        PROVE  g[T] = IF T = {} THEN base ELSE step[<<g[T \ {Max(T)}], Max(T)>>]
    <3>1. CASE k \in T
      <4>1. T # {} /\ Max(T) = k /\ T \ {k} \in SUBSET (1 .. k) /\ k \notin T \ {k}
        BY <2>3, <3>1
      <4>2. g[T \ {k}] = f[T \ {k}]
        BY <2>5, <4>1
      <4> QED BY <2>6, <3>1, <4>1, <4>2
    <3>2. CASE k \notin T
      <4>1. T \in SUBSET (1 .. k - 1) /\ g[T] = f[T]
        BY <2>2, <2>5, <3>2
      <4>2. T \ {Max(T)} \in SUBSET (1 .. k) /\ k \notin T \ {Max(T)}
        BY <3>2
      <4>3. g[T \ {Max(T)}] = f[T \ {Max(T)}]
        BY <2>5, <4>2
      <4> QED BY <2>1, <4>1, <4>3
    <3> QED BY <3>1, <3>2
  <2> QED BY <2>4, <2>7
<1> HIDE DEF Good
<1>3. 0 .. n \subseteq Goods
  <2>1. 0 \in Goods
    BY <1>1
  <2>2. \A k \in 1 .. n : k - 1 \in Goods => k \in Goods
    BY <1>2
  <2> HIDE DEF Goods
  <2> QED BY <2>1, <2>2, Climb
<1>4. Good(n)
  BY <1>3
<1> QED BY <1>4 DEF Good, Recurs

(* The first numbers, as the steps of a fold meet them. *)
LEMMA FirstNumbers ==
  ASSUME NEW n \in Nat
  PROVE  /\ {} \in SUBSET (1 .. n) /\ 1 .. 0 = {}
         /\ \A k \in 1 .. n : /\ 1 .. k \in SUBSET (1 .. n) /\ 1 .. k # {} /\ Max(1 .. k) = k
                              /\ (1 .. k) \ {Max(1 .. k)} = 1 .. k - 1 /\ k - 1 \in 0 .. n
         /\ \A T \in SUBSET (1 .. n) : T # {} => /\ Max(T) \in 1 .. n
                                                 /\ T \ {Max(T)} \in SUBSET (1 .. n)
<1>1. ASSUME NEW k \in 1 .. n
      PROVE  1 .. k \in SUBSET (1 .. n) /\ 1 .. k # {} /\ k - 1 \in 0 .. n /\ k \in Nat \ {0}
  OBVIOUS
<1>2. ASSUME NEW k \in 1 .. n
      PROVE  Max(1 .. k) = k /\ (1 .. k) \ {Max(1 .. k)} = 1 .. k - 1
  <2>1. k \in Nat \ {0} BY <1>1
  <2>2. Max(1 .. k) = k /\ (1 .. k) \ {k} = 1 .. k - 1 BY <2>1, LastOfFirst
  <2> QED BY <2>2
<1>3. ASSUME NEW T \in SUBSET (1 .. n), T # {}
      PROVE  Max(T) \in 1 .. n /\ T \ {Max(T)} \in SUBSET (1 .. n)
  <2>1. Max(T) \in T BY <1>3, GreatestOfSome
  <2> QED BY <2>1
<1>4. {} \in SUBSET (1 .. n) /\ 1 .. 0 = {}
  OBVIOUS
<1> QED BY <1>1, <1>2, <1>3, <1>4

(* What each step keeps holds all along. *)
LEMMA Closed ==
  ASSUME NEW n \in Nat, NEW V, NEW out, out[0] \in V, \A k \in 1 .. n : out[k - 1] \in V => out[k] \in V
  PROVE  \A k \in 0 .. n : out[k] \in V
<1> DEFINE G == {k \in 0 .. n : out[k] \in V}
<1>1. 0 \in G /\ \A k \in 1 .. n : k - 1 \in G => k \in G
  OBVIOUS
<1>2. 0 .. n \subseteq G
  <2> HIDE DEF G
  <2> QED BY <1>1, Climb
<1> QED BY <1>2

-----------------------------------------------------------------------------
(* The cut to the limit and the cap *)

(* The hits taken, step by step. *)
CapSteps(seq, limit, cap, out) ==
    /\ out[0] = << >>
    /\ \A k \in 1 .. Len(seq) : out[k] = Take(out[k - 1], seq[k], limit, cap)

(* The cut is the last of its steps. *)
LEMMA CappedSteps ==
  ASSUME NEW H, NEW seq \in Seq(H), NEW limit, NEW cap
  PROVE  \E out \in [0 .. Len(seq) -> Seq(H)] :
           CapSteps(seq, limit, cap, out) /\ Capped(seq, limit, cap) = out[Len(seq)]
<1> DEFINE n == Len(seq)
           V == Seq(H)
           step == [p \in V \X (1 .. n) |-> Take(p[1], seq[p[2]], limit, cap)]
           Eq(f) == f = [T \in SUBSET (1 .. n) |-> IF T = {} THEN << >> ELSE Take(f[T \ {Max(T)}], seq[Max(T)], limit, cap)]
           F == CHOOSE f : Eq(f)
<1>1. n \in Nat /\ DOMAIN seq = 1 .. n
  OBVIOUS
<1>2. Capped(seq, limit, cap) = F[1 .. n]
  <2>1. Capped(seq, limit, cap) = (CHOOSE f : f = [T \in SUBSET DOMAIN seq |-> IF T = {} THEN << >> ELSE Take(f[T \ {Max(T)}], seq[Max(T)], limit, cap)])[DOMAIN seq]
    BY Zenon DEF Capped, FoldLeft, MapThenFoldSet
  <2> QED BY <2>1, <1>1, Zenon
<1>3. << >> \in V /\ \A out \in V, k \in 1 .. n : Take(out, seq[k], limit, cap) \in V
  BY DEF Take
<1>4. step \in [V \X (1 .. n) -> V] /\ \A out \in V, k \in 1 .. n : step[<<out, k>>] = Take(out, seq[k], limit, cap)
  BY <1>3
<1> HIDE DEF step, V, n
<1>5. PICK f \in [SUBSET (1 .. n) -> V] : Recurs(f, << >>, step, n)
  BY <1>1, <1>3, <1>4, SetRecursion
<1>6. Eq(f)
  <2>1. \A T \in SUBSET (1 .. n) : T # {} => f[T \ {Max(T)}] \in V /\ Max(T) \in 1 .. n
    BY <1>1, FirstNumbers
  <2>2. \A T \in SUBSET (1 .. n) : f[T] = IF T = {} THEN << >> ELSE Take(f[T \ {Max(T)}], seq[Max(T)], limit, cap)
    BY <2>1, <1>4, <1>5 DEF Recurs
  <2> QED BY <2>2
<1>7. Eq(F)
  BY <1>6, Zenon
<1> HIDE DEF F
<1>8. F[1 .. 0] = << >> /\ \A k \in 1 .. n : F[1 .. k] = Take(F[1 .. k - 1], seq[k], limit, cap)
  <2>1. \A T \in SUBSET (1 .. n) :
           F[T] = IF T = {} THEN << >> ELSE Take(F[T \ {Max(T)}], seq[Max(T)], limit, cap)
    BY <1>7, Zenon
  <2> HIDE DEF Eq
  <2>2. F[1 .. 0] = << >>
    BY <1>1, <2>1, FirstNumbers, Zenon
  <2>3. ASSUME NEW k \in 1 .. n PROVE F[1 .. k] = Take(F[1 .. k - 1], seq[k], limit, cap)
    <3>1. 1 .. k \in SUBSET (1 .. n) /\ 1 .. k # {} /\ Max(1 .. k) = k /\ (1 .. k) \ {Max(1 .. k)} = 1 .. k - 1
      BY <1>1, FirstNumbers, Zenon
    <3>2. F[1 .. k] = Take(F[(1 .. k) \ {Max(1 .. k)}], seq[Max(1 .. k)], limit, cap)
      BY <2>1, <3>1, Zenon
    <3> QED BY <3>1, <3>2
  <2> QED BY <2>2, <2>3
<1> HIDE DEF Eq
<1> DEFINE out == [k \in 0 .. n |-> F[1 .. k]]
<1>11. /\ out[0] = << >> /\ out[n] = F[1 .. n] /\ out = [k \in 0 .. n |-> out[k]]
       /\ \A k \in 1 .. n : out[k] = Take(out[k - 1], seq[k], limit, cap)
  <2>1. 0 \in 0 .. n /\ n \in 0 .. n /\ \A k \in 1 .. n : k \in 0 .. n /\ k - 1 \in 0 .. n
    BY <1>1
  <2> QED BY <1>8, <2>1, Zenon
<1> HIDE DEF out
<1>9. \A k \in 0 .. n : out[k] \in V
  <2>1. out[0] \in V /\ \A k \in 1 .. n : out[k - 1] \in V => out[k] \in V
    BY <1>3, <1>11, Zenon
  <2> QED BY <1>1, <2>1, Closed
<1>10. out \in [0 .. n -> V]
  BY <1>11, <1>9
<1> QED BY <1>2, <1>11, <1>10 DEF n, V, CapSteps
(* Where the hits taken come from: one after the other from the first k, none over the cap. *)
TakenFrom(seq, k, out, cap) ==
    /\ \E pos \in [1 .. Len(out) -> 1 .. k] :
         /\ \A i \in 1 .. Len(out) : out[i] = seq[pos[i]]
         /\ \A i, j \in 1 .. Len(out) : i < j => pos[i] < pos[j]
    /\ \A d : Cardinality(Of(out, d)) <= cap

(* The places of a document are finitely many. *)
LEMMA OfFinite ==
  ASSUME NEW H, NEW out \in Seq(H), NEW d
  PROVE  IsFiniteSet(Of(out, d)) /\ Cardinality(Of(out, d)) \in Nat
<1>1. IsFiniteSet(1 .. Len(out)) /\ Of(out, d) \in SUBSET (1 .. Len(out))
  BY FS_Interval DEF Of
<1> QED BY <1>1, FS_Subset, FS_CardinalityType

(* A hit more is one more of its document and of no other. *)
LEMMA OfAppended ==
  ASSUME NEW H, NEW out \in Seq(H), NEW h \in H, NEW d
  PROVE  /\ h.doc # d => Of(Append(out, h), d) = Of(out, d)
         /\ h.doc = d => Cardinality(Of(Append(out, h), d)) = Cardinality(Of(out, d)) + 1
<1> DEFINE n == Len(out) + 1
<1>1. /\ Append(out, h) \in Seq(H) /\ DOMAIN Append(out, h) = 1 .. n /\ Append(out, h)[n] = h
      /\ DOMAIN out = 1 .. Len(out) /\ \A i \in 1 .. Len(out) : Append(out, h)[i] = out[i]
  OBVIOUS
<1>2. h.doc # d => Of(Append(out, h), d) = Of(out, d)
  BY <1>1 DEF Of
<1>3. h.doc = d => Of(Append(out, h), d) = Of(out, d) \cup {n}
  BY <1>1 DEF Of
<1>4. n \notin Of(out, d)
  BY DEF Of
<1> QED BY <1>2, <1>3, <1>4, OfFinite, FS_AddElement

(* One step of the cut keeps the limit, the cap and the order. *)
LEMMA TakeOne ==
  ASSUME NEW H, NEW seq \in Seq(H), NEW k \in 1 .. Len(seq), NEW out \in Seq(H),
         NEW limit \in Nat, NEW cap \in Nat, Len(out) <= limit, TakenFrom(seq, k - 1, out, cap)
  PROVE  /\ Len(Take(out, seq[k], limit, cap)) <= limit
         /\ TakenFrom(seq, k, Take(out, seq[k], limit, cap), cap)
<1>1. PICK pos \in [1 .. Len(out) -> 1 .. k - 1] :
         /\ \A i \in 1 .. Len(out) : out[i] = seq[pos[i]]
         /\ \A i, j \in 1 .. Len(out) : i < j => pos[i] < pos[j]
  BY DEF TakenFrom
<1>2. CASE Len(out) < limit /\ Cardinality(Of(out, seq[k].doc)) < cap
  <2> DEFINE new == Append(out, seq[k])
             to == [i \in 1 .. Len(out) + 1 |-> IF i = Len(out) + 1 THEN k ELSE pos[i]]
  <2>1. new \in Seq(H) /\ Len(new) = Len(out) + 1 /\ new[Len(out) + 1] = seq[k]
        /\ \A i \in 1 .. Len(out) : new[i] = out[i]
    OBVIOUS
  <2>2. to \in [1 .. Len(new) -> 1 .. k]
    BY <1>1, <2>1
  <2>3. to[Len(out) + 1] = k /\ \A i \in 1 .. Len(out) : to[i] = pos[i] /\ pos[i] \in 1 .. k - 1
    BY <1>1
  <2>4. Take(out, seq[k], limit, cap) = new
    BY <1>2 DEF Take
  <2>5. \A d : Cardinality(Of(new, d)) <= cap
    <3> SUFFICES ASSUME NEW d PROVE Cardinality(Of(new, d)) <= cap
      OBVIOUS
    <3>1. seq[k] \in H /\ Cardinality(Of(out, d)) \in Nat /\ Cardinality(Of(out, d)) <= cap
      BY OfFinite DEF TakenFrom
    <3>2. /\ seq[k].doc # d => Of(new, d) = Of(out, d)
          /\ seq[k].doc = d => Cardinality(Of(new, d)) = Cardinality(Of(out, d)) + 1
      BY <3>1, OfAppended
    <3> QED BY <1>2, <3>1, <3>2
  <2> HIDE DEF new, to
  <2>6. \A i \in 1 .. Len(new) : new[i] = seq[to[i]]
    BY <1>1, <2>1, <2>3
  <2>7. ASSUME NEW i \in 1 .. Len(new), NEW j \in 1 .. Len(new), i < j PROVE to[i] < to[j]
    <3>1. i \in 1 .. Len(out) /\ to[i] = pos[i] /\ pos[i] \in 1 .. k - 1
      BY <2>1, <2>3, <2>7
    <3>2. CASE j = Len(out) + 1
      BY <2>3, <3>1, <3>2
    <3>3. CASE j # Len(out) + 1
      <4>1. j \in 1 .. Len(out) /\ to[j] = pos[j]
        BY <2>1, <2>3, <3>3
      <4> QED BY <1>1, <2>7, <3>1, <4>1
    <3> QED BY <3>2, <3>3
  <2>8. \A i, j \in 1 .. Len(new) : i < j => to[i] < to[j]
    BY <2>7
  <2>9. TakenFrom(seq, k, new, cap)
    BY <2>2, <2>5, <2>6, <2>8, Zenon DEF TakenFrom
  <2>10. Len(new) <= limit
    BY <1>2, <2>1
  <2> QED BY <2>4, <2>9, <2>10
<1>3. CASE ~(Len(out) < limit /\ Cardinality(Of(out, seq[k].doc)) < cap)
  <2>1. pos \in [1 .. Len(out) -> 1 .. k]
    BY <1>1
  <2> QED BY <1>1, <1>3, <2>1 DEF Take, TakenFrom
<1> QED BY <1>2, <1>3

(* The cut keeps the limit, the cap and the order of the hits, whatever hits it is given. *)
LEMMA CappedHits ==
  ASSUME NEW H, NEW seq \in Seq(H), NEW limit \in Nat, NEW cap \in Nat
  PROVE  /\ Capped(seq, limit, cap) \in Seq(H) /\ Len(Capped(seq, limit, cap)) <= limit
         /\ TakenFrom(seq, Len(seq), Capped(seq, limit, cap), cap)
<1>1. PICK out \in [0 .. Len(seq) -> Seq(H)] :
         CapSteps(seq, limit, cap, out) /\ Capped(seq, limit, cap) = out[Len(seq)]
  BY CappedSteps
<1> USE DEF CapSteps
<1> DEFINE G == {k \in 0 .. Len(seq) : Len(out[k]) <= limit /\ TakenFrom(seq, k, out[k], cap)}
<1>2. 0 \in G
  <2>1. Len(<< >>) = 0 /\ \A d : Of(<< >>, d) = {}
    BY DEF Of
  <2>2. \A d : Cardinality(Of(<< >>, d)) = 0
    BY <2>1, FS_EmptySet
  <2>3. TakenFrom(seq, 0, << >>, cap)
    <3> DEFINE pos == [i \in 1 .. 0 |-> 0]
    <3>1. pos \in [1 .. Len(<< >>) -> 1 .. 0] /\ 1 .. Len(<< >>) = {}
      OBVIOUS
    <3>2. \E p \in [1 .. Len(<< >>) -> 1 .. 0] :
             /\ \A i \in 1 .. Len(<< >>) : << >>[i] = seq[p[i]]
             /\ \A i, j \in 1 .. Len(<< >>) : i < j => p[i] < p[j]
      <4> HIDE DEF pos
      <4> QED BY <3>1, Zenon
    <3>3. \A d : Cardinality(Of(<< >>, d)) <= cap
      BY <2>2
    <3> QED BY <3>2, <3>3, Zenon DEF TakenFrom
  <2> QED BY <1>1, <2>1, <2>3
<1>3. \A k \in 1 .. Len(seq) : k - 1 \in G => k \in G
  <2> SUFFICES ASSUME NEW k \in 1 .. Len(seq), k - 1 \in G PROVE k \in G
    OBVIOUS
  <2>1. out[k - 1] \in Seq(H) /\ Len(out[k - 1]) <= limit /\ TakenFrom(seq, k - 1, out[k - 1], cap)
    BY <1>1
  <2>2. out[k] = Take(out[k - 1], seq[k], limit, cap)
    BY <1>1
  <2> QED BY <2>1, <2>2, TakeOne
<1>4. 0 .. Len(seq) \subseteq G
  <2>1. Len(seq) \in Nat
    OBVIOUS
  <2> HIDE DEF G
  <2> QED BY <1>2, <1>3, <2>1, Climb
<1>5. Len(seq) \in G
  BY <1>4
<1> QED BY <1>1, <1>5

-----------------------------------------------------------------------------
(* Sets in order *)

(* Every element of S once. *)
Lists(q, S) ==
    /\ q \in Seq(S)
    /\ \A i, j \in 1 .. Len(q) : q[i] = q[j] => i = j
    /\ \A x \in S : \E i \in 1 .. Len(q) : q[i] = x

(* A relation that decides between any two elements of S. *)
Decides(R, S) ==
    /\ \A a \in S : << a, a >> \notin R
    /\ \A a, b \in S : a # b => << a, b >> \in R \/ << b, a >> \in R
    /\ \A a, b, c \in S : << a, b >> \in R /\ << b, c >> \in R => << a, c >> \in R

(* An element goes to the place that the elements ahead of it leave: no two to the same one. *)
LEMMA PlacesDiffer ==
  ASSUME NEW S, IsFiniteSet(S), NEW R, Decides(R, S), NEW x \in S
  PROVE  LET place(z) == 1 + Cardinality({y \in S : << y, z >> \in R})
         IN  place(x) \in 1 .. Cardinality(S) /\ \A z \in S : place(z) = place(x) => z = x
<1> DEFINE Ahead(z) == {y \in S : << y, z >> \in R}
<1>1. ASSUME NEW z \in S
      PROVE  /\ IsFiniteSet(Ahead(z)) /\ Cardinality(Ahead(z)) \in Nat
             /\ Cardinality(Ahead(z)) <= Cardinality(S) - 1
  <2>1. Ahead(z) \in SUBSET (S \ {z})
    BY DEF Decides
  <2>2. IsFiniteSet(S \ {z}) /\ Cardinality(S \ {z}) = Cardinality(S) - 1
    BY FS_RemoveElement
  <2> HIDE DEF Ahead
  <2>3. IsFiniteSet(Ahead(z)) /\ Cardinality(Ahead(z)) <= Cardinality(S \ {z})
    BY <2>1, <2>2, FS_Subset
  <2> QED BY <2>2, <2>3, FS_CardinalityType
<1>2. ASSUME NEW a \in S, NEW b \in S, << a, b >> \in R
      PROVE  Cardinality(Ahead(a)) # Cardinality(Ahead(b))
  <2>1. Ahead(a) \in SUBSET Ahead(b) /\ a \in Ahead(b) /\ a \notin Ahead(a)
    BY <1>2 DEF Decides
  <2> HIDE DEF Ahead
  <2> QED BY <1>1, <2>1, FS_Subset
<1>3. Cardinality(S) \in Nat
  BY FS_CardinalityType
<1>4. 1 + Cardinality(Ahead(x)) \in 1 .. Cardinality(S)
  <2> HIDE DEF Ahead
  <2> QED BY <1>1, <1>3
<1>5. ASSUME NEW z \in S, 1 + Cardinality(Ahead(z)) = 1 + Cardinality(Ahead(x)) PROVE z = x
  <2>1. z # x => << z, x >> \in R \/ << x, z >> \in R
    BY DEF Decides
  <2> HIDE DEF Ahead
  <2>2. Cardinality(Ahead(z)) = Cardinality(Ahead(x))
    BY <1>1, <1>5
  <2> QED BY <1>2, <2>1, <2>2
<1> QED BY <1>4, <1>5

ByPlace(S, R) ==
    [k \in 1 .. Cardinality(S) |-> CHOOSE x \in S : 1 + Cardinality({y \in S : << y, x >> \in R}) = k]

(* Laid out by places, every element of a set is there once. *)
LEMMA Placed ==
  ASSUME NEW S, IsFiniteSet(S), NEW R, Decides(R, S)
  PROVE  Lists(ByPlace(S, R), S)
<1> DEFINE n == Cardinality(S)
           place == [x \in S |-> 1 + Cardinality({y \in S : << y, x >> \in R})]
<1>1. n \in Nat /\ IsFiniteSet(1 .. n) /\ Cardinality(1 .. n) = n
  BY FS_CardinalityType, FS_Interval
<1>2. place \in [S -> 1 .. n] /\ \A x, z \in S : place[x] = place[z] => x = z
  BY PlacesDiffer
<1> DEFINE q == ByPlace(S, R)
<1>3. /\ q = [k \in 1 .. n |-> q[k]]
      /\ \A k \in 1 .. n : q[k] = CHOOSE x \in S : 1 + Cardinality({y \in S : << y, x >> \in R}) = k
  <2> DEFINE at(k) == CHOOSE x \in S : 1 + Cardinality({y \in S : << y, x >> \in R}) = k
  <2>1. q = [k \in 1 .. n |-> at(k)]
    BY Zenon DEF ByPlace
  <2> HIDE DEF at, q, n
  <2>2. q = [k \in 1 .. n |-> q[k]] /\ \A k \in 1 .. n : q[k] = at(k)
    BY <2>1
  <2> QED BY <2>2 DEF at
<1>10. \A x \in S : place[x] = 1 + Cardinality({y \in S : << y, x >> \in R})
  OBVIOUS
<1> HIDE DEF n, place, q
<1>4. place \in Injection(S, 1 .. n)
  BY <1>2 DEF Injection, IsInjective
<1>5. place \in Surjection(S, 1 .. n)
  BY <1>1, <1>4, FS_Injection DEF n
<1>6. \A k \in 1 .. n : \E x \in S : place[x] = k
  BY <1>5 DEF Surjection
<1>7. ASSUME NEW k \in 1 .. n PROVE q[k] \in S /\ place[q[k]] = k
  <2> DEFINE P(x) == 1 + Cardinality({y \in S : << y, x >> \in R}) = k
  <2>1. \E x \in S : P(x)
    BY <1>6, <1>10
  <2>2. q[k] = CHOOSE x \in S : P(x)
    BY <1>3
  <2>3. q[k] \in S /\ P(q[k])
    <3> HIDE DEF P
    <3> QED BY <2>1, <2>2
  <2> QED BY <1>10, <2>3
<1>8. q \in [1 .. n -> S]
  BY <1>3, <1>7, Zenon
<1>9. q \in Seq(S) /\ Len(q) = n
  BY <1>1, <1>8
<1>11. \A x \in S : place[x] \in 1 .. n /\ q[place[x]] = x
  BY <1>2, <1>7
<1>12. \A i, j \in 1 .. n : q[i] = q[j] => i = j
  BY <1>7, Zenon
<1>13. \A x \in S : \E i \in 1 .. n : q[i] = x
  BY <1>11, Zenon
<1> QED BY <1>9, <1>12, <1>13 DEF Lists, q

(* The first n of a sequence. *)
LEMMA FirstsOf ==
  ASSUME NEW S, NEW q \in Seq(S), NEW n \in Nat
  PROVE  /\ Firsts(q, n) \in Seq(S) /\ Len(Firsts(q, n)) <= n /\ Len(Firsts(q, n)) <= Len(q)
         /\ \A i \in 1 .. Len(Firsts(q, n)) : Firsts(q, n)[i] = q[i]
<1>1. Min({n, Len(q)}) = IF n <= Len(q) THEN n ELSE Len(q)
  BY DEF Min
<1> DEFINE m == Min({n, Len(q)})
<1>2. m \in Nat /\ m <= n /\ m <= Len(q)
  BY <1>1
<1> HIDE DEF m
<1>3. /\ SubSeq(q, 1, m) \in Seq(S) /\ Len(SubSeq(q, 1, m)) = m
      /\ \A i \in 1 .. m : SubSeq(q, 1, m)[i] = q[i]
  BY <1>2
<1> QED BY <1>2, <1>3 DEF Firsts, m

-----------------------------------------------------------------------------
(* What is known of a call *)

Sections(call) == call.before.sections \cup call.after.sections
Stale(call) == call.before.stale \cap call.after.stale

IsQuery(query) ==
    /\ query.limit \in Nat \ {0} /\ query.cap \in Nat \ {0}
    /\ query.candidates \in Nat /\ query.maxSearches \in Nat
    /\ query.route \in {"entity", "conceptual", "general"}
    /\ query.media.perResult \in Nat /\ query.media.total \in Nat

IsCall(call) ==
    /\ IsQuery(call.query) /\ call.edit.stage \in Nat
    /\ IsStore(call.before) /\ IsStore(call.after)
    /\ \A s, t \in Sections(call) : s.id = t.id => s.doc = t.doc
    /\ \A s \in Sections(call) :
         << "row", s.id >> \in call.edit.early => << "listed", s.id >> \in call.edit.early

(* Every call the server can make is one that the proofs speak of. *)
LEMMA CallTyped ==
  ASSUME NEW query \in Queries, NEW commit \in Commits
  PROVE  IsCall(Call(query, commit))
<1> DEFINE call == Call(query, commit)
<1>1. call.query = query /\ call.before = commit.before /\ call.after = commit.after /\ call.edit = commit.edit
  BY DEF Call
<1>2. IsQuery(query)
  BY QueriesAssumption DEF IsQuery
<1>3. /\ commit.edit.stage \in Nat /\ IsStore(commit.before) /\ IsStore(commit.after)
      /\ \A s \in commit.before.sections, t \in commit.after.sections : s.id = t.id => s.doc = t.doc
      /\ \A s \in commit.before.sections \cup commit.after.sections :
           << "row", s.id >> \in commit.edit.early => << "listed", s.id >> \in commit.edit.early
  BY CommitsAssumption
<1>4. \A s, t \in commit.before.sections : s.id = t.id => s = t
  BY <1>3 DEF IsStore
<1>5. \A s, t \in commit.after.sections : s.id = t.id => s = t
  BY <1>3 DEF IsStore
<1> HIDE DEF call
<1> QED BY <1>1, <1>2, <1>3, <1>4, <1>5 DEF IsCall, Sections, call

(* Every statement sees one of the two stores, whose sections are sections of the call. *)
LEMMA ReadsAStore ==
  ASSUME NEW call, IsCall(call), NEW read
  PROVE  /\ Sees(call, read) \in {call.before, call.after} /\ IsStore(Sees(call, read))
         /\ Sees(call, read).sections \subseteq Sections(call) /\ Stale(call) \subseteq Sees(call, read).stale
  BY DEF Sees, IsCall, Sections, Stale

LEMMA OneReadsAStore ==
  ASSUME NEW call, IsCall(call), NEW read, NEW one
  PROVE  LET store == SeesOne(call, read, one) IN
         /\ store \in {call.before, call.after} /\ IsStore(store)
         /\ store.sections \subseteq Sections(call) /\ Stale(call) \subseteq store.stale
<1>1. SeesOne(call, read, one) \in {call.before, call.after}
  BY ReadsAStore DEF SeesOne
<1> QED BY <1>1 DEF IsCall, Sections, Stale

(* What the type of a store says, fact by fact. *)
LEMMA StoreFacts ==
  ASSUME NEW store, IsStore(store)
  PROVE  /\ IsFiniteSet(store.sections)
         /\ \A s, t \in store.sections : s.id = t.id => s = t
         /\ \A s \in store.sections : /\ s.id \in Nat /\ s.doc \in Nat /\ s.boost \in Nat /\ s.media \in Nat
                                      /\ \A kind \in Kinds : s.lane[kind] \in Nat
  BY DEF IsStore, Section

(* The same of the sections of both stores, but that a section may be in both. *)
LEMMA SectionFacts ==
  ASSUME NEW call, IsCall(call)
  PROVE  /\ IsFiniteSet(Sections(call))
         /\ \A s \in Sections(call) : /\ s.id \in Nat /\ s.doc \in Nat /\ s.boost \in Nat
                                       /\ \A kind \in Kinds : s.lane[kind] \in Nat
<1>1. IsStore(call.before) /\ IsStore(call.after)
  BY DEF IsCall
<1>2. IsFiniteSet(call.before.sections) /\ IsFiniteSet(call.after.sections)
  BY <1>1, StoreFacts
<1> QED BY <1>1, <1>2, StoreFacts, FS_Union DEF Sections

-----------------------------------------------------------------------------
(* The text lane *)

(* An index answers with sections it holds that are not of stale documents. *)
LEMMA IndexHitsFound ==
  ASSUME NEW store, IsStore(store), NEW kind \in Kinds, NEW limit \in Nat
  PROVE  IndexHits(store, kind, limit) \in Seq(Found(store, kind))
<1> DEFINE F == Found(store, kind)
           Ahead(a, b) ==
             IF Canonical(store, a) # Canonical(store, b) THEN Canonical(store, a)
             ELSE IF a.lane[kind] # b.lane[kind] THEN a.lane[kind] > b.lane[kind]
             ELSE a.id < b.id
           R == {p \in F \X F : Ahead(p[1], p[2])}
<1>1. IsFiniteSet(F) /\ \A s \in F : s \in store.sections
  BY StoreFacts, FS_Subset DEF Found
<1>2. \A s \in F : s.id \in Nat /\ s.lane[kind] \in Nat
  BY <1>1, StoreFacts
<1>3. \A s, t \in F : s.id = t.id => s = t
  BY <1>1, StoreFacts
<1>4. \A a, b \in F : << a, b >> \in R <=> Ahead(a, b)
  OBVIOUS
<1> HIDE DEF F, R
<1>5. Decides(R, F)
  BY <1>2, <1>3, <1>4 DEF Decides, Canonical
<1> DEFINE q == InOrder(F, Ahead)
<1>6. q = ByPlace(F, R)
  BY Zenon DEF InOrder, ByPlace, R
<1> HIDE DEF q
<1>7. q \in Seq(F)
  BY <1>1, <1>5, <1>6, Placed DEF Lists
<1>8. IndexHits(store, kind, limit) = Firsts(q, limit)
  BY Zenon DEF IndexHits, F, q
<1> HIDE DEF Ahead
<1> QED BY <1>7, <1>8, FirstsOf DEF F

Modes == {"exact", "normalized"}
Scores == [unicode : Nat, trigram : Nat, text : Nat, exact : Nat, canonical : Nat, fallback : Nat]
TextHit == [id : Nat, doc : Nat, canonical : BOOLEAN, score : Scores, kinds : SUBSET (Kinds \cup Modes)]

(* What a hit of a lane is: a section of the call whose document is not stale all along. *)
IsCurrent(call, h) ==
    /\ \E s \in Sections(call) : s.id = h.id /\ s.doc = h.doc
    /\ h.doc \notin Stale(call)

OncePerSection(H) == \A a, b \in H : a.id = b.id => a = b

HitSets(call) ==
    {H \in SUBSET TextHit : IsFiniteSet(H) /\ OncePerSection(H) /\ \A h \in H : IsCurrent(call, h)}

Images(f, T) == {f[x] : x \in T}

(* A finite set has finitely many images. *)
LEMMA ImageFinite ==
  ASSUME NEW T, IsFiniteSet(T), NEW f, f = [x \in T |-> f[x]]
  PROVE  IsFiniteSet(Images(f, T))
<1>1. f \in Surjection(T, Images(f, T))
  BY DEF Surjection, Images
<1> QED BY <1>1, FS_Surjection

(* Hits made of sections of the call, one of each. *)
LEMMA HitsMade ==
  ASSUME NEW call, IsCall(call), NEW T \in SUBSET Sections(call),
         \A s, t \in T : s.id = t.id => s = t, \A s \in T : s.doc \notin Stale(call),
         NEW f \in [T -> TextHit], \A s \in T : f[s].id = s.id /\ f[s].doc = s.doc
  PROVE  {f[s] : s \in T} \in HitSets(call)
<1> DEFINE H == {f[s] : s \in T}
<1>1. IsFiniteSet(T)
  BY SectionFacts, FS_Subset
<1>2. IsFiniteSet(H)
  <2>1. f = [s \in T |-> f[s]]
    OBVIOUS
  <2>2. IsFiniteSet(Images(f, T))
    BY <1>1, <2>1, ImageFinite
  <2> QED BY <2>2 DEF Images
<1>3. H \in SUBSET TextHit
  OBVIOUS
<1>4. OncePerSection(H)
  BY DEF OncePerSection
<1>5. \A h \in H : IsCurrent(call, h)
  BY DEF IsCurrent
<1> QED BY <1>2, <1>3, <1>4, <1>5 DEF HitSets

(* A hit of a section carries its id and its document. *)
LEMMA HitTyped ==
  ASSUME NEW store, NEW s, s.id \in Nat, s.doc \in Nat, NEW kind \in Kinds \cup Modes, NEW b \in Scores
  PROVE  /\ Hit(store, s, kind, b) \in TextHit
         /\ Hit(store, s, kind, b).id = s.id /\ Hit(store, s, kind, b).doc = s.doc
  BY DEF Hit, TextHit, Canonical

(* A weighted score is a score. *)
LEMMA ScoreTyped ==
  ASSUME NEW store, NEW kind \in Kinds, NEW s, s.boost \in Nat, s.lane[kind] \in Nat
  PROVE  WeightedScoreBreakdown(store, s, kind) \in Scores
<1>1. (CASE s.entity = "exact" -> 260 [] s.entity = "normalized" -> 160 [] OTHER -> 0) \in Nat
  OBVIOUS
<1> QED BY <1>1 DEF WeightedScoreBreakdown, Scores

(* Sections, one of each, none of a document that was stale all along, make hits of the call. *)
LEMMA WeightedHits ==
  ASSUME NEW call, IsCall(call), NEW kind \in Kinds, NEW store, NEW T \in SUBSET Sections(call),
         \A s, t \in T : s.id = t.id => s = t, \A s \in T : s.doc \notin Stale(call)
  PROVE  {Hit(store, s, kind, WeightedScoreBreakdown(store, s, kind)) : s \in T} \in HitSets(call)
<1> DEFINE f == [s \in T |-> Hit(store, s, kind, WeightedScoreBreakdown(store, s, kind))]
<1>1. \A s \in T : /\ Hit(store, s, kind, WeightedScoreBreakdown(store, s, kind)) \in TextHit
                   /\ Hit(store, s, kind, WeightedScoreBreakdown(store, s, kind)).id = s.id
                   /\ Hit(store, s, kind, WeightedScoreBreakdown(store, s, kind)).doc = s.doc
  BY SectionFacts, ScoreTyped, HitTyped
<1>2. /\ f \in [T -> TextHit] /\ \A s \in T : f[s].id = s.id /\ f[s].doc = s.doc
      /\ \A s \in T : f[s] = Hit(store, s, kind, WeightedScoreBreakdown(store, s, kind))
  BY <1>1
<1> HIDE DEF f
<1>3. {f[s] : s \in T} \in HitSets(call)
  BY <1>2, HitsMade
<1> DEFINE made(s) == Hit(store, s, kind, WeightedScoreBreakdown(store, s, kind))
<1>4. {f[s] : s \in T} = {made(s) : s \in T}
  <2>1. \A s \in T : f[s] = made(s)
    BY <1>2
  <2> HIDE DEF made
  <2> QED BY <2>1
<1> QED BY <1>3, <1>4, Zenon

(* What an index finds is not of a document that was stale all along, and each section once. *)
LEMMA FoundCurrent ==
  ASSUME NEW call, IsCall(call), NEW read, NEW kind \in Kinds, NEW limit \in Nat
  PROVE  LET found == IndexHits(Sees(call, read), kind, limit) IN
         /\ found \in Seq(Sees(call, read).sections)
         /\ ToSet(found) \in SUBSET Sees(call, read).sections /\ ToSet(found) \in SUBSET Sections(call)
         /\ \A s, t \in ToSet(found) : s.id = t.id => s = t
         /\ \A s \in ToSet(found) : s.doc \notin Stale(call)
<1>1. /\ IsStore(Sees(call, read)) /\ Stale(call) \subseteq Sees(call, read).stale
      /\ Sees(call, read).sections \subseteq Sections(call)
  BY ReadsAStore
<1>2. IndexHits(Sees(call, read), kind, limit) \in Seq(Found(Sees(call, read), kind))
  BY <1>1, IndexHitsFound
<1>3. ToSet(IndexHits(Sees(call, read), kind, limit)) \subseteq Found(Sees(call, read), kind)
  BY <1>2 DEF ToSet
<1>4. Found(Sees(call, read), kind) \subseteq Sees(call, read).sections
  BY DEF Found
<1>5. IndexHits(Sees(call, read), kind, limit) \in Seq(Sees(call, read).sections)
  BY <1>2, <1>4
<1>6. \A s, t \in Sees(call, read).sections : s.id = t.id => s = t
  BY <1>1, StoreFacts
<1> QED BY <1>1, <1>3, <1>4, <1>5, <1>6 DEF Found

(* The hits of a text index are current, each section once. *)
LEMMA TextHitsCurrent ==
  ASSUME NEW call, IsCall(call), NEW read, NEW kind \in Kinds, NEW limit \in Nat
  PROVE  TextHits(Sees(call, read), kind, limit) \in HitSets(call)
  BY FoundCurrent, WeightedHits DEF TextHits

(* What is looked up is among the candidates. *)
LEMMA LookedUpFound ==
  ASSUME NEW call, IsCall(call), NEW kind \in Kinds
  PROVE  /\ LookedUp(call, kind) \in SUBSET ToSet(LiteralCandidates(call, kind))
         /\ 2 * Wanted(call, kind) \in Nat
<1>1. 2 * Wanted(call, kind) \in Nat
  BY DEF Wanted, IsCall, IsQuery
<1>2. LiteralCandidates(call, kind) \in Seq(Sees(call, << kind, "candidates" >>).sections)
  BY <1>1, FoundCurrent DEF LiteralCandidates
<1> DEFINE c == LiteralCandidates(call, kind)
           wanted == {n \in DOMAIN c : Cardinality({j \in {k \in DOMAIN c : ContainsLiteral(call, kind, c[k].id)} : j < n})
                                          < Wanted(call, kind)}
<1>3. LookedUp(call, kind) = {c[k] : k \in wanted}
  BY Zenon DEF LookedUp
<1>4. wanted \in SUBSET DOMAIN c
  OBVIOUS
<1> HIDE DEF c, wanted
<1>5. \A k \in DOMAIN c : c[k] \in ToSet(c)
  BY DEF ToSet
<1> QED BY <1>1, <1>3, <1>4, <1>5 DEF c

(* The hits of a literal are current: their rows come from other statements than the candidates. *)
LEMMA LiteralHitsCurrent ==
  ASSUME NEW call, IsCall(call), NEW kind \in Kinds
  PROVE  LiteralHits(call, kind) \in HitSets(call)
<1> DEFINE store == Sees(call, << kind, "candidates" >>)
           T == {c \in LookedUp(call, kind) : ContainsLiteral(call, kind, c.id)}
<1>1. T \in SUBSET ToSet(IndexHits(store, kind, 2 * Wanted(call, kind))) /\ 2 * Wanted(call, kind) \in Nat
  BY LookedUpFound DEF LiteralCandidates
<1>2. LiteralHits(call, kind) = {Hit(store, s, kind, WeightedScoreBreakdown(store, s, kind)) : s \in T}
  BY Zenon DEF LiteralHits
<1> HIDE DEF T
<1>3. /\ T \in SUBSET Sections(call) /\ \A s, t \in T : s.id = t.id => s = t
      /\ \A s \in T : s.doc \notin Stale(call)
  BY <1>1, FoundCurrent
<1> HIDE DEF store
<1> QED BY <1>2, <1>3, WeightedHits

(* Some of such hits are such hits. *)
LEMMA HitSubsets ==
  ASSUME NEW call, NEW H \in HitSets(call), NEW G \in SUBSET H
  PROVE  G \in HitSets(call)
<1>1. IsFiniteSet(G)
  BY FS_Subset DEF HitSets
<1> QED BY <1>1 DEF HitSets, OncePerSection

(* Hits of different sections are hits together. *)
LEMMA HitUnions ==
  ASSUME NEW call, NEW H \in HitSets(call), NEW G \in HitSets(call), \A h \in H, g \in G : h.id # g.id
  PROVE  H \cup G \in HitSets(call)
<1>1. IsFiniteSet(H \cup G)
  BY FS_Union DEF HitSets
<1> QED BY <1>1 DEF HitSets, OncePerSection

(* The hits of the profiles are current, those of the second index other sections than the first's. *)
LEMMA ProfileHitsCurrent ==
  ASSUME NEW call, IsCall(call)
  PROVE  ProfileHits(call) \in HitSets(call)
<1> DEFINE wanted == Wanted(call, "profile_fallback")
           first == TextHits(Sees(call, << "profile_fallback", "index" >>), "profile_fallback", wanted)
           store == Sees(call, << "profile_trigram", "index" >>)
           second == IndexHits(store, "profile_trigram", wanted)
           new == {k \in DOMAIN second : \A h \in first : h.id # second[k].id}
           free == {k \in new : Cardinality(first) + Cardinality({j \in new : j < k}) < wanted}
           made(s) == Hit(store, s, "profile_fallback", WeightedScoreBreakdown(store, s, "profile_fallback"))
           T == {second[k] : k \in free}
<1>1. wanted \in Nat /\ "profile_fallback" \in Kinds /\ "profile_trigram" \in Kinds
  BY DEF Wanted, IsCall, IsQuery, Kinds
<1>2. first \in HitSets(call)
  BY <1>1, TextHitsCurrent
<1>3. ProfileHits(call) = first \cup {made(second[k]) : k \in free}
  BY Zenon DEF ProfileHits
<1>4. \A k \in free : k \in DOMAIN second /\ \A h \in first : h.id # second[k].id
  OBVIOUS
<1>5. {made(second[k]) : k \in free} = {made(s) : s \in T}
  <2> HIDE DEF made, free, second
  <2> QED OBVIOUS
<1>6. /\ ToSet(second) \in SUBSET Sections(call) /\ \A s, t \in ToSet(second) : s.id = t.id => s = t
      /\ \A s \in ToSet(second) : s.doc \notin Stale(call)
  BY <1>1, FoundCurrent
<1> HIDE DEF second, free, store, first, wanted
<1>7. T \in SUBSET ToSet(second) /\ \A s \in T : \A h \in first : h.id # s.id
  BY <1>4 DEF ToSet
<1> HIDE DEF T
<1>8. {made(s) : s \in T} \in HitSets(call)
  BY <1>1, <1>6, <1>7, WeightedHits
<1>9. \A s \in T : made(s).id = s.id
  BY DEF Hit
<1>10. \A h \in first, g \in {made(s) : s \in T} : h.id # g.id
  <2> HIDE DEF made
  <2> QED BY <1>7, <1>9
<1> HIDE DEF made
<1> QED BY <1>2, <1>3, <1>5, <1>8, <1>10, HitUnions

(* The hits of entities are current: stored ones have a row, the others come from an index. *)
LEMMA EntityHitsCurrent ==
  ASSUME NEW call, IsCall(call), NEW mode \in Modes
  PROVE  EntityHits(call, mode) \in HitSets(call)
<1> DEFINE listed == StoredEntityMatches(call, mode)
           found == Sees(call, << mode, "index" >>)
           T == UNION {EntityRow(call, mode, id) : id \in listed}
           f == [s \in T |-> EntityHit(call, mode, s)]
<1>1. CASE listed # {}
  <2>1. ASSUME NEW s \in T
        PROVE  s \in SeesOne(call, << mode, "entities" >>, << "row", s.id >>).sections
               /\ s.doc \notin SeesOne(call, << mode, "entities" >>, << "row", s.id >>).stale
    <3>1. PICK id \in listed : s \in EntityRow(call, mode, id)
      OBVIOUS
    <3>2. s.id = id
      BY <3>1 DEF EntityRow
    <3> QED BY <3>1, <3>2 DEF EntityRow
  <2> HIDE DEF T
  <2>2. \A s \in T : s \in Sections(call) /\ s.doc \notin Stale(call)
    BY <2>1, OneReadsAStore
  <2>3. \A s, t \in T : s.id = t.id => s = t
    <3> SUFFICES ASSUME NEW s \in T, NEW t \in T, s.id = t.id PROVE s = t
      OBVIOUS
    <3> DEFINE store == SeesOne(call, << mode, "entities" >>, << "row", s.id >>)
    <3>1. s \in store.sections /\ t \in store.sections
      BY <2>1
    <3>2. IsStore(store)
      BY OneReadsAStore
    <3> HIDE DEF store
    <3> QED BY <3>1, <3>2, StoreFacts
  <2>4. ASSUME NEW s \in T
        PROVE  EntityHit(call, mode, s) \in TextHit /\ EntityHit(call, mode, s).id = s.id
               /\ EntityHit(call, mode, s).doc = s.doc
    <3> DEFINE store == SeesOne(call, << mode, "entities" >>, << "row", s.id >>)
               exact == IF mode = "exact" THEN 260 ELSE 180
               canonical == IF Canonical(store, s) THEN 30 ELSE 0
               score == [unicode |-> 0, trigram |-> 0, text |-> 0, fallback |-> 0,
                         exact |-> exact, canonical |-> canonical]
    <3>1. EntityHit(call, mode, s) = Hit(store, s, mode, score)
      BY Zenon DEF EntityHit
    <3>2. exact \in Nat /\ canonical \in Nat
      OBVIOUS
    <3> HIDE DEF store, exact, canonical
    <3>3. score \in Scores
      BY <3>2 DEF Scores
    <3>4. s.id \in Nat /\ s.doc \in Nat
      BY <2>2, SectionFacts
    <3> HIDE DEF score
    <3> QED BY <3>1, <3>3, <3>4, HitTyped
  <2>5. f \in [T -> TextHit] /\ \A s \in T : f[s].id = s.id /\ f[s].doc = s.doc
    BY <2>4
  <2>6. T \in SUBSET Sections(call)
    BY <2>2
  <2>7. {f[s] : s \in T} \in HitSets(call)
    <3> HIDE DEF f
    <3> QED BY <2>2, <2>3, <2>5, <2>6, HitsMade
  <2>8. {f[s] : s \in T} = {EntityHit(call, mode, s) : s \in T}
    OBVIOUS
  <2> HIDE DEF listed, f
  <2>9. EntityHits(call, mode) = {EntityHit(call, mode, s) : s \in T}
    BY <1>1, Zenon DEF EntityHits, T, listed
  <2> QED BY <2>7, <2>8, <2>9
<1>2. CASE listed = {}
  <2> DEFINE whole == TextHits(found, "unicode61", 3 * call.query.limit)
  <2>1. whole \in HitSets(call)
    BY TextHitsCurrent DEF IsCall, IsQuery, Kinds
  <2>2. EntityHits(call, mode) \in SUBSET whole
    BY <1>2 DEF EntityHits
  <2> HIDE DEF whole
  <2> QED BY <2>1, <2>2, HitSubsets
<1> QED BY <1>1, <1>2

(* Whatever attempt is made, its hits are current, each section once. *)
LEMMA AttemptHitsCurrent ==
  ASSUME NEW call, IsCall(call), NEW kind \in Kinds \cup Modes
  PROVE  AttemptHits(call, kind) \in HitSets(call)
<1>1. Wanted(call, kind) \in Nat
  BY DEF Wanted, IsCall, IsQuery
<1>2. CASE kind \in Modes
  BY <1>2, EntityHitsCurrent DEF AttemptHits, Modes
<1>3. CASE kind \notin Modes
  <2>1. kind \in Kinds
    BY <1>3
  <2> QED BY <1>1, <1>3, <2>1, LiteralHitsCurrent, TextHitsCurrent, ProfileHitsCurrent DEF AttemptHits, Modes
<1> QED BY <1>2, <1>3

(* Merged scores are a score. *)
LEMMA MergedScore ==
  ASSUME NEW a \in Scores, NEW b \in Scores
  PROVE  MergeScoreBreakdowns(a, b) \in Scores
<1> DEFINE most(x, y) == IF x > y THEN x ELSE y
<1>1. \A x, y \in Nat : x + y \in Nat /\ most(x, y) \in Nat
  OBVIOUS
<1>2. /\ a.unicode \in Nat /\ a.trigram \in Nat /\ a.text \in Nat /\ a.exact \in Nat
      /\ a.canonical \in Nat /\ a.fallback \in Nat
      /\ b.unicode \in Nat /\ b.trigram \in Nat /\ b.text \in Nat /\ b.exact \in Nat
      /\ b.canonical \in Nat /\ b.fallback \in Nat
  BY DEF Scores
<1> QED BY <1>1, <1>2 DEF MergeScoreBreakdowns, Scores

(* The collector merges what is said of a section: each is there once still. *)
LEMMA Collected ==
  ASSUME NEW call, NEW hits \in HitSets(call), NEW new \in HitSets(call)
  PROVE  CollectorAdd(hits, new) \in HitSets(call)
<1> DEFINE old(n) == {h \in hits : h.id = n.id}
           merged(n) == LET h == CHOOSE x \in old(n) : TRUE IN
                        [h EXCEPT !.score = MergeScoreBreakdowns(@, n.score), !.kinds = @ \cup n.kinds]
           added(n) == IF old(n) = {} THEN n ELSE merged(n)
           kept == {h \in hits : \A n \in new : n.id # h.id}
           f == [n \in new |-> added(n)]
<1>1. CollectorAdd(hits, new) = kept \cup {added(n) : n \in new}
  BY Zenon DEF CollectorAdd
<1>2. ASSUME NEW n \in new
      PROVE  added(n) \in TextHit /\ added(n).id = n.id /\ IsCurrent(call, added(n))
  <2>1. n \in TextHit /\ IsCurrent(call, n)
    BY DEF HitSets
  <2>2. CASE old(n) = {}
    BY <2>1, <2>2
  <2>3. CASE old(n) # {}
    <3> DEFINE h == CHOOSE x \in old(n) : TRUE
    <3>1. h \in old(n)
      BY <2>3
    <3>2. h \in TextHit /\ h.id = n.id /\ IsCurrent(call, h)
      BY <3>1 DEF HitSets
    <3> HIDE DEF h
    <3> DEFINE s == MergeScoreBreakdowns(h.score, n.score)
               m == [h EXCEPT !.score = MergeScoreBreakdowns(@, n.score), !.kinds = @ \cup n.kinds]
    <3>3. s \in Scores
      BY <2>1, <3>2, MergedScore DEF TextHit
    <3>4. h.kinds \cup n.kinds \in SUBSET (Kinds \cup Modes)
      BY <2>1, <3>2 DEF TextHit
    <3>5. m = [h EXCEPT !.score = s, !.kinds = h.kinds \cup n.kinds]
      BY <3>2 DEF TextHit
    <3> HIDE DEF s, m
    <3>6. m \in TextHit /\ m.id = h.id /\ m.doc = h.doc
      BY <3>2, <3>3, <3>4, <3>5 DEF TextHit
    <3>7. added(n) = m
      BY <2>3, Zenon DEF h, m
    <3> HIDE DEF old, added
    <3> QED BY <3>2, <3>6, <3>7 DEF IsCurrent
  <2> QED BY <2>2, <2>3
<1> HIDE DEF added
<1>3. f = [n \in new |-> f[n]] /\ \A n \in new : f[n] = added(n)
  OBVIOUS
<1>4. IsFiniteSet(Images(f, new)) /\ Images(f, new) = {added(n) : n \in new}
  <2>1. IsFiniteSet(new)
    BY DEF HitSets
  <2>2. Images(f, new) = {added(n) : n \in new}
    BY <1>3 DEF Images
  <2> HIDE DEF f
  <2> QED BY <1>3, <2>1, <2>2, ImageFinite
<1>5. kept \in SUBSET TextHit /\ IsFiniteSet(kept) /\ OncePerSection(kept) /\ \A h \in kept : IsCurrent(call, h)
  BY FS_Subset DEF HitSets, OncePerSection
<1>6. IsFiniteSet(kept \cup {added(n) : n \in new})
  BY <1>4, <1>5, FS_Union
<1>7. OncePerSection(kept \cup {added(n) : n \in new})
  <2>1. OncePerSection(new)
    BY DEF HitSets
  <2> QED BY <1>2, <1>5, <2>1 DEF OncePerSection
<1>8. \A h \in kept \cup {added(n) : n \in new} : h \in TextHit /\ IsCurrent(call, h)
  BY <1>2, <1>5
<1> QED BY <1>1, <1>6, <1>7, <1>8 DEF HitSets

(* The attempts are of the kinds there are. *)
LEMMA AttemptsTyped ==
  ASSUME NEW call
  PROVE  Attempts(call) \in Seq(Kinds \cup Modes)
<1> DEFINE K == Kinds \cup Modes
<1>1. /\ << "exact", "normalized" >> \in Seq(K) /\ << "unicode61", "trigram" >> \in Seq(K)
      /\ << "original_unicode61", "original_trigram" >> \in Seq(K) /\ << "exact_terms" >> \in Seq(K)
      /\ << "profile_fallback", "substring_fallback" >> \in Seq(K) /\ << >> \in Seq(K)
  BY DEF Kinds, Modes
<1> HIDE DEF K
<1>2. \A p, q \in Seq(K) : p \o q \in Seq(K)
  OBVIOUS
<1>3. \A b : \A p, q \in Seq(K) : (IF b THEN p ELSE q) \in Seq(K)
  OBVIOUS
<1> QED BY <1>1, <1>2, <1>3 DEF Attempts, K

Lanes(call) == [ran : SUBSET (Kinds \cup Modes), hits : HitSets(call)]

(* An attempt, run or skipped, leaves current hits, each section once. *)
LEMMA AttemptRun ==
  ASSUME NEW call, IsCall(call), NEW st \in Lanes(call), NEW kind \in Kinds \cup Modes
  PROVE  RunAttempt(call, st, kind) \in Lanes(call)
<1>1. AttemptHits(call, kind) \in HitSets(call) /\ st.hits \in HitSets(call)
  BY AttemptHitsCurrent DEF Lanes
<1>2. CollectorAdd(st.hits, AttemptHits(call, kind)) \in HitSets(call)
  BY <1>1, Collected
<1> QED BY <1>2 DEF RunAttempt, Lanes

(* After all attempts the hits are current, each section once. *)
LEMMA TextLaneTyped ==
  ASSUME NEW call, IsCall(call)
  PROVE  TextLane(call) \in Lanes(call)
<1> DEFINE V == Lanes(call)
           seq == Attempts(call)
           n == Len(seq)
           none == [ran |-> {}, hits |-> {}]
<1>19. seq \in Seq(Kinds \cup Modes)
  BY AttemptsTyped
<1>22a. TextLane(call) = FoldLeft(LAMBDA st, kind : RunAttempt(call, st, kind), none, seq)
  BY Zenon DEF TextLane
<1> HIDE DEF seq, none
<1>20. none \in V /\ \A x \in V, k \in 1 .. n : RunAttempt(call, x, seq[k]) \in V
  <2>1. {} \in HitSets(call)
    BY FS_EmptySet DEF HitSets, OncePerSection
  <2>2. none \in V
    BY <2>1 DEF Lanes, none
  <2> QED BY <1>19, <2>2, AttemptRun
<1> DEFINE step == [p \in V \X (1 .. n) |-> RunAttempt(call, p[1], seq[p[2]])]
           Eq(f) == f = [T \in SUBSET (1 .. n) |-> IF T = {} THEN none ELSE RunAttempt(call, f[T \ {Max(T)}], seq[Max(T)])]
           F == CHOOSE f : Eq(f)
<1>21. n \in Nat /\ DOMAIN seq = 1 .. n
  BY <1>19
<1>22. TextLane(call) = F[1 .. n]
  <2>1. TextLane(call) = (CHOOSE f : f = [T \in SUBSET DOMAIN seq |-> IF T = {} THEN none ELSE RunAttempt(call, f[T \ {Max(T)}], seq[Max(T)])])[DOMAIN seq]
    BY <1>22a, Zenon DEF FoldLeft, MapThenFoldSet
  <2> QED BY <2>1, <1>21, Zenon
<1>23. step \in [V \X (1 .. n) -> V] /\ \A x \in V, k \in 1 .. n : step[<< x, k >>] = RunAttempt(call, x, seq[k])
  BY <1>20
<1> HIDE DEF step, V, n
<1>24. PICK f \in [SUBSET (1 .. n) -> V] : Recurs(f, none, step, n)
  BY <1>20, <1>21, <1>23, SetRecursion
<1>25. Eq(f)
  <2>1. \A T \in SUBSET (1 .. n) : T # {} => f[T \ {Max(T)}] \in V /\ Max(T) \in 1 .. n
    BY <1>21, FirstNumbers
  <2>2. \A T \in SUBSET (1 .. n) : f[T] = IF T = {} THEN none ELSE RunAttempt(call, f[T \ {Max(T)}], seq[Max(T)])
    BY <2>1, <1>23, <1>24 DEF Recurs
  <2> QED BY <2>2
<1>26. Eq(F)
  BY <1>25, Zenon
<1> HIDE DEF F
<1>27. F[1 .. 0] = none /\ \A k \in 1 .. n : F[1 .. k] = RunAttempt(call, F[1 .. k - 1], seq[k])
  <2>1. \A T \in SUBSET (1 .. n) :
           F[T] = IF T = {} THEN none ELSE RunAttempt(call, F[T \ {Max(T)}], seq[Max(T)])
    BY <1>26, Zenon
  <2> HIDE DEF Eq
  <2>2. F[1 .. 0] = none
    BY <1>21, <2>1, FirstNumbers, Zenon
  <2>3. ASSUME NEW k \in 1 .. n PROVE F[1 .. k] = RunAttempt(call, F[1 .. k - 1], seq[k])
    <3>1. 1 .. k \in SUBSET (1 .. n) /\ 1 .. k # {} /\ Max(1 .. k) = k /\ (1 .. k) \ {Max(1 .. k)} = 1 .. k - 1
      BY <1>21, FirstNumbers, Zenon
    <3>2. F[1 .. k] = RunAttempt(call, F[(1 .. k) \ {Max(1 .. k)}], seq[Max(1 .. k)])
      BY <2>1, <3>1, Zenon
    <3> QED BY <3>1, <3>2
  <2> QED BY <2>2, <2>3
<1> HIDE DEF Eq
<1> DEFINE out == [k \in 0 .. n |-> F[1 .. k]]
<1>28. /\ out[0] = none /\ out[n] = F[1 .. n] /\ out = [k \in 0 .. n |-> out[k]]
       /\ \A k \in 1 .. n : out[k] = RunAttempt(call, out[k - 1], seq[k])
  <2>1. 0 \in 0 .. n /\ n \in 0 .. n /\ \A k \in 1 .. n : k \in 0 .. n /\ k - 1 \in 0 .. n
    BY <1>21
  <2> QED BY <1>27, <2>1, Zenon
<1> HIDE DEF out
<1>29. \A k \in 0 .. n : out[k] \in V
  <2>1. out[0] \in V /\ \A k \in 1 .. n : out[k - 1] \in V => out[k] \in V
    BY <1>20, <1>28, Zenon
  <2> QED BY <1>21, <2>1, Closed
<1> QED BY <1>21, <1>22, <1>28, <1>29 DEF V

(* Hits in a row: current, no section twice. *)
Rankings(call, H) ==
    {q \in Seq(H) : /\ \A i, j \in 1 .. Len(q) : q[i].id = q[j].id => i = j
                    /\ \A i \in 1 .. Len(q) : IsCurrent(call, q[i])}

(* What the cut leaves of hits that differ are hits that differ. *)
LEMMA CappedOnce ==
  ASSUME NEW H, NEW q \in Seq(H), \A i, j \in 1 .. Len(q) : q[i].id = q[j].id => i = j,
         NEW limit \in Nat, NEW cap \in Nat
  PROVE  LET c == Capped(q, limit, cap) IN
         /\ \A i, j \in 1 .. Len(c) : c[i].id = c[j].id => i = j
         /\ \A i \in 1 .. Len(c) : \E j \in 1 .. Len(q) : c[i] = q[j]
<1> DEFINE c == Capped(q, limit, cap)
<1>1. c \in Seq(H) /\ TakenFrom(q, Len(q), c, cap)
  BY CappedHits
<1>2. PICK pos \in [1 .. Len(c) -> 1 .. Len(q)] :
         /\ \A i \in 1 .. Len(c) : c[i] = q[pos[i]]
         /\ \A i, j \in 1 .. Len(c) : i < j => pos[i] < pos[j]
  BY <1>1 DEF TakenFrom
<1> HIDE DEF c
<1>3. ASSUME NEW i \in 1 .. Len(c), NEW j \in 1 .. Len(c), c[i].id = c[j].id PROVE i = j
  <2>1. pos[i] \in 1 .. Len(q) /\ pos[j] \in 1 .. Len(q) /\ pos[i] = pos[j]
    BY <1>2, <1>3
  <2>2. ~(i < j) /\ ~(j < i)
    BY <1>2, <2>1
  <2> QED BY <1>1, <2>2
<1>4. \A i \in 1 .. Len(c) : \E j \in 1 .. Len(q) : c[i] = q[j]
  BY <1>2
<1> QED BY <1>3, <1>4 DEF c

(* The ranking of the text lane: current hits, no section twice. *)
LEMMA TextRankedTyped ==
  ASSUME NEW call, IsCall(call)
  PROVE  TextRanked(call) \in Rankings(call, TextHit)
<1> DEFINE S == TextLane(call).hits
           Ahead(a, b) ==
             IF Total(a.score) # Total(b.score) THEN Total(a.score) > Total(b.score)
             ELSE IF a.canonical # b.canonical THEN a.canonical ELSE a.id < b.id
           R == {p \in S \X S : Ahead(p[1], p[2])}
           q == InOrder(S, Ahead)
           c == Capped(q, call.query.limit, call.query.cap)
<1>1. S \in HitSets(call)
  BY TextLaneTyped DEF Lanes
<1>2. TextRanked(call) = c
  BY Zenon DEF TextRanked, CollectorResults
<1>3. q = ByPlace(S, R)
  BY Zenon DEF InOrder, ByPlace
<1>4. \A a, b \in S : << a, b >> \in R <=> Ahead(a, b)
  OBVIOUS
<1> HIDE DEF S, R, q
<1>5. \A h \in S : Total(h.score) \in Nat /\ h.canonical \in BOOLEAN /\ h.id \in Nat
  BY <1>1 DEF HitSets, TextHit, Scores, Total
<1>6. IsFiniteSet(S) /\ (\A a, b \in S : a.id = b.id => a = b) /\ S \in SUBSET TextHit
      /\ \A h \in S : IsCurrent(call, h)
  BY <1>1 DEF HitSets, OncePerSection
<1>7. Decides(R, S)
  BY <1>4, <1>5, <1>6 DEF Decides
<1> HIDE DEF Ahead
<1>8. q \in Seq(S) /\ \A i, j \in 1 .. Len(q) : q[i] = q[j] => i = j
  BY <1>3, <1>6, <1>7, Placed DEF Lists
<1>9. \A i, j \in 1 .. Len(q) : q[i].id = q[j].id => i = j
  BY <1>6, <1>8
<1>10. call.query.limit \in Nat /\ call.query.cap \in Nat
  BY DEF IsCall, IsQuery
<1>11. c \in Seq(S)
  BY <1>8, <1>10, CappedHits
<1>12. \A i, j \in 1 .. Len(c) : c[i].id = c[j].id => i = j
  BY <1>8, <1>9, <1>10, CappedOnce
<1> HIDE DEF c
<1>13. c \in Seq(TextHit) /\ \A i \in 1 .. Len(c) : c[i] \in S
  BY <1>6, <1>11
<1> QED BY <1>2, <1>6, <1>12, <1>13 DEF Rankings

-----------------------------------------------------------------------------
(* The vector lane *)

Chunks == [id : Nat, section : Nat, hash : Nat, similarity : Int]
VectorHits == [id : Nat, doc : Nat, canonical : BOOLEAN, similarity : Int]

(* A chunk adds at most its section, when the text it was made from is still the text. *)
LEMMA VectorAdded ==
  ASSUME NEW call, IsCall(call), NEW out \in Rankings(call, VectorHits), NEW chunk \in Chunks
  PROVE  AddVector(call, out, chunk) \in Rankings(call, VectorHits)
<1> DEFINE store == ChunkStore(call, chunk)
           valid == HydrateAndValidateVectorHit(call, chunk)
           s == CHOOSE x \in valid : TRUE
           h == VectorHit(call, s, chunk)
<1>1. CASE valid = {} \/ \E g \in ToSet(out) : g.id = chunk.section
  BY <1>1 DEF AddVector
<1>2. CASE valid # {} /\ \A g \in ToSet(out) : g.id # chunk.section
  <2>1. s \in valid
    BY <1>2
  <2>2. s \in store.sections /\ s.id = chunk.section /\ s.doc \notin store.stale
    BY <2>1 DEF HydrateAndValidateVectorHit
  <2> HIDE DEF s
  <2>3. s \in Sections(call) /\ s.doc \notin Stale(call) /\ s.id \in Nat /\ s.doc \in Nat
    BY <2>2, OneReadsAStore, StoreFacts DEF ChunkStore
  <2>4. h \in VectorHits /\ h.id = s.id /\ h.doc = s.doc
    BY <2>3 DEF VectorHit, VectorHits, Canonical, Chunks
  <2>5. IsCurrent(call, h)
    BY <2>3, <2>4 DEF IsCurrent
  <2>6. AddVector(call, out, chunk) = Append(out, h)
    BY <1>2, Zenon DEF AddVector, s
  <2> HIDE DEF h
  <2>7. out \in Seq(VectorHits) /\ \A i \in 1 .. Len(out) : out[i].id # h.id
    <3>1. out \in Seq(VectorHits)
      BY DEF Rankings
    <3>2. \A i \in 1 .. Len(out) : out[i] \in ToSet(out)
      BY <3>1 DEF ToSet
    <3> QED BY <1>2, <2>2, <2>4, <3>1, <3>2
  <2>8. /\ Append(out, h) \in Seq(VectorHits) /\ Len(Append(out, h)) = Len(out) + 1
        /\ Append(out, h)[Len(out) + 1] = h /\ \A i \in 1 .. Len(out) : Append(out, h)[i] = out[i]
    BY <2>4, <2>7
  <2> DEFINE new == Append(out, h)
  <2> HIDE DEF new
  <2>9. new \in Seq(VectorHits) /\ \A i \in 1 .. Len(new) : IF i = Len(out) + 1 THEN new[i] = h
                                   ELSE i \in 1 .. Len(out) /\ new[i] = out[i]
    BY <2>7, <2>8 DEF new
  <2>10. \A i \in 1 .. Len(new) : IsCurrent(call, new[i])
    BY <2>5, <2>9 DEF Rankings
  <2>11. \A i, j \in 1 .. Len(new) : new[i].id = new[j].id => i = j
    BY <2>7, <2>9 DEF Rankings
  <2> QED BY <2>6, <2>9, <2>10, <2>11 DEF Rankings, new
<1> QED BY <1>1, <1>2

(* The ranking of the vector lane: current hits, no section twice. *)
LEMMA VectorLaneTyped ==
  ASSUME NEW call, IsCall(call)
  PROVE  VectorLane(call) \in Rankings(call, VectorHits)
<1> DEFINE V == Rankings(call, VectorHits)
           seq == Firsts(Sees(call, << "vectors", "search" >>).chunks, call.query.candidates)
           n == Len(seq)
           whole == FoldLeft(LAMBDA out, chunk : AddVector(call, out, chunk), << >>, seq)
<1>18. << >> \in V
  BY DEF Rankings
<1>19. seq \in Seq(Chunks)
  <2>1. Sees(call, << "vectors", "search" >>).chunks \in Seq(Chunks) /\ call.query.candidates \in Nat
    BY ReadsAStore DEF IsStore, Chunks, IsCall, IsQuery
  <2> QED BY <2>1, FirstsOf
<1>17. VectorLane(call) = IF call.query.vector THEN whole ELSE << >>
  BY Zenon DEF VectorLane
<1> HIDE DEF seq
<1>20. << >> \in V /\ \A x \in V, k \in 1 .. n : AddVector(call, x, seq[k]) \in V
  BY <1>18, <1>19, VectorAdded
<1> DEFINE step == [p \in V \X (1 .. n) |-> AddVector(call, p[1], seq[p[2]])]
           Eq(f) == f = [T \in SUBSET (1 .. n) |-> IF T = {} THEN << >> ELSE AddVector(call, f[T \ {Max(T)}], seq[Max(T)])]
           F == CHOOSE f : Eq(f)
<1>21. n \in Nat /\ DOMAIN seq = 1 .. n
  BY <1>19
<1>22. whole = F[1 .. n]
  <2>1. whole = (CHOOSE f : f = [T \in SUBSET DOMAIN seq |-> IF T = {} THEN << >> ELSE AddVector(call, f[T \ {Max(T)}], seq[Max(T)])])[DOMAIN seq]
    BY Zenon DEF FoldLeft, MapThenFoldSet
  <2> QED BY <2>1, <1>21, Zenon
<1>23. step \in [V \X (1 .. n) -> V] /\ \A x \in V, k \in 1 .. n : step[<< x, k >>] = AddVector(call, x, seq[k])
  BY <1>20
<1> HIDE DEF step, V, n, whole
<1>24. PICK f \in [SUBSET (1 .. n) -> V] : Recurs(f, << >>, step, n)
  BY <1>20, <1>21, <1>23, SetRecursion
<1>25. Eq(f)
  <2>1. \A T \in SUBSET (1 .. n) : T # {} => f[T \ {Max(T)}] \in V /\ Max(T) \in 1 .. n
    BY <1>21, FirstNumbers
  <2>2. \A T \in SUBSET (1 .. n) : f[T] = IF T = {} THEN << >> ELSE AddVector(call, f[T \ {Max(T)}], seq[Max(T)])
    BY <2>1, <1>23, <1>24 DEF Recurs
  <2> QED BY <2>2
<1>26. Eq(F)
  BY <1>25, Zenon
<1> HIDE DEF F
<1>27. F[1 .. 0] = << >> /\ \A k \in 1 .. n : F[1 .. k] = AddVector(call, F[1 .. k - 1], seq[k])
  <2>1. \A T \in SUBSET (1 .. n) :
           F[T] = IF T = {} THEN << >> ELSE AddVector(call, F[T \ {Max(T)}], seq[Max(T)])
    BY <1>26, Zenon
  <2> HIDE DEF Eq
  <2>2. F[1 .. 0] = << >>
    BY <1>21, <2>1, FirstNumbers, Zenon
  <2>3. ASSUME NEW k \in 1 .. n PROVE F[1 .. k] = AddVector(call, F[1 .. k - 1], seq[k])
    <3>1. 1 .. k \in SUBSET (1 .. n) /\ 1 .. k # {} /\ Max(1 .. k) = k /\ (1 .. k) \ {Max(1 .. k)} = 1 .. k - 1
      BY <1>21, FirstNumbers, Zenon
    <3>2. F[1 .. k] = AddVector(call, F[(1 .. k) \ {Max(1 .. k)}], seq[Max(1 .. k)])
      BY <2>1, <3>1, Zenon
    <3> QED BY <3>1, <3>2
  <2> QED BY <2>2, <2>3
<1> HIDE DEF Eq
<1> DEFINE out == [k \in 0 .. n |-> F[1 .. k]]
<1>28. /\ out[0] = << >> /\ out[n] = F[1 .. n] /\ out = [k \in 0 .. n |-> out[k]]
       /\ \A k \in 1 .. n : out[k] = AddVector(call, out[k - 1], seq[k])
  <2>1. 0 \in 0 .. n /\ n \in 0 .. n /\ \A k \in 1 .. n : k \in 0 .. n /\ k - 1 \in 0 .. n
    BY <1>21
  <2> QED BY <1>27, <2>1, Zenon
<1> HIDE DEF out
<1>29. \A k \in 0 .. n : out[k] \in V
  <2>1. out[0] \in V /\ \A k \in 1 .. n : out[k - 1] \in V => out[k] \in V
    BY <1>20, <1>28, Zenon
  <2> QED BY <1>21, <2>1, Closed
<1> QED BY <1>17, <1>18, <1>21, <1>22, <1>28, <1>29 DEF V

-----------------------------------------------------------------------------
(* Fusion *)

Finals == [id : Nat, doc : Nat, canonical : BOOLEAN, evidence : Nat, rank : Int]

(* The elements of a sequence are a finite set. *)
LEMMA InRow ==
  ASSUME NEW H, NEW q \in Seq(H)
  PROVE  /\ IsFiniteSet(ToSet(q)) /\ ToSet(q) \in SUBSET H
         /\ \A i \in 1 .. Len(q) : q[i] \in ToSet(q)
         /\ \A x \in ToSet(q) : \E i \in 1 .. Len(q) : q[i] = x
<1>1. q = [i \in 1 .. Len(q) |-> q[i]] /\ IsFiniteSet(1 .. Len(q))
  <2>1. q = [i \in 1 .. Len(q) |-> q[i]] /\ Len(q) \in Int /\ 1 \in Int
    OBVIOUS
  <2> QED BY <2>1, FS_Interval
<1>2. ToSet(q) = Images(q, 1 .. Len(q))
  BY DEF ToSet, Images
<1>3. IsFiniteSet(ToSet(q))
  BY <1>1, <1>2, ImageFinite
<1> QED BY <1>3 DEF ToSet

(* There are finitely many kinds of attempts. *)
LEMMA KindsFinite == IsFiniteSet(Kinds \cup Modes)
<1> DEFINE s == << "unicode61", "trigram", "original_unicode61", "original_trigram", "exact_terms",
                   "profile_fallback", "profile_trigram", "substring_fallback", "exact", "normalized" >>
<1>1. s \in Seq(Kinds \cup Modes)
  BY DEF Kinds, Modes
<1>2. Kinds \cup Modes \subseteq ToSet(s)
  BY DEF Kinds, Modes, ToSet
<1> HIDE DEF s
<1> QED BY <1>1, <1>2, InRow, FS_Subset

(* What a quotient of numbers is. *)
LEMMA Quotient ==
  ASSUME NEW a \in Nat, NEW d \in Nat \ {0}
  PROVE  a \div d \in Nat /\ d * (a \div d) <= a /\ a < d * (a \div d) + d
  OBVIOUS

(* A section has one rank in a lane, and its share is that of the rank. *)
LEMMA ShareOfRank ==
  ASSUME NEW H, NEW q \in Seq(H), \A i, j \in 1 .. Len(q) : q[i].id = q[j].id => i = j,
         NEW weight \in Nat, NEW id
  PROVE  /\ Share(q, weight, id) \in Nat
         /\ (\A k \in 1 .. Len(q) : q[k].id # id) => Share(q, weight, id) = 0
         /\ \A k \in 1 .. Len(q) : q[k].id = id => Share(q, weight, id) = (weight * Scale) \div (RRFK + k)
<1> DEFINE at == {k \in DOMAIN q : q[k].id = id}
           part(r) == (weight * Scale) \div (RRFK + r)
           parts == {0} \cup {part(r) : r \in at}
<1>1. Share(q, weight, id) = Max(parts)
  BY Zenon DEF Share
<1>2. DOMAIN q = 1 .. Len(q)
  OBVIOUS
<1>3. \A r \in at : part(r) \in Nat
  <2> SUFFICES ASSUME NEW r \in at PROVE part(r) \in Nat
    OBVIOUS
  <2>1. r \in Nat \ {0} /\ weight * Scale \in Nat /\ RRFK + r \in Nat \ {0}
    BY <1>2, ScaleAssumption
  <2> QED BY <2>1, Quotient
<1>4. CASE at = {}
  <2>1. parts = {0}
    BY <1>4
  <2>2. Max({0}) = 0
    BY DEF Max
  <2>3. \A k \in 1 .. Len(q) : q[k].id # id
    BY <1>2, <1>4
  <2> HIDE DEF at, part, parts
  <2> QED BY <1>1, <2>1, <2>2, <2>3
<1>5. ASSUME NEW k \in at PROVE Max(parts) = part(k)
  <2>1. at = {k}
    BY <1>2
  <2> HIDE DEF at, part
  <2>2. parts = {0, part(k)} /\ part(k) \in Nat
    BY <1>3, <2>1
  <2>3. \A n \in Nat : Max({0, n}) = n
    BY DEF Max
  <2> QED BY <2>2, <2>3
<1> HIDE DEF at, part, parts
<1>6. (\A k \in 1 .. Len(q) : q[k].id # id) => at = {}
  BY <1>2 DEF at
<1>7. \A k \in 1 .. Len(q) : q[k].id = id => k \in at
  BY <1>2 DEF at
<1> QED BY <1>1, <1>3, <1>4, <1>5, <1>6, <1>7 DEF part

(* The weights of the lanes are numbers, equal for a general query. *)
LEMMA WeightsTyped ==
  ASSUME NEW query, IsQuery(query)
  PROVE  /\ RouteIntent(query).text \in Nat /\ RouteIntent(query).vector \in Nat
         /\ query.route = "general" /\ query.vector => RouteIntent(query).text = 5 /\ RouteIntent(query).vector = 5
  BY DEF RouteIntent, IsQuery

(* A fused hit carries the section of the lanes' hits, current as they are. *)
LEMMA EntryTyped ==
  ASSUME NEW call, IsCall(call), NEW T \in Rankings(call, TextHit), NEW W \in Rankings(call, VectorHits),
         NEW h \in ToSet(T) \cup ToSet(W)
  PROVE  /\ Entry(call, T, W, h.id) \in Finals /\ Entry(call, T, W, h.id).id = h.id
         /\ IsCurrent(call, Entry(call, T, W, h.id))
<1> DEFINE id == h.id
           th == ById(T, id)
           vh == ById(W, id)
           base == CHOOSE x \in IF th # {} THEN th ELSE vh : TRUE
           rrf == WeightedRRFFusion(T, W, RouteIntent(call.query), id)
           evidence == Cardinality(UNION {x.kinds : x \in th}) + Cardinality(vh)
           rank == MultiplierCalibration(rrf, th)
           e == [id |-> id, doc |-> base.doc, canonical |-> base.canonical, evidence |-> evidence, rank |-> rank]
<1>1. Entry(call, T, W, id) = e
  BY Zenon DEF Entry
<1>2. T \in Seq(TextHit) /\ W \in Seq(VectorHits)
  BY DEF Rankings
<1>3. /\ \A x \in ToSet(T) : IsCurrent(call, x) /\ x \in TextHit
      /\ \A x \in ToSet(W) : IsCurrent(call, x) /\ x \in VectorHits
  BY <1>2, InRow DEF Rankings
<1>4. base \in ToSet(T) \cup ToSet(W) /\ base.id = id
  <2>1. (IF th # {} THEN th ELSE vh) # {}
    BY DEF ById
  <2>2. base \in IF th # {} THEN th ELSE vh
    BY <2>1
  <2> HIDE DEF base
  <2> QED BY <2>2 DEF ById
<1>5. base.doc \in Nat /\ base.canonical \in BOOLEAN /\ id \in Nat /\ IsCurrent(call, base)
  BY <1>3, <1>4 DEF TextHit, VectorHits
<1>6. evidence \in Nat
  <2>1. UNION {x.kinds : x \in th} \in SUBSET (Kinds \cup Modes)
    BY <1>3 DEF ById, TextHit
  <2>2. Cardinality(UNION {x.kinds : x \in th}) \in Nat
    BY <2>1, KindsFinite, FS_Subset, FS_CardinalityType
  <2>3. vh \in SUBSET ToSet(W)
    BY DEF ById
  <2>4. Cardinality(vh) \in Nat
    BY <1>2, <2>3, InRow, FS_Subset, FS_CardinalityType
  <2> QED BY <2>2, <2>4
<1>7. rank \in Nat
  <2>1. RouteIntent(call.query).text \in Nat /\ RouteIntent(call.query).vector \in Nat
    BY WeightsTyped DEF IsCall
  <2>2. Share(T, RouteIntent(call.query).text, id) \in Nat /\ Share(W, RouteIntent(call.query).vector, id) \in Nat
    BY <1>2, <2>1, ShareOfRank DEF Rankings
  <2>3. rrf \in Nat
    BY <2>2 DEF WeightedRRFFusion
  <2> HIDE DEF rrf, th
  <2> QED BY <2>3 DEF MultiplierCalibration
<1> HIDE DEF base, evidence, rank
<1>8. e \in Finals /\ e.id = id /\ e.doc = base.doc
  BY <1>5, <1>6, <1>7 DEF Finals
<1>9. IsCurrent(call, e)
  BY <1>4, <1>5, <1>8 DEF IsCurrent
<1> HIDE DEF e
<1> QED BY <1>1, <1>8, <1>9

(* Hits within the limit, no document over its cap. *)
Fused(call) ==
    {q \in Rankings(call, Finals) : /\ Len(q) <= call.query.limit
                                    /\ \A d : Cardinality(Of(q, d)) <= call.query.cap}

(* No later one outranks an earlier one. *)
Ranked(q) == \A i, j \in 1 .. Len(q) : i < j => ~(q[j].rank > q[i].rank)

(* The hits of FinalHits: made of the hits of the lanes, best first, within limit and cap. *)
LEMMA FinalHitsTyped ==
  ASSUME NEW call, IsCall(call), NEW T \in Rankings(call, TextHit), NEW W \in Rankings(call, VectorHits),
         NEW hits \in FinalHits(call, T, W)
  PROVE  /\ hits \in Fused(call) /\ Ranked(hits)
         /\ \A i \in 1 .. Len(hits) : \E h \in ToSet(T) \cup ToSet(W) : hits[i] = Entry(call, T, W, h.id)
<1> DEFINE from == ToSet(T) \cup ToSet(W)
           all == {Entry(call, T, W, h.id) : h \in from}
           ahead(a, b) ==
             IF a.rank # b.rank THEN a.rank > b.rank
             ELSE IF a.evidence # b.evidence THEN a.evidence > b.evidence
             ELSE IF a.canonical # b.canonical THEN a.canonical ELSE a.doc < b.doc
           limit == call.query.limit
           cap == call.query.cap
<1>1. PICK q \in SetToSeqs(all) : /\ hits = Capped(q, limit, cap)
                                  /\ \A i, j \in DOMAIN q : i < j => ~ahead(q[j], q[i])
  BY Zenon DEF FinalHits
<1>2. \A h \in from : /\ Entry(call, T, W, h.id) \in Finals /\ Entry(call, T, W, h.id).id = h.id
                      /\ IsCurrent(call, Entry(call, T, W, h.id))
  BY EntryTyped
<1>3. IsFiniteSet(from)
  <2>1. T \in Seq(TextHit) /\ W \in Seq(VectorHits)
    BY DEF Rankings
  <2>2. IsFiniteSet(ToSet(T)) /\ IsFiniteSet(ToSet(W))
    BY <2>1, InRow
  <2> QED BY <2>2, FS_Union
<1>4. IsFiniteSet(all) /\ Cardinality(all) \in Nat
  <2> DEFINE f == [h \in from |-> Entry(call, T, W, h.id)]
  <2>1. f = [h \in from |-> f[h]]
    OBVIOUS
  <2>2. Images(f, from) = all
    BY DEF Images
  <2> HIDE DEF f, all, from
  <2>3. IsFiniteSet(all)
    BY <1>3, <2>1, <2>2, ImageFinite
  <2> QED BY <2>3, FS_CardinalityType
<1>5. /\ all \in SUBSET Finals /\ \A a \in all : IsCurrent(call, a)
      /\ \A a, b \in all : a.id = b.id => a = b
  BY <1>2
<1>6. \A a \in all : \E h \in from : a = Entry(call, T, W, h.id)
  OBVIOUS
<1> HIDE DEF all, from
<1>7. q \in Seq(all) /\ DOMAIN q = 1 .. Len(q) /\ \A i, j \in 1 .. Len(q) : q[i] = q[j] => i = j
  <2>1. q \in [1 .. Cardinality(all) -> all] /\ \A i, j \in 1 .. Cardinality(all) : i # j => q[i] # q[j]
    BY DEF SetToSeqs
  <2>2. q \in Seq(all) /\ DOMAIN q = 1 .. Cardinality(all)
    BY <1>4, <2>1
  <2>3. Len(q) = Cardinality(all)
    BY <1>4, <2>2
  <2> QED BY <2>1, <2>2, <2>3
<1>8. \A i \in 1 .. Len(q) : q[i] \in all
  BY <1>7
<1>9. limit \in Nat /\ cap \in Nat
  BY DEF IsCall, IsQuery
<1>10. /\ hits \in Seq(all) /\ Len(hits) <= limit /\ TakenFrom(q, Len(q), hits, cap)
  BY <1>1, <1>7, <1>9, CappedHits
<1>11. \A i \in 1 .. Len(hits) : hits[i] \in all
  BY <1>10
<1>12. PICK pos \in [1 .. Len(hits) -> 1 .. Len(q)] :
         /\ \A i \in 1 .. Len(hits) : hits[i] = q[pos[i]]
         /\ \A i, j \in 1 .. Len(hits) : i < j => pos[i] < pos[j]
  BY <1>10 DEF TakenFrom
<1>13. ASSUME NEW i \in 1 .. Len(hits), NEW j \in 1 .. Len(hits), i < j
       PROVE  hits[i] # hits[j] /\ ~(hits[j].rank > hits[i].rank)
  <2>1. pos[i] \in 1 .. Len(q) /\ pos[j] \in 1 .. Len(q) /\ pos[i] < pos[j]
    BY <1>12, <1>13
  <2>2. hits[i] # hits[j]
    BY <1>7, <1>12, <2>1
  <2>3. ~ahead(hits[j], hits[i])
    <3>1. \A x, y \in 1 .. Len(q) : x < y => ~ahead(q[y], q[x])
      BY <1>1, <1>7
    <3>2. ~ahead(q[pos[j]], q[pos[i]])
      <4> HIDE DEF ahead
      <4> QED BY <2>1, <3>1
    <3>3. hits[i] = q[pos[i]] /\ hits[j] = q[pos[j]]
      BY <1>12
    <3> QED BY <3>2, <3>3
  <2>4. hits[j].rank \in Int /\ hits[i].rank \in Int
    BY <1>5, <1>11 DEF Finals
  <2> QED BY <2>2, <2>3, <2>4
<1>14. hits \in Seq(Finals)
  BY <1>5, <1>10
<1>15. \A i, j \in 1 .. Len(hits) : hits[i].id = hits[j].id => i = j
  BY <1>5, <1>10, <1>11, <1>13
<1>16. hits \in Rankings(call, Finals)
  BY <1>5, <1>11, <1>14, <1>15 DEF Rankings
<1>17. hits \in Fused(call)
  BY <1>10, <1>16 DEF Fused, TakenFrom
<1>18. Ranked(hits)
  BY <1>13 DEF Ranked
<1> QED BY <1>6, <1>11, <1>17, <1>18 DEF from

-----------------------------------------------------------------------------
(* Related documents *)

Relations == [from : Nat, to : Nat, undirected : BOOLEAN, ignore : BOOLEAN, weight : Int]

(* A relation of the call touches the document. *)
Led(call, doc) == \E r \in ToSet(call.before.related \o call.after.related) : doc \in {r.from, r.to}

(* What following relations keeps: sections of the call, none twice, within limit and cap, and *)
(* one of a document that was stale all along only where a relation leads.                     *)
Grown(call) ==
    {q \in Seq(Finals) :
       /\ \A i, j \in 1 .. Len(q) : q[i].id = q[j].id => i = j
       /\ \A i \in 1 .. Len(q) : \E s \in Sections(call) : s.id = q[i].id /\ s.doc = q[i].doc
       /\ \A i \in 1 .. Len(q) : q[i].doc \in Stale(call) => call.query.relations /\ Led(call, q[i].doc)
       /\ Len(q) <= call.query.limit
       /\ \A d : Cardinality(Of(q, d)) <= call.query.cap}

(* Hits of the lanes are such. *)
LEMMA FusedGrown ==
  ASSUME NEW call, NEW hits \in Fused(call)
  PROVE  hits \in Grown(call)
  BY DEF Fused, Rankings, IsCurrent, Grown

(* The relations of either store are relations of the call. *)
LEMMA RelationsRead ==
  ASSUME NEW call, IsCall(call), NEW read, NEW one
  PROVE  LET seq == SeesOne(call, read, one).related IN
         /\ seq \in Seq(Relations)
         /\ \A k \in 1 .. Len(seq) : seq[k] \in ToSet(call.before.related \o call.after.related)
<1> DEFINE b == call.before.related
           a == call.after.related
<1>1. b \in Seq(Relations) /\ a \in Seq(Relations)
  BY DEF IsCall, IsStore, Relations
<1>2. SeesOne(call, read, one).related \in {a, b}
  BY OneReadsAStore
<1> HIDE DEF a, b
<1>3. /\ \A k \in 1 .. Len(b) : k \in 1 .. Len(b \o a) /\ (b \o a)[k] = b[k]
      /\ \A k \in 1 .. Len(a) : Len(b) + k \in 1 .. Len(b \o a) /\ (b \o a)[Len(b) + k] = a[k]
      /\ b \o a \in Seq(Relations)
  BY <1>1
<1>4. \A k \in 1 .. Len(b \o a) : (b \o a)[k] \in ToSet(b \o a)
  BY <1>3, InRow
<1>5. \A k \in 1 .. Len(a) : a[k] \in ToSet(b \o a)
  BY <1>3, <1>4
<1>6. \A k \in 1 .. Len(b) : b[k] \in ToSet(b \o a)
  BY <1>3, <1>4
<1> QED BY <1>1, <1>2, <1>5, <1>6 DEF a, b

(* A relation followed adds the first section of a document that is not there yet. *)
LEMMA FollowKeeps ==
  ASSUME NEW call, IsCall(call), call.query.relations, NEW found \in Seq(Finals), NEW hits \in Grown(call),
         NEW doc, Of(found, doc) # {}, NEW r \in Relations,
         r \in ToSet(call.before.related \o call.after.related)
  PROVE  Follow(call, found, hits, doc, r) \in Grown(call)
<1> DEFINE store == SeesOne(call, << "relations", "sections" >>, << "first", << doc, r >> >>)
           free == {d \in RelationTarget(r, doc) : Of(hits, d) = {}}
           sections == {s \in store.sections : s.doc \in free}
           first == CHOOSE s \in sections : \A t \in sections : s.id <= t.id
           entry == [id |-> first.id, doc |-> first.doc, canonical |-> Canonical(store, first),
                     evidence |-> 0, rank |-> found[Max(Of(found, doc))].rank + 20 * Scale * r.weight]
<1>1. Follow(call, found, hits, doc, r) =
        IF r.ignore \/ sections = {} \/ Len(hits) >= call.query.limit THEN hits ELSE Append(hits, entry)
  BY Zenon DEF Follow
<1>2. SUFFICES ASSUME sections # {}, ~(Len(hits) >= call.query.limit)
               PROVE  Append(hits, entry) \in Grown(call)
  <2> HIDE DEF sections, entry
  <2> QED BY <1>1, <1>2
<1>3. sections \in SUBSET store.sections /\ \A s \in sections : s.doc \in free
  OBVIOUS
<1>4. /\ IsStore(store) /\ store.sections \subseteq Sections(call)
      /\ \A s \in store.sections : s.id \in Nat /\ s.doc \in Nat
  BY OneReadsAStore, StoreFacts
<1>5. first \in sections
  <2>1. {s.id : s \in sections} \in SUBSET Nat /\ {s.id : s \in sections} # {}
    BY <1>2, <1>3, <1>4
  <2>2. PICK m \in {s.id : s \in sections} : \A n \in {s.id : s \in sections} : m <= n
    BY <2>1, LeastNatural
  <2>3. \E s \in sections : \A u \in sections : s.id <= u.id
    BY <2>2
  <2> HIDE DEF sections
  <2> QED BY <2>3
<1> HIDE DEF sections, first
<1>6. first \in Sections(call) /\ first.id \in Nat /\ first.doc \in Nat /\ Of(hits, first.doc) = {}
      /\ first.doc \in {r.from, r.to}
  BY <1>3, <1>4, <1>5 DEF RelationTarget
<1> HIDE DEF free
<1>7. found[Max(Of(found, doc))].rank \in Int
  <2>1. Of(found, doc) \in SUBSET (1 .. Len(found)) /\ Len(found) \in Nat
    BY DEF Of
  <2>2. Max(Of(found, doc)) \in 1 .. Len(found)
    BY <2>1, GreatestOfSome
  <2>3. found[Max(Of(found, doc))] \in Finals
    BY <2>2
  <2> QED BY <2>3 DEF Finals
<1>8. entry \in Finals /\ entry.id = first.id /\ entry.doc = first.doc
  <2>1. 20 * Scale * r.weight \in Int
    BY ScaleAssumption DEF Relations
  <2>2. Canonical(store, first) \in BOOLEAN
    BY DEF Canonical
  <2> DEFINE rank == found[Max(Of(found, doc))].rank + 20 * Scale * r.weight
             canonical == Canonical(store, first)
  <2>3. rank \in Int /\ canonical \in BOOLEAN
    BY <1>7, <2>1, <2>2
  <2>4. entry = [id |-> first.id, doc |-> first.doc, canonical |-> canonical, evidence |-> 0, rank |-> rank]
    BY Zenon
  <2> HIDE DEF entry, rank, canonical
  <2> QED BY <1>6, <2>3, <2>4 DEF Finals
<1> HIDE DEF entry, store
<1>9. /\ hits \in Seq(Finals) /\ (\A i, j \in 1 .. Len(hits) : hits[i].id = hits[j].id => i = j)
      /\ \A i \in 1 .. Len(hits) : \E s \in Sections(call) : s.id = hits[i].id /\ s.doc = hits[i].doc
      /\ \A i \in 1 .. Len(hits) : hits[i].doc \in Stale(call) => Led(call, hits[i].doc)
      /\ Len(hits) <= call.query.limit
      /\ \A d : Cardinality(Of(hits, d)) <= call.query.cap
  BY DEF Grown
<1> DEFINE new == Append(hits, entry)
<1>10. /\ new \in Seq(Finals) /\ Len(new) = Len(hits) + 1 /\ new[Len(hits) + 1] = entry
       /\ \A i \in 1 .. Len(hits) : new[i] = hits[i]
       /\ \A i \in 1 .. Len(new) : i \in 1 .. Len(hits) \/ i = Len(hits) + 1
  BY <1>8, <1>9
<1>11. \A i \in 1 .. Len(hits) : hits[i].id # first.id
  <2> SUFFICES ASSUME NEW i \in 1 .. Len(hits), hits[i].id = first.id PROVE FALSE
    OBVIOUS
  <2>1. hits[i].doc = first.doc
    BY <1>6, <1>9 DEF IsCall
  <2>2. i \in Of(hits, first.doc)
    BY <1>9, <2>1 DEF Of
  <2> QED BY <1>6, <2>2
<1>12. \A d : Cardinality(Of(new, d)) <= call.query.cap
  <2> SUFFICES ASSUME NEW d PROVE Cardinality(Of(new, d)) <= call.query.cap
    OBVIOUS
  <2>1. call.query.cap \in Nat \ {0}
    BY DEF IsCall, IsQuery
  <2>2. CASE entry.doc # d
    BY <1>8, <1>9, <2>2, OfAppended
  <2>3. CASE entry.doc = d
    <3>1. Cardinality(Of(new, d)) = Cardinality(Of(hits, d)) + 1
      BY <1>8, <1>9, <2>3, OfAppended
    <3>2. Of(hits, d) = {}
      BY <1>6, <1>8, <2>3
    <3> QED BY <2>1, <3>1, <3>2, FS_EmptySet
  <2> QED BY <2>2, <2>3
<1> HIDE DEF new
<1>13. Led(call, entry.doc)
  BY <1>6, <1>8 DEF Led
<1>14. \A i, j \in 1 .. Len(new) : new[i].id = new[j].id => i = j
  BY <1>8, <1>9, <1>10, <1>11
<1>15. \A i \in 1 .. Len(new) : \E s \in Sections(call) : s.id = new[i].id /\ s.doc = new[i].doc
  BY <1>6, <1>8, <1>9, <1>10
<1>16. \A i \in 1 .. Len(new) : new[i].doc \in Stale(call) => Led(call, new[i].doc)
  BY <1>9, <1>10, <1>13
<1>17. Len(new) <= call.query.limit
  BY <1>2, <1>9, <1>10 DEF IsCall, IsQuery
<1>18. new \in Grown(call)
  BY <1>10, <1>12, <1>14, <1>15, <1>16, <1>17 DEF Grown
<1> QED BY <1>18 DEF new

(* All relations of a document. *)
LEMMA FollowAllKeeps ==
  ASSUME NEW call, IsCall(call), call.query.relations, NEW found \in Seq(Finals), NEW hits \in Grown(call),
         NEW doc, Of(found, doc) # {}
  PROVE  FollowAll(call, found, hits, doc) \in Grown(call)
<1> DEFINE V == Grown(call)
           seq == SeesOne(call, << "relations", "list" >>, << "of", doc >>).related
           n == Len(seq)
<1>18. seq \in Seq(Relations) /\ \A k \in 1 .. n : seq[k] \in ToSet(call.before.related \o call.after.related)
  BY RelationsRead
<1>19. seq \in Seq(Relations)
  BY <1>18
<1>22a. FollowAll(call, found, hits, doc) =
          FoldLeft(LAMBDA hs, r : Follow(call, found, hs, doc, r), hits, seq)
  BY Zenon DEF FollowAll
<1> HIDE DEF seq
<1>20. hits \in V /\ \A x \in V, k \in 1 .. n : Follow(call, found, x, doc, seq[k]) \in V
  BY <1>18, FollowKeeps
<1> DEFINE step == [p \in V \X (1 .. n) |-> Follow(call, found, p[1], doc, seq[p[2]])]
           Eq(f) == f = [T \in SUBSET (1 .. n) |-> IF T = {} THEN hits ELSE Follow(call, found, f[T \ {Max(T)}], doc, seq[Max(T)])]
           F == CHOOSE f : Eq(f)
<1>21. n \in Nat /\ DOMAIN seq = 1 .. n
  BY <1>19
<1>22. FollowAll(call, found, hits, doc) = F[1 .. n]
  <2>1. FollowAll(call, found, hits, doc) = (CHOOSE f : f = [T \in SUBSET DOMAIN seq |-> IF T = {} THEN hits ELSE Follow(call, found, f[T \ {Max(T)}], doc, seq[Max(T)])])[DOMAIN seq]
    BY <1>22a, Zenon DEF FoldLeft, MapThenFoldSet
  <2> QED BY <2>1, <1>21, Zenon
<1>23. step \in [V \X (1 .. n) -> V] /\ \A x \in V, k \in 1 .. n : step[<< x, k >>] = Follow(call, found, x, doc, seq[k])
  BY <1>20
<1> HIDE DEF step, V, n
<1>24. PICK f \in [SUBSET (1 .. n) -> V] : Recurs(f, hits, step, n)
  BY <1>20, <1>21, <1>23, SetRecursion
<1>25. Eq(f)
  <2>1. \A T \in SUBSET (1 .. n) : T # {} => f[T \ {Max(T)}] \in V /\ Max(T) \in 1 .. n
    BY <1>21, FirstNumbers
  <2>2. \A T \in SUBSET (1 .. n) : f[T] = IF T = {} THEN hits ELSE Follow(call, found, f[T \ {Max(T)}], doc, seq[Max(T)])
    BY <2>1, <1>23, <1>24 DEF Recurs
  <2> QED BY <2>2
<1>26. Eq(F)
  BY <1>25, Zenon
<1> HIDE DEF F
<1>27. F[1 .. 0] = hits /\ \A k \in 1 .. n : F[1 .. k] = Follow(call, found, F[1 .. k - 1], doc, seq[k])
  <2>1. \A T \in SUBSET (1 .. n) :
           F[T] = IF T = {} THEN hits ELSE Follow(call, found, F[T \ {Max(T)}], doc, seq[Max(T)])
    BY <1>26, Zenon
  <2> HIDE DEF Eq
  <2>2. F[1 .. 0] = hits
    BY <1>21, <2>1, FirstNumbers, Zenon
  <2>3. ASSUME NEW k \in 1 .. n PROVE F[1 .. k] = Follow(call, found, F[1 .. k - 1], doc, seq[k])
    <3>1. 1 .. k \in SUBSET (1 .. n) /\ 1 .. k # {} /\ Max(1 .. k) = k /\ (1 .. k) \ {Max(1 .. k)} = 1 .. k - 1
      BY <1>21, FirstNumbers, Zenon
    <3>2. F[1 .. k] = Follow(call, found, F[(1 .. k) \ {Max(1 .. k)}], doc, seq[Max(1 .. k)])
      BY <2>1, <3>1, Zenon
    <3> QED BY <3>1, <3>2
  <2> QED BY <2>2, <2>3
<1> HIDE DEF Eq
<1> DEFINE out == [k \in 0 .. n |-> F[1 .. k]]
<1>28. /\ out[0] = hits /\ out[n] = F[1 .. n] /\ out = [k \in 0 .. n |-> out[k]]
       /\ \A k \in 1 .. n : out[k] = Follow(call, found, out[k - 1], doc, seq[k])
  <2>1. 0 \in 0 .. n /\ n \in 0 .. n /\ \A k \in 1 .. n : k \in 0 .. n /\ k - 1 \in 0 .. n
    BY <1>21
  <2> QED BY <1>27, <2>1, Zenon
<1> HIDE DEF out
<1>29. \A k \in 0 .. n : out[k] \in V
  <2>1. out[0] \in V /\ \A k \in 1 .. n : out[k - 1] \in V => out[k] \in V
    BY <1>20, <1>28, Zenon
  <2> QED BY <1>21, <2>1, Closed
<1> QED BY <1>21, <1>22, <1>28, <1>29 DEF V

(* The relations of all documents found. *)
LEMMA Followed ==
  ASSUME NEW call, IsCall(call), call.query.relations, NEW hits \in Grown(call),
         NEW docs, docs \in Seq({h.doc : h \in ToSet(hits)})
  PROVE  FoldLeft(LAMBDA hs, doc : FollowAll(call, hits, hs, doc), hits, docs) \in Grown(call)
<1> DEFINE V == Grown(call)
           seq == docs
           n == Len(seq)
           whole == FoldLeft(LAMBDA hs, doc : FollowAll(call, hits, hs, doc), hits, seq)
<1>17. hits \in Seq(Finals)
  BY DEF Grown
<1>18. \A k \in 1 .. n : Of(hits, seq[k]) # {}
  <2> SUFFICES ASSUME NEW k \in 1 .. n PROVE Of(hits, seq[k]) # {}
    OBVIOUS
  <2>1. PICK h \in ToSet(hits) : seq[k] = h.doc
    OBVIOUS
  <2>2. PICK i \in DOMAIN hits : h = hits[i]
    BY DEF ToSet
  <2> QED BY <2>1, <2>2 DEF Of
<1>19. seq \in Seq({h.doc : h \in ToSet(hits)})
  OBVIOUS
<1>22a. whole = FoldLeft(LAMBDA hs, doc : FollowAll(call, hits, hs, doc), hits, seq)
  OBVIOUS
<1> HIDE DEF seq, whole
<1>20. hits \in V /\ \A x \in V, k \in 1 .. n : FollowAll(call, hits, x, seq[k]) \in V
  BY <1>17, <1>18, FollowAllKeeps
<1> DEFINE step == [p \in V \X (1 .. n) |-> FollowAll(call, hits, p[1], seq[p[2]])]
           Eq(f) == f = [T \in SUBSET (1 .. n) |-> IF T = {} THEN hits ELSE FollowAll(call, hits, f[T \ {Max(T)}], seq[Max(T)])]
           F == CHOOSE f : Eq(f)
<1>21. n \in Nat /\ DOMAIN seq = 1 .. n
  BY <1>19
<1>22. whole = F[1 .. n]
  <2>1. whole = (CHOOSE f : f = [T \in SUBSET DOMAIN seq |-> IF T = {} THEN hits ELSE FollowAll(call, hits, f[T \ {Max(T)}], seq[Max(T)])])[DOMAIN seq]
    BY <1>22a, Zenon DEF FoldLeft, MapThenFoldSet
  <2> QED BY <2>1, <1>21, Zenon
<1>23. step \in [V \X (1 .. n) -> V] /\ \A x \in V, k \in 1 .. n : step[<< x, k >>] = FollowAll(call, hits, x, seq[k])
  BY <1>20
<1> HIDE DEF step, V, n
<1>24. PICK f \in [SUBSET (1 .. n) -> V] : Recurs(f, hits, step, n)
  BY <1>20, <1>21, <1>23, SetRecursion
<1>25. Eq(f)
  <2>1. \A T \in SUBSET (1 .. n) : T # {} => f[T \ {Max(T)}] \in V /\ Max(T) \in 1 .. n
    BY <1>21, FirstNumbers
  <2>2. \A T \in SUBSET (1 .. n) : f[T] = IF T = {} THEN hits ELSE FollowAll(call, hits, f[T \ {Max(T)}], seq[Max(T)])
    BY <2>1, <1>23, <1>24 DEF Recurs
  <2> QED BY <2>2
<1>26. Eq(F)
  BY <1>25, Zenon
<1> HIDE DEF F
<1>27. F[1 .. 0] = hits /\ \A k \in 1 .. n : F[1 .. k] = FollowAll(call, hits, F[1 .. k - 1], seq[k])
  <2>1. \A T \in SUBSET (1 .. n) :
           F[T] = IF T = {} THEN hits ELSE FollowAll(call, hits, F[T \ {Max(T)}], seq[Max(T)])
    BY <1>26, Zenon
  <2> HIDE DEF Eq
  <2>2. F[1 .. 0] = hits
    BY <1>21, <2>1, FirstNumbers, Zenon
  <2>3. ASSUME NEW k \in 1 .. n PROVE F[1 .. k] = FollowAll(call, hits, F[1 .. k - 1], seq[k])
    <3>1. 1 .. k \in SUBSET (1 .. n) /\ 1 .. k # {} /\ Max(1 .. k) = k /\ (1 .. k) \ {Max(1 .. k)} = 1 .. k - 1
      BY <1>21, FirstNumbers, Zenon
    <3>2. F[1 .. k] = FollowAll(call, hits, F[(1 .. k) \ {Max(1 .. k)}], seq[Max(1 .. k)])
      BY <2>1, <3>1, Zenon
    <3> QED BY <3>1, <3>2
  <2> QED BY <2>2, <2>3
<1> HIDE DEF Eq
<1> DEFINE out == [k \in 0 .. n |-> F[1 .. k]]
<1>28. /\ out[0] = hits /\ out[n] = F[1 .. n] /\ out = [k \in 0 .. n |-> out[k]]
       /\ \A k \in 1 .. n : out[k] = FollowAll(call, hits, out[k - 1], seq[k])
  <2>1. 0 \in 0 .. n /\ n \in 0 .. n /\ \A k \in 1 .. n : k \in 0 .. n /\ k - 1 \in 0 .. n
    BY <1>21
  <2> QED BY <1>27, <2>1, Zenon
<1> HIDE DEF out
<1>29. \A k \in 0 .. n : out[k] \in V
  <2>1. out[0] \in V /\ \A k \in 1 .. n : out[k - 1] \in V => out[k] \in V
    BY <1>20, <1>28, Zenon
  <2> QED BY <1>21, <2>1, Closed
<1>30. whole \in V
  BY <1>21, <1>22, <1>28, <1>29
<1> QED BY <1>30, Zenon DEF V, whole, seq

(* Rows of the same hits hold no more of a document: the places map into each other. *)
LEMMA OfPart ==
  ASSUME NEW q, NEW p \in Seq(Finals), q \in Seq(Finals),
         \A i, j \in 1 .. Len(q) : q[i] = q[j] => i = j,
         \A i \in 1 .. Len(q) : \E j \in 1 .. Len(p) : q[i] = p[j], NEW d
  PROVE  Cardinality(Of(q, d)) <= Cardinality(Of(p, d))
<1> DEFINE f == [i \in Of(q, d) |-> CHOOSE j \in 1 .. Len(p) : q[i] = p[j]]
<1>1. /\ Of(q, d) \in SUBSET (1 .. Len(q)) /\ \A i \in Of(q, d) : q[i].doc = d
      /\ \A j \in 1 .. Len(p) : p[j].doc = d => j \in Of(p, d)
  <2>1. DOMAIN p = 1 .. Len(p) /\ DOMAIN q = 1 .. Len(q)
    OBVIOUS
  <2> QED BY <2>1 DEF Of
<1>2. \A i \in Of(q, d) : f[i] \in 1 .. Len(p) /\ q[i] = p[f[i]]
  BY <1>1
<1>4. f = [i \in Of(q, d) |-> f[i]]
  OBVIOUS
<1>3. \A i \in Of(q, d) : f[i] \in Of(p, d)
  <2> HIDE DEF f
  <2> SUFFICES ASSUME NEW i \in Of(q, d) PROVE f[i] \in Of(p, d)
    OBVIOUS
  <2>1. f[i] \in 1 .. Len(p) /\ q[i] = p[f[i]]
    BY <1>2, Zenon
  <2>2. q[i].doc = d
    BY <1>1, Zenon
  <2>3. p[f[i]].doc = d
    BY <2>1, <2>2, Zenon
  <2> QED BY <1>1, <2>1, <2>3, Zenon
<1> HIDE DEF f
<1>5. f \in [Of(q, d) -> Of(p, d)]
  BY <1>3, <1>4
<1>6. f \in Injection(Of(q, d), Of(p, d))
  <2>1. \A a, b \in Of(q, d) : f[a] = f[b] => a = b
    BY <1>1, <1>2
  <2> QED BY <1>4, <1>5, <2>1 DEF Injection, IsInjective
<1>7. IsFiniteSet(Of(p, d))
  BY OfFinite
<1> QED BY <1>6, <1>7, FS_Injection

(* Related documents leave the hits what they were, as many as the limit allows. *)
LEMMA Expanded ==
  ASSUME NEW call, IsCall(call), NEW hits \in Fused(call)
  PROVE  /\ ExpandWithRelations(call, hits) \in Grown(call)
         /\ ~call.query.relations => ExpandWithRelations(call, hits) = hits
<1> DEFINE S == {h.doc : h \in ToSet(hits)}
           docs == InOrder(S, <)
           R == {p \in S \X S : p[1] < p[2]}
           grown == FoldLeft(LAMBDA hs, doc : FollowAll(call, hits, hs, doc), hits, docs)
           all == ToSet(grown)
           Ahead(a, b) ==
             IF a.rank # b.rank THEN a.rank > b.rank
             ELSE IF a.canonical # b.canonical THEN a.canonical ELSE a.id < b.id
           Q == {p \in all \X all : Ahead(p[1], p[2])}
           q == InOrder(all, Ahead)
           limit == call.query.limit
           kept == Firsts(q, limit)
<1>1. ExpandWithRelations(call, hits) = IF call.query.relations THEN kept ELSE hits
  BY Zenon DEF ExpandWithRelations
<1>2. hits \in Grown(call) /\ hits \in Seq(Finals)
  BY FusedGrown DEF Grown
<1>3. ASSUME call.query.relations PROVE kept \in Grown(call)
  <2>1. IsFiniteSet(S) /\ S \in SUBSET Nat
    <3> DEFINE f == [h \in ToSet(hits) |-> h.doc]
    <3>1. IsFiniteSet(ToSet(hits)) /\ ToSet(hits) \in SUBSET Finals
      BY <1>2, InRow
    <3>2. f = [h \in ToSet(hits) |-> f[h]] /\ Images(f, ToSet(hits)) = S
      BY DEF Images
    <3>3. S \in SUBSET Nat
      BY <3>1 DEF Finals
    <3> HIDE DEF f, S
    <3> QED BY <3>1, <3>2, <3>3, ImageFinite
  <2>2. docs = ByPlace(S, R)
    BY Zenon DEF InOrder, ByPlace
  <2>3. \A a, b \in S : << a, b >> \in R <=> a < b
    OBVIOUS
  <2> HIDE DEF R
  <2>4. docs \in Seq(S)
    <3> HIDE DEF S, docs
    <3>1. Decides(R, S)
      BY <2>1, <2>3 DEF Decides
    <3> QED BY <2>1, <2>2, <3>1, Placed DEF Lists
  <2>5. grown \in Grown(call)
    <3> HIDE DEF docs
    <3> QED BY <1>2, <1>3, <2>4, Followed
  <2>6. q = ByPlace(all, Q)
    BY Zenon DEF InOrder, ByPlace
  <2>7. \A a, b \in all : << a, b >> \in Q <=> Ahead(a, b)
    OBVIOUS
  <2> HIDE DEF grown, Q, q
  <2>8. /\ grown \in Seq(Finals) /\ (\A i, j \in 1 .. Len(grown) : grown[i].id = grown[j].id => i = j)
        /\ \A i \in 1 .. Len(grown) : \E s \in Sections(call) : s.id = grown[i].id /\ s.doc = grown[i].doc
        /\ \A i \in 1 .. Len(grown) : grown[i].doc \in Stale(call) => Led(call, grown[i].doc)
        /\ \A d : Cardinality(Of(grown, d)) <= call.query.cap
    BY <2>5 DEF Grown
  <2>9. IsFiniteSet(all) /\ all \in SUBSET Finals /\ \A x \in all : \E i \in 1 .. Len(grown) : grown[i] = x
    BY <2>8, InRow
  <2>10. \A a, b \in all : a.id = b.id => a = b
    BY <2>8, <2>9
  <2> HIDE DEF all
  <2>11. Decides(Q, all)
    <3>1. \A a \in all : a.rank \in Int /\ a.canonical \in BOOLEAN /\ a.id \in Nat
      BY <2>9 DEF Finals
    <3> HIDE DEF S, docs, limit, kept
    <3>2. \A a \in all : ~Ahead(a, a)
      BY <3>1
    <3>3. \A a, b \in all : a # b => Ahead(a, b) \/ Ahead(b, a)
      BY <2>10, <3>1
    <3>4. \A a, b, c \in all : Ahead(a, b) /\ Ahead(b, c) => Ahead(a, c)
      BY <3>1
    <3> HIDE DEF Ahead
    <3> QED BY <2>7, <3>2, <3>3, <3>4 DEF Decides
  <2> HIDE DEF Ahead
  <2>12. q \in Seq(all) /\ \A i, j \in 1 .. Len(q) : q[i] = q[j] => i = j
    BY <2>6, <2>9, <2>11, Placed DEF Lists
  <2>13. limit \in Nat
    BY DEF IsCall, IsQuery
  <2>14. /\ kept \in Seq(all) /\ Len(kept) <= limit /\ Len(kept) <= Len(q)
         /\ \A i \in 1 .. Len(kept) : kept[i] = q[i]
    BY <2>12, <2>13, FirstsOf
  <2> HIDE DEF kept
  <2>15. \A i, j \in 1 .. Len(kept) : kept[i] = kept[j] => i = j
    BY <2>12, <2>14
  <2>16. \A i \in 1 .. Len(kept) : kept[i] \in all
    BY <2>14
  <2>17. kept \in Seq(Finals)
    BY <2>9, <2>14
  <2>18. \A i \in 1 .. Len(kept) : \E j \in 1 .. Len(grown) : kept[i] = grown[j]
    BY <2>9, <2>16
  <2>19. \A d : Cardinality(Of(kept, d)) <= call.query.cap
    <3> SUFFICES ASSUME NEW d PROVE Cardinality(Of(kept, d)) <= call.query.cap
      OBVIOUS
    <3>1. Cardinality(Of(kept, d)) <= Cardinality(Of(grown, d))
      BY <2>8, <2>15, <2>17, <2>18, OfPart
    <3>2. Cardinality(Of(grown, d)) <= call.query.cap
      BY <2>8
    <3>3. /\ Cardinality(Of(kept, d)) \in Nat /\ Cardinality(Of(grown, d)) \in Nat
          /\ call.query.cap \in Nat
      BY <2>8, <2>17, OfFinite DEF IsCall, IsQuery
    <3> QED BY <3>1, <3>2, <3>3
  <2>20. \A i, j \in 1 .. Len(kept) : kept[i].id = kept[j].id => i = j
    BY <2>10, <2>15, <2>16
  <2>21. \A i \in 1 .. Len(kept) : \E s \in Sections(call) : s.id = kept[i].id /\ s.doc = kept[i].doc
    <3> HIDE DEF S, docs, limit
    <3> SUFFICES ASSUME NEW i \in 1 .. Len(kept)
                 PROVE  \E s \in Sections(call) : s.id = kept[i].id /\ s.doc = kept[i].doc
      OBVIOUS
    <3>1. PICK j \in 1 .. Len(grown) : kept[i] = grown[j]
      BY <2>18
    <3>2. PICK s \in Sections(call) : s.id = grown[j].id /\ s.doc = grown[j].doc
      BY <2>8
    <3> QED BY <3>1, <3>2
  <2>22. \A i \in 1 .. Len(kept) : kept[i].doc \in Stale(call) => Led(call, kept[i].doc)
    BY <2>8, <2>18
  <2> QED BY <1>3, <2>14, <2>17, <2>19, <2>20, <2>21, <2>22 DEF Grown
<1> HIDE DEF kept
<1> QED BY <1>1, <1>2, <1>3

-----------------------------------------------------------------------------
(* The stages that one property or another compares *)

(* Their places among the reads. *)
LEMMA Places ==
  /\ Place(<< "exact_terms", "candidates" >>) = 11 /\ Place(<< "exact_terms", "literals" >>) = 12
  /\ Place(<< "substring_fallback", "candidates" >>) = 15
  /\ Place(<< "substring_fallback", "literals" >>) = 16
  /\ Place(<< "media", "totals" >>) = 21 /\ Place(<< "media", "rows" >>) = 22
<1> DEFINE Only(read, n) == n \in DOMAIN Reads /\ \A k \in DOMAIN Reads : Reads[k] = read <=> k = n
<1>1. ASSUME NEW read, NEW n, Only(read, n) PROVE Place(read) = n
  BY <1>1, Zenon DEF Place
<1>2. DOMAIN Reads = 1 .. 22
  BY DEF Reads
<1>3. Only(<< "exact_terms", "candidates" >>, 11) /\ Only(<< "exact_terms", "literals" >>, 12)
  BY <1>2 DEF Reads
<1>4. Only(<< "substring_fallback", "candidates" >>, 15) /\ Only(<< "substring_fallback", "literals" >>, 16)
  BY <1>2 DEF Reads
<1>5. Only(<< "media", "totals" >>, 21) /\ Only(<< "media", "rows" >>, 22)
  BY <1>2 DEF Reads
<1> HIDE DEF Only
<1> QED BY <1>1, <1>3, <1>4, <1>5

(* Two stages in a row see different stores only when the commit is between them, or within the second. *)
LEMMA NextStage ==
  ASSUME NEW call, IsCall(call), NEW a, NEW b, Place(a) \in Nat, Place(b) = Place(a) + 1, NEW one
  PROVE  /\ Sees(call, a) # Sees(call, b) => call.edit.stage = Place(b)
         /\ Sees(call, a) # SeesOne(call, b, one) =>
              call.edit.stage = Place(b) /\ Sees(call, a) = call.before /\ SeesOne(call, b, one) = call.after
<1>1. call.edit.stage \in Nat
  BY DEF IsCall
<1> QED BY <1>1 DEF Sees, SeesOne

(* The statements on media. *)
LEMMA MediaPlaces ==
  ASSUME NEW call, IsCall(call)
  PROVE  Sees(call, << "media", "totals" >>) # Sees(call, << "media", "rows" >>) =>
           call.edit.stage = Place(<< "media", "rows" >>)
<1>1. Place(<< "media", "totals" >>) \in Nat /\ Place(<< "media", "rows" >>) = Place(<< "media", "totals" >>) + 1
  BY Places
<1> QED BY <1>1, NextStage

-----------------------------------------------------------------------------
(* Media *)

(* A sum is the last of the sums so far. *)
LEMMA SumSteps ==
  ASSUME NEW seq \in Seq(Int)
  PROVE  \E out \in [0 .. Len(seq) -> Int] : /\ out[0] = 0 /\ Sum(seq) = out[Len(seq)]
                                             /\ \A k \in 1 .. Len(seq) : out[k] = out[k - 1] + seq[k]
<1> DEFINE V == Int
           n == Len(seq)
<1>19. seq \in Seq(Int)
  OBVIOUS
<1>22a. Sum(seq) = FoldLeft(+, 0, seq)
  BY Zenon DEF Sum
<1>20. 0 \in V /\ \A x \in V, k \in 1 .. n : x + seq[k] \in V
  BY <1>19
<1> DEFINE step == [p \in V \X (1 .. n) |-> (p[1] + seq[p[2]])]
           Eq(f) == f = [T \in SUBSET (1 .. n) |-> IF T = {} THEN 0 ELSE (f[T \ {Max(T)}] + seq[Max(T)])]
           F == CHOOSE f : Eq(f)
<1>21. n \in Nat /\ DOMAIN seq = 1 .. n
  BY <1>19
<1>22. Sum(seq) = F[1 .. n]
  <2>1. Sum(seq) = (CHOOSE f : f = [T \in SUBSET DOMAIN seq |-> IF T = {} THEN 0 ELSE (f[T \ {Max(T)}] + seq[Max(T)])])[DOMAIN seq]
    BY <1>22a, Zenon DEF FoldLeft, MapThenFoldSet
  <2> QED BY <2>1, <1>21, Zenon
<1>23. step \in [V \X (1 .. n) -> V] /\ \A x \in V, k \in 1 .. n : step[<< x, k >>] = (x + seq[k])
  BY <1>20
<1> HIDE DEF step, V, n
<1>24. PICK f \in [SUBSET (1 .. n) -> V] : Recurs(f, 0, step, n)
  BY <1>20, <1>21, <1>23, SetRecursion
<1>25. Eq(f)
  <2>1. \A T \in SUBSET (1 .. n) : T # {} => f[T \ {Max(T)}] \in V /\ Max(T) \in 1 .. n
    BY <1>21, FirstNumbers
  <2>2. \A T \in SUBSET (1 .. n) : f[T] = IF T = {} THEN 0 ELSE (f[T \ {Max(T)}] + seq[Max(T)])
    BY <2>1, <1>23, <1>24 DEF Recurs
  <2> QED BY <2>2
<1>26. Eq(F)
  BY <1>25, Zenon
<1> HIDE DEF F
<1>27. F[1 .. 0] = 0 /\ \A k \in 1 .. n : F[1 .. k] = (F[1 .. k - 1] + seq[k])
  <2>1. \A T \in SUBSET (1 .. n) :
           F[T] = IF T = {} THEN 0 ELSE (F[T \ {Max(T)}] + seq[Max(T)])
    BY <1>26, Zenon
  <2> HIDE DEF Eq
  <2>2. F[1 .. 0] = 0
    BY <1>21, <2>1, FirstNumbers, Zenon
  <2>3. ASSUME NEW k \in 1 .. n PROVE F[1 .. k] = (F[1 .. k - 1] + seq[k])
    <3>1. 1 .. k \in SUBSET (1 .. n) /\ 1 .. k # {} /\ Max(1 .. k) = k /\ (1 .. k) \ {Max(1 .. k)} = 1 .. k - 1
      BY <1>21, FirstNumbers, Zenon
    <3>2. F[1 .. k] = (F[(1 .. k) \ {Max(1 .. k)}] + seq[Max(1 .. k)])
      BY <2>1, <3>1, Zenon
    <3> QED BY <3>1, <3>2
  <2> QED BY <2>2, <2>3
<1> HIDE DEF Eq
<1> DEFINE out == [k \in 0 .. n |-> F[1 .. k]]
<1>28. /\ out[0] = 0 /\ out[n] = F[1 .. n] /\ out = [k \in 0 .. n |-> out[k]]
       /\ \A k \in 1 .. n : out[k] = (out[k - 1] + seq[k])
  <2>1. 0 \in 0 .. n /\ n \in 0 .. n /\ \A k \in 1 .. n : k \in 0 .. n /\ k - 1 \in 0 .. n
    BY <1>21
  <2> QED BY <1>27, <2>1, Zenon
<1> HIDE DEF out
<1>29. \A k \in 0 .. n : out[k] \in V
  <2>1. out[0] \in V /\ \A k \in 1 .. n : out[k - 1] \in V => out[k] \in V
    BY <1>20, <1>28, Zenon
  <2> QED BY <1>21, <2>1, Closed
<1>30. out \in [0 .. n -> V]
  BY <1>28, <1>29
<1> QED BY <1>21, <1>22, <1>28, <1>30 DEF V, n

(* Whatever adds up the elements one by one is the sum. *)
LEMMA SumIs ==
  ASSUME NEW seq \in Seq(Int), NEW g \in [0 .. Len(seq) -> Int], g[0] = 0,
         \A k \in 1 .. Len(seq) : g[k] = g[k - 1] + seq[k]
  PROVE  Sum(seq) = g[Len(seq)]
<1>1. PICK out \in [0 .. Len(seq) -> Int] : /\ out[0] = 0 /\ Sum(seq) = out[Len(seq)]
                                            /\ \A k \in 1 .. Len(seq) : out[k] = out[k - 1] + seq[k]
  BY SumSteps
<1> DEFINE T == {k \in 0 .. Len(seq) : out[k] = g[k]}
<1>2. Len(seq) \in Nat /\ 0 \in T
  BY <1>1
<1>3. \A k \in 1 .. Len(seq) : k - 1 \in T => k \in T
  BY <1>1
<1> HIDE DEF T
<1>4. 0 .. Len(seq) \subseteq T
  BY <1>2, <1>3, Climb
<1> QED BY <1>1, <1>2, <1>4 DEF T

(* The sums of the first elements. *)
LEMMA SumsOfFirst ==
  ASSUME NEW seq \in Seq(Int)
  PROVE  \E out \in [0 .. Len(seq) -> Int] : /\ out[0] = 0
                                             /\ \A k \in 1 .. Len(seq) : out[k] = out[k - 1] + seq[k]
                                             /\ \A k \in 0 .. Len(seq) : Sum(SubSeq(seq, 1, k)) = out[k]
<1>1. PICK out \in [0 .. Len(seq) -> Int] : /\ out[0] = 0 /\ Sum(seq) = out[Len(seq)]
                                            /\ \A k \in 1 .. Len(seq) : out[k] = out[k - 1] + seq[k]
  BY SumSteps
<1>2. ASSUME NEW k \in 0 .. Len(seq) PROVE Sum(SubSeq(seq, 1, k)) = out[k]
  <2> DEFINE part == SubSeq(seq, 1, k)
             g == [i \in 0 .. k |-> out[i]]
  <2>1. part \in Seq(Int) /\ Len(part) = k /\ \A i \in 1 .. k : part[i] = seq[i]
    OBVIOUS
  <2>2. g \in [0 .. k -> Int] /\ \A i \in 0 .. k : g[i] = out[i]
    OBVIOUS
  <2>3. 0 \in 0 .. k /\ \A i \in 1 .. k : i \in 0 .. k /\ i - 1 \in 0 .. k /\ i \in 1 .. Len(seq)
    OBVIOUS
  <2> HIDE DEF part, g
  <2>4. g[0] = 0 /\ \A i \in 1 .. Len(part) : g[i] = g[i - 1] + part[i]
    BY <1>1, <2>1, <2>2, <2>3
  <2>5. Sum(part) = g[Len(part)]
    BY <2>1, <2>2, <2>4, SumIs
  <2>6. k \in 0 .. k
    OBVIOUS
  <2> QED BY <2>1, <2>2, <2>5, <2>6 DEF part
<1> QED BY <1>1, <1>2

(* What a limit lets through of a sum. *)
LEMMA LeastOf ==
  ASSUME NEW a \in Nat, NEW limit \in Nat
  PROVE  /\ Least(a, limit) \in Nat /\ Least(a, limit) <= a /\ (a = 0 => Least(a, limit) = 0)
         /\ limit > 0 => Least(a, limit) <= limit
  BY DEF Least

(* What it lets through of one more, never more than that: all of it if nothing is held back, *)
(* and nothing of it once something is.                                                       *)
Cut(a, b, c, limit) ==
    /\ Least(c, limit) - Least(a, limit) \in 0 .. b
    /\ Least(c, limit) - Least(a, limit) > 0 => Least(a, limit) = a
    /\ Least(c, limit) = c => Least(a, limit) = a /\ Least(c, limit) - Least(a, limit) = b

LEMMA LeastOfSum ==
  ASSUME NEW a \in Nat, NEW b \in Nat, NEW c \in Nat, NEW limit \in Nat, c = a + b
  PROVE  Cut(a, b, c, limit)
  BY DEF Least, Cut

(* Sums of numbers only grow. *)
LEMMA SumsGrow ==
  ASSUME NEW n \in Nat, NEW out \in [0 .. n -> Int], NEW part \in [1 .. n -> Nat], out[0] = 0,
         \A k \in 1 .. n : out[k] = out[k - 1] + part[k]
  PROVE  /\ \A k \in 0 .. n : out[k] \in Nat
         /\ \A i, j \in 0 .. n : i <= j => out[i] <= out[j]
<1>1. \A k \in 0 .. n : out[k] \in Nat
  <2>1. out[0] \in Nat /\ \A k \in 1 .. n : out[k - 1] \in Nat => out[k] \in Nat
    OBVIOUS
  <2> QED BY <2>1, Closed
<1>2. ASSUME NEW i \in 0 .. n PROVE \A j \in 0 .. n : i <= j => out[i] <= out[j]
  <2> DEFINE T == {j \in 0 .. n : i <= j => out[i] <= out[j]}
  <2>1. 0 \in T
    OBVIOUS
  <2>2. \A k \in 1 .. n : k - 1 \in T => k \in T
    BY <1>1
  <2> HIDE DEF T
  <2>3. 0 .. n \subseteq T
    BY <2>1, <2>2, Climb
  <2> QED BY <2>3 DEF T
<1> QED BY <1>1, <1>2

(* A section shows a number of media. *)
LEMMA MediaTyped ==
  ASSUME NEW store, IsStore(store), NEW id
  PROVE  MediaOf(store, id) \in Nat
<1> DEFINE sections == {s \in store.sections : s.id = id}
<1>1. MediaOf(store, id) = IF sections = {} THEN 0 ELSE (CHOOSE s \in sections : TRUE).media
  BY Zenon DEF MediaOf
<1>2. \A s \in sections : s.media \in Nat
  BY StoreFacts
<1> HIDE DEF sections
<1> QED BY <1>1, <1>2

(* The media added to the hits are within their limits and leave the rest of the hits alone. *)
LEMMA MediaHydrated ==
  ASSUME NEW call, IsCall(call), NEW hits \in Seq(Finals)
  PROVE  LET answer == HydrateMedia(call, hits) IN
         /\ answer \in Seq([id : Nat, doc : Nat, canonical : BOOLEAN, media : [total : Nat, shown : Nat]])
         /\ Len(answer) = Len(hits)
         /\ \A k \in 1 .. Len(hits) : /\ answer[k].id = hits[k].id /\ answer[k].doc = hits[k].doc
                                      /\ answer[k].canonical = hits[k].canonical
         /\ CurrentMedia(call, answer)
<1> DEFINE n == Len(hits)
           limits == call.query.media
           counted == Sees(call, << "media", "totals" >>)
           listed == Sees(call, << "media", "rows" >>)
           total == [k \in 1 .. n |-> MediaOf(counted, hits[k].id)]
           own == [k \in 1 .. n |-> MediaOf(listed, hits[k].id)]
           offered == [k \in 1 .. n |-> Least(own[k], limits.perResult)]
           upTo(k) == Least(Sum(SubSeq(offered, 1, k)), limits.total)
           shown == [k \in 1 .. n |-> IF limits.detail = "none" THEN 0 ELSE upTo(k) - upTo(k - 1)]
           answer == HydrateMedia(call, hits)
<1>1. n \in Nat /\ DOMAIN hits = 1 .. n /\ limits.perResult \in Nat /\ limits.total \in Nat
  BY DEF IsCall, IsQuery
<1>2. answer = [k \in 1 .. n |-> [id |-> hits[k].id, doc |-> hits[k].doc, canonical |-> hits[k].canonical,
                                  media |-> [total |-> total[k], shown |-> shown[k]]]]
  <2> DEFINE assets == SearchSectionMediaAssets(call, hits)
  <2>1. assets = [k \in DOMAIN hits |-> [total |-> total[k], shown |-> IF limits.detail = "none" THEN 0
                                                                     ELSE upTo(k) - upTo(k - 1)]]
    BY <1>1, Zenon DEF SearchSectionMediaAssets
  <2>2. \A k \in 1 .. n : assets[k] = [total |-> total[k], shown |-> shown[k]]
    BY <1>1, <2>1, Zenon
  <2>3. answer = [k \in DOMAIN hits |-> [id |-> hits[k].id, doc |-> hits[k].doc, canonical |-> hits[k].canonical,
                                         media |-> assets[k]]]
    BY Zenon DEF HydrateMedia
  <2> HIDE DEF assets, total, own, shown, answer
  <2> QED BY <1>1, <2>2, <2>3
<1>2a. /\ IsStore(counted) /\ IsStore(listed)
       /\ counted \in {call.before, call.after} /\ listed \in {call.before, call.after}
       /\ counted # listed => call.edit.stage = Place(<< "media", "rows" >>)
  BY ReadsAStore, MediaPlaces
<1> HIDE DEF counted, listed
<1>3. /\ own \in [1 .. n -> Nat] /\ total \in [1 .. n -> Nat]
      /\ \A k \in 1 .. n : own[k] = MediaOf(listed, hits[k].id) /\ total[k] = MediaOf(counted, hits[k].id)
  BY <1>2a, MediaTyped
<1>3a. \A k \in 1 .. n : hits[k].id \in Nat /\ hits[k].doc \in Nat /\ hits[k].canonical \in BOOLEAN
  <2>1. \A k \in 1 .. n : hits[k] \in Finals
    OBVIOUS
  <2> QED BY <2>1 DEF Finals
<1> HIDE DEF total, own, n, limits, answer
<1>4. offered \in [1 .. n -> Nat] /\ \A k \in 1 .. n : offered[k] = Least(own[k], limits.perResult)
  BY <1>1, <1>3, LeastOf
<1> HIDE DEF offered
<1>5. \A k \in 1 .. n : limits.perResult > 0 => offered[k] <= limits.perResult
  <2> SUFFICES ASSUME NEW k \in 1 .. n PROVE limits.perResult > 0 => offered[k] <= limits.perResult
    OBVIOUS
  <2>1. own[k] \in Nat /\ limits.perResult \in Nat /\ offered[k] = Least(own[k], limits.perResult)
    BY <1>1, <1>3, <1>4
  <2> QED BY <2>1, LeastOf
<1>6. offered \in Seq(Int) /\ Len(offered) = n
  BY <1>1, <1>4
<1>7. PICK out \in [0 .. n -> Int] : /\ out[0] = 0
                                     /\ \A k \in 1 .. n : out[k] = out[k - 1] + offered[k]
                                     /\ \A k \in 0 .. n : Sum(SubSeq(offered, 1, k)) = out[k]
  <2> HIDE DEF upTo, shown
  <2> QED BY <1>6, SumsOfFirst
<1>8. /\ \A k \in 0 .. n : out[k] \in Nat
      /\ \A i, j \in 0 .. n : i <= j => out[i] <= out[j]
  BY <1>1, <1>4, <1>7, SumsGrow
<1>9. \A k \in 0 .. n : upTo(k) = Least(out[k], limits.total)
  BY <1>7
<1> HIDE DEF upTo, shown
<1>10. /\ upTo(0) = 0 /\ \A k \in 0 .. n : upTo(k) \in Nat /\ (limits.total > 0 => upTo(k) <= limits.total)
  <2>1. 0 \in 0 .. n
    BY <1>1
  <2>2. upTo(0) = 0
    <3>1. out[0] \in Nat /\ limits.total \in Nat /\ out[0] = 0 /\ upTo(0) = Least(out[0], limits.total)
      BY <1>1, <1>7, <1>8, <1>9, <2>1
    <3> QED BY <3>1, LeastOf, Zenon
  <2> SUFFICES ASSUME NEW k \in 0 .. n
               PROVE  upTo(k) \in Nat /\ (limits.total > 0 => upTo(k) <= limits.total)
    BY <2>2
  <2>3. out[k] \in Nat /\ upTo(k) = Least(out[k], limits.total)
    BY <1>8, <1>9
  <2> QED BY <1>1, <2>3, LeastOf
<1>11. \A k \in 1 .. n : /\ upTo(k) - upTo(k - 1) \in 0 .. offered[k]
                         /\ upTo(k) - upTo(k - 1) > 0 => upTo(k - 1) = out[k - 1]
                         /\ upTo(k) = out[k] => upTo(k) - upTo(k - 1) = offered[k]
  <2> SUFFICES ASSUME NEW k \in 1 .. n
               PROVE  /\ upTo(k) - upTo(k - 1) \in 0 .. offered[k]
                      /\ upTo(k) - upTo(k - 1) > 0 => upTo(k - 1) = out[k - 1]
                      /\ upTo(k) = out[k] => upTo(k) - upTo(k - 1) = offered[k]
    OBVIOUS
  <2>0. k \in 0 .. n /\ k - 1 \in 0 .. n
    BY <1>1
  <2>1. /\ out[k - 1] \in Nat /\ offered[k] \in Nat /\ out[k] \in Nat
        /\ out[k] = out[k - 1] + offered[k]
    BY <1>4, <1>7, <1>8, <2>0
  <2>2. upTo(k) = Least(out[k], limits.total) /\ upTo(k - 1) = Least(out[k - 1], limits.total)
    BY <1>9, <2>0, <2>1
  <2>3. limits.total \in Nat
    BY <1>1
  <2>4. Cut(out[k - 1], offered[k], out[k], limits.total)
    BY <2>1, <2>3, LeastOfSum, Zenon
  <2> QED BY <2>2, <2>4 DEF Cut
<1>12. /\ shown \in [1 .. n -> Nat]
       /\ \A k \in 1 .. n : shown[k] <= offered[k]
       /\ limits.detail # "none" => \A k \in 1 .. n : shown[k] = upTo(k) - upTo(k - 1)
       /\ limits.detail = "none" => \A k \in 1 .. n : shown[k] = 0
  BY <1>4, <1>11 DEF shown
<1>13. shown \in Seq(Int) /\ Len(shown) = n
  BY <1>1, <1>12
<1>14. limits.total > 0 => Sum(shown) <= limits.total
  <2> DEFINE g == [k \in 0 .. n |-> IF limits.detail = "none" THEN 0 ELSE upTo(k)]
  <2>1. g \in [0 .. n -> Int] /\ g[0] = 0 /\ g[n] \in {0, upTo(n)}
    BY <1>1, <1>10
  <2>2. \A k \in 1 .. n : k \in 0 .. n /\ k - 1 \in 0 .. n
    BY <1>1
  <2>3. \A k \in 1 .. n : g[k] = g[k - 1] + shown[k]
    <3> SUFFICES ASSUME NEW k \in 1 .. n PROVE g[k] = g[k - 1] + shown[k]
      OBVIOUS
    <3>1. upTo(k) \in Nat /\ upTo(k - 1) \in Nat
      BY <1>10, <2>2
    <3>2. /\ g[k] = IF limits.detail = "none" THEN 0 ELSE upTo(k)
          /\ g[k - 1] = IF limits.detail = "none" THEN 0 ELSE upTo(k - 1)
      BY <2>2
    <3> HIDE DEF g
    <3> QED BY <1>12, <3>1, <3>2
  <2> HIDE DEF g
  <2>4. Sum(shown) = g[n]
    BY <1>13, <2>1, <2>3, SumIs
  <2>5. n \in 0 .. n
    BY <1>1
  <2> QED BY <1>1, <1>10, <2>1, <2>4, <2>5
<1>15. limits.perResult > 0 => \A k \in 1 .. n : shown[k] <= limits.perResult
  BY <1>1, <1>4, <1>5, <1>12
<1>16. ASSUME limits.detail # "none", NEW i \in 1 .. n, NEW j \in 1 .. n, i < j, shown[j] > 0
       PROVE  shown[i] = Least(own[i], limits.perResult)
  <2>1. i \in 0 .. n /\ j - 1 \in 0 .. n /\ i <= j - 1
    BY <1>1, <1>16
  <2>2. upTo(j - 1) = out[j - 1]
    BY <1>11, <1>12, <1>16
  <2>3. out[i] <= out[j - 1] /\ out[i] \in Nat /\ out[j - 1] \in Nat
    BY <1>8, <2>1
  <2>4. upTo(i) = out[i]
    <3>1. out[j - 1] = out[i] + (out[j - 1] - out[i]) /\ out[j - 1] - out[i] \in Nat
      BY <2>3
    <3>2. Least(out[i], limits.total) = out[i]
      <4>1. Least(out[j - 1], limits.total) = out[j - 1]
        BY <1>9, <2>1, <2>2
      <4>2. limits.total \in Nat
        BY <1>1
      <4> DEFINE b == out[j - 1] - out[i]
      <4> HIDE DEF b
      <4>3. b \in Nat /\ out[j - 1] = out[i] + b
        BY <3>1 DEF b
      <4>4. Cut(out[i], b, out[j - 1], limits.total)
        BY <2>3, <4>2, <4>3, LeastOfSum, Zenon
      <4> QED BY <4>1, <4>4 DEF Cut
    <3> QED BY <1>9, <2>1, <3>2
  <2> QED BY <1>4, <1>11, <1>12, <1>16, <2>4
<1>17. /\ DOMAIN answer = 1 .. n
       /\ \A k \in 1 .. n : /\ answer[k].id = hits[k].id /\ answer[k].doc = hits[k].doc
                            /\ answer[k].canonical = hits[k].canonical
                            /\ answer[k].media.total = total[k] /\ answer[k].media.shown = shown[k]
  BY <1>2
<1>18. answer \in Seq([id : Nat, doc : Nat, canonical : BOOLEAN, media : [total : Nat, shown : Nat]])
  BY <1>1, <1>2, <1>3, <1>3a, <1>12
<1>19. Len(answer) = n
  BY <1>1, <1>17, <1>18
<1>20. [k \in DOMAIN answer |-> answer[k].media.shown] = shown
  BY <1>12, <1>17
<1>20a. \A k \in 1 .. n : shown[k] <= own[k]
  <2> SUFFICES ASSUME NEW k \in 1 .. n PROVE shown[k] <= own[k]
    OBVIOUS
  <2>1. Least(own[k], limits.perResult) <= own[k]
    BY <1>1, <1>3, LeastOf
  <2>2. shown[k] \in Nat /\ offered[k] \in Nat /\ own[k] \in Nat
        /\ shown[k] <= offered[k] /\ offered[k] = Least(own[k], limits.perResult)
    BY <1>3, <1>4, <1>12
  <2> QED BY <2>1, <2>2
<1>21. CurrentMedia(call, answer)
  <2> DEFINE own2(st) ==
        /\ \A k \in DOMAIN answer : shown[k] <= MediaOf(st, answer[k].id)
        /\ limits.detail # "none" =>
             \A i, j \in DOMAIN answer : i < j /\ shown[j] > 0 =>
               shown[i] = Least(MediaOf(st, answer[i].id), limits.perResult)
  <2>1. \A k \in DOMAIN answer : answer[k].media.total = MediaOf(counted, answer[k].id)
    BY <1>3, <1>17
  <2>2. \A k \in DOMAIN answer : MediaOf(listed, answer[k].id) = own[k]
    BY <1>3, <1>17
  <2>3. own2(listed)
    BY <1>16, <1>17, <1>20a, <2>2
  <2>4. CurrentMedia(call, answer) <=>
          /\ limits.perResult > 0 => \A k \in DOMAIN answer : shown[k] <= limits.perResult
          /\ limits.total > 0 => Sum(shown) <= limits.total
          /\ \E c, l \in {call.before, call.after} :
               /\ c # l => call.edit.stage = Place(<< "media", "rows" >>)
               /\ \A k \in DOMAIN answer : answer[k].media.total = MediaOf(c, answer[k].id)
               /\ own2(l)
    BY <1>20, Zenon DEF CurrentMedia, limits
  <2>5. limits.perResult > 0 => \A k \in DOMAIN answer : shown[k] <= limits.perResult
    BY <1>15, <1>17
  <2> HIDE DEF own2
  <2> QED BY <1>2a, <1>14, <2>1, <2>3, <2>4, <2>5, Zenon
<1> QED BY <1>17, <1>18, <1>19, <1>21 DEF answer, n

-----------------------------------------------------------------------------
(* Agreement of the lanes *)

(* More times as much is no less. *)
LEMMA TimesGrow ==
  ASSUME NEW a \in Nat, NEW b \in Nat, NEW c \in Nat, a <= b
  PROVE  a * c \in Nat /\ b * c \in Nat /\ a * c <= b * c
<1> DEFINE d == b - a
<1>1. d \in Nat /\ b = a + d
  OBVIOUS
<1> HIDE DEF d
<1>2. b * c = a * c + d * c /\ a * c \in Nat /\ d * c \in Nat
  BY <1>1
<1> QED BY <1>2

(* A quotient between bounds. *)
LEMMA QuotientBounds ==
  ASSUME NEW a \in Nat, NEW d \in Nat \ {0}, NEW q \in Nat
  PROVE  /\ d * q <= a => q <= a \div d
         /\ a <= d * q => a \div d <= q
<1> DEFINE r == a \div d
<1>1. r \in Nat /\ d * r <= a /\ a < d * r + d
  BY Quotient
<1> HIDE DEF r
<1>2. ASSUME d * q <= a, ~(q <= r) PROVE FALSE
  <2>1. (r + 1) * d <= q * d
    BY <1>1, <1>2, TimesGrow
  <2>2. (r + 1) * d = d * r + d /\ q * d = d * q /\ d * r \in Nat /\ d * q \in Nat
    BY <1>1
  <2> QED BY <1>1, <1>2, <2>1, <2>2
<1>3. ASSUME a <= d * q, ~(r <= q) PROVE FALSE
  <2>1. (q + 1) * d <= r * d
    BY <1>1, <1>3, TimesGrow
  <2>2. (q + 1) * d = d * q + d /\ r * d = d * r /\ d * r \in Nat /\ d * q \in Nat
    BY <1>1
  <2> QED BY <1>1, <1>3, <2>1, <2>2
<1> QED BY <1>2, <1>3 DEF r

\* The shares of the last of the ranks that count, and of the first.
LastShare == Scale \div (RRFK + (RRFK + 1))
FirstShare == Scale \div (RRFK + 1)

(* Two of the last are more than one of the first. *)
LEMMA SharesTyped ==
  /\ LastShare \in Nat /\ FirstShare \in Nat /\ 2 * LastShare > FirstShare
  /\ (RRFK + (RRFK + 1)) * LastShare = Scale /\ (RRFK + 1) * FirstShare = Scale
<1> DEFINE a == RRFK + (RRFK + 1)
           b == RRFK + 1
<1>1. a \in Nat \ {0} /\ b \in Nat \ {0} /\ Scale \in Nat \ {0} /\ a + 1 = 2 * b
  BY ScaleAssumption
<1>2. Scale % a = 0 /\ Scale % b = 0
  <2>1. 1 \in 1 .. RRFK + 1 /\ RRFK + 1 \in 1 .. RRFK + 1
    BY ScaleAssumption
  <2> QED BY <2>1, ScaleAssumption
<1> HIDE DEF a, b
<1>3. \A n \in Nat, d \in Nat \ {0} : n % d = 0 => n \div d \in Nat /\ d * (n \div d) = n
  OBVIOUS
<1> DEFINE u == Scale \div a
           v == Scale \div b
<1>4. u \in Nat /\ v \in Nat /\ a * u = Scale /\ b * v = Scale
  BY <1>1, <1>2, <1>3
<1> HIDE DEF u, v
<1>5. 2 * u > v
  <2> SUFFICES ASSUME 2 * u <= v PROVE FALSE
    BY <1>4
  <2>1. (2 * u) * b <= v * b
    BY <1>1, <1>4, TimesGrow
  <2>2. (2 * u) * b = u * (2 * b) /\ u * (2 * b) = u * (a + 1) /\ u * (a + 1) = a * u + u /\ v * b = b * v
    BY <1>1, <1>4
  <2>3. u = 0
    BY <1>1, <1>4, <2>1, <2>2
  <2>4. a * 0 = 0
    BY <1>1
  <2> QED BY <1>1, <1>4, <2>3, <2>4
<1> QED BY <1>4, <1>5 DEF LastShare, FirstShare, u, v, a, b

(* The share of a section with balanced weights. *)
LEMMA ShareBounds ==
  ASSUME NEW H, NEW q \in Seq(H), \A i, j \in 1 .. Len(q) : q[i].id = q[j].id => i = j, NEW id
  PROVE  /\ Share(q, 5, id) \in Nat /\ Share(q, 5, id) <= 5 * FirstShare
         /\ \A k \in 1 .. Len(q) : k <= RRFK + 1 /\ q[k].id = id => Share(q, 5, id) >= 5 * LastShare
         /\ (\A k \in 1 .. Len(q) : q[k].id # id) => Share(q, 5, id) = 0
<1> DEFINE u == LastShare
           v == FirstShare
           share == Share(q, 5, id)
<1>1. /\ share \in Nat
      /\ (\A k \in 1 .. Len(q) : q[k].id # id) => share = 0
      /\ \A k \in 1 .. Len(q) : q[k].id = id => share = (5 * Scale) \div (RRFK + k)
  BY ShareOfRank
<1>2. /\ u \in Nat /\ v \in Nat /\ (RRFK + (RRFK + 1)) * u = Scale /\ (RRFK + 1) * v = Scale
      /\ Scale \in Nat /\ RRFK \in Nat /\ 5 * Scale \in Nat /\ 5 * v \in Nat /\ 5 * u \in Nat
  BY SharesTyped, ScaleAssumption
<1> HIDE DEF u, v, share
<1>3. ASSUME NEW k \in 1 .. Len(q), q[k].id = id PROVE share <= 5 * v
  <2>1. RRFK + k \in Nat \ {0} /\ RRFK + 1 \in Nat /\ RRFK + 1 <= RRFK + k
    BY <1>2
  <2>2. (RRFK + 1) * (5 * v) <= (RRFK + k) * (5 * v)
    BY <1>2, <2>1, TimesGrow
  <2>3. (RRFK + 1) * (5 * v) = 5 * Scale
    <3> DEFINE a == RRFK + 1
    <3>1. a \in Nat /\ a * v = Scale
      BY <1>2
    <3> HIDE DEF a
    <3>2. a * (5 * v) = 5 * (a * v)
      BY <1>2, <3>1
    <3> QED BY <3>1, <3>2 DEF a
  <2>4. (5 * Scale) \div (RRFK + k) <= 5 * v
    BY <1>2, <2>1, <2>2, <2>3, QuotientBounds
  <2> QED BY <1>1, <1>3, <2>4
<1>4. ASSUME NEW k \in 1 .. Len(q), k <= RRFK + 1, q[k].id = id PROVE share >= 5 * u
  <2>1. RRFK + k \in Nat \ {0} /\ RRFK + (RRFK + 1) \in Nat /\ RRFK + k <= RRFK + (RRFK + 1)
    BY <1>2, <1>4
  <2>2. (RRFK + k) * (5 * u) <= (RRFK + (RRFK + 1)) * (5 * u)
    BY <1>2, <2>1, TimesGrow
  <2>3. (RRFK + (RRFK + 1)) * (5 * u) = 5 * Scale
    <3> DEFINE a == RRFK + (RRFK + 1)
    <3>1. a \in Nat /\ a * u = Scale
      BY <1>2
    <3> HIDE DEF a
    <3>2. a * (5 * u) = 5 * (a * u)
      BY <1>2, <3>1
    <3> QED BY <3>1, <3>2 DEF a
  <2>4. 5 * u <= (5 * Scale) \div (RRFK + k)
    BY <1>2, <2>1, <2>2, <2>3, QuotientBounds
  <2> QED BY <1>1, <1>2, <1>4, <2>4
<1>5. share <= 5 * v
  <2>1. CASE \A k \in 1 .. Len(q) : q[k].id # id
    BY <1>1, <1>2, <2>1
  <2>2. CASE \E k \in 1 .. Len(q) : q[k].id = id
    BY <1>3, <2>2
  <2> QED BY <2>1, <2>2
<1> QED BY <1>1, <1>4, <1>5 DEF share, u, v

(* With balanced weights what both lanes have among their first goes before what one has. *)
LEMMA AgreementRanks ==
  ASSUME NEW call, IsCall(call), call.query.route = "general", call.query.vector,
         NEW T \in Rankings(call, TextHit), NEW W \in Rankings(call, VectorHits),
         NEW a \in ToSet(T) \cup ToSet(W), NEW b \in ToSet(T) \cup ToSet(W),
         \E k \in 1 .. Len(T) : k <= RRFK + 1 /\ T[k].id = a.id,
         \E k \in 1 .. Len(W) : k <= RRFK + 1 /\ W[k].id = a.id,
         (\A k \in 1 .. Len(T) : T[k].id # b.id) \/ (\A k \in 1 .. Len(W) : W[k].id # b.id),
         ~Entry(call, T, W, b.id).canonical
  PROVE  Entry(call, T, W, a.id).rank > Entry(call, T, W, b.id).rank
<1> DEFINE rrf(id) == Share(T, 5, id) + Share(W, 5, id)
           th(id) == ById(T, id)
           vh(id) == ById(W, id)
           base(id) == CHOOSE h \in IF th(id) # {} THEN th(id) ELSE vh(id) : TRUE
           u == LastShare
           v == FirstShare
<1>1. T \in Seq(TextHit) /\ \A i, j \in 1 .. Len(T) : T[i].id = T[j].id => i = j
  BY DEF Rankings
<1>2. W \in Seq(VectorHits) /\ \A i, j \in 1 .. Len(W) : W[i].id = W[j].id => i = j
  BY DEF Rankings
<1>3. \A id : /\ Entry(call, T, W, id).rank = MultiplierCalibration(rrf(id), th(id))
              /\ Entry(call, T, W, id).canonical = base(id).canonical
  <2> SUFFICES ASSUME NEW id
               PROVE  /\ Entry(call, T, W, id).rank = MultiplierCalibration(rrf(id), th(id))
                      /\ Entry(call, T, W, id).canonical = base(id).canonical
    OBVIOUS
  <2> DEFINE r == WeightedRRFFusion(T, W, RouteIntent(call.query), id)
  <2>1. Entry(call, T, W, id) =
          [id |-> id, doc |-> base(id).doc, canonical |-> base(id).canonical,
           evidence |-> Cardinality(UNION {h.kinds : h \in th(id)}) + Cardinality(vh(id)),
           rank |-> MultiplierCalibration(r, th(id))]
    BY Zenon DEF Entry
  <2>2. RouteIntent(call.query).text = 5 /\ RouteIntent(call.query).vector = 5
    BY WeightsTyped DEF IsCall
  <2>3. r = rrf(id)
    BY <2>2 DEF WeightedRRFFusion
  <2> HIDE DEF r, rrf, base, th, vh
  <2> QED BY <2>1, <2>3
<1>4. /\ Share(T, 5, a.id) \in Nat /\ Share(T, 5, a.id) >= 5 * u
      /\ Share(T, 5, b.id) \in Nat /\ Share(T, 5, b.id) <= 5 * v
      /\ (\A k \in 1 .. Len(T) : T[k].id # b.id) => Share(T, 5, b.id) = 0
  BY <1>1, ShareBounds
<1>5. /\ Share(W, 5, a.id) \in Nat /\ Share(W, 5, a.id) >= 5 * u
      /\ Share(W, 5, b.id) \in Nat /\ Share(W, 5, b.id) <= 5 * v
      /\ (\A k \in 1 .. Len(W) : W[k].id # b.id) => Share(W, 5, b.id) = 0
  BY <1>2, ShareBounds
<1>6. u \in Nat /\ v \in Nat /\ 2 * u > v
  BY SharesTyped
<1>7. rrf(a.id) \in Nat /\ rrf(b.id) \in Nat /\ rrf(a.id) >= 10 * u /\ rrf(b.id) <= 5 * v
  <2> DEFINE ta == Share(T, 5, a.id)
             tb == Share(T, 5, b.id)
             wa == Share(W, 5, a.id)
             wb == Share(W, 5, b.id)
  <2>1. rrf(a.id) = ta + wa /\ rrf(b.id) = tb + wb
    OBVIOUS
  <2>2. tb = 0 \/ wb = 0
    BY <1>4, <1>5
  <2>3. ta \in Nat /\ ta >= 5 * u /\ wa \in Nat /\ wa >= 5 * u /\ tb \in Nat /\ tb <= 5 * v
        /\ wb \in Nat /\ wb <= 5 * v
    BY <1>4, <1>5
  <2> HIDE DEF u, v, ta, tb, wa, wb, rrf
  <2> QED BY <1>6, <2>1, <2>2, <2>3
<1> HIDE DEF u, v, rrf
<1>8. Entry(call, T, W, a.id).rank \in {20 * rrf(a.id), 21 * rrf(a.id)}
  <2> HIDE DEF th, base
  <2> QED BY <1>3 DEF MultiplierCalibration
<1>9. ~\E h \in th(b.id) : h.canonical
  <2> SUFFICES ASSUME NEW h \in th(b.id), h.canonical PROVE FALSE
    OBVIOUS
  <2>1. \A g \in th(b.id) : g = h
    <3> SUFFICES ASSUME NEW g \in th(b.id) PROVE g = h
      OBVIOUS
    <3>1. g \in ToSet(T) /\ h \in ToSet(T) /\ g.id = b.id /\ h.id = b.id
      BY DEF ById
    <3>2. PICK i \in 1 .. Len(T) : g = T[i]
      BY <1>1, <3>1, InRow
    <3>3. PICK j \in 1 .. Len(T) : h = T[j]
      BY <1>1, <3>1, InRow
    <3> QED BY <1>1, <3>1, <3>2, <3>3
  <2> HIDE DEF th
  <2>2. base(b.id) \in th(b.id)
    BY <2>1
  <2>3. base(b.id).canonical
    BY <2>1, <2>2
  <2> QED BY <1>3, <2>3
<1>10. Entry(call, T, W, b.id).rank = 20 * rrf(b.id)
  <2> HIDE DEF th, base
  <2> QED BY <1>3, <1>9 DEF MultiplierCalibration
<1> QED BY <1>6, <1>7, <1>8, <1>10

\* Both lanes have it among their first; only one has it.
OfBoth(T, W, id) ==
    /\ \E k \in 1 .. Len(T) : k <= RRFK + 1 /\ T[k].id = id
    /\ \E k \in 1 .. Len(W) : k <= RRFK + 1 /\ W[k].id = id
OfOne(T, W, id) == (\A k \in 1 .. Len(T) : T[k].id # id) \/ (\A k \in 1 .. Len(W) : W[k].id # id)

(* Among the hits of FinalHits: the order that AgreementWins asks for. *)
LEMMA AgreementOrder ==
  ASSUME NEW call, IsCall(call), call.query.route = "general", call.query.vector,
         NEW T \in Rankings(call, TextHit), NEW W \in Rankings(call, VectorHits),
         NEW hits \in FinalHits(call, T, W), NEW i \in 1 .. Len(hits), NEW j \in 1 .. Len(hits),
         OfBoth(T, W, hits[i].id), OfOne(T, W, hits[j].id), ~hits[j].canonical
  PROVE  i < j
<1>1. /\ hits \in Fused(call) /\ Ranked(hits)
      /\ \A k \in 1 .. Len(hits) : \E h \in ToSet(T) \cup ToSet(W) : hits[k] = Entry(call, T, W, h.id)
  BY FinalHitsTyped
<1>2. PICK a \in ToSet(T) \cup ToSet(W) : hits[i] = Entry(call, T, W, a.id)
  BY <1>1
<1>3. PICK b \in ToSet(T) \cup ToSet(W) : hits[j] = Entry(call, T, W, b.id)
  BY <1>1
<1>4. hits[i].id = a.id /\ hits[j].id = b.id
  BY <1>2, <1>3, EntryTyped
<1>5. hits[i].rank > hits[j].rank
  <2>1. \E k \in 1 .. Len(T) : k <= RRFK + 1 /\ T[k].id = a.id
    BY <1>4 DEF OfBoth, OfOne
  <2>2. \E k \in 1 .. Len(W) : k <= RRFK + 1 /\ W[k].id = a.id
    BY <1>4 DEF OfBoth, OfOne
  <2>3. (\A k \in 1 .. Len(T) : T[k].id # b.id) \/ (\A k \in 1 .. Len(W) : W[k].id # b.id)
    BY <1>4 DEF OfBoth, OfOne
  <2>4. ~Entry(call, T, W, b.id).canonical
    BY <1>3
  <2>5. Entry(call, T, W, a.id).rank > Entry(call, T, W, b.id).rank
    BY <2>1, <2>2, <2>3, <2>4, AgreementRanks
  <2> QED BY <1>2, <1>3, <2>5
<1>6. hits[i].rank \in Int /\ hits[j].rank \in Int
  <2>1. hits[i] \in Finals /\ hits[j] \in Finals
    BY <1>1 DEF Fused, Rankings
  <2> QED BY <2>1 DEF Finals
<1>7. ~(j < i)
  BY <1>1, <1>5 DEF Ranked
<1>8. i # j
  BY <1>5, <1>6
<1> QED BY <1>7, <1>8

-----------------------------------------------------------------------------
(* Searches that fail *)

(* Why a search may fail. *)
Excused(call) ==
    LET known(s) == \E r \in call.after.sections : r.id = s.id /\ r.doc \notin call.after.stale
    IN \/ /\ call.edit.stage \in {Place(<< "exact_terms", "literals" >>),
                                  Place(<< "substring_fallback", "literals" >>)}
          /\ \E s \in call.before.sections : \A r \in call.after.sections : r.id # s.id
       \/ \E s \in call.before.sections \cup call.after.sections :
            s.entity # "none" /\ s.stored /\ (s.doc \in call.before.stale \/ ~known(s))

(* A failing search read a stored entity whose section is gone or stale, or a candidate of a *)
(* literal that went before its row was read.                                                *)
LEMMA FailuresExcused ==
  ASSUME NEW call, IsCall(call), TextLaneFails(call)
  PROVE  Excused(call)
<1>1. CASE \E mode \in {"exact", "normalized"} :
             \E id \in StoredEntityMatches(call, mode) : EntityRow(call, mode, id) = {}
  <2>0. PICK mode \in {"exact", "normalized"} :
          \E id \in StoredEntityMatches(call, mode) : EntityRow(call, mode, id) = {}
    BY <1>1
  <2>1. PICK id \in StoredEntityMatches(call, mode) : EntityRow(call, mode, id) = {}
    BY <2>0
  <2> DEFINE read == << mode, "entities" >>
             L == SeesOne(call, read, << "listed", id >>)
             R == SeesOne(call, read, << "row", id >>)
  <2>2. PICK s \in L.sections : s.id = id /\ s.stored /\ s.entity = mode
    BY DEF StoredEntityMatches
  <2>3. \A r \in R.sections : r.id = id => r.doc \in R.stale
    BY <2>1 DEF EntityRow
  <2>4. s \in Sections(call) /\ s.entity # "none"
    BY <2>2, OneReadsAStore
  <2>5. L \in {call.before, call.after} /\ R \in {call.before, call.after}
    BY OneReadsAStore
  <2>6. R = call.after \/ L = call.before
    <3>1. << "row", id >> \in call.edit.early => << "listed", id >> \in call.edit.early
      BY <2>2, <2>4 DEF IsCall
    <3> QED BY <3>1, Zenon DEF SeesOne, Sees
  <2> HIDE DEF L, R
  <2>7. CASE R = call.after
    <3>1. ~\E r \in call.after.sections : r.id = s.id /\ r.doc \notin call.after.stale
      BY <2>2, <2>3, <2>7
    <3> QED BY <2>2, <2>4, <3>1 DEF Excused, Sections
  <2>8. CASE R = call.before /\ L = call.before
    <3>1. s.doc \in call.before.stale
      BY <2>2, <2>3, <2>8
    <3> QED BY <2>2, <2>4, <3>1 DEF Excused, Sections
  <2> QED BY <2>5, <2>6, <2>7, <2>8
<1>2. CASE \E kind \in {"exact_terms", "substring_fallback"} :
             \E s \in LookedUp(call, kind) : LiteralRow(call, kind, s.id) = {}
  <2>0. PICK kind \in {"exact_terms", "substring_fallback"} :
          \E s \in LookedUp(call, kind) : LiteralRow(call, kind, s.id) = {}
    BY <1>2
  <2>1. PICK s \in LookedUp(call, kind) : LiteralRow(call, kind, s.id) = {}
    BY <2>0
  <2> DEFINE C == Sees(call, << kind, "candidates" >>)
             R == SeesOne(call, << kind, "literals" >>, << "text", s.id >>)
  <2>2. kind \in Kinds
    BY DEF Kinds
  <2>3. s \in C.sections
    <3>1. s \in ToSet(LiteralCandidates(call, kind)) /\ 2 * Wanted(call, kind) \in Nat
      BY <2>1, <2>2, LookedUpFound
    <3> QED BY <2>2, <3>1, FoundCurrent DEF LiteralCandidates
  <2>4. \A r \in R.sections : r.id # s.id
    BY <2>1 DEF LiteralRow
  <2>5. C # R
    BY <2>3, <2>4
  <2>6. /\ Place(<< kind, "candidates" >>) \in Nat
        /\ Place(<< kind, "literals" >>) = Place(<< kind, "candidates" >>) + 1
    BY Places
  <2>7. call.edit.stage = Place(<< kind, "literals" >>) /\ C = call.before /\ R = call.after
    BY <2>5, <2>6, NextStage
  <2>8. s \in call.before.sections /\ \A r \in call.after.sections : r.id # s.id
    BY <2>3, <2>4, <2>7
  <2>9. call.edit.stage \in {Place(<< "exact_terms", "literals" >>), Place(<< "substring_fallback", "literals" >>)}
    BY <2>7
  <2> QED BY <2>8, <2>9, Zenon DEF Excused
<1> QED BY <1>1, <1>2 DEF TextLaneFails

-----------------------------------------------------------------------------
(* Answers *)

(* The lesser of two numbers. *)
LEMMA LesserOf ==
  ASSUME NEW n \in Nat, NEW m \in Nat
  PROVE  Min({n, m}) \in Nat /\ Min({n, m}) <= n /\ Min({n, m}) <= m /\ Min({m, m}) = m
<1>1. \A a, b \in Nat : a <= b => Min({a, b}) = a /\ Min({b, a}) = a
  BY DEF Min
<1>2. n <= m \/ m <= n
  OBVIOUS
<1> QED BY <1>1, <1>2

(* The hits of an answer: within limit and cap, current. *)
Within(call, hits) ==
    /\ Len(hits) <= call.query.limit
    /\ \A i, j \in DOMAIN hits : i # j => hits[i].id # hits[j].id
    /\ \A k \in DOMAIN hits : Cardinality(Of(hits, hits[k].doc)) <= call.query.cap
    /\ \A k \in DOMAIN hits : \E s \in call.before.sections \cup call.after.sections : s.id = hits[k].id
    /\ \A k \in DOMAIN hits : hits[k].doc \in call.before.stale \cap call.after.stale =>
         call.query.relations /\ \E r \in ToSet(call.before.related \o call.after.related) :
                                    hits[k].doc \in {r.from, r.to}

(* Each answer of a search is what a search promises. *)
LEMMA AnswersCurrent ==
  ASSUME NEW call, IsCall(call), NEW answer \in SearchSections(call)
  PROVE  SearchAnswers(call, answer) /\ CurrentHits(call, answer) /\ AgreementWins(call, answer)
<1> DEFINE T == TextRanked(call)
           W == VectorLane(call)
           failed == [ok |-> FALSE, hits |-> << >>]
           made(hits) == HydrateMedia(call, ExpandWithRelations(call, hits))
<1>1. \/ TextLaneFails(call) /\ answer = failed
      \/ \E hits \in FinalHits(call, T, W) : answer = [ok |-> TRUE, hits |-> made(hits)]
  BY Zenon DEF SearchSections
<1> HIDE DEF T, W, failed, made
<1>2. CASE TextLaneFails(call) /\ answer = failed
  <2>1. answer.ok = FALSE /\ answer.hits = << >> /\ DOMAIN << >> = {} /\ Len(<< >>) = 0
    BY <1>2 DEF failed
  <2>2. SearchAnswers(call, answer)
    BY <1>2, FailuresExcused, Zenon DEF SearchAnswers, Excused
  <2>3. AgreementWins(call, answer)
    BY <2>1 DEF AgreementWins
  <2>4. CurrentHits(call, answer)
    <3>1. Sum(<< >>) = 0
      <4>1. << >> \in Seq(Int) /\ Len(<< >>) = 0
        OBVIOUS
      <4>2. PICK out \in [0 .. 0 -> Int] : out[0] = 0 /\ Sum(<< >>) = out[0]
        BY <4>1, SumSteps
      <4> QED BY <4>2
    <3>2. [k \in DOMAIN << >> |-> << >>[k].media.shown] = << >>
      OBVIOUS
    <3>3. CurrentMedia(call, << >>)
      BY <2>1, <3>1, <3>2 DEF CurrentMedia, IsCall, IsQuery
    <3> QED BY <2>1, <3>3 DEF CurrentHits, IsCall, IsQuery
  <2> QED BY <2>2, <2>3, <2>4
<1>3. ASSUME NEW hits \in FinalHits(call, T, W), answer = [ok |-> TRUE, hits |-> made(hits)]
      PROVE  SearchAnswers(call, answer) /\ CurrentHits(call, answer) /\ AgreementWins(call, answer)
  <2> DEFINE grown == ExpandWithRelations(call, hits)
             out == made(hits)
  <2>1. T \in Rankings(call, TextHit) /\ W \in Rankings(call, VectorHits)
    BY TextRankedTyped, VectorLaneTyped DEF T, W
  <2>2. hits \in Fused(call)
    BY <2>1, FinalHitsTyped
  <2>3. grown \in Grown(call) /\ (~call.query.relations => grown = hits)
    BY <2>2, Expanded
  <2>4. out = HydrateMedia(call, grown)
    BY DEF made
  <2> HIDE DEF grown, out
  <2>5. /\ grown \in Seq(Finals) /\ (\A i, j \in 1 .. Len(grown) : grown[i].id = grown[j].id => i = j)
        /\ \A i \in 1 .. Len(grown) : \E s \in Sections(call) : s.id = grown[i].id /\ s.doc = grown[i].doc
        /\ \A i \in 1 .. Len(grown) : grown[i].doc \in Stale(call) => call.query.relations /\ Led(call, grown[i].doc)
        /\ Len(grown) <= call.query.limit
        /\ \A d : Cardinality(Of(grown, d)) <= call.query.cap
    BY <2>3 DEF Grown
  <2>6. /\ out \in Seq([id : Nat, doc : Nat, canonical : BOOLEAN, media : [total : Nat, shown : Nat]])
        /\ Len(out) = Len(grown)
        /\ \A k \in 1 .. Len(grown) : /\ out[k].id = grown[k].id /\ out[k].doc = grown[k].doc
                                      /\ out[k].canonical = grown[k].canonical
        /\ CurrentMedia(call, out)
    BY <2>4, <2>5, MediaHydrated
  <2>7. answer.ok = TRUE /\ answer.hits = out
    BY <1>3 DEF out
  <2>8. DOMAIN out = 1 .. Len(grown) /\ DOMAIN grown = 1 .. Len(grown)
    BY <2>5, <2>6
  <2>9. \A d : Of(out, d) = Of(grown, d)
    BY <2>6, <2>8 DEF Of
  <2>10. SearchAnswers(call, answer)
    BY <2>7 DEF SearchAnswers
  <2>11. CurrentHits(call, answer)
    <3>1. Len(out) <= call.query.limit
      BY <2>5, <2>6
    <3>2. \A i, j \in DOMAIN out : i # j => out[i].id # out[j].id
      <4> SUFFICES ASSUME NEW i \in DOMAIN out, NEW j \in DOMAIN out, out[i].id = out[j].id PROVE i = j
        OBVIOUS
      <4>1. i \in 1 .. Len(grown) /\ j \in 1 .. Len(grown)
        BY <2>8
      <4>2. grown[i].id = grown[j].id
        BY <2>6, <4>1
      <4> QED BY <2>5, <4>1, <4>2
    <3>3. \A k \in DOMAIN out : Cardinality(Of(out, out[k].doc)) <= call.query.cap
      BY <2>5, <2>9
    <3>4. \A k \in DOMAIN out : \E s \in call.before.sections \cup call.after.sections : s.id = out[k].id
      <4> SUFFICES ASSUME NEW k \in DOMAIN out PROVE \E s \in Sections(call) : s.id = out[k].id
        BY Zenon DEF Sections
      <4>1. k \in 1 .. Len(grown)
        BY <2>8
      <4>2. PICK s \in Sections(call) : s.id = grown[k].id
        BY <2>5, <4>1
      <4> QED BY <2>6, <4>1, <4>2
    <3>5. \A k \in DOMAIN out : out[k].doc \in call.before.stale \cap call.after.stale =>
            call.query.relations /\ \E r \in ToSet(call.before.related \o call.after.related) :
                                       out[k].doc \in {r.from, r.to}
      <4> SUFFICES ASSUME NEW k \in DOMAIN out, out[k].doc \in Stale(call)
                   PROVE  call.query.relations /\ Led(call, out[k].doc)
        BY Zenon DEF Stale, Led
      <4>1. k \in 1 .. Len(grown)
        BY <2>8
      <4> QED BY <2>5, <2>6, <4>1
    <3>6. CurrentHits(call, answer) <=> Within(call, answer.hits) /\ CurrentMedia(call, answer.hits)
      BY Zenon DEF CurrentHits, Within
    <3>7. Within(call, out)
      BY <3>1, <3>2, <3>3, <3>4, <3>5, Zenon DEF Within
    <3> QED BY <2>6, <2>7, <3>6, <3>7
  <2>12. AgreementWins(call, answer)
    <3> SUFFICES ASSUME call.query.route = "general", call.query.vector, ~call.query.relations,
                        NEW i \in DOMAIN out, NEW j \in DOMAIN out,
                        \E k \in 1..Min({RRFK + 1, Len(T)}) : T[k].id = out[i].id,
                        \E k \in 1..Min({RRFK + 1, Len(W)}) : W[k].id = out[i].id,
                        ~((\E k \in 1..Min({Len(T), Len(T)}) : T[k].id = out[j].id) /\
                          (\E k \in 1..Min({Len(W), Len(W)}) : W[k].id = out[j].id)),
                        ~out[j].canonical
                 PROVE  i < j
      BY <2>7, Zenon DEF AgreementWins, T, W
    <3>2. Len(T) \in Nat /\ Len(W) \in Nat /\ RRFK + 1 \in Nat
      BY <2>1, ScaleAssumption DEF Rankings
    <3>3. hits = grown /\ i \in 1 .. Len(hits) /\ j \in 1 .. Len(hits)
          /\ out[i].id = hits[i].id /\ out[j].id = hits[j].id /\ out[j].canonical = hits[j].canonical
      BY <2>3, <2>6, <2>8
    <3>4. \E k \in 1 .. Len(T) : k <= RRFK + 1 /\ T[k].id = hits[i].id
      <4> DEFINE m == Min({RRFK + 1, Len(T)})
      <4>1. m \in Nat /\ m <= RRFK + 1 /\ m <= Len(T)
        BY <3>2, LesserOf
      <4>2. PICK k \in 1 .. m : T[k].id = out[i].id
        OBVIOUS
      <4> HIDE DEF m
      <4>3. k \in 1 .. Len(T) /\ k <= RRFK + 1
        BY <3>2, <4>1
      <4> QED BY <3>3, <4>2, <4>3
    <3>5. \E k \in 1 .. Len(W) : k <= RRFK + 1 /\ W[k].id = hits[i].id
      <4> DEFINE m == Min({RRFK + 1, Len(W)})
      <4>1. m \in Nat /\ m <= RRFK + 1 /\ m <= Len(W)
        BY <3>2, LesserOf
      <4>2. PICK k \in 1 .. m : W[k].id = out[i].id
        OBVIOUS
      <4> HIDE DEF m
      <4>3. k \in 1 .. Len(W) /\ k <= RRFK + 1
        BY <3>2, <4>1
      <4> QED BY <3>3, <4>2, <4>3
    <3>6. (\A k \in 1 .. Len(T) : T[k].id # hits[j].id) \/ (\A k \in 1 .. Len(W) : W[k].id # hits[j].id)
      <4>1. Min({Len(T), Len(T)}) = Len(T) /\ Min({Len(W), Len(W)}) = Len(W)
        BY <3>2, LesserOf
      <4> QED BY <3>3, <4>1
    <3>7. ~hits[j].canonical
      BY <3>3
    <3>8. OfBoth(T, W, hits[i].id) /\ OfOne(T, W, hits[j].id)
      BY <3>4, <3>5, <3>6, Zenon DEF OfBoth, OfOne
    <3>9. hits \in FinalHits(call, T, W) /\ i \in 1 .. Len(hits) /\ j \in 1 .. Len(hits)
      BY <1>3, <3>3
    <3> QED BY <2>1, <3>7, <3>8, <3>9, AgreementOrder, Zenon
  <2> QED BY <2>10, <2>11, <2>12
<1> QED BY <1>1, <1>2, <1>3

(* A behaviour is a call, and then an answer that SearchSections gives it. *)
Answered ==
    /\ IsCall(asked)
    /\ answered = << >> \/ \E result \in SearchSections(asked) : answered = << result >>

(* A search fails only over stored entities or a section lost under a look-up, and its hits *)
(* are current sections within its limits, those of both lanes first: for every store and   *)
(* every place of the commit among the statements of the search.                            *)
THEOREM SearchesAreCurrent == SearchSpec => []HitsAreCurrent
<1>1. SearchInit => Answered
  BY CallTyped DEF SearchInit, Answered
<1>2. Answered /\ [SearchStore]_callVars => Answered'
  <2> SUFFICES ASSUME Answered, [SearchStore]_callVars PROVE Answered'
    OBVIOUS
  <2>1. CASE SearchStore
    BY <2>1 DEF SearchStore, Return, Answered
  <2>2. CASE UNCHANGED callVars
    BY <2>2 DEF callVars, Answered
  <2> QED BY <2>1, <2>2
<1>3. Answered => HitsAreCurrent
  <2> SUFFICES ASSUME Answered, Returned("search")
               PROVE  /\ SearchAnswers(asked, answered[1]) /\ CurrentHits(asked, answered[1])
                      /\ AgreementWins(asked, answered[1])
    BY DEF HitsAreCurrent
  <2>1. PICK result \in SearchSections(asked) : answered = << result >>
    BY DEF Answered, Returned
  <2>2. answered[1] = result /\ IsCall(asked)
    BY <2>1 DEF Answered
  <2> QED BY <2>2, AnswersCurrent
<1> QED BY <1>1, <1>2, <1>3, PTL DEF SearchSpec

-----------------------------------------------------------------------------
(* The references of the hits *)

(* What the patterns find, pattern by pattern, is finite. *)
LEMMA FoundFinite ==
  ASSUME NEW section, IsFiniteSet(section.matches)
  PROVE  IsFiniteSet(FoundIn(section))
<1> DEFINE n == Len(Extractors)
           V == SUBSET section.matches
           step == [p \in V \X (1 .. n) |-> FindAll(section, p[1], Extractors[p[2]])]
           Eq(f) == f = [T \in SUBSET (1 .. n) |->
                          IF T = {} THEN {} ELSE FindAll(section, f[T \ {Max(T)}], Extractors[Max(T)])]
           F == CHOOSE f : Eq(f)
<1>1. n \in Nat /\ DOMAIN Extractors = 1 .. n
  BY DEF Extractors
<1>2. FoundIn(section) = F[1 .. n]
  <2>1. FoundIn(section) = (CHOOSE f : f = [T \in SUBSET DOMAIN Extractors |->
          IF T = {} THEN {} ELSE FindAll(section, f[T \ {Max(T)}], Extractors[Max(T)])])[DOMAIN Extractors]
    BY Zenon DEF FoundIn, FoldLeft, MapThenFoldSet
  <2> QED BY <2>1, <1>1, Zenon
<1>3. {} \in V /\ \A found \in V, k \in 1 .. n : FindAll(section, found, Extractors[k]) \in V
  BY DEF FindAll
<1>4. step \in [V \X (1 .. n) -> V] /\ \A found \in V, k \in 1 .. n :
        step[<<found, k>>] = FindAll(section, found, Extractors[k])
  BY <1>3
<1> HIDE DEF step, V, n
<1>5. PICK f \in [SUBSET (1 .. n) -> V] : Recurs(f, {}, step, n)
  BY <1>1, <1>3, <1>4, SetRecursion
<1>6. Eq(f)
  <2>1. \A T \in SUBSET (1 .. n) : T # {} => f[T \ {Max(T)}] \in V /\ Max(T) \in 1 .. n
    BY <1>1, FirstNumbers
  <2>2. \A T \in SUBSET (1 .. n) :
           f[T] = IF T = {} THEN {} ELSE FindAll(section, f[T \ {Max(T)}], Extractors[Max(T)])
    BY <2>1, <1>4, <1>5 DEF Recurs
  <2> QED BY <2>2
<1>7. Eq(F)
  BY <1>6, Zenon
<1> HIDE DEF F
<1>8. F[1 .. 0] = {} /\ \A k \in 1 .. n : F[1 .. k] = FindAll(section, F[1 .. k - 1], Extractors[k])
  <2>1. \A T \in SUBSET (1 .. n) :
           F[T] = IF T = {} THEN {} ELSE FindAll(section, F[T \ {Max(T)}], Extractors[Max(T)])
    BY <1>7, Zenon
  <2> HIDE DEF Eq
  <2>2. F[1 .. 0] = {}
    BY <1>1, <2>1, FirstNumbers, Zenon
  <2>3. ASSUME NEW k \in 1 .. n PROVE F[1 .. k] = FindAll(section, F[1 .. k - 1], Extractors[k])
    <3>1. 1 .. k \in SUBSET (1 .. n) /\ 1 .. k # {} /\ Max(1 .. k) = k /\ (1 .. k) \ {Max(1 .. k)} = 1 .. k - 1
      BY <1>1, FirstNumbers, Zenon
    <3>2. F[1 .. k] = FindAll(section, F[(1 .. k) \ {Max(1 .. k)}], Extractors[Max(1 .. k)])
      BY <2>1, <3>1, Zenon
    <3> QED BY <3>1, <3>2
  <2> QED BY <2>2, <2>3
<1> HIDE DEF Eq
<1> DEFINE out == [k \in 0 .. n |-> F[1 .. k]]
<1>9. \A k \in 0 .. n : out[k] \in V
  <2>0. 0 \in 0 .. n /\ n \in 0 .. n /\ \A k \in 1 .. n : k \in 0 .. n /\ k - 1 \in 0 .. n
    BY <1>1
  <2>1. out[0] \in V
    BY <1>3, <1>8, <2>0, Zenon
  <2>2. \A k \in 1 .. n : out[k - 1] \in V => out[k] \in V
    <3> SUFFICES ASSUME NEW k \in 1 .. n, out[k - 1] \in V PROVE out[k] \in V
      OBVIOUS
    <3>1. out[k - 1] = F[1 .. k - 1] /\ out[k] = F[1 .. k]
      BY <2>0, Zenon
    <3>2. F[1 .. k] = FindAll(section, F[1 .. k - 1], Extractors[k])
      BY <1>8, Zenon
    <3> HIDE DEF out
    <3> QED BY <1>3, <3>1, <3>2, Zenon
  <2> HIDE DEF out
  <2> QED BY <1>1, <2>1, <2>2, Closed
<1>10. F[1 .. n] \in V
  <2>1. n \in 0 .. n
    BY <1>1
  <2> QED BY <1>9, <2>1, Zenon
<1> QED BY <1>2, <1>10, FS_Subset DEF V

(* What a section refers to, in the order of its text, is a sequence. *)
LEMMA CollectedSequence ==
  ASSUME NEW section, IsFiniteSet(section.matches)
  PROVE  \E M : CollectRawExplicitReferences(section) \in Seq(M)
<1>1. Cardinality(FoundIn(section)) \in Nat
  BY FoundFinite, FS_CardinalityType
<1> DEFINE m(k) == RawReference(CHOOSE m \in FoundIn(section) :
                                  Cardinality({n \in FoundIn(section) : n.start < m.start}) = k - 1)
<1>2. CollectRawExplicitReferences(section) = [k \in 1 .. Cardinality(FoundIn(section)) |-> m(k)]
  BY Zenon DEF CollectRawExplicitReferences
<1> HIDE DEF m
<1>3. CollectRawExplicitReferences(section) \in Seq({m(k) : k \in 1 .. Cardinality(FoundIn(section))})
  BY <1>1, <1>2
<1> QED BY <1>3

\* References as their matches resolve.
Resolved(call, source, M) == {[match |-> m, found |-> ResolveExplicitReference(call, m, source)] : m \in M}

(* Each reference of a section is one of its matches and what that leads to. *)
LEMMA ReferencesResolved ==
  ASSUME NEW call, NEW section, IsFiniteSet(section.matches)
  PROVE  \A n \in DOMAIN ExtractExplicitReferences(call, section) :
           LET ref == ExtractExplicitReferences(call, section)[n]
           IN ref.found = ResolveExplicitReference(call, ref.match, DocumentOf(call, section))
<1> DEFINE raw == CollectRawExplicitReferences(section)
           source == DocumentOf(call, section)
           n == Len(raw)
<1>0. PICK M : raw \in Seq(M)
  BY CollectedSequence
<1> DEFINE R == Resolved(call, source, M)
           V == Seq(R)
           step == [p \in V \X (1 .. n) |-> AddReference(call, source, p[1], raw[p[2]])]
           Eq(f) == f = [T \in SUBSET (1 .. n) |->
                          IF T = {} THEN << >> ELSE AddReference(call, source, f[T \ {Max(T)}], raw[Max(T)])]
           F == CHOOSE f : Eq(f)
<1> HIDE DEF raw, source
<1>1. n \in Nat /\ DOMAIN raw = 1 .. n
  BY <1>0
<1>2. ExtractExplicitReferences(call, section) = F[1 .. n]
  <2>1. ExtractExplicitReferences(call, section) =
          (CHOOSE f : f = [T \in SUBSET DOMAIN raw |->
             IF T = {} THEN << >> ELSE AddReference(call, source, f[T \ {Max(T)}], raw[Max(T)])])[DOMAIN raw]
    BY Zenon DEF ExtractExplicitReferences, FoldLeft, MapThenFoldSet, raw, source
  <2> QED BY <2>1, <1>1, Zenon
<1>3. << >> \in V /\ \A refs \in V, k \in 1 .. n : AddReference(call, source, refs, raw[k]) \in V
  <2>1. << >> \in V
    OBVIOUS
  <2>2. ASSUME NEW refs \in V, NEW k \in 1 .. n PROVE AddReference(call, source, refs, raw[k]) \in V
    <3>1. raw[k] \in M
      BY <1>0
    <3> DEFINE ref == [match |-> raw[k], found |-> ResolveExplicitReference(call, raw[k], source)]
    <3>2. ref \in R
      BY <3>1, Zenon DEF Resolved
    <3>3. AddReference(call, source, refs, raw[k]) \in {refs, Append(refs, ref)}
      BY Zenon DEF AddReference
    <3> HIDE DEF ref, R
    <3> QED BY <3>2, <3>3
  <2> QED BY <2>1, <2>2
<1>4. step \in [V \X (1 .. n) -> V] /\ \A refs \in V, k \in 1 .. n :
        step[<<refs, k>>] = AddReference(call, source, refs, raw[k])
  <2> HIDE DEF V, n
  <2> QED BY <1>3
<1> HIDE DEF step, V, n
<1>5. PICK f \in [SUBSET (1 .. n) -> V] : Recurs(f, << >>, step, n)
  BY <1>1, <1>3, <1>4, SetRecursion
<1>6. Eq(f)
  <2>1. \A T \in SUBSET (1 .. n) : T # {} => f[T \ {Max(T)}] \in V /\ Max(T) \in 1 .. n
    BY <1>1, FirstNumbers
  <2>2. \A T \in SUBSET (1 .. n) :
           f[T] = IF T = {} THEN << >> ELSE AddReference(call, source, f[T \ {Max(T)}], raw[Max(T)])
    BY <2>1, <1>4, <1>5 DEF Recurs
  <2> QED BY <2>2
<1>7. Eq(F)
  BY <1>6, Zenon
<1> HIDE DEF F
<1>8. F[1 .. 0] = << >> /\ \A k \in 1 .. n : F[1 .. k] = AddReference(call, source, F[1 .. k - 1], raw[k])
  <2>1. \A T \in SUBSET (1 .. n) :
           F[T] = IF T = {} THEN << >> ELSE AddReference(call, source, F[T \ {Max(T)}], raw[Max(T)])
    BY <1>7, Zenon
  <2> HIDE DEF Eq
  <2>2. F[1 .. 0] = << >>
    BY <1>1, <2>1, FirstNumbers, Zenon
  <2>3. ASSUME NEW k \in 1 .. n PROVE F[1 .. k] = AddReference(call, source, F[1 .. k - 1], raw[k])
    <3>1. 1 .. k \in SUBSET (1 .. n) /\ 1 .. k # {} /\ Max(1 .. k) = k /\ (1 .. k) \ {Max(1 .. k)} = 1 .. k - 1
      BY <1>1, FirstNumbers, Zenon
    <3>2. F[1 .. k] = AddReference(call, source, F[(1 .. k) \ {Max(1 .. k)}], raw[Max(1 .. k)])
      BY <2>1, <3>1, Zenon
    <3> QED BY <3>1, <3>2
  <2> QED BY <2>2, <2>3
<1> HIDE DEF Eq
<1> DEFINE out == [k \in 0 .. n |-> F[1 .. k]]
<1>9. \A k \in 0 .. n : out[k] \in V
  <2>0. 0 \in 0 .. n /\ n \in 0 .. n /\ \A k \in 1 .. n : k \in 0 .. n /\ k - 1 \in 0 .. n
    BY <1>1
  <2>1. out[0] \in V
    BY <1>3, <1>8, <2>0, Zenon
  <2>2. \A k \in 1 .. n : out[k - 1] \in V => out[k] \in V
    <3> SUFFICES ASSUME NEW k \in 1 .. n, out[k - 1] \in V PROVE out[k] \in V
      OBVIOUS
    <3>1. out[k - 1] = F[1 .. k - 1] /\ out[k] = F[1 .. k]
      BY <2>0, Zenon
    <3>2. F[1 .. k] = AddReference(call, source, F[1 .. k - 1], raw[k])
      BY <1>8, Zenon
    <3> HIDE DEF out
    <3> QED BY <1>3, <3>1, <3>2, Zenon
  <2> HIDE DEF out
  <2> QED BY <1>1, <2>1, <2>2, Closed
<1>10. F[1 .. n] \in V
  <2>1. n \in 0 .. n
    BY <1>1
  <2> QED BY <1>9, <2>1, Zenon
<1>11. \A refs \in V : \A k \in DOMAIN refs : refs[k] \in R
  <2> HIDE DEF R
  <2> QED BY DEF V
<1>12. \A ref \in R : ref.found = ResolveExplicitReference(call, ref.match, source)
  BY DEF Resolved
<1> QED BY <1>2, <1>10, <1>11, <1>12, Zenon DEF source

(* A document is the only one with its id, and its path keys lead to it alone. *)
LEMMA DocumentsKnown ==
  ASSUME NEW call, IsCatalog(call), NEW s \in call.sections
  PROVE  DocumentOf(call, s) \in ToSet(call.docs) /\ DocumentOf(call, s).id = s.doc
<1>1. \E d \in ToSet(call.docs) : d.id = s.doc
  BY DEF IsCatalog
<1> QED BY <1>1 DEF DocumentOf

(* A key of a document leads to it, when no other document has that key. *)
LEMMA PathFound ==
  ASSUME NEW call, IsCatalog(call), PathsAreApart(call), NEW doc \in ToSet(call.docs),
         NEW key \in ToSet(DocumentPathKeys(doc))
  PROVE  DocByPath(call, key) = {doc.id}
<1> DEFINE ks == {k \in DOMAIN call.docs : key \in ToSet(DocumentPathKeys(call.docs[k]))}
<1>0. call.docs \in Seq(Docs)
  BY Zenon DEF IsCatalog
<1>1. call.docs \in Seq(Docs) /\ DOMAIN call.docs = 1 .. Len(call.docs) /\ Len(call.docs) \in Nat
  BY <1>0
<1>2. \A k \in DOMAIN call.docs : call.docs[k] \in ToSet(call.docs)
  BY DEF ToSet
<1>3. \A k \in ks : call.docs[k] = doc
  <2> SUFFICES ASSUME NEW k \in ks, call.docs[k] # doc PROVE FALSE
    OBVIOUS
  <2>1. ToSet(DocumentPathKeys(call.docs[k])) \cap ToSet(DocumentPathKeys(doc)) = {}
    BY <1>2 DEF PathsAreApart
  <2> QED BY <2>1
<1>4. ks # {} /\ ks \in SUBSET Nat
  <2>1. PICK k \in DOMAIN call.docs : call.docs[k] = doc
    BY DEF ToSet
  <2>2. k \in ks
    BY <2>1
  <2>3. ks \in SUBSET Nat
    BY <1>1
  <2> QED BY <2>2, <2>3
<1>5. DocByPath(call, key) = {call.docs[Min(ks)].id}
  BY <1>4, Zenon DEF DocByPath
<1> HIDE DEF ks
<1>6. Min(ks) \in ks
  <2>1. \E n \in ks : \A m \in ks : n <= m
    BY <1>4, LeastNatural
  <2>2. Min(ks) = CHOOSE x \in ks : \A y \in ks : x <= y
    BY DEF Min
  <2> QED BY <2>1, <2>2
<1>7. call.docs[Min(ks)] = doc
  BY <1>3, <1>6, Zenon
<1> QED BY <1>5, <1>7, Zenon

(* So does its URL. *)
LEMMA URLFound ==
  ASSUME NEW call, IsCatalog(call), PathsAreApart(call), NEW doc \in ToSet(call.docs)
  PROVE  DocByURL(call, doc.url) = {doc.id}
<1> DEFINE ks == {k \in DOMAIN call.docs : call.docs[k].url = doc.url}
<1>0. call.docs \in Seq(Docs)
  BY Zenon DEF IsCatalog
<1>1. call.docs \in Seq(Docs) /\ DOMAIN call.docs = 1 .. Len(call.docs) /\ Len(call.docs) \in Nat
  BY <1>0
<1>2. \A k \in DOMAIN call.docs : call.docs[k] \in ToSet(call.docs)
  BY DEF ToSet
<1>3. \A k \in ks : call.docs[k] = doc
  BY <1>2 DEF PathsAreApart
<1>4. ks # {} /\ ks \in SUBSET Nat /\ \A k \in ks : k \in 1 .. Len(call.docs)
  <2>1. PICK k \in DOMAIN call.docs : call.docs[k] = doc
    BY DEF ToSet
  <2>2. k \in ks
    BY <2>1
  <2>3. ks \in SUBSET Nat /\ \A j \in ks : j \in 1 .. Len(call.docs)
    BY <1>1
  <2> QED BY <2>2, <2>3
<1>5. DocByURL(call, doc.url) = {call.docs[Max(ks)].id}
  BY <1>4, Zenon DEF DocByURL
<1> HIDE DEF ks
<1>6. Max(ks) \in ks
  BY <1>1, <1>4, GreatestOfSome
<1>7. call.docs[Max(ks)] = doc
  BY <1>3, <1>6, Zenon
<1> QED BY <1>5, <1>7, Zenon

(* The first known of three paths: the second, if the first is unknown or leads there as well. *)
LEMMA FirstOrSecond ==
  ASSUME NEW call, NEW keys, DOMAIN keys = 1 .. 3, NEW id, DocByPath(call, keys[2]) = {id},
         DocByPath(call, keys[1]) \subseteq {id}
  PROVE  FirstKnown(call, keys) = {id}
<1> DEFINE known == {k \in DOMAIN keys : DocByPath(call, keys[k]) # {}}
<1>1. 2 \in known /\ known \in SUBSET (1 .. 3)
  OBVIOUS
<1>2. FirstKnown(call, keys) = DocByPath(call, keys[Min(known)])
  BY <1>1, Zenon DEF FirstKnown
<1>3. \A k \in known : DocByPath(call, keys[k]) # {}
  OBVIOUS
<1> HIDE DEF known
<1>4. Min(known) \in known /\ \A k \in known : Min(known) <= k
  <2>0. known \in SUBSET Nat
    BY <1>1
  <2>1. \E n \in known : \A m \in known : n <= m
    BY <1>1, <2>0, LeastNatural
  <2>2. Min(known) = CHOOSE x \in known : \A y \in known : x <= y
    BY DEF Min
  <2> QED BY <2>1, <2>2
<1>5. Min(known) \in {1, 2}
  <2> DEFINE m == Min(known)
  <2>1. m \in 1 .. 3 /\ m <= 2
    BY <1>1, <1>4
  <2> HIDE DEF m
  <2>2. m \in {1, 2}
    BY <2>1
  <2> QED BY <2>2 DEF m
<1>6. DocByPath(call, keys[Min(known)]) # {}
  BY <1>3, <1>4
<1> QED BY <1>2, <1>5, <1>6

(* A link that means a section leads to its document. *)
LEMMA LinkLeadsToDocument ==
  ASSUME NEW call, IsCatalog(call), PathsAreApart(call), NEW match,
         match.extractor \in {"markdown", "html", "url"},
         NEW s \in call.sections, NEW t \in call.sections,
         MeansSection(call, match, DocumentOf(call, s), t)
  PROVE  ResolveLinkedDocumentID(call, match.href, DocumentOf(call, s)) = {t.doc}
<1> DEFINE source == DocumentOf(call, s)
           doc == DocumentOf(call, t)
           href == match.href
           path == JoinPath(DirOf(CleanPath(source.external)), href.path)
<1>1. doc \in ToSet(call.docs) /\ doc.id = t.doc
  BY DocumentsKnown
<1>2. IF href.host # "" THEN doc.url = [host |-> href.host, path |-> href.path]
      ELSE IF href.path = << >> THEN doc = source
      ELSE /\ ~href.rooted /\ path = CleanPath(doc.external)
           /\ DocByPath(call, CleanPath(href.path)) \subseteq {doc.id}
  BY Zenon DEF MeansSection
<1> DEFINE bases == DocumentPathKeys(source)
           relative(k) == IF href.rooted THEN CleanPath(href.path) ELSE JoinPath(DirOf(bases[k]), href.path)
           keys == << CleanPath(href.path) >> \o [k \in DOMAIN bases |-> relative(k)]
<1>3. ResolveLinkedDocumentID(call, href, source) =
        IF href.host # "" THEN DocByURL(call, [host |-> href.host, path |-> href.path])
        ELSE IF href.path = << >> THEN {source.id} ELSE FirstKnown(call, keys)
  BY Zenon DEF ResolveLinkedDocumentID
<1>4. CASE href.host # ""
  BY <1>1, <1>2, <1>3, <1>4, URLFound
<1>5. CASE href.host = "" /\ href.path = << >>
  BY <1>1, <1>2, <1>3, <1>5
<1>6. CASE href.host = "" /\ href.path # << >>
  <2>1. ~href.rooted /\ path = CleanPath(doc.external) /\ DocByPath(call, CleanPath(href.path)) \subseteq {doc.id}
    BY <1>2, <1>6
  <2>2. CleanPath(doc.external) \in ToSet(DocumentPathKeys(doc))
    BY DEF DocumentPathKeys, ToSet
  <2>3. DocByPath(call, path) = {doc.id}
    BY <1>1, <2>1, <2>2, PathFound
  <2>4. DOMAIN bases = 1 .. 2 /\ bases[1] = CleanPath(source.external)
    BY DEF DocumentPathKeys
  <2>5. relative(1) = path
    BY <2>1, <2>4, Zenon
  <2>6. DOMAIN keys = 1 .. 3 /\ keys[1] = CleanPath(href.path) /\ keys[2] = relative(1)
    <3> HIDE DEF relative, bases
    <3> QED BY <2>4
  <2> HIDE DEF keys, relative, path
  <2>7. FirstKnown(call, keys) = {doc.id}
    BY <2>1, <2>3, <2>5, <2>6, FirstOrSecond
  <2> QED BY <1>1, <1>3, <1>6, <2>7
<1> QED BY <1>4, <1>5, <1>6

(* A section has the anchor of its title. *)
LEMMA LinkFindsSection ==
  ASSUME NEW call, IsCatalog(call), PathsAreApart(call), NEW match,
         match.extractor \in {"markdown", "html", "url"},
         NEW s \in call.sections, NEW t \in call.sections,
         MeansSection(call, match, DocumentOf(call, s), t)
  PROVE  t.id \in ResolveExplicitReference(call, match, DocumentOf(call, s)).targets
<1> DEFINE source == DocumentOf(call, s)
           linked == ResolveLinkedDocumentID(call, match.href, source)
           doc == IF linked = {} THEN source.id ELSE CHOOSE d \in linked : TRUE
           found == ResolveFragment(call, match.href.fragment, doc)
<1>1. match.href.fragment # << >> /\ match.href.fragment = TitleText(t)
  BY Zenon DEF MeansSection
<1>2. linked = {t.doc}
  BY LinkLeadsToDocument
<1>3. ResolveExplicitReference(call, match, source) = FillResolvedReference(found)
  BY <1>1, Zenon DEF ResolveExplicitReference, ResolveLinkReference
<1> HIDE DEF linked
<1>4. doc = t.doc
  BY <1>2
<1> HIDE DEF doc
<1>5. t \in found
  BY <1>1, <1>4 DEF ResolveFragment, SectionsOf, SectionAnchors
<1> HIDE DEF found
<1> QED BY <1>3, <1>5 DEF FillResolvedReference

(* Its heading is the last of those above it. *)
LEMMA LastHeading ==
  ASSUME NEW call, IsCatalog(call), NEW t \in call.sections
  PROVE  /\ Len(t.headings) \in DOMAIN t.headings /\ Last(t.headings) = t.headings[Len(t.headings)]
         /\ Last(t.headings).number \in Seq(STRING) /\ Last(t.headings).words \in Seq(STRING)
<1>1. t.headings \in Seq([number : Seq(STRING), words : Seq(STRING)]) /\ t.headings # << >>
  BY DEF IsCatalog, HeadingPaths
<1> DEFINE q == t.headings
<1> HIDE DEF q
<1>2. q \in Seq([number : Seq(STRING), words : Seq(STRING)]) /\ q # << >>
  BY <1>1 DEF q
<1>3. Len(q) \in DOMAIN q /\ q[Len(q)] \in [number : Seq(STRING), words : Seq(STRING)]
  <2>1. \A H : q \in Seq(H) => Len(q) \in DOMAIN q /\ q[Len(q)] \in H
    BY <1>2
  <2> QED BY <1>2, <2>1, Zenon
<1>4. Last(q) = q[Len(q)]
  BY Zenon DEF Last
<1> DEFINE h == q[Len(q)]
<1> HIDE DEF h
<1>5. h \in [number : Seq(STRING), words : Seq(STRING)]
  BY <1>3 DEF h
<1>6. h.number \in Seq(STRING) /\ h.words \in Seq(STRING)
  BY <1>5
<1> QED BY <1>3, <1>4, <1>6 DEF q, h

(* A number of a heading, with words of the title or without, finds its section. *)
LEMMA NumberFindsSection ==
  ASSUME NEW call, IsCatalog(call), NEW match, match.extractor = "number",
         NEW s \in call.sections, NEW t \in call.sections,
         MeansSection(call, match, DocumentOf(call, s), t)
  PROVE  t.id \in ResolveExplicitReference(call, match, DocumentOf(call, s)).targets
<1> DEFINE source == DocumentOf(call, s)
           numbered == {x \in SectionsOf(call, source.id) : HeadingStartsWithNumber(x, match.number)}
           matches == {x \in numbered : \/ match.title = << >>
                                        \/ Holds(TitleText(x), match.title)
                                        \/ Holds(match.title, TitleText(x))}
<1>1. /\ DocumentOf(call, t) = source /\ match.number = Last(t.headings).number /\ match.number # << >>
      /\ Holds(TitleText(t), match.title)
  BY Zenon DEF MeansSection
<1>2. t.doc = source.id
  BY <1>1, DocumentsKnown
<1>3. HeadingStartsWithNumber(t, match.number)
  BY <1>1, LastHeading DEF HeadingStartsWithNumber
<1>4. t \in matches
  BY <1>1, <1>2, <1>3 DEF SectionsOf
<1>5. ResolveHeadingNumber(call, match.number, match.title, source.id) = matches
  <2>1. ResolveHeadingNumber(call, match.number, match.title, source.id) =
          IF matches = {} /\ match.title # << >> THEN ResolvePlainTitle(call, match.title, source.id) ELSE matches
    BY Zenon DEF ResolveHeadingNumber
  <2> HIDE DEF matches
  <2> QED BY <1>4, <2>1
<1>5a. ReferenceTitle(match) = match.title
  BY DEF ReferenceTitle
<1>6. ResolveExplicitReference(call, match, source) = FillResolvedReference(matches)
  BY <1>5, <1>5a, Zenon DEF ResolveExplicitReference
<1> HIDE DEF matches
<1>7. t.id \in FillResolvedReference(matches).targets
  BY <1>4 DEF FillResolvedReference
<1> QED BY <1>6, <1>7, Zenon

(* The words of a title find its section, whatever remains of the number before them. *)
LEMMA TitleFindsSection ==
  ASSUME NEW call, IsCatalog(call), NEW match, match.extractor = "title",
         NEW s \in call.sections, NEW t \in call.sections,
         MeansSection(call, match, DocumentOf(call, s), t)
  PROVE  t.id \in ResolveExplicitReference(call, match, DocumentOf(call, s)).targets
<1> DEFINE source == DocumentOf(call, s)
           number == Last(t.headings).number
           words == Last(t.headings).words
           found == ResolvePlainTitle(call, match.title, source.id)
<1>1. DocumentOf(call, t) = source /\ match.title = words
  BY Zenon DEF MeansSection
<1>2. t.doc = source.id
  BY <1>1, DocumentsKnown
<1>3. number \in Seq(STRING) /\ words \in Seq(STRING)
  BY LastHeading
<1>4. NormalizedTitle(t) = IF number = << >> THEN number \o words ELSE Tail(number \o words)
  BY Zenon DEF NormalizedTitle, TitleText, Text
<1> HIDE DEF number, words
<1>5. \E a \in Seq(STRING) : NormalizedTitle(t) = a \o words
  <2>1. CASE number = << >>
    BY <1>3, <1>4, <2>1
  <2>2. CASE number # << >>
    <3>1. Tail(number) \in Seq(STRING) /\ Tail(number \o words) = Tail(number) \o words
      BY <1>3, <2>2
    <3> QED BY <1>4, <2>2, <3>1
  <2> QED BY <2>1, <2>2
<1>6. PICK a \in Seq(STRING) : NormalizedTitle(t) = a \o words
  BY <1>5
<1>7. Holds(NormalizedTitle(t), words)
  <2>1. /\ Len(a \o words) = Len(a) + Len(words) /\ Len(a) \in Nat /\ Len(words) \in Nat
        /\ a \o words \in Seq(STRING)
    BY <1>3
  <2>2. Len(a) \in 0 .. Len(a \o words) - Len(words)
    BY <2>1
  <2>3. SubSeq(a \o words, Len(a) + 1, Len(a) + Len(words)) = words
    BY <1>3, <2>1
  <2> QED BY <1>6, <2>2, <2>3 DEF Holds
<1>8. t \in found
  BY <1>1, <1>2, <1>7 DEF ResolvePlainTitle, SectionsOf
<1>9. ResolveExplicitReference(call, match, source) = FillResolvedReference(found)
  BY Zenon DEF ResolveExplicitReference
<1> HIDE DEF found
<1> QED BY <1>8, <1>9 DEF FillResolvedReference

(* Each reference of each hit of a call has the section it means among its targets. *)
LEMMA TargetsAreFound ==
  ASSUME NEW call, IsCatalog(call)
  PROVE  TargetsFound(call, EnrichSearchResult(call))
<1> DEFINE result == EnrichSearchResult(call)
<1> SUFFICES ASSUME PathsAreApart(call), NEW k \in DOMAIN result,
                    NEW s \in call.sections, NEW t \in call.sections, s.id = call.hits[k],
                    NEW n \in DOMAIN result[k],
                    MeansSection(call, result[k][n].match, DocumentOf(call, s), t)
             PROVE  t.id \in result[k][n].found.targets
  BY DEF TargetsFound
<1> DEFINE rows == {x \in call.sections : x.id = call.hits[k]}
           match == result[k][n].match
<1>1. s \in rows /\ \A x \in rows : x = s
  BY DEF IsCatalog
<1>2. result[k] = ExtractExplicitReferences(call, s)
  <2>1. result[k] = IF rows = {} THEN << >> ELSE ExtractExplicitReferences(call, CHOOSE x \in rows : TRUE)
    BY Zenon DEF EnrichSearchResult
  <2>2. (CHOOSE x \in rows : TRUE) = s
    BY <1>1
  <2> QED BY <1>1, <2>1, <2>2
<1>3. IsFiniteSet(s.matches)
  BY DEF IsCatalog
<1>4. result[k][n].found = ResolveExplicitReference(call, match, DocumentOf(call, s))
  <2> HIDE DEF result
  <2> QED BY <1>2, <1>3, ReferencesResolved
<1> HIDE DEF result
<1>9. MeansSection(call, match, DocumentOf(call, s), t)
  OBVIOUS
<1>5. CASE match.extractor \in {"markdown", "html", "url"}
  BY <1>4, <1>5, LinkFindsSection
<1>6. CASE match.extractor = "number"
  <2>1. t.id \in ResolveExplicitReference(call, match, DocumentOf(call, s)).targets
    <3> HIDE DEF match
    <3> QED BY <1>6, <1>9, NumberFindsSection
  <2> QED BY <1>4, <2>1, Zenon
<1>7. CASE match.extractor = "title"
  BY <1>4, <1>7, TitleFindsSection
<1>8. match.extractor \in {"markdown", "html", "url", "number", "title"}
  BY Zenon DEF MeansSection
<1> QED BY <1>5, <1>6, <1>7, <1>8


(* A behaviour is a store, and then the references of the hits in it. *)
Enriched ==
    /\ asked \in Catalogs
    /\ answered = << >> \/ answered = << EnrichSearchResult(asked) >>

(* A reference in a hit that says which section it means leads to it, alone or among those *)
(* that answer as well, whatever the store holds, when documents can be told apart.        *)
THEOREM ReferencesAreFound == ReferencesSpec => []ReferencesFindTheirTarget
<1>1. ReferencesInit => Enriched
  BY DEF ReferencesInit, Enriched
<1>2. Enriched /\ [FollowReferences]_callVars => Enriched'
  <2> SUFFICES ASSUME Enriched, [FollowReferences]_callVars PROVE Enriched'
    OBVIOUS
  <2>1. CASE FollowReferences
    BY <2>1 DEF FollowReferences, Return, Enriched
  <2>2. CASE UNCHANGED callVars
    BY <2>2 DEF callVars, Enriched
  <2> QED BY <2>1, <2>2
<1>3. Enriched => ReferencesFindTheirTarget
  <2> SUFFICES ASSUME Enriched, Returned("references") PROVE TargetsFound(asked, answered[1])
    BY DEF ReferencesFindTheirTarget
  <2>1. answered = << EnrichSearchResult(asked) >>
    BY DEF Enriched, Returned
  <2>2. answered[1] = EnrichSearchResult(asked) /\ IsCatalog(asked)
    BY <2>1, CatalogsAssumption DEF Enriched
  <2> QED BY <2>2, TargetsAreFound
<1> QED BY <1>1, <1>2, <1>3, PTL DEF ReferencesSpec

=============================================================================
