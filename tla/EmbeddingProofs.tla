--------------------------- MODULE EmbeddingProofs ---------------------------
(***************************************************************************)
(* Theorems about Embedding, for every set of sections, every text, every  *)
(* number of passes that overlap, every split factor, batch size and token *)
(* limit, and any number of edits and faults: that the audit is exact, and *)
(* that a pass beside which nothing runs embeds everything and never harms *)
(* what is embedded.                                                       *)
(*                                                                         *)
(* The strengthening has two layers.  EmbedInv says what may be stored and *)
(* what may wait: expected chunks and their halves, or chunks too deep for *)
(* the column of the ordinals.  LoneInv says how far a pass that runs      *)
(* alone has come: a section is not read yet, or is to be redone, or is    *)
(* whole but for what waits.                                               *)
(*                                                                         *)
(* Batches, joined sequences and amounts are recursive; each is unfolded   *)
(* by a minimal counterexample among the numbers.                          *)
(***************************************************************************)
EXTENDS Embedding, SequenceTheorems, FiniteSetTheorems, WellFoundedInduction, TLAPS

-----------------------------------------------------------------------------
(* Numbers, and functions defined by recursion on them *)

(* Recursive definitions are unfolded by minimal counterexample: of the numbers at which a claim fails *)
(* there is a least one.                                                                               *)
Below == {ss \in Nat \X Nat : ss[1] < ss[2]}

LEMMA BelowWellFounded == IsWellFoundedOn(Below, Nat)
  BY NatLessThanWellFounded, Zenon DEF OpToRel, Below

(* A set of numbers has a least one, *)
LEMMA LeastNatural ==
  ASSUME NEW T \in SUBSET Nat, T # {}
  PROVE  \E n \in T : \A m \in T : n <= m
<1>1. \E n \in T : \A m \in T : <<m, n>> \notin Below
  BY BelowWellFounded, WFMin, Zenon
<1>2. \A n, m \in Nat : <<m, n>> \notin Below => n <= m
  BY DEF Below
<1> QED BY <1>1, <1>2

(* and a greatest one, when it is bounded. *)
LEMMA GreatestNatural ==
  ASSUME NEW T \in SUBSET Nat, T # {}, NEW k \in Nat, \A n \in T : n <= k
  PROVE  \E n \in T : \A m \in T : m <= n
<1> DEFINE U == {j \in 0 .. k : k - j \in T}
<1>1. U \in SUBSET Nat /\ U # {}
  <2>1. PICK n \in T : TRUE  OBVIOUS
  <2>2. k - n \in 0 .. k /\ k - (k - n) = n  BY <2>1
  <2>3. k - n \in U  BY <2>1, <2>2
  <2>4. U \in SUBSET Nat  OBVIOUS
  <2> HIDE DEF U
  <2> QED BY <2>3, <2>4
<1>2. PICK j \in U : \A i \in U : j <= i
  BY <1>1, LeastNatural
<1>3. \A m \in T : k - m \in U
  OBVIOUS
<1>4. k - j \in T /\ \A m \in T : m \in Nat /\ m <= k /\ j <= k - m
  BY <1>2, <1>3
<1>5. \A m \in T : m <= k - j
  BY <1>2, <1>4
<1> QED BY <1>4, <1>5

(* A batch takes at least one chunk and no more than there are. *)
LEMMA BatchLengthBounds ==
  ASSUME NEW S, NEW pending \in Seq(S), pending # << >>, NEW size \in Nat \ {0}, NEW limit
  PROVE  BatchLength(pending, size, limit) \in 1 .. Len(pending)
<1> DEFINE fits(n) == n = 1 \/ limit = 0 \/ Tokens(SubSeq(pending, 1, n)) <= limit
           lengths == {n \in 1 .. Len(pending) : n <= size /\ fits(n)}
<1>1. lengths \in SUBSET Nat /\ 1 \in lengths
  <2>1. Len(pending) \in Nat /\ Len(pending) # 0  OBVIOUS
  <2>2. fits(1)  OBVIOUS
  <2> QED BY <2>1, <2>2
<1>2. \E n \in lengths : \A m \in lengths : m <= n
  <2>1. Len(pending) \in Nat  OBVIOUS
  <2>2. \A n \in lengths : n <= Len(pending)  OBVIOUS
  <2> HIDE DEF lengths
  <2> QED BY <1>1, <2>1, <2>2, GreatestNatural
<1>3. BatchLength(pending, size, limit) = CHOOSE n \in lengths : \A m \in lengths : m <= n
  BY DEF BatchLength
<1>4. BatchLength(pending, size, limit) \in lengths
  <2> HIDE DEF lengths
  <2> QED BY <1>2, <1>3
<1> QED BY <1>4

(* What a function that is defined from the end of a range backwards does. *)
Unfolds(f, front, jump, last) ==
    /\ f[last] = << >>
    /\ \A n \in 0 .. last - 1 : f[n] = front[n] \o f[n + jump[n]]

(* A function that is defined from the end of a range backwards exists. *)
LEMMA DescendingRecursion ==
  ASSUME NEW V, NEW last \in Nat, NEW front \in [0 .. last - 1 -> Seq(V)], NEW jump \in [0 .. last - 1 -> Nat],
         \A n \in 0 .. last - 1 : jump[n] \in 1 .. last - n
  PROVE  \E f \in [0 .. last -> Seq(V)] : Unfolds(f, front, jump, last)
<1> DEFINE Good(j) == \E f \in [(last - j) .. last -> Seq(V)] :
                         /\ f[last] = << >>
                         /\ \A n \in (last - j) .. last - 1 : f[n] = front[n] \o f[n + jump[n]]
           Bad == {j \in 0 .. last : ~ Good(j)}
<1>1. Good(0)
  <2> DEFINE f == [n \in (last - 0) .. last |-> << >>]
  <2>1. f \in [(last - 0) .. last -> Seq(V)] /\ f[last] = << >>  OBVIOUS
  <2>2. (last - 0) .. last - 1 = {}  OBVIOUS
  <2> HIDE DEF f
  <2> QED BY <2>1, <2>2
<1>2. ASSUME NEW j \in 0 .. last, j > 0, Good(j - 1)  PROVE Good(j)
  <2> DEFINE low == last - j
  <2>0. low \in 0 .. last - 1 /\ last - (j - 1) = low + 1  BY <1>2
  <2>1. PICK f \in [low + 1 .. last -> Seq(V)] :
            /\ f[last] = << >>
            /\ \A n \in low + 1 .. last - 1 : f[n] = front[n] \o f[n + jump[n]]
    <3> HIDE DEF low
    <3> QED BY <1>2, <2>0
  <2> DEFINE g == [n \in low .. last |-> IF n = low THEN front[n] \o f[n + jump[n]] ELSE f[n]]
  <2> HIDE DEF low
  <2>2. \A n \in low .. last - 1 : jump[n] \in Nat /\ n + jump[n] \in low + 1 .. last /\ front[n] \in Seq(V)
    BY <2>0
  <2>3. g \in [low .. last -> Seq(V)]
    <3>1. low \in low .. last - 1  BY <2>0
    <3>2. front[low] \o f[low + jump[low]] \in Seq(V)  BY <2>1, <2>2, <3>1, ConcatProperties
    <3>3. \A n \in low .. last : n # low => n \in low + 1 .. last  BY <2>0
    <3> QED BY <2>1, <3>2, <3>3
  <2>4. g[last] = << >>
    <3>1. last \in low .. last /\ last # low  BY <2>0
    <3> QED BY <2>1, <3>1
  <2>5. ASSUME NEW n \in low .. last - 1
        PROVE  g[n] = front[n] \o g[n + jump[n]]
    <3>0. low \in Nat /\ jump[n] \in Nat /\ n + jump[n] \in low + 1 .. last  BY <2>0, <2>2
    <3>1. n \in low .. last /\ n + jump[n] \in low .. last /\ n + jump[n] # low  BY <3>0
    <3>2. g[n + jump[n]] = f[n + jump[n]]  BY <3>1
    <3>3. CASE n = low
      <4>1. g[n] = front[n] \o f[n + jump[n]]  BY <3>1, <3>3
      <4> QED BY <3>2, <4>1
    <3>4. CASE n # low
      <4>1. n \in low + 1 .. last - 1  BY <2>0, <3>4
      <4>2. g[n] = f[n]  BY <3>1, <3>4
      <4> QED BY <2>1, <3>2, <4>1, <4>2
    <3> QED BY <3>3, <3>4
  <2> HIDE DEF g
  <2> QED BY <2>3, <2>4, <2>5 DEF low
<1>3. Bad = {}
  <2>1. SUFFICES ASSUME Bad # {} PROVE FALSE
    <3> HIDE DEF Bad
    <3> QED OBVIOUS
  <2>2. Bad \in SUBSET Nat
    <3> HIDE DEF Good
    <3> QED OBVIOUS
  <2>3. PICK j \in Bad : \A i \in Bad : j <= i
    <3> HIDE DEF Bad
    <3> QED BY <2>1, <2>2, LeastNatural
  <2>4. j \in 0 .. last /\ ~ Good(j)
    <3> HIDE DEF Good
    <3> QED BY <2>3
  <2>5. j > 0
    <3> HIDE DEF Good
    <3> QED BY <1>1, <2>4
  <2>6. j - 1 \in 0 .. last /\ j - 1 \notin Bad
    <3> HIDE DEF Bad
    <3> QED BY <2>2, <2>3, <2>4, <2>5
  <2>7. Good(j - 1)
    <3> HIDE DEF Good
    <3> QED BY <2>6
  <2> HIDE DEF Good
  <2> QED BY <1>2, <2>4, <2>5, <2>7
<1>4. Good(last)
  <2>1. last \in 0 .. last  OBVIOUS
  <2> HIDE DEF Good
  <2> QED BY <1>3, <2>1
<1>5. last - last = 0  OBVIOUS
<1> QED BY <1>4, <1>5 DEF Unfolds

-----------------------------------------------------------------------------
(* The batches of some chunks *)

(* No element twice. *)
Distinct(q) == \A a, b \in DOMAIN q : q[a] = q[b] => a = b

(* Batches of the elements of S. *)
BatchOf(S) == [chunks : Seq(S) \ {<< >>}, size : Nat \ {0}, limit : Nat]

(* All the chunks that wait in a stack of batches. *)
WorkSet(work) == UNION {ToSet(work[i].chunks) : i \in DOMAIN work}

(* No chunk twice in a stack of batches, but for those of D. *)
Apart(D, work) ==
    \A i \in DOMAIN work :
        /\ Distinct(work[i].chunks)
        /\ \A j \in DOMAIN work : i # j => ToSet(work[i].chunks) \cap ToSet(work[j].chunks) \subseteq D

(* No chunk twice in a stack of batches. *)
Spread(work) == Apart({}, work)

(* One stack on another. *)
LEMMA WorkConcat ==
  ASSUME NEW D, NEW S, NEW u \in Seq(BatchOf(S)), NEW v \in Seq(BatchOf(S))
  PROVE  /\ u \o v \in Seq(BatchOf(S))
         /\ WorkSet(u \o v) = WorkSet(u) \cup WorkSet(v)
         /\ Apart(D, u) /\ Apart(D, v) /\ WorkSet(u) \cap WorkSet(v) \subseteq D => Apart(D, u \o v)
<1> DEFINE w == u \o v
<1>1. /\ w \in Seq(BatchOf(S)) /\ Len(w) = Len(u) + Len(v)
      /\ \A i \in 1 .. Len(u) + Len(v) : w[i] = IF i <= Len(u) THEN u[i] ELSE v[i - Len(u)]
  BY ConcatProperties
<1>2. /\ Len(u) \in Nat /\ Len(v) \in Nat
      /\ DOMAIN u = 1 .. Len(u) /\ DOMAIN v = 1 .. Len(v) /\ DOMAIN w = 1 .. Len(u) + Len(v)
  BY <1>1
<1>3. \A i \in DOMAIN u : i \in DOMAIN w /\ w[i] = u[i]
  BY <1>1, <1>2
<1>4. \A i \in DOMAIN v : i + Len(u) \in DOMAIN w /\ w[i + Len(u)] = v[i]
  BY <1>1, <1>2
<1>5. \A i \in DOMAIN w : \/ i \in DOMAIN u /\ w[i] = u[i]
                          \/ i - Len(u) \in DOMAIN v /\ w[i] = v[i - Len(u)]
  BY <1>1, <1>2
<1> HIDE DEF w
<1>6. WorkSet(w) = WorkSet(u) \cup WorkSet(v)
  BY <1>3, <1>4, <1>5 DEF WorkSet
<1>7. ASSUME Apart(D, u), Apart(D, v), WorkSet(u) \cap WorkSet(v) \subseteq D
      PROVE  Apart(D, w)
  <2>1. ASSUME NEW i \in DOMAIN w PROVE Distinct(w[i].chunks)
    BY <1>5, <1>7 DEF Apart
  <2>2. ASSUME NEW i \in DOMAIN w, NEW j \in DOMAIN w, i # j
        PROVE  ToSet(w[i].chunks) \cap ToSet(w[j].chunks) \subseteq D
    <3>0. i \in Int /\ j \in Int /\ Len(u) \in Int  BY <1>2
    <3>1. \A k \in DOMAIN u : ToSet(u[k].chunks) \subseteq WorkSet(u)  BY DEF WorkSet
    <3>2. \A k \in DOMAIN v : ToSet(v[k].chunks) \subseteq WorkSet(v)  BY DEF WorkSet
    <3>3. CASE i \in DOMAIN u /\ w[i] = u[i] /\ j \in DOMAIN u /\ w[j] = u[j]
      BY <1>7, <2>2, <3>3 DEF Apart
    <3>4. CASE i - Len(u) \in DOMAIN v /\ w[i] = v[i - Len(u)] /\ j - Len(u) \in DOMAIN v /\ w[j] = v[j - Len(u)]
      <4>1. i - Len(u) # j - Len(u)  BY <2>2, <3>0
      <4> QED BY <1>7, <3>4, <4>1 DEF Apart
    <3>5. CASE i \in DOMAIN u /\ w[i] = u[i] /\ j - Len(u) \in DOMAIN v /\ w[j] = v[j - Len(u)]
      <4>1. ToSet(w[i].chunks) \subseteq WorkSet(u) /\ ToSet(w[j].chunks) \subseteq WorkSet(v)
        BY <3>1, <3>2, <3>5
      <4> QED BY <1>7, <4>1
    <3>6. CASE j \in DOMAIN u /\ w[j] = u[j] /\ i - Len(u) \in DOMAIN v /\ w[i] = v[i - Len(u)]
      <4>1. ToSet(w[j].chunks) \subseteq WorkSet(u) /\ ToSet(w[i].chunks) \subseteq WorkSet(v)
        BY <3>1, <3>2, <3>6
      <4> QED BY <1>7, <4>1
    <3> QED BY <1>5, <3>3, <3>4, <3>5, <3>6
  <2> QED BY <2>1, <2>2 DEF Apart
<1> QED BY <1>1, <1>6, <1>7 DEF w

(* What is before and after a batch of a stack. *)
LEMMA WorkWithout ==
  ASSUME NEW D, NEW S, NEW work \in Seq(BatchOf(S)), NEW i \in DOMAIN work, Apart(D, work)
  PROVE  LET before == SubSeq(work, 1, i - 1)
             after  == SubSeq(work, i + 1, Len(work))
         IN  /\ before \in Seq(BatchOf(S)) /\ Apart(D, before)
             /\ after \in Seq(BatchOf(S)) /\ Apart(D, after)
             /\ WorkSet(before) \cap WorkSet(after) \subseteq D
             /\ WorkSet(before) \cup WorkSet(after) \subseteq WorkSet(work)
             /\ WorkSet(work) \ ToSet(work[i].chunks) \subseteq WorkSet(before) \cup WorkSet(after)
             /\ (WorkSet(before) \cup WorkSet(after)) \cap ToSet(work[i].chunks) \subseteq D
<1> DEFINE before == SubSeq(work, 1, i - 1)
           after  == SubSeq(work, i + 1, Len(work))
<1>1. i \in 1 .. Len(work) /\ Len(work) \in Nat /\ DOMAIN work = 1 .. Len(work)  OBVIOUS
<1>2. \A k \in 1 .. Len(work) : work[k] \in BatchOf(S)  OBVIOUS
<1>3. /\ before \in Seq(BatchOf(S)) /\ DOMAIN before = 1 .. i - 1
      /\ \A k \in 1 .. i - 1 : before[k] = work[k]
  <2>1. \A k \in 1 .. i - 1 : work[k] \in BatchOf(S)  BY <1>1, <1>2
  <2>2. /\ before \in Seq(BatchOf(S)) /\ Len(before) = i - 1
        /\ \A k \in 1 .. i - 1 : before[k] = work[1 + k - 1]
    BY <1>1, <2>1, SubSeqProperties
  <2> HIDE DEF before
  <2> QED BY <1>1, <2>2
<1>4. /\ after \in Seq(BatchOf(S)) /\ DOMAIN after = 1 .. Len(work) - i
      /\ \A k \in 1 .. Len(work) - i : after[k] = work[i + k]
  <2>1. \A k \in i + 1 .. Len(work) : work[k] \in BatchOf(S)  BY <1>1, <1>2
  <2>2. /\ after \in Seq(BatchOf(S)) /\ Len(after) = Len(work) - i
        /\ \A k \in 1 .. Len(work) - i : after[k] = work[(i + 1) + k - 1]
    <3>1. /\ after \in Seq(BatchOf(S))
          /\ Len(after) = IF i + 1 <= Len(work) THEN Len(work) - (i + 1) + 1 ELSE 0
          /\ \A k \in 1 .. Len(work) - (i + 1) + 1 : after[k] = work[(i + 1) + k - 1]
      BY <1>1, <2>1, SubSeqProperties
    <3> HIDE DEF after
    <3> QED BY <1>1, <3>1
  <2> HIDE DEF after
  <2> QED BY <1>1, <2>2
<1> HIDE DEF before, after
<1>5. \A k \in DOMAIN before : k \in DOMAIN work /\ k < i /\ before[k] = work[k]
  BY <1>1, <1>3
<1>6. \A k \in DOMAIN after : i + k \in DOMAIN work /\ i + k > i /\ after[k] = work[i + k]
  BY <1>1, <1>4
<1>7. \A k \in DOMAIN work : \/ k = i
                             \/ k \in DOMAIN before
                             \/ k - i \in DOMAIN after /\ after[k - i] = work[k]
  <2>1. SUFFICES ASSUME NEW k \in 1 .. Len(work), k > i
                 PROVE  k - i \in DOMAIN after /\ after[k - i] = work[k]
    BY <1>1, <1>3
  <2>2. k - i \in 1 .. Len(work) - i /\ i + (k - i) = k
    BY <1>1, <2>1
  <2> QED BY <1>4, <2>2
<1>8. Apart(D, before)
  BY <1>5, Zenon DEF Apart
<1>9. Apart(D, after)
  <2>1. \A k, l \in DOMAIN after : k # l => i + k # i + l  BY <1>1, <1>4
  <2> QED BY <1>6, <2>1, Zenon DEF Apart
<1>10. WorkSet(before) \cap WorkSet(after) \subseteq D
  <2>1. ASSUME NEW k \in DOMAIN before, NEW l \in DOMAIN after
        PROVE  ToSet(before[k].chunks) \cap ToSet(after[l].chunks) \subseteq D
    <3>1. k # i + l  BY <1>1, <1>3, <1>4, <1>5, <1>6
    <3> QED BY <1>5, <1>6, <3>1 DEF Apart
  <2> QED BY <2>1 DEF WorkSet
<1>11. /\ WorkSet(before) \cup WorkSet(after) \subseteq WorkSet(work)
       /\ (WorkSet(before) \cup WorkSet(after)) \cap ToSet(work[i].chunks) \subseteq D
  <2>1. ASSUME NEW k \in DOMAIN before
        PROVE  /\ ToSet(before[k].chunks) \subseteq WorkSet(work)
               /\ ToSet(before[k].chunks) \cap ToSet(work[i].chunks) \subseteq D
    <3>1. k # i  BY <1>1, <1>3, <1>5
    <3> QED BY <1>5, <3>1 DEF Apart, WorkSet
  <2>2. ASSUME NEW k \in DOMAIN after
        PROVE  /\ ToSet(after[k].chunks) \subseteq WorkSet(work)
               /\ ToSet(after[k].chunks) \cap ToSet(work[i].chunks) \subseteq D
    <3>1. i + k # i  BY <1>1, <1>4, <1>6
    <3> QED BY <1>6, <3>1 DEF Apart, WorkSet
  <2> QED BY <2>1, <2>2 DEF WorkSet
<1>12. WorkSet(work) \ ToSet(work[i].chunks) \subseteq WorkSet(before) \cup WorkSet(after)
  <2>1. SUFFICES ASSUME NEW k \in DOMAIN work, k # i
                 PROVE  ToSet(work[k].chunks) \subseteq WorkSet(before) \cup WorkSet(after)
    BY DEF WorkSet
  <2> QED BY <1>5, <1>7, <2>1 DEF WorkSet
<1> QED BY <1>3, <1>4, <1>8, <1>9, <1>10, <1>11, <1>12 DEF before, after

(* The batches hold each chunk once, and no other (embeddingBatches). *)
LEMMA BatchesPartition ==
  ASSUME NEW S, NEW pending \in Seq(S), Distinct(pending),
         NEW size \in Nat \ {0}, NEW limit \in Nat
  PROVE  /\ Batches(pending, size, limit) \in Seq(BatchOf(S))
         /\ Spread(Batches(pending, size, limit))
         /\ WorkSet(Batches(pending, size, limit)) = ToSet(pending)
<1> DEFINE L == Len(pending)
           rest(n) == SubSeq(pending, n + 1, L)
           step == [n \in 0 .. L - 1 |-> BatchLength(rest(n), size, limit)]
           batch(n) == [chunks |-> SubSeq(rest(n), 1, step[n]), size |-> size, limit |-> limit]
           head == [n \in 0 .. L - 1 |-> <<batch(n)>>]
           body(f) == [n \in 0 .. L |-> IF n = L THEN << >> ELSE head[n] \o f[n + step[n]]]
           plan == CHOOSE f : f = body(f)
<1>1. L \in Nat  OBVIOUS
<1>2. ASSUME NEW n \in 0 .. L - 1
      PROVE  rest(n) \in Seq(S) /\ rest(n) # << >> /\ Len(rest(n)) = L - n
             /\ \A k \in 1 .. L - n : rest(n)[k] = pending[n + k]
  <2>1. n \in Nat /\ n < L  BY <1>1
  <2>2. n + 1 \in 1 .. L + 1 /\ L \in n .. L  BY <1>1, <2>1
  <2>3. rest(n) \in Seq(S)  BY <2>2, SubSeqProperties
  <2>4. Len(rest(n)) = L - n  BY <1>1, <2>1
  <2>5. \A k \in 1 .. L - n : rest(n)[k] = pending[n + k]  BY <1>1, <2>1
  <2> HIDE DEF rest
  <2> QED BY <1>1, <2>1, <2>3, <2>4, <2>5, EmptySeq
<1>3. ASSUME NEW n \in 0 .. L - 1 PROVE step[n] \in 1 .. L - n
  <2>1. step[n] = BatchLength(rest(n), size, limit)  OBVIOUS
  <2> HIDE DEF rest, L
  <2> QED BY <1>2, <2>1, BatchLengthBounds
<1>4. ASSUME NEW n \in 0 .. L - 1
      PROVE  /\ batch(n) \in BatchOf(S)
             /\ Len(batch(n).chunks) = step[n]
             /\ \A k \in 1 .. step[n] : batch(n).chunks[k] = pending[n + k]
             /\ head[n] = <<batch(n)>>
  <2>0. head[n] = <<batch(n)>>  BY <1>1
  <2>1. step[n] \in 1 .. L - n /\ L \in Nat /\ n \in Nat  BY <1>1, <1>3
  <2>2. rest(n) \in Seq(S) /\ Len(rest(n)) = L - n
        /\ \A k \in 1 .. L - n : rest(n)[k] = pending[n + k]
    BY <1>2
  <2> HIDE DEF rest, step, L, head
  <2>3. \A k \in 1 .. step[n] : rest(n)[k] \in S
    BY <2>1, <2>2
  <2>4. /\ SubSeq(rest(n), 1, step[n]) \in Seq(S)
        /\ Len(SubSeq(rest(n), 1, step[n])) = step[n]
        /\ \A k \in 1 .. step[n] : SubSeq(rest(n), 1, step[n])[k] = rest(n)[k]
    BY <2>1, <2>3, SubSeqProperties
  <2>5. SubSeq(rest(n), 1, step[n]) # << >>
    <3>1. Len(SubSeq(rest(n), 1, step[n])) # 0 /\ Len(<< >>) = 0  BY <2>1, <2>4
    <3> QED BY <3>1, Zenon
  <2> QED BY <2>0, <2>1, <2>2, <2>4, <2>5 DEF BatchOf
<1>5. Batches(pending, size, limit) = plan[0]
  <2>1. ASSUME NEW f PROVE
        [n \in 0 .. L |->
            IF n = L THEN << >>
            ELSE LET r      == SubSeq(pending, n + 1, L)
                     length == BatchLength(r, size, limit)
                 IN  <<[chunks |-> SubSeq(r, 1, length), size |-> size, limit |-> limit]>>
                     \o f[n + length]]
        = body(f)
    <3>1. ASSUME NEW n \in 0 .. L, n # L
          PROVE  (LET r      == SubSeq(pending, n + 1, L)
                      length == BatchLength(r, size, limit)
                  IN  <<[chunks |-> SubSeq(r, 1, length), size |-> size, limit |-> limit]>>
                      \o f[n + length]) = head[n] \o f[n + step[n]]
      <4>1. n \in 0 .. L - 1  BY <1>1, <3>1
      <4>2. step[n] = BatchLength(rest(n), size, limit)  BY <4>1
      <4>3. head[n] = <<[chunks |-> SubSeq(rest(n), 1, step[n]), size |-> size, limit |-> limit]>>  BY <4>1
      <4> HIDE DEF step, head
      <4> QED BY <4>2, <4>3, Zenon
    <3> HIDE DEF head, step, L
    <3> QED BY <3>1, Zenon
  <2> HIDE DEF body
  <2> QED BY <2>1, Zenon DEF Batches
<1>6. /\ head \in [0 .. L - 1 -> Seq(BatchOf(S))]
      /\ step \in [0 .. L - 1 -> Nat]
      /\ \A n \in 0 .. L - 1 : step[n] \in 1 .. L - n
  <2>1. \A n \in 0 .. L - 1 : <<batch(n)>> \in Seq(BatchOf(S))
    <3>1. ASSUME NEW n \in 0 .. L - 1 PROVE <<batch(n)>> \in Seq(BatchOf(S))
      <4>1. batch(n) \in BatchOf(S)  BY <1>4
      <4> HIDE DEF batch
      <4> QED BY <4>1
    <3> HIDE DEF batch, L
    <3> QED BY <3>1
  <2>2. \A n \in 0 .. L - 1 : step[n] \in 1 .. L - n /\ step[n] \in Nat
    <3>1. ASSUME NEW n \in 0 .. L - 1 PROVE step[n] \in Nat
      <4>1. step[n] \in 1 .. L - n  BY <1>3
      <4> HIDE DEF step
      <4> QED BY <4>1
    <3> HIDE DEF step
    <3> QED BY <1>3, <3>1
  <2>3. head \in [0 .. L - 1 -> Seq(BatchOf(S))]
    <3> HIDE DEF batch, L
    <3> QED BY <2>1
  <2>4. step \in [0 .. L - 1 -> Nat]
    <3>1. step = [n \in 0 .. L - 1 |-> step[n]]  OBVIOUS
    <3> HIDE DEF step, L
    <3> QED BY <2>2, <3>1
  <2> HIDE DEF head, step, L
  <2> QED BY <2>2, <2>3, <2>4
<1>7. plan = body(plan)
  <2>1. \E f : f = body(f)
    <3> HIDE DEF head, step, L
    <3>0. PICK f \in [0 .. L -> Seq(BatchOf(S))] : Unfolds(f, head, step, L)
      BY <1>1, <1>6, DescendingRecursion
    <3>1. f[L] = << >> /\ \A n \in 0 .. L - 1 : f[n] = head[n] \o f[n + step[n]]
      BY <3>0 DEF Unfolds
    <3>2. \A n \in 0 .. L : f[n] = IF n = L THEN << >> ELSE head[n] \o f[n + step[n]]
      <4>1. \A n \in 0 .. L : n = L \/ n \in 0 .. L - 1  BY <1>1
      <4> QED BY <3>1, <4>1
    <3>3. f = [n \in 0 .. L |-> f[n]]  OBVIOUS
    <3>4. f = body(f)
      BY <3>2, <3>3, Zenon
    <3> HIDE DEF body
    <3> QED BY <3>4, Zenon
  <2> HIDE DEF body
  <2> QED BY <2>1
<1>8. plan[L] = << >> /\ \A n \in 0 .. L - 1 : plan[n] = head[n] \o plan[n + step[n]]
  <2> HIDE DEF plan, head, step, L
  <2>1. L \in 0 .. L /\ \A n \in 0 .. L - 1 : n \in 0 .. L /\ n # L  BY <1>1
  <2> QED BY <1>7, <2>1
<1> DEFINE R(n) == {pending[k] : k \in n + 1 .. L}
           Good(n) == plan[n] \in Seq(BatchOf(S)) /\ Spread(plan[n]) /\ WorkSet(plan[n]) = R(n)
           Bad == {j \in 0 .. L : ~ Good(L - j)}
<1>9. Good(L)
  <2>1. R(L) = {}  BY <1>1
  <2> HIDE DEF R, plan, L
  <2>2. << >> \in Seq(BatchOf(S)) /\ DOMAIN << >> = {}  OBVIOUS
  <2> QED BY <1>8, <2>1, <2>2 DEF Spread, Apart, WorkSet
<1>10. ASSUME NEW n \in 0 .. L - 1, Good(n + step[n]) PROVE Good(n)
  <2>1. step[n] \in 1 .. L - n /\ L \in Nat /\ n \in Nat
    <3> HIDE DEF step, L
    <3> QED BY <1>1, <1>6
  <2>2. /\ batch(n) \in BatchOf(S)
        /\ Len(batch(n).chunks) = step[n]
        /\ \A k \in 1 .. step[n] : batch(n).chunks[k] = pending[n + k]
        /\ head[n] = <<batch(n)>>
    BY <1>4
  <2>3. L = Len(pending) /\ DOMAIN pending = 1 .. L  OBVIOUS
  <2> DEFINE b == batch(n)
  <2> HIDE DEF batch, head, step, L, plan
  <2>4. plan[n] = <<b>> \o plan[n + step[n]]  BY <1>8, <2>2
  <2> HIDE DEF b
  <2>5. /\ b \in BatchOf(S) /\ b.chunks \in Seq(S) /\ DOMAIN b.chunks = 1 .. step[n]
        /\ \A k \in 1 .. step[n] : b.chunks[k] = pending[n + k]
    <3>1. b \in BatchOf(S) /\ Len(b.chunks) = step[n]
          /\ \A k \in 1 .. step[n] : b.chunks[k] = pending[n + k]
      BY <2>2 DEF b
    <3>2. b.chunks \in Seq(S)  BY <3>1 DEF BatchOf
    <3> QED BY <3>1, <3>2
  <2>6. \A k \in 1 .. step[n] : n + k \in 1 .. L /\ n + k \in n + 1 .. L /\ n + k <= n + step[n]
    BY <2>1
  <2>7. Distinct(b.chunks)
    <3>1. SUFFICES ASSUME NEW k \in 1 .. step[n], NEW l \in 1 .. step[n], b.chunks[k] = b.chunks[l]
                   PROVE  k = l
      BY <2>5 DEF Distinct
    <3>2. pending[n + k] = pending[n + l]  BY <2>5, <3>1
    <3>3. n + k = n + l  BY <2>3, <2>6, <3>2 DEF Distinct
    <3> QED BY <2>1, <3>3
  <2>8. ToSet(b.chunks) \cap R(n + step[n]) = {}
    <3>1. SUFFICES ASSUME NEW k \in 1 .. step[n], NEW l \in n + step[n] + 1 .. L, pending[n + k] = pending[l]
                   PROVE  FALSE
      BY <2>5 DEF ToSet
    <3>2. l \in 1 .. L /\ n + k \in 1 .. L /\ n + k # l  BY <2>1, <2>6
    <3> QED BY <2>3, <3>1, <3>2 DEF Distinct
  <2>9. ToSet(b.chunks) \cup R(n + step[n]) = R(n)
    <3>1. ToSet(b.chunks) \subseteq R(n)  BY <2>5, <2>6 DEF ToSet
    <3>2. R(n + step[n]) \subseteq R(n)
      <4>1. \A k \in n + step[n] + 1 .. L : k \in n + 1 .. L  BY <2>1
      <4> QED BY <4>1
    <3>3. ASSUME NEW k \in n + 1 .. L
          PROVE  pending[k] \in ToSet(b.chunks) \cup R(n + step[n])
      <4>1. CASE k <= n + step[n]
        <5>1. k - n \in 1 .. step[n] /\ n + (k - n) = k  BY <2>1, <4>1
        <5> QED BY <2>5, <5>1 DEF ToSet
      <4>2. CASE k > n + step[n]
        <5>1. k \in n + step[n] + 1 .. L  BY <2>1, <4>2
        <5> QED BY <5>1
      <4> QED BY <2>1, <4>1, <4>2
    <3> QED BY <3>1, <3>2, <3>3
  <2>10. <<b>> \in Seq(BatchOf(S)) /\ WorkSet(<<b>>) = ToSet(b.chunks) /\ Spread(<<b>>)
    <3>1. <<b>> \in Seq(BatchOf(S)) /\ DOMAIN <<b>> = {1} /\ <<b>>[1] = b  BY <2>5
    <3> QED BY <2>7, <3>1 DEF WorkSet, Spread, Apart
  <2>11. plan[n + step[n]] \in Seq(BatchOf(S)) /\ Spread(plan[n + step[n]]) /\ WorkSet(plan[n + step[n]]) = R(n + step[n])
    BY <1>10
  <2> HIDE DEF R
  <2> DEFINE u == <<b>>
             v == plan[n + step[n]]
  <2>12. /\ u \in Seq(BatchOf(S)) /\ v \in Seq(BatchOf(S)) /\ Spread(u) /\ Spread(v)
         /\ WorkSet(u) \cap WorkSet(v) = {} /\ WorkSet(u) \cup WorkSet(v) = R(n)
    BY <2>8, <2>9, <2>10, <2>11
  <2>13. plan[n] = u \o v  BY <2>4
  <2> HIDE DEF u, v
  <2>14. u \o v \in Seq(BatchOf(S)) /\ WorkSet(u \o v) = R(n) /\ Spread(u \o v)
    <3>1. u \in Seq(BatchOf(S)) /\ v \in Seq(BatchOf(S))  BY <2>12
    <3>2. /\ u \o v \in Seq(BatchOf(S))
          /\ WorkSet(u \o v) = WorkSet(u) \cup WorkSet(v)
          /\ Spread(u) /\ Spread(v) /\ WorkSet(u) \cap WorkSet(v) \subseteq {} => Spread(u \o v)
      <4> HIDE <2>12
      <4> QED BY <3>1, WorkConcat, Zenon DEF Spread
    <3>3. WorkSet(u) \cap WorkSet(v) \subseteq {}  BY <2>12
    <3> QED BY <2>12, <3>2, <3>3, Zenon
  <2> QED BY <2>13, <2>14
<1>11. Bad = {}
  <2> HIDE DEF Good
  <2>1. SUFFICES ASSUME Bad # {} PROVE FALSE
    <3> HIDE DEF Bad
    <3> QED OBVIOUS
  <2>2. Bad \in SUBSET Nat  BY <1>1
  <2>3. PICK j \in Bad : \A i \in Bad : j <= i
    <3> HIDE DEF Bad
    <3> QED BY <2>1, <2>2, LeastNatural
  <2> HIDE DEF L, step
  <2>4. j \in 0 .. L /\ ~ Good(L - j)  BY <2>3
  <2>5. j > 0
    <3>1. L - 0 = L  BY <1>1
    <3> QED BY <1>1, <1>9, <2>4, <3>1
  <2>6. L - j \in 0 .. L - 1  BY <1>1, <2>4, <2>5
  <2> DEFINE i == j - step[L - j]
  <2>7. step[L - j] \in 1 .. j  BY <1>1, <1>6, <2>4, <2>6
  <2>8. i \in 0 .. L /\ i < j /\ L - i = (L - j) + step[L - j]  BY <1>1, <2>4, <2>7
  <2>9. Good(L - i)  BY <2>3, <2>8
  <2> HIDE DEF i
  <2> QED BY <1>10, <2>4, <2>6, <2>8, <2>9
<1>12. Good(0)
  <2> HIDE DEF Good, L
  <2>1. L \in 0 .. L /\ L - L = 0  BY <1>1
  <2> QED BY <1>11, <2>1
<1>13. R(0) = ToSet(pending)
  BY DEF ToSet
<1> HIDE DEF R, plan
<1> QED BY <1>5, <1>12, <1>13

-----------------------------------------------------------------------------
(* Sequences joined to one *)

(* Two sequences in a row. *)
LEMMA SeqConcat ==
  ASSUME NEW S, NEW u \in Seq(S), NEW v \in Seq(S)
  PROVE  /\ u \o v \in Seq(S)
         /\ ToSet(u \o v) = ToSet(u) \cup ToSet(v)
         /\ Distinct(u) /\ Distinct(v) /\ ToSet(u) \cap ToSet(v) = {} => Distinct(u \o v)
<1> DEFINE w == u \o v
<1>1. /\ w \in Seq(S) /\ Len(w) = Len(u) + Len(v)
      /\ \A i \in 1 .. Len(u) + Len(v) : w[i] = IF i <= Len(u) THEN u[i] ELSE v[i - Len(u)]
  BY ConcatProperties
<1>2. /\ Len(u) \in Nat /\ Len(v) \in Nat
      /\ DOMAIN u = 1 .. Len(u) /\ DOMAIN v = 1 .. Len(v) /\ DOMAIN w = 1 .. Len(u) + Len(v)
  BY <1>1
<1>3. \A i \in DOMAIN u : i \in DOMAIN w /\ w[i] = u[i]
  BY <1>1, <1>2
<1>4. \A i \in DOMAIN v : i + Len(u) \in DOMAIN w /\ w[i + Len(u)] = v[i]
  BY <1>1, <1>2
<1>5. \A i \in DOMAIN w : \/ i \in DOMAIN u /\ w[i] = u[i]
                          \/ i - Len(u) \in DOMAIN v /\ w[i] = v[i - Len(u)]
  BY <1>1, <1>2
<1> HIDE DEF w
<1>6. ToSet(w) = ToSet(u) \cup ToSet(v)
  BY <1>3, <1>4, <1>5 DEF ToSet
<1>7. ASSUME Distinct(u), Distinct(v), ToSet(u) \cap ToSet(v) = {}
      PROVE  Distinct(w)
  <2>1. SUFFICES ASSUME NEW i \in DOMAIN w, NEW j \in DOMAIN w, w[i] = w[j]
                 PROVE  i = j
    BY DEF Distinct
  <2>2. i \in Int /\ j \in Int /\ Len(u) \in Int  BY <1>2
  <2>3. CASE i \in DOMAIN u /\ w[i] = u[i] /\ j \in DOMAIN u /\ w[j] = u[j]
    BY <1>7, <2>1, <2>3 DEF Distinct
  <2>4. CASE i - Len(u) \in DOMAIN v /\ w[i] = v[i - Len(u)] /\ j - Len(u) \in DOMAIN v /\ w[j] = v[j - Len(u)]
    <3>1. i - Len(u) = j - Len(u)  BY <1>7, <2>1, <2>4 DEF Distinct
    <3> QED BY <2>2, <3>1
  <2>5. CASE i \in DOMAIN u /\ w[i] = u[i] /\ j - Len(u) \in DOMAIN v /\ w[j] = v[j - Len(u)]
    BY <1>7, <2>1, <2>5 DEF ToSet
  <2>6. CASE j \in DOMAIN u /\ w[j] = u[j] /\ i - Len(u) \in DOMAIN v /\ w[i] = v[i - Len(u)]
    BY <1>7, <2>1, <2>6 DEF ToSet
  <2> QED BY <1>5, <2>3, <2>4, <2>5, <2>6
<1> QED BY <1>1, <1>6, <1>7 DEF w

(* What a function that joins sequences from the first on does. *)
Joins(f, seqs, n) ==
    \A i \in 1 .. n : f[i] = IF i = 1 THEN seqs[i] ELSE f[i - 1] \o seqs[i]

(* A function that is defined from the start of a range on exists. *)
LEMMA AscendingRecursion ==
  ASSUME NEW V, NEW seqs \in Seq(Seq(V))
  PROVE  \E f \in [1 .. Len(seqs) -> Seq(V)] : Joins(f, seqs, Len(seqs))
<1> DEFINE size == Len(seqs)
           Good(j) == \E f \in [1 .. j -> Seq(V)] : Joins(f, seqs, j)
           Bad == {j \in 0 .. size : ~ Good(j)}
<1>0. size \in Nat /\ \A i \in 1 .. size : seqs[i] \in Seq(V)  OBVIOUS
<1>1. Good(0)
  <2> DEFINE f == [n \in 1 .. 0 |-> << >>]
  <2>1. f \in [1 .. 0 -> Seq(V)]  OBVIOUS
  <2>2. 1 .. 0 = {}  OBVIOUS
  <2> HIDE DEF f
  <2> QED BY <2>1, <2>2 DEF Joins
<1>2. ASSUME NEW j \in 0 .. size, j > 0, Good(j - 1)  PROVE Good(j)
  <2>0. j - 1 \in Nat /\ j \in 1 .. size /\ j \in Nat  BY <1>0, <1>2
  <2>1. PICK f \in [1 .. j - 1 -> Seq(V)] : Joins(f, seqs, j - 1)  BY <1>2
  <2> DEFINE g == [n \in 1 .. j |-> IF n = j THEN IF j = 1 THEN seqs[j] ELSE f[j - 1] \o seqs[j] ELSE f[n]]
  <2>2. \A n \in 1 .. j : n # j => n \in 1 .. j - 1  BY <2>0
  <2>3. g \in [1 .. j -> Seq(V)]
    <3>1. seqs[j] \in Seq(V)  BY <1>0, <2>0
    <3>2. j # 1 => f[j - 1] \o seqs[j] \in Seq(V)
      <4>1. SUFFICES ASSUME j # 1 PROVE f[j - 1] \o seqs[j] \in Seq(V)  OBVIOUS
      <4>2. j - 1 \in 1 .. j - 1  BY <2>0, <4>1
      <4>3. f[j - 1] \in Seq(V)  BY <4>2
      <4> QED BY <3>1, <4>3, ConcatProperties
    <3> QED BY <2>2, <3>1, <3>2
  <2>4. ASSUME NEW i \in 1 .. j
        PROVE  g[i] = IF i = 1 THEN seqs[i] ELSE g[i - 1] \o seqs[i]
    <3>1. i # 1 => i - 1 \in 1 .. j /\ i - 1 # j /\ i - 1 \in 1 .. j - 1  BY <2>0
    <3>2. i # 1 => g[i - 1] = f[i - 1]  BY <3>1
    <3>3. CASE i = j
      <4>1. g[i] = IF j = 1 THEN seqs[j] ELSE f[j - 1] \o seqs[j]  BY <3>3
      <4> HIDE DEF g
      <4> QED BY <3>2, <3>3, <4>1
    <3>4. CASE i # j
      <4>1. i \in 1 .. j - 1  BY <2>2, <3>4
      <4>2. g[i] = f[i]  BY <3>4
      <4>3. f[i] = IF i = 1 THEN seqs[i] ELSE f[i - 1] \o seqs[i]  BY <2>1, <4>1 DEF Joins
      <4> HIDE DEF g
      <4> QED BY <3>2, <4>2, <4>3
    <3> QED BY <3>3, <3>4
  <2> HIDE DEF g
  <2>5. Joins(g, seqs, j)  BY <2>4 DEF Joins
  <2> QED BY <2>3, <2>5
<1>3. Bad = {}
  <2> HIDE DEF Good
  <2>1. SUFFICES ASSUME Bad # {} PROVE FALSE
    <3> HIDE DEF Bad
    <3> QED OBVIOUS
  <2>2. Bad \in SUBSET Nat  BY <1>0
  <2>3. PICK j \in Bad : \A i \in Bad : j <= i
    <3> HIDE DEF Bad
    <3> QED BY <2>1, <2>2, LeastNatural
  <2> HIDE DEF size
  <2>4. j \in 0 .. size /\ ~ Good(j)  BY <2>3
  <2>5. j > 0  BY <1>0, <1>1, <2>4
  <2>6. j - 1 \in 0 .. size /\ j - 1 < j  BY <1>0, <2>4, <2>5
  <2>7. Good(j - 1)  BY <2>3, <2>6
  <2> QED BY <1>2, <2>4, <2>5, <2>7
<1>4. size \in 0 .. size  BY <1>0
<1> HIDE DEF Good
<1>5. Good(size)  BY <1>3, <1>4
<1> QED BY <1>5 DEF Good

(* Joined sequences that share nothing hold each element once. *)
LEMMA FlattenPartition ==
  ASSUME NEW S, NEW seqs \in Seq(Seq(S)), \A i \in DOMAIN seqs : Distinct(seqs[i]),
         \A i, j \in DOMAIN seqs : i # j => ToSet(seqs[i]) \cap ToSet(seqs[j]) = {}
  PROVE  /\ FlattenSeq(seqs) \in Seq(S) /\ Distinct(FlattenSeq(seqs))
         /\ ToSet(FlattenSeq(seqs)) = UNION {ToSet(seqs[i]) : i \in DOMAIN seqs}
<1> DEFINE L == Len(seqs)
           body(f) == [i \in 1 .. L |-> IF i = 1 THEN seqs[i] ELSE f[i - 1] \o seqs[i]]
           flat == CHOOSE f : f = body(f)
<1>0. L \in Nat /\ DOMAIN seqs = 1 .. L /\ \A i \in 1 .. L : seqs[i] \in Seq(S)  OBVIOUS
<1>1. CASE L = 0
  <2>1. FlattenSeq(seqs) = seqs /\ seqs = << >>  BY <1>1, EmptySeq DEF FlattenSeq
  <2>2. DOMAIN << >> = {} /\ << >> \in Seq(S)  OBVIOUS
  <2> QED BY <2>1, <2>2 DEF Distinct, ToSet
<1>2. CASE L # 0
  <2>1. FlattenSeq(seqs) = flat[L]
    <3> HIDE DEF body
    <3> QED BY <1>2, Zenon DEF FlattenSeq, body
  <2>2. flat = body(flat)
    <3>1. PICK f \in [1 .. L -> Seq(S)] : Joins(f, seqs, L)  BY AscendingRecursion
    <3>2. f = [i \in 1 .. L |-> f[i]]  OBVIOUS
    <3>3. f = body(f)  BY <3>1, <3>2, Zenon DEF Joins
    <3> HIDE DEF body
    <3> QED BY <3>3, Zenon
  <2>3. \A i \in 1 .. L : flat[i] = IF i = 1 THEN seqs[i] ELSE flat[i - 1] \o seqs[i]
    <3> HIDE DEF flat, L
    <3> QED BY <2>2
  <2> DEFINE R(n) == UNION {ToSet(seqs[i]) : i \in 1 .. n}
             Good(n) == flat[n] \in Seq(S) /\ Distinct(flat[n]) /\ ToSet(flat[n]) = R(n)
             Bad == {j \in 1 .. L : ~ Good(j)}
  <2> HIDE DEF flat, L
  <2>4. 1 \in 1 .. L  BY <1>0, <1>2
  <2>5. Good(1)
    <3>1. flat[1] = seqs[1]  BY <2>3, <2>4
    <3>2. 1 .. 1 = {1}  OBVIOUS
    <3> QED BY <1>0, <2>4, <3>1, <3>2
  <2>6. ASSUME NEW j \in 1 .. L, j # 1, Good(j - 1) PROVE Good(j)
    <3>1. j - 1 \in 1 .. L /\ 1 .. j = (1 .. j - 1) \cup {j} /\ j \notin 1 .. j - 1 /\ 1 .. j - 1 \subseteq 1 .. L
      BY <1>0, <2>6
    <3>2. flat[j] = flat[j - 1] \o seqs[j]  BY <2>3, <2>6
    <3>3. flat[j - 1] \in Seq(S) /\ seqs[j] \in Seq(S) /\ Distinct(flat[j - 1]) /\ Distinct(seqs[j])
      BY <1>0, <2>6
    <3>4. ToSet(flat[j - 1]) \cap ToSet(seqs[j]) = {}
      <4>1. \A i \in 1 .. j - 1 : ToSet(seqs[i]) \cap ToSet(seqs[j]) = {}  BY <1>0, <3>1
      <4> QED BY <2>6, <4>1
    <3>5. R(j) = R(j - 1) \cup ToSet(seqs[j])  BY <3>1
    <3> DEFINE u == flat[j - 1]
               v == seqs[j]
    <3>6. /\ u \o v \in Seq(S)
          /\ ToSet(u \o v) = ToSet(u) \cup ToSet(v)
          /\ Distinct(u) /\ Distinct(v) /\ ToSet(u) \cap ToSet(v) = {} => Distinct(u \o v)
      <4>1. u \in Seq(S) /\ v \in Seq(S)  BY <3>3
      <4> HIDE DEF u, v
      <4> QED BY <4>1, SeqConcat, Zenon
    <3>7. ToSet(u) = R(j - 1)  BY <2>6
    <3> HIDE DEF R
    <3> QED BY <3>2, <3>3, <3>4, <3>5, <3>6, <3>7
  <2>7. Bad = {}
    <3> HIDE DEF Good
    <3>1. SUFFICES ASSUME Bad # {} PROVE FALSE
      <4> HIDE DEF Bad
      <4> QED OBVIOUS
    <3>2. Bad \in SUBSET Nat  BY <1>0
    <3>3. PICK j \in Bad : \A i \in Bad : j <= i
      <4> HIDE DEF Bad
      <4> QED BY <3>1, <3>2, LeastNatural
    <3>4. j \in 1 .. L /\ ~ Good(j) /\ j # 1  BY <2>5, <3>3
    <3>5. j - 1 \in 1 .. L /\ j - 1 < j  BY <1>0, <3>4
    <3>6. Good(j - 1)  BY <3>3, <3>5
    <3> QED BY <2>6, <3>4, <3>6
  <2>8. L \in 1 .. L  BY <1>0, <1>2
  <2>9. Good(L)
    <3> HIDE DEF Good
    <3> QED BY <2>7, <2>8
  <2> QED BY <1>0, <2>1, <2>9
<1> QED BY <1>1, <1>2

-----------------------------------------------------------------------------
(* Chunks and their halves *)

(* What the ordinals of halves are computed from. *)
LEMMA Division ==
  /\ \A n, r \in Nat : r < SplitFactor => (n * SplitFactor + r) \div SplitFactor = n
  /\ \A n \in Nat : n * SplitFactor \in Nat
  /\ SplitFactor \div 2 \in Nat \ {0} /\ SplitFactor \div 2 + 1 < SplitFactor
<1>1. ASSUME NEW d \in Nat, d > 2, NEW n \in Nat, NEW r \in Nat, r < d PROVE (n * d + r) \div d = n
  BY <1>1, SMTT(30)
<1>2. ASSUME NEW d \in Nat, NEW n \in Nat PROVE n * d \in Nat
  BY SMTT(30)
<1>3. SplitFactor \in Nat /\ SplitFactor > 2  BY SizesAssumption
<1>4. SplitFactor \div 2 \in Nat \ {0} /\ SplitFactor \div 2 + 1 < SplitFactor
  BY <1>3
<1> QED BY <1>1, <1>2, <1>3, <1>4

(* The two halves of a chunk (splitEmbeddingChunk). *)
Left(x) == [x EXCEPT !.ordinal = x.ordinal * SplitFactor + SplitFactor \div 2, !.size = x.size \div 2]
Right(x) == [x EXCEPT !.ordinal = x.ordinal * SplitFactor + SplitFactor \div 2 + 1, !.size = x.size - x.size \div 2]

(* Chunks of the active plan, of any size and depth. *)
ChunkType == [section : Sections, content : Contents, ordinal : Nat, size : Nat \ {0}, plan : {Plan}]

(* The halves of a chunk are these two, or none. *)
LEMMA HalvesOf ==
  ASSUME NEW x
  PROVE  /\ Halves(x) = IF x.size < 2 THEN << >> ELSE <<Left(x), Right(x)>>
         /\ ToSet(Halves(x)) = IF x.size < 2 THEN {} ELSE {Left(x), Right(x)}
<1>1. Halves(x) = IF x.size < 2 THEN << >> ELSE <<Left(x), Right(x)>>
  BY Zenon DEF Halves, Left, Right
<1>2. ToSet(<< >>) = {}
  BY DEF ToSet
<1>3. ASSUME NEW l, NEW r PROVE ToSet(<<l, r>>) = {l, r}
  BY DEF ToSet
<1> QED BY <1>1, <1>2, <1>3

(* A half is a chunk, and the two together are as large as the whole. *)
LEMMA HalfShape ==
  ASSUME NEW x \in ChunkType, x.size >= 2
  PROVE  /\ Left(x) \in ChunkType /\ Right(x) \in ChunkType
         /\ Left(x).section = x.section /\ Left(x).content = x.content /\ Left(x).size = x.size \div 2
         /\ Right(x).section = x.section /\ Right(x).content = x.content /\ Right(x).size = x.size - x.size \div 2
         /\ Left(x).ordinal = x.ordinal * SplitFactor + SplitFactor \div 2
         /\ Right(x).ordinal = x.ordinal * SplitFactor + SplitFactor \div 2 + 1
         /\ Left(x).size + Right(x).size = x.size
<1>1. /\ x.ordinal \in Nat /\ x.ordinal * SplitFactor \in Nat /\ SplitFactor \div 2 \in Nat
      /\ x.size \in Nat
  BY Division DEF ChunkType
<1> DEFINE o == x.ordinal * SplitFactor + SplitFactor \div 2
           n == x.size
<1>2. o \in Nat /\ o + 1 \in Nat  BY <1>1
<1>3. n \div 2 \in Nat \ {0} /\ n - n \div 2 \in Nat \ {0} /\ n \div 2 + (n - n \div 2) = n
  <2>1. ASSUME NEW k \in Nat, k >= 2
        PROVE  k \div 2 \in Nat \ {0} /\ k - k \div 2 \in Nat \ {0} /\ k \div 2 + (k - k \div 2) = k
    BY <2>1
  <2>2. n \in Nat /\ n >= 2  BY <1>1
  <2> HIDE DEF n
  <2> QED BY <2>1, <2>2
<1>4. /\ Left(x) = [x EXCEPT !.ordinal = o, !.size = n \div 2]
      /\ Right(x) = [x EXCEPT !.ordinal = o + 1, !.size = n - n \div 2]
  BY DEF Left, Right
<1> HIDE DEF o, n
<1>5. /\ Left(x) = [section |-> x.section, content |-> x.content, ordinal |-> o, size |-> n \div 2, plan |-> x.plan]
      /\ Right(x) = [section |-> x.section, content |-> x.content, ordinal |-> o + 1, size |-> n - n \div 2, plan |-> x.plan]
  BY <1>4 DEF ChunkType
<1>6. x.section \in Sections /\ x.content \in Contents /\ x.plan \in {Plan}  BY DEF ChunkType
<1> QED BY <1>2, <1>3, <1>5, <1>6 DEF ChunkType, o, n

(* A text has chunks, and fewer than half the split factor. *)
LEMMA TextFacts ==
  ASSUME NEW c \in Contents
  PROVE  /\ DOMAIN Text[c] = 1 .. Len(Text[c]) /\ Len(Text[c]) \in Nat \ {0} /\ Text[c] # << >>
         /\ \A i \in DOMAIN Text[c] : /\ Text[c][i] \in Nat \ {0}
                                      /\ i - 1 \in Nat /\ i - 1 < SplitFactor \div 2
<1>1. Text[c] \in Seq(Nat \ {0}) /\ Len(Text[c]) \in 1 .. SplitFactor \div 2  BY TextAssumption
<1>2. SplitFactor \div 2 \in Nat  BY Division
<1> QED BY <1>1, <1>2

(* The chunks that are expected have their ordinals, and their halves know whose they are. *)
LEMMA SlotShape ==
  ASSUME NEW s \in Sections, NEW c \in Contents, NEW i \in DOMAIN Text[c]
  PROVE  LET e == Expected(s, c)[i]
         IN  /\ e = [section |-> s, content |-> c, ordinal |-> i - 1, size |-> Text[c][i], plan |-> Plan]
             /\ e \in ChunkType /\ Root(e.ordinal) = i - 1
             /\ e.size >= 2 => /\ Root(Left(e).ordinal) = i - 1 /\ Root(Right(e).ordinal) = i - 1
                               /\ Left(e) # Right(e) /\ Left(e) # e /\ Right(e) # e
<1> DEFINE e == Expected(s, c)[i]
<1>1. e = [section |-> s, content |-> c, ordinal |-> i - 1, size |-> Text[c][i], plan |-> Plan]
  BY DEF Expected, Chunk
<1>2. Text[c][i] \in Nat \ {0} /\ i - 1 \in Nat /\ i - 1 < SplitFactor \div 2  BY TextFacts
<1>3. e \in ChunkType  BY <1>1, <1>2 DEF ChunkType
<1>4. Root(e.ordinal) = i - 1  BY <1>1, <1>2 DEF Root
<1>5. ASSUME e.size >= 2
      PROVE  /\ Root(Left(e).ordinal) = i - 1 /\ Root(Right(e).ordinal) = i - 1
             /\ Left(e) # Right(e) /\ Left(e) # e /\ Right(e) # e
  <2> DEFINE h == SplitFactor \div 2
             m == (i - 1) * SplitFactor
  <2>1. h \in Nat \ {0} /\ h + 1 < SplitFactor /\ SplitFactor \in Nat /\ m \in Nat  BY <1>2, Division, SizesAssumption
  <2>2. Left(e).ordinal = m + h /\ Right(e).ordinal = m + h + 1 /\ e.ordinal = i - 1
    BY <1>1, <1>3, <1>5, HalfShape
  <2>3. h \in Nat /\ h < SplitFactor /\ h + 1 \in Nat  BY <2>1
  <2>4. (m + h) \div SplitFactor = i - 1 /\ (m + (h + 1)) \div SplitFactor = i - 1
    BY <1>2, <2>1, <2>3, Division
  <2>5. i - 1 < h  BY <1>2
  <2> HIDE DEF h, m, e
  <2>6. ~ (m + h < h) /\ ~ (m + h + 1 < h) /\ m + h + 1 = m + (h + 1)  BY <2>1
  <2>7. Root(Left(e).ordinal) = i - 1 /\ Root(Right(e).ordinal) = i - 1
    BY <2>2, <2>4, <2>6 DEF Root, h
  <2>8. m + h # m + h + 1 /\ m + h # i - 1 /\ m + h + 1 # i - 1  BY <2>1, <2>5, <1>2
  <2>9. Left(e).ordinal # Right(e).ordinal /\ Left(e).ordinal # e.ordinal /\ Right(e).ordinal # e.ordinal
    BY <2>2, <2>8
  <2> QED BY <2>7, <2>9
<1> QED BY <1>1, <1>3, <1>4, <1>5

(* What some chunks amount to. *)
Amount(T) == FoldSet(LAMBDA x, n : x.size + n, 0, T)

(* The amount of at most three chunks. *)
LEMMA FoldThree ==
  ASSUME NEW a, NEW b, NEW c, a # b, a # c, b # c,
         a.size \in Nat, b.size \in Nat, c.size \in Nat,
         NEW S \in SUBSET {a, b, c}
  PROVE  Amount(S)
         = (IF a \in S THEN a.size ELSE 0) + (IF b \in S THEN b.size ELSE 0) + (IF c \in S THEN c.size ELSE 0)
<1> DEFINE w(T) == (IF a \in T THEN a.size ELSE 0) + (IF b \in T THEN b.size ELSE 0) + (IF c \in T THEN c.size ELSE 0)
           pick(T) == CHOOSE x \in T : TRUE
           body(f) == [T \in SUBSET S |-> IF T = {} THEN 0 ELSE pick(T).size + f[T \ {pick(T)}]]
           iter == CHOOSE f : f = body(f)
<1>1. Amount(S) = iter[S]
  BY Zenon DEF Amount, FoldSet, MapThenFoldSet
<1>2. \A T \in SUBSET S : T # {} => pick(T) \in T /\ T \ {pick(T)} \in SUBSET S
  OBVIOUS
<1>3. \A T \in SUBSET S : T # {} => w(T) = pick(T).size + w(T \ {pick(T)})
  <2>1. SUFFICES ASSUME NEW T \in SUBSET S, NEW x \in T
                 PROVE  w(T) = x.size + w(T \ {x})
    <3> HIDE DEF w, pick
    <3> QED BY <1>2
  <2>2. x = a \/ x = b \/ x = c  OBVIOUS
  <2> QED BY <2>2
<1>4. w({}) = 0  OBVIOUS
<1> HIDE DEF w, pick
<1>5. iter = body(iter)
  <2> DEFINE f == [T \in SUBSET S |-> w(T)]
  <2>1. \A T \in SUBSET S : f[T] = w(T)  OBVIOUS
  <2>2. f = [T \in SUBSET S |-> f[T]]  OBVIOUS
  <2> HIDE DEF f
  <2>3. \A T \in SUBSET S : f[T] = IF T = {} THEN 0 ELSE pick(T).size + f[T \ {pick(T)}]
    BY <1>2, <1>3, <1>4, <2>1
  <2>4. f = body(f)  BY <2>2, <2>3, Zenon
  <2> HIDE DEF body
  <2> QED BY <2>4, Zenon
<1>6. \A T \in SUBSET S : iter[T] = IF T = {} THEN 0 ELSE pick(T).size + iter[T \ {pick(T)}]
  <2> HIDE DEF iter
  <2> QED BY <1>5
<1> HIDE DEF iter
<1>7. iter[{}] = w({})  BY <1>4, <1>6
<1>8. ASSUME NEW x, NEW T \in SUBSET S, T \subseteq {x} PROVE iter[T] = w(T)
  <2>1. CASE T = {}  BY <1>7, <2>1
  <2>2. CASE T # {}
    <3>1. T \ {pick(T)} = {}  BY <1>2, <1>8, <2>2
    <3> QED BY <1>3, <1>6, <1>7, <2>2, <3>1
  <2> QED BY <2>1, <2>2
<1>9. ASSUME NEW x, NEW y, NEW T \in SUBSET S, T \subseteq {x, y} PROVE iter[T] = w(T)
  <2>1. CASE T = {}  BY <1>7, <2>1
  <2>2. CASE T # {}
    <3>1. T \ {pick(T)} \in SUBSET S /\ (T \ {pick(T)} \subseteq {x} \/ T \ {pick(T)} \subseteq {y})  BY <1>2, <1>9, <2>2
    <3>2. iter[T \ {pick(T)}] = w(T \ {pick(T)})  BY <1>8, <3>1
    <3> QED BY <1>3, <1>6, <2>2, <3>2
  <2> QED BY <2>1, <2>2
<1>10. iter[S] = w(S)
  <2>1. CASE S = {}  BY <1>7, <2>1
  <2>2. CASE S # {}
    <3>0. S \in SUBSET S /\ pick(S) \in S  BY <1>2, <2>2
    <3>1. S \ {pick(S)} \in SUBSET S
          /\ (S \ {pick(S)} \subseteq {a, b} \/ S \ {pick(S)} \subseteq {a, c} \/ S \ {pick(S)} \subseteq {b, c})  BY <3>0
    <3>2. iter[S \ {pick(S)}] = w(S \ {pick(S)})  BY <1>9, <3>1
    <3> QED BY <1>3, <1>6, <2>2, <3>0, <3>2
  <2> QED BY <2>1, <2>2
<1> QED BY <1>1, <1>10 DEF w

-----------------------------------------------------------------------------
(* The chunks of one slot *)

(* The chunks of the active plan that are stored for a section. *)
Active(s, stored) == {x \in stored : x.section = s /\ x.plan = Plan}

(* A slot of a section: an expected chunk and its halves. *)
Slot(s, c, i) == {Expected(s, c)[i]} \cup ToSet(Halves(Expected(s, c)[i]))

(* What a slot holds. *)
LEMMA SlotOf ==
  ASSUME NEW s \in Sections, NEW c \in Contents, NEW i \in DOMAIN Text[c]
  PROVE  LET e == Expected(s, c)[i]
         IN  /\ Slot(s, c, i) = IF e.size < 2 THEN {e} ELSE {e, Left(e), Right(e)}
             /\ \A x \in Slot(s, c, i) :
                   x \in ChunkType /\ x.section = s /\ x.content = c /\ Root(x.ordinal) = i - 1
<1> DEFINE e == Expected(s, c)[i]
<1>1. /\ e \in ChunkType /\ e.section = s /\ e.content = c /\ Root(e.ordinal) = i - 1
      /\ e.size >= 2 => Root(Left(e).ordinal) = i - 1 /\ Root(Right(e).ordinal) = i - 1
  <2>1. /\ e = [section |-> s, content |-> c, ordinal |-> i - 1, size |-> Text[c][i], plan |-> Plan]
        /\ e \in ChunkType /\ Root(e.ordinal) = i - 1
        /\ e.size >= 2 => Root(Left(e).ordinal) = i - 1 /\ Root(Right(e).ordinal) = i - 1
    BY SlotShape, Zenon
  <2> HIDE DEF e
  <2> QED BY <2>1
<1>2. ToSet(Halves(e)) = IF e.size < 2 THEN {} ELSE {Left(e), Right(e)}
  BY HalvesOf
<1>3. Slot(s, c, i) = {e} \cup ToSet(Halves(e))  BY DEF Slot
<1> HIDE DEF e
<1>4. e.size \in Nat  BY <1>1 DEF ChunkType
<1>5. e.size >= 2 => /\ Left(e) \in ChunkType /\ Left(e).section = s /\ Left(e).content = c
                     /\ Right(e) \in ChunkType /\ Right(e).section = s /\ Right(e).content = c
  BY <1>1, HalfShape
<1>6. CASE e.size < 2
  BY <1>1, <1>2, <1>3, <1>6 DEF e
<1>7. CASE e.size >= 2
  <2>1. ~ (e.size < 2)  BY <1>4, <1>7
  <2>2. Slot(s, c, i) = {e, Left(e), Right(e)}  BY <1>2, <1>3, <2>1
  <2>3. \A x \in Slot(s, c, i) :
           x \in ChunkType /\ x.section = s /\ x.content = c /\ Root(x.ordinal) = i - 1
    BY <1>1, <1>5, <1>7, <2>2
  <2> QED BY <2>1, <2>2, <2>3 DEF e
<1> QED BY <1>4, <1>6, <1>7

(* The pieces of a section are those of its slots. *)
LEMMA PieceOf ==
  ASSUME NEW s, NEW c
  PROVE  Pieces(s, c) = UNION {Slot(s, c, i) : i \in DOMAIN Text[c]}
BY DEF Pieces, Slot

(* Chunks of a slot amount to its text exactly when they are the whole or the two halves. *)
LEMMA SlotSum ==
  ASSUME NEW s \in Sections, NEW c \in Contents, NEW i \in DOMAIN Text[c],
         NEW T \in SUBSET Slot(s, c, i)
  PROVE  LET e == Expected(s, c)[i]
         IN  /\ Amount(T) = Text[c][i]
                <=> T = {e} \/ (e.size >= 2 /\ T = {Left(e), Right(e)})
<1> DEFINE e == Expected(s, c)[i]
<1>1. /\ e \in ChunkType /\ e.size = Text[c][i] /\ e.size \in Nat \ {0}
      /\ e.size >= 2 => Left(e) # Right(e) /\ Left(e) # e /\ Right(e) # e
  <2>1. /\ e = [section |-> s, content |-> c, ordinal |-> i - 1, size |-> Text[c][i], plan |-> Plan]
        /\ e \in ChunkType
        /\ e.size >= 2 => Left(e) # Right(e) /\ Left(e) # e /\ Right(e) # e
    BY SlotShape, Zenon
  <2> HIDE DEF e
  <2>2. e.size = Text[c][i] /\ e.size \in Nat \ {0}
    <3>1. e.size \in Nat \ {0}  BY <2>1 DEF ChunkType
    <3> QED BY <2>1, <3>1
  <2> QED BY <2>1, <2>2
<1>2. Slot(s, c, i) = IF e.size < 2 THEN {e} ELSE {e, Left(e), Right(e)}
  BY SlotOf
<1> HIDE DEF e
<1>3. CASE e.size < 2
  <2>1. PICK b, d : b # d /\ b # e /\ d # e /\ b.size \in Nat /\ d.size \in Nat
    <3> DEFINE f(k) == [size |-> k]
    <3>1. PICK k \in {1, 2, 3}, l \in {1, 2, 3} : k # l /\ f(k) # e /\ f(l) # e
      <4>1. \A k, l \in {1, 2, 3} : f(k) = f(l) => k = l
        <5>1. \A k \in {1, 2, 3} : f(k).size = k  OBVIOUS
        <5> HIDE DEF f
        <5> QED BY <5>1
      <4> HIDE DEF f
      <4>2. 1 \in {1, 2, 3} /\ 2 \in {1, 2, 3} /\ 3 \in {1, 2, 3} /\ 1 # 2 /\ 1 # 3 /\ 2 # 3  OBVIOUS
      <4> QED BY <4>1, <4>2
    <3>2. f(k) # f(l) /\ f(k).size = k /\ f(l).size = l
      <4>1. f(k).size = k /\ f(l).size = l  OBVIOUS
      <4> HIDE DEF f
      <4> QED BY <3>1, <4>1
    <3> HIDE DEF f
    <3> QED BY <3>1, <3>2
  <2>2. T \in SUBSET {e, b, d} /\ T \subseteq {e}  BY <1>2, <1>3
  <2>3. Amount(T)
         = (IF e \in T THEN e.size ELSE 0) + (IF b \in T THEN b.size ELSE 0) + (IF d \in T THEN d.size ELSE 0)
    BY <1>1, <2>1, <2>2, FoldThree
  <2>4. b \notin T /\ d \notin T  BY <2>1, <2>2
  <2>5. Amount(T) = IF e \in T THEN e.size ELSE 0
    BY <1>1, <2>3, <2>4
  <2>6. e \in T <=> T = {e}  BY <2>2
  <2>7. ~ (e.size >= 2)  BY <1>1, <1>3
  <2> QED BY <1>1, <2>5, <2>6, <2>7 DEF e
<1>4. CASE e.size >= 2
  <2>0. ~ (e.size < 2)  BY <1>1, <1>4
  <2>1. T \in SUBSET {e, Left(e), Right(e)}  BY <1>2, <2>0
  <2>2. Left(e).size \in Nat \ {0} /\ Right(e).size \in Nat \ {0} /\ Left(e).size + Right(e).size = e.size
    <3>1. Left(e) \in ChunkType /\ Right(e) \in ChunkType /\ Left(e).size + Right(e).size = e.size
      BY <1>1, <1>4, HalfShape
    <3> QED BY <3>1 DEF ChunkType
  <2>3. Amount(T)
         = (IF e \in T THEN e.size ELSE 0) + (IF Left(e) \in T THEN Left(e).size ELSE 0)
           + (IF Right(e) \in T THEN Right(e).size ELSE 0)
    BY <1>1, <1>4, <2>1, <2>2, FoldThree
  <2> DEFINE l == Left(e)
             r == Right(e)
             sum == (IF e \in T THEN e.size ELSE 0) + (IF l \in T THEN l.size ELSE 0)
                    + (IF r \in T THEN r.size ELSE 0)
             n == e.size
             a == l.size
             b == r.size
  <2>4. n \in Nat /\ a \in Nat \ {0} /\ b \in Nat \ {0} /\ a + b = n  BY <1>1, <2>2
  <2>5. sum = n <=> \/ e \in T /\ l \notin T /\ r \notin T
                    \/ e \notin T /\ l \in T /\ r \in T
    <3>1. sum = (IF e \in T THEN n ELSE 0) + (IF l \in T THEN a ELSE 0) + (IF r \in T THEN b ELSE 0)  OBVIOUS
    <3> HIDE DEF sum, n, a, b, l, r
    <3> QED BY <2>4, <3>1
  <2>6. T = {e} <=> e \in T /\ l \notin T /\ r \notin T
    <3>1. e # l /\ e # r  BY <1>1, <1>4
    <3> HIDE DEF l, r
    <3> QED BY <2>1, <3>1 DEF l, r
  <2>7. T = {l, r} <=> e \notin T /\ l \in T /\ r \in T
    <3>1. e # l /\ e # r  BY <1>1, <1>4
    <3> QED BY <2>1, <3>1
  <2> HIDE DEF sum, l, r
  <2>8. Amount(T) = sum  BY <2>3 DEF sum, l, r
  <2> QED BY <1>1, <1>4, <2>5, <2>6, <2>7, <2>8 DEF e, l, r
<1> QED
  <2>1. e.size < 2 \/ e.size >= 2  BY <1>1
  <2> QED BY <1>3, <1>4, <2>1 DEF e

-----------------------------------------------------------------------------
(* Current and covered *)

(* What is stored of the active plan and of the current content are pieces, not halves of halves. *)
PiecesOnly(stored) ==
    \A x \in stored : x.plan = Plan /\ x.content \in Contents => x \in Pieces(x.section, x.content)

(* What stands in for an expected chunk (matchStoredChunks). *)
LEMMA StandInsOf ==
  ASSUME NEW A, NEW s \in Sections, NEW c \in Contents, NEW i \in DOMAIN Text[c]
  PROVE  LET e == Expected(s, c)[i]
         IN  /\ StandIns(A, e) = IF e \in A THEN {e}
                                 ELSE IF e.size >= 2 /\ Left(e) \in A /\ Right(e) \in A THEN {Left(e), Right(e)}
                                 ELSE {}
             /\ StandIns(A, e) \subseteq A \cap Slot(s, c, i)
<1> DEFINE e == Expected(s, c)[i]
<1>1. e \in ChunkType  BY SlotShape, Zenon
<1>2. /\ Halves(e) = IF e.size < 2 THEN << >> ELSE <<Left(e), Right(e)>>
      /\ ToSet(Halves(e)) = IF e.size < 2 THEN {} ELSE {Left(e), Right(e)}
  BY HalvesOf
<1>3. Slot(s, c, i) = IF e.size < 2 THEN {e} ELSE {e, Left(e), Right(e)}
  BY SlotOf
<1> HIDE DEF e
<1>4. e.size \in Nat  BY <1>1 DEF ChunkType
<1>5. <<Left(e), Right(e)>> # << >>  OBVIOUS
<1>6. StandIns(A, e) = IF e \in A THEN {e}
                       ELSE IF e.size >= 2 /\ Left(e) \in A /\ Right(e) \in A THEN {Left(e), Right(e)}
                       ELSE {}
  <2>1. CASE e.size < 2
    <3>1. ~ (e.size >= 2) /\ Halves(e) = << >>  BY <1>2, <1>4, <2>1
    <3> QED BY <3>1 DEF StandIns
  <2>2. CASE e.size >= 2
    <3>1. ~ (e.size < 2)  BY <1>4, <2>2
    <3>2. Halves(e) # << >> /\ ToSet(Halves(e)) = {Left(e), Right(e)}  BY <1>2, <1>5, <3>1
    <3> QED BY <2>2, <3>2 DEF StandIns
  <2> QED BY <1>4, <2>1, <2>2
<1>7. StandIns(A, e) \subseteq A \cap Slot(s, c, i)
  <2>1. e.size >= 2 => ~ (e.size < 2)  BY <1>4
  <2> QED BY <1>3, <1>6, <2>1
<1> QED BY <1>6, <1>7 DEF e

(* A piece is a chunk of its section, and its slot is the one its ordinal names. *)
LEMMA PiecesInSlots ==
  ASSUME NEW s \in Sections, NEW c \in Contents, NEW x \in Pieces(s, c)
  PROVE  /\ x \in ChunkType /\ x.section = s /\ x.content = c /\ x.plan = Plan
         /\ \E i \in DOMAIN Text[c] : x \in Slot(s, c, i) /\ Root(x.ordinal) = i - 1
<1>1. PICK i \in DOMAIN Text[c] : x \in Slot(s, c, i)
  BY PieceOf
<1>2. x \in ChunkType /\ x.section = s /\ x.content = c /\ Root(x.ordinal) = i - 1
  BY <1>1, SlotOf
<1> QED BY <1>1, <1>2 DEF ChunkType

(* The comparison in terms of the slots. *)
LEMMA ReadyMeans ==
  ASSUME NEW s \in Sections, NEW c \in Contents, NEW stored
  PROVE  Evaluation(s, c, stored) = "ready"
         <=> LET A == Active(s, stored)
             IN  /\ \A i \in DOMAIN Text[c] : StandIns(A, Expected(s, c)[i]) # {}
                 /\ \A x \in A : \E i \in DOMAIN Text[c] : x \in StandIns(A, Expected(s, c)[i])
<1> DEFINE A == Active(s, stored)
           stand(i) == StandIns(A, Expected(s, c)[i])
           current == [i \in DOMAIN Text[c] |-> stand(i)]
           missing == {i \in DOMAIN Text[c] : current[i] = {}}
           all == UNION {current[i] : i \in DOMAIN Text[c]}
<1>1. Evaluation(s, c, stored)
      = IF Text[c] # << >> /\ missing = {} /\ A = all THEN "ready"
        ELSE IF A = {} THEN "pending" ELSE "stale"
  BY Zenon DEF Evaluation, Active
<1>2. Text[c] # << >>  BY TextFacts
<1>3. \A i \in DOMAIN Text[c] : current[i] = stand(i) /\ stand(i) \subseteq A
  <2> HIDE DEF A
  <2>1. \A i \in DOMAIN Text[c] : stand(i) \subseteq A  BY StandInsOf
  <2> QED BY <2>1
<1> HIDE DEF stand, A, current
<1>4. missing = {} <=> \A i \in DOMAIN Text[c] : stand(i) # {}
  BY <1>3
<1>5. A = all <=> \A x \in A : \E i \in DOMAIN Text[c] : x \in stand(i)
  BY <1>3
<1> HIDE DEF missing, all
<1>6. Evaluation(s, c, stored) = "ready" <=> missing = {} /\ A = all
  BY <1>1, <1>2
<1> QED BY <1>4, <1>5, <1>6, Zenon DEF stand, A

(* The requirement in terms of the amounts. *)
LEMMA CoveredMeans ==
  ASSUME NEW s \in Sections, sections[s] \in Contents, NEW stored
  PROVE  Covered(s, stored)
         <=> LET A == Active(s, stored)
             IN  /\ \A x \in A : x.content = sections[s]
                 /\ \A i \in DOMAIN Text[sections[s]] :
                       Amount({x \in A : Root(x.ordinal) = i - 1}) = Text[sections[s]][i]
<1> DEFINE of(i) == {x \in stored : x.section = s /\ x.plan = Plan /\ Root(x.ordinal) = i - 1}
<1>1. Covered(s, stored)
      <=> /\ \A x \in stored : x.section = s /\ x.plan = Plan => x.content = sections[s]
          /\ \A i \in DOMAIN Text[sections[s]] : Amount(of(i)) = Text[sections[s]][i]
  BY Zenon DEF Covered, Amount
<1>2. \A i : of(i) = {x \in Active(s, stored) : Root(x.ordinal) = i - 1}
  BY DEF Active
<1>3. (\A x \in stored : x.section = s /\ x.plan = Plan => x.content = sections[s])
      <=> \A x \in Active(s, stored) : x.content = sections[s]
  BY DEF Active
<1> HIDE DEF of
<1>4. (\A i \in DOMAIN Text[sections[s]] : Amount(of(i)) = Text[sections[s]][i])
      <=> \A i \in DOMAIN Text[sections[s]] :
             Amount({x \in Active(s, stored) : Root(x.ordinal) = i - 1}) = Text[sections[s]][i]
  BY <1>2
<1> QED BY <1>1, <1>3, <1>4

(* The comparison of the code finds a section current exactly when each of its chunks is  *)
(* stored once, whole or as its two halves, and nothing else of the active plan is.       *)
LEMMA ReadyIsCovered ==
  ASSUME NEW s \in Sections, sections[s] \in Contents, NEW stored, PiecesOnly(stored)
  PROVE  Evaluation(s, sections[s], stored) = "ready" <=> Covered(s, stored)
<1> DEFINE c == sections[s]
           A == Active(s, stored)
           D == DOMAIN Text[c]
           e(i) == Expected(s, c)[i]
           stand(i) == StandIns(A, e(i))
           of(i) == {x \in A : Root(x.ordinal) = i - 1}
<1>0. c \in Contents  OBVIOUS
<1>1. Evaluation(s, c, stored) = "ready"
      <=> /\ \A i \in D : stand(i) # {}
          /\ \A x \in A : \E i \in D : x \in stand(i)
  BY <1>0, ReadyMeans, Zenon
<1>2. Covered(s, stored)
      <=> /\ \A x \in A : x.content = c
          /\ \A i \in D : Amount(of(i)) = Text[c][i]
  BY CoveredMeans, Zenon
<1>3. \A i \in D : \A x \in Slot(s, c, i) : x.content = c /\ Root(x.ordinal) = i - 1
  BY <1>0, SlotOf
<1>4. \A i \in D : i \in Nat
  BY <1>0, TextFacts
<1>5. \A i \in D : /\ stand(i) = IF e(i) \in A THEN {e(i)}
                                 ELSE IF e(i).size >= 2 /\ Left(e(i)) \in A /\ Right(e(i)) \in A
                                 THEN {Left(e(i)), Right(e(i))} ELSE {}
                   /\ stand(i) \subseteq A \cap Slot(s, c, i)
  <2> HIDE DEF A
  <2> QED BY <1>0, StandInsOf, Zenon
<1>6. ASSUME NEW i \in D, NEW T \in SUBSET Slot(s, c, i)
      PROVE  Amount(T) = Text[c][i] <=> T = {e(i)} \/ (e(i).size >= 2 /\ T = {Left(e(i)), Right(e(i))})
  <2>1. i \in DOMAIN Text[c] /\ s \in Sections  OBVIOUS
  <2> HIDE DEF c, D
  <2>2. Amount(T) = Text[c][i]
        <=> T = {Expected(s, c)[i]}
            \/ (Expected(s, c)[i].size >= 2 /\ T = {Left(Expected(s, c)[i]), Right(Expected(s, c)[i])})
    BY <1>0, <2>1, SlotSum
  <2> QED BY <2>2
<1>7. \A x \in A : x.content = c => \E i \in D : x \in Slot(s, c, i)
  <2>1. \A x \in A : x.section = s /\ x.plan = Plan /\ x \in stored  BY DEF Active
  <2>2. \A x \in A : x.content = c => x \in Pieces(s, c)  BY <1>0, <2>1 DEF PiecesOnly
  <2> QED BY <2>2, PieceOf
<1> HIDE DEF A, c, stand, e, D
<1>8. ASSUME \A i \in D : stand(i) # {}, \A x \in A : \E i \in D : x \in stand(i)
      PROVE  /\ \A x \in A : x.content = c
             /\ \A i \in D : Amount(of(i)) = Text[c][i]
  <2>1. \A x \in A : x.content = c  BY <1>3, <1>5, <1>8
  <2>2. ASSUME NEW i \in D PROVE Amount(of(i)) = Text[c][i]
    <3>1. of(i) \subseteq stand(i)
      <4>1. SUFFICES ASSUME NEW x \in A, Root(x.ordinal) = i - 1 PROVE x \in stand(i)
        OBVIOUS
      <4>2. PICK j \in D : x \in stand(j)  BY <1>8
      <4>3. Root(x.ordinal) = j - 1  BY <1>3, <1>5, <4>2
      <4>4. i = j  BY <1>4, <4>1, <4>3
      <4> QED BY <4>2, <4>4
    <3>2. stand(i) \subseteq of(i)  BY <1>3, <1>5
    <3>3. of(i) = stand(i)  BY <3>1, <3>2
    <3>4. stand(i) # {} /\ stand(i) \in SUBSET Slot(s, c, i)  BY <1>5, <1>8
    <3>5. stand(i) = {e(i)} \/ (e(i).size >= 2 /\ stand(i) = {Left(e(i)), Right(e(i))})
      BY <1>5, <3>4
    <3> HIDE DEF of
    <3>6. Amount(stand(i)) = Text[c][i]  BY <1>6, <3>4, <3>5
    <3> QED BY <3>3, <3>6
  <2> QED BY <2>1, <2>2
<1>9. ASSUME \A x \in A : x.content = c, \A i \in D : Amount(of(i)) = Text[c][i]
      PROVE  (\A i \in D : stand(i) # {}) /\ (\A x \in A : \E i \in D : x \in stand(i))
  <2>1. ASSUME NEW i \in D
        PROVE  of(i) = stand(i) /\ stand(i) # {}
    <3>1. of(i) \in SUBSET Slot(s, c, i)
      <4>1. SUFFICES ASSUME NEW x \in A, Root(x.ordinal) = i - 1 PROVE x \in Slot(s, c, i)
        OBVIOUS
      <4>2. PICK j \in D : x \in Slot(s, c, j)  BY <1>7, <1>9
      <4>3. i = j  BY <1>3, <1>4, <4>1, <4>2
      <4> QED BY <4>2, <4>3
    <3>2. of(i) \subseteq A  OBVIOUS
    <3>3. Amount(of(i)) = Text[c][i]  BY <1>9
    <3> HIDE DEF of
    <3>4. of(i) = {e(i)} \/ (e(i).size >= 2 /\ of(i) = {Left(e(i)), Right(e(i))})
      BY <1>6, <3>1, <3>3
    <3>5. CASE of(i) = {e(i)}
      BY <1>5, <3>2, <3>5
    <3>6. CASE e(i) \notin of(i) /\ e(i).size >= 2 /\ of(i) = {Left(e(i)), Right(e(i))}
      <4>1. Left(e(i)) \in A /\ Right(e(i)) \in A  BY <3>2, <3>6
      <4>2. e(i) \notin A
        <5>1. e(i) \in A => e(i) \in of(i)
          <6>1. e(i) \in Slot(s, c, i)  BY DEF Slot, e
          <6> QED BY <1>3, <6>1 DEF of
        <5> QED BY <3>6, <5>1
      <4> QED BY <1>5, <3>6, <4>1, <4>2
    <3>7. e(i).size >= 2 => Left(e(i)) # e(i) /\ Right(e(i)) # e(i)
      <4>1. i \in DOMAIN Text[c]  BY DEF D
      <4> QED BY <1>0, <4>1, SlotShape, Zenon DEF e
    <3> QED BY <3>4, <3>5, <3>6, <3>7
  <2>2. ASSUME NEW x \in A PROVE \E i \in D : x \in stand(i)
    <3>1. PICK i \in D : x \in Slot(s, c, i)  BY <1>7, <1>9
    <3>2. x \in of(i)  BY <1>3, <3>1
    <3> QED BY <2>1, <3>2
  <2> QED BY <2>1, <2>2
<1> HIDE DEF of
<1>10. Evaluation(s, c, stored) = "ready" <=> Covered(s, stored)
  BY <1>1, <1>2, <1>8, <1>9
<1> QED BY <1>10 DEF c

-----------------------------------------------------------------------------
(* The pages of the sections *)

(* How many elements of a set of numbers come before one. *)
Before(T, s) == {t \in T : t < s}

(* There are fewer elements before one of the set than in the set. *)
LEMMA BeforeIsFinite ==
  ASSUME NEW T \in SUBSET Nat, IsFiniteSet(T), NEW s \in Nat
  PROVE  /\ IsFiniteSet(Before(T, s)) /\ Cardinality(Before(T, s)) \in Nat /\ Before(T, s) \subseteq T
         /\ Cardinality(T) \in Nat
         /\ Cardinality(Before(T, s)) <= Cardinality(T)
         /\ s \in T => Cardinality(Before(T, s)) < Cardinality(T)
<1>1. Before(T, s) \in SUBSET T /\ s \notin Before(T, s)  BY DEF Before
<1>2. /\ IsFiniteSet(Before(T, s)) /\ Cardinality(Before(T, s)) <= Cardinality(T)
      /\ Cardinality(T) = Cardinality(Before(T, s)) => T = Before(T, s)
  BY <1>1, FS_Subset
<1>3. Cardinality(Before(T, s)) \in Nat /\ Cardinality(T) \in Nat  BY <1>2, FS_CardinalityType
<1> QED BY <1>1, <1>2, <1>3

(* A later element has a higher rank. *)
LEMMA RanksIncrease ==
  ASSUME NEW T \in SUBSET Nat, IsFiniteSet(T), NEW s \in T, NEW t \in Nat, s < t
  PROVE  Cardinality(Before(T, s)) < Cardinality(Before(T, t))
<1>0. s \in Nat /\ \A x \in T : x \in Nat /\ (x < s => x < t) /\ ~ (s < s)  OBVIOUS
<1>1. Before(T, s) \in SUBSET Before(T, t) /\ s \in Before(T, t) /\ s \notin Before(T, s)
  BY <1>0 DEF Before
<1>2. IsFiniteSet(Before(T, t)) /\ Cardinality(Before(T, t)) \in Nat /\ Cardinality(Before(T, s)) \in Nat
  BY BeforeIsFinite
<1>3. /\ Cardinality(Before(T, s)) <= Cardinality(Before(T, t))
      /\ Cardinality(Before(T, t)) = Cardinality(Before(T, s)) => Before(T, t) = Before(T, s)
  BY <1>1, <1>2, FS_Subset
<1> QED BY <1>1, <1>2, <1>3

(* A finite set of numbers has a greatest element. *)
LEMMA GreatestOfFinite ==
  ASSUME NEW T \in SUBSET Nat, IsFiniteSet(T), T # {}
  PROVE  \E m \in T : \A t \in T : t <= m
<1> DEFINE ranks == {Cardinality(Before(T, t)) : t \in T}
<1>1. ranks \in SUBSET Nat /\ ranks # {} /\ Cardinality(T) \in Nat /\ \A k \in ranks : k <= Cardinality(T)
  <2>1. \A t \in T : Cardinality(Before(T, t)) \in Nat /\ Cardinality(Before(T, t)) <= Cardinality(T)
    BY BeforeIsFinite
  <2>2. Cardinality(T) \in Nat  BY FS_CardinalityType
  <2> QED BY <2>1, <2>2
<1>2. PICK k \in ranks : \A l \in ranks : l <= k
  <2> HIDE DEF ranks
  <2> QED BY <1>1, GreatestNatural
<1>3. PICK m \in T : k = Cardinality(Before(T, m))  OBVIOUS
<1>4. ASSUME NEW t \in T PROVE t <= m
  <2>1. SUFFICES ASSUME m < t PROVE FALSE  OBVIOUS
  <2>2. Cardinality(Before(T, m)) < Cardinality(Before(T, t))  BY <2>1, RanksIncrease
  <2>3. Cardinality(Before(T, t)) <= k /\ k \in Nat /\ Cardinality(Before(T, t)) \in Nat  BY <1>1, <1>2
  <2> QED BY <1>3, <2>2, <2>3
<1> QED BY <1>4

(* The ranks have no gap. *)
LEMMA RankExists ==
  ASSUME NEW T \in SUBSET Nat, IsFiniteSet(T), NEW k \in Nat, k < Cardinality(T)
  PROVE  \E s \in T : Cardinality(Before(T, s)) = k
<1> DEFINE U == {s \in T : Cardinality(Before(T, s)) >= k}
<1>0. Cardinality(T) \in Nat /\ T # {}
  BY FS_CardinalityType, FS_EmptySet
<1>1. U # {}
  <2>1. PICK m \in T : \A t \in T : t <= m  BY <1>0, GreatestOfFinite
  <2>2. T = Before(T, m) \cup {m} /\ m \notin Before(T, m)
    <3>1. m \in Nat /\ ~ (m < m) /\ \A t \in T : t \in Nat /\ (t = m \/ t < m)  BY <2>1
    <3> QED BY <3>1 DEF Before
  <2>3. IsFiniteSet(Before(T, m)) /\ Cardinality(Before(T, m)) \in Nat  BY BeforeIsFinite
  <2>4. Cardinality(T) = Cardinality(Before(T, m)) + 1
    <3> DEFINE B == Before(T, m)
    <3> HIDE DEF B
    <3>1. IsFiniteSet(B) /\ m \notin B /\ T = B \cup {m}  BY <2>2, <2>3 DEF B
    <3>2. Cardinality(B \cup {m}) = Cardinality(B) + 1  BY <3>1, FS_AddElement
    <3> QED BY <3>1, <3>2 DEF B
  <2> QED BY <2>3, <2>4
<1>2. PICK s \in U : \A u \in U : s <= u
  <2>1. U \in SUBSET Nat  OBVIOUS
  <2> HIDE DEF U
  <2> QED BY <1>1, <2>1, LeastNatural
<1>3. s \in T /\ Cardinality(Before(T, s)) >= k /\ Cardinality(Before(T, s)) \in Nat
  BY BeforeIsFinite
<1>4. ASSUME Cardinality(Before(T, s)) > k PROVE FALSE
  <2> DEFINE B == Before(T, s)
  <2>1. B \in SUBSET Nat /\ IsFiniteSet(B) /\ B \subseteq T  BY <1>3, BeforeIsFinite
  <2>2. B # {}  BY <1>3, <1>4, FS_EmptySet
  <2>3. PICK u \in B : \A t \in B : t <= u
    <3> HIDE DEF B
    <3> QED BY <2>1, <2>2, GreatestOfFinite
  <2>4. u \in T /\ u < s  BY DEF Before
  <2>5. B = Before(T, u) \cup {u} /\ u \notin Before(T, u)
    <3>1. \A t \in T : t \in Nat  OBVIOUS
    <3>2. \A t \in T : t < s <=> t = u \/ t < u  BY <1>3, <2>3, <2>4, <3>1 DEF Before
    <3>3. ~ (u < u)  BY <2>4
    <3>4. \A t : t \in Before(T, s) <=> t \in T /\ t < s  BY DEF Before
    <3>5. \A t : t \in Before(T, u) <=> t \in T /\ t < u  BY DEF Before
    <3> QED BY <2>4, <3>2, <3>3, <3>4, <3>5
  <2>6. IsFiniteSet(Before(T, u)) /\ Cardinality(Before(T, u)) \in Nat  BY <2>4, BeforeIsFinite
  <2>7. Cardinality(Before(T, u) \cup {u}) = Cardinality(Before(T, u)) + 1
    <3> DEFINE C == Before(T, u)
    <3> HIDE DEF C
    <3>1. IsFiniteSet(C) /\ u \notin C  BY <2>5, <2>6 DEF C
    <3>2. Cardinality(C \cup {u}) = Cardinality(C) + 1  BY <3>1, FS_AddElement
    <3> QED BY <3>2 DEF C
  <2>8. Cardinality(Before(T, u)) >= k  BY <1>3, <1>4, <2>5, <2>6, <2>7
  <2>9. u \in U  BY <2>4, <2>8
  <2> QED BY <1>2, <1>3, <2>4, <2>9
<1> QED BY <1>3, <1>4

-----------------------------------------------------------------------------
(* A section has a content or is not there. *)
SectionsType == sections \in [Sections -> Contents \cup {None}]

(* The sections that are listed have ranks below their number. *)
LEMMA ListedFacts ==
  /\ Listed \in SUBSET Nat /\ IsFiniteSet(Listed) /\ Listed \subseteq Sections
  /\ Cardinality(Listed) \in Nat
  /\ \A s \in Sections : s \in Nat /\ Rank(s) \in Nat /\ Rank(s) = Cardinality(Before(Listed, s))
  /\ \A s \in Listed : Rank(s) < Cardinality(Listed)
<1>1. Listed \in SUBSET Sections  BY DEF Listed
<1>2. Sections \subseteq Nat /\ IsFiniteSet(Sections)  BY SectionsAssumption
<1>3. Listed \in SUBSET Nat /\ IsFiniteSet(Listed) /\ Cardinality(Listed) \in Nat
  BY <1>1, <1>2, FS_Subset, FS_CardinalityType
<1>4. \A s : Rank(s) = Cardinality(Before(Listed, s))  BY DEF Rank, Before
<1>5. \A s \in Nat : Rank(s) \in Nat  BY <1>3, <1>4, BeforeIsFinite
<1>6. \A s \in Listed : Rank(s) < Cardinality(Listed)  BY <1>3, <1>4, BeforeIsFinite
<1> QED BY <1>1, <1>2, <1>3, <1>4, <1>5, <1>6

(* A page holds the sections of its ranks, each once. *)
LEMMA PageFacts ==
  ASSUME NEW offset \in Nat
  PROVE  /\ Page(offset) \in Seq(Listed)
         /\ Distinct(Page(offset))
         /\ Page(offset) = << >> => \A s \in Listed : Rank(s) < offset
         /\ \A s \in Listed : s \in ToSet(Page(offset)) <=> ~ (Rank(s) < offset) /\ Rank(s) < offset + Len(Page(offset))
<1> DEFINE C == Cardinality(Listed)
           m == Min({BatchSize, C - offset})
           chosen(i) == CHOOSE s \in Listed : Rank(s) = offset + i - 1
           page == [i \in 1 .. m |-> chosen(i)]
           n == IF m > 0 THEN m ELSE 0
<1>1. Page(offset) = page  BY DEF Page
<1>2. C \in Nat  BY ListedFacts
<1>3. m = (IF BatchSize <= C - offset THEN BatchSize ELSE C - offset) /\ BatchSize \in Nat \ {0}
  <2>1. BatchSize \in Nat \ {0} /\ C - offset \in Int  BY <1>2, SizesAssumption
  <2>2. ASSUME NEW a \in Int, NEW b \in Int
        PROVE  Min({a, b}) = IF a <= b THEN a ELSE b
    <3> DEFINE r == IF a <= b THEN a ELSE b
    <3>1. r \in {a, b} /\ \A y \in {a, b} : r <= y  OBVIOUS
    <3>2. \A x \in {a, b} : (\A y \in {a, b} : x <= y) => x = r  OBVIOUS
    <3> HIDE DEF r
    <3>3. Min({a, b}) = r  BY <3>1, <3>2 DEF Min
    <3> QED BY <3>3 DEF r
  <2> QED BY <2>1, <2>2
<1> HIDE DEF C, m
<1>4. m \in Int /\ n \in Nat /\ 1 .. m = 1 .. n /\ (offset + n <= C \/ n = 0)
  BY <1>2, <1>3
<1>5. ASSUME NEW i \in 1 .. n PROVE chosen(i) \in Listed /\ Rank(chosen(i)) = offset + i - 1
  <2>1. offset + i - 1 \in Nat /\ offset + i - 1 < C  BY <1>2, <1>3
  <2>2. \E s \in Listed : Rank(s) = offset + i - 1
    <3>1. \E s \in Listed : Cardinality(Before(Listed, s)) = offset + i - 1
      BY <2>1, ListedFacts, RankExists DEF C
    <3> QED BY <3>1, ListedFacts
  <2> QED BY <2>2
<1> HIDE DEF chosen
<1>6. page \in Seq(Listed) /\ Len(page) = n /\ \A i \in 1 .. n : page[i] = chosen(i)
  <2>1. page = [i \in 1 .. n |-> chosen(i)]  BY <1>3, <1>2
  <2>2. n \in Nat  BY <1>2, <1>3
  <2> HIDE DEF n, page
  <2> QED BY <1>5, <2>1, <2>2
<1>7. DOMAIN page = 1 .. n
  <2> HIDE DEF page, n
  <2> QED BY <1>6
<1>8. Distinct(page)
  <2>1. SUFFICES ASSUME NEW i \in 1 .. n, NEW j \in 1 .. n, page[i] = page[j] PROVE i = j
    BY <1>7 DEF Distinct
  <2>2. chosen(i) = chosen(j)  BY <1>6, <2>1
  <2>3. offset + i - 1 = offset + j - 1  BY <1>5, <2>2
  <2> QED BY <2>3
<1>9. ASSUME NEW s \in Listed
      PROVE  s \in ToSet(page) <=> ~ (Rank(s) < offset) /\ Rank(s) < offset + n
  <2>1. Rank(s) \in Nat /\ Rank(s) < C  BY ListedFacts DEF C
  <2>2. ASSUME s \in ToSet(page) PROVE ~ (Rank(s) < offset) /\ Rank(s) < offset + n
    <3>1. PICK i \in 1 .. n : s = page[i]  BY <1>7, <2>2 DEF ToSet
    <3>2. Rank(s) = offset + i - 1  BY <1>5, <1>6, <3>1
    <3>3. n \in Nat  BY <1>2, <1>3
    <3> QED BY <3>2, <3>3
  <2>3. ASSUME ~ (Rank(s) < offset), Rank(s) < offset + n PROVE s \in ToSet(page)
    <3> DEFINE i == Rank(s) - offset + 1
    <3>1. i \in 1 .. n /\ offset + i - 1 = Rank(s)  BY <1>2, <1>3, <2>1, <2>3
    <3> HIDE DEF i
    <3>2. page[i] \in Listed /\ Rank(page[i]) = Rank(s)  BY <1>5, <1>6, <3>1
    <3>3. page[i] = s
      <4>1. page[i] \in Nat /\ s \in Nat /\ Listed \in SUBSET Nat /\ IsFiniteSet(Listed)  BY <3>2, ListedFacts
      <4>2. Cardinality(Before(Listed, page[i])) = Cardinality(Before(Listed, s)) /\ Cardinality(Before(Listed, s)) \in Nat
        BY <3>2, ListedFacts
      <4>3. ~ (page[i] < s)
        <5>1. page[i] < s => Cardinality(Before(Listed, page[i])) < Cardinality(Before(Listed, s))
          BY <3>2, <4>1, RanksIncrease
        <5> QED BY <4>2, <5>1
      <4>4. ~ (s < page[i])
        <5>1. s < page[i] => Cardinality(Before(Listed, s)) < Cardinality(Before(Listed, page[i]))
          BY <4>1, RanksIncrease
        <5> QED BY <4>2, <5>1
      <4> QED BY <4>1, <4>3, <4>4
    <3> QED BY <1>7, <3>1, <3>3 DEF ToSet
  <2> QED BY <2>2, <2>3
<1>10. ASSUME page = << >>, NEW s \in Listed PROVE Rank(s) < offset
  <2>1. n = 0  BY <1>6, <1>10
  <2>2. C - offset <= 0  BY <1>2, <1>3, <2>1
  <2>3. Rank(s) \in Nat /\ Rank(s) < C  BY ListedFacts DEF C
  <2> QED BY <1>2, <2>2, <2>3
<1> HIDE DEF page, n
<1> QED BY <1>1, <1>6, <1>8, <1>9, <1>10

-----------------------------------------------------------------------------
(* What may be stored, and what is too deep for it *)

(* The pieces of all sections and contents, *)
AllPieces == {x \in ChunkType : x \in Pieces(x.section, x.content)}

(* and the chunks too deep for the column of the ordinals. *)
Deep(x) == x.ordinal > OrdinalLimit

(* What may wait in a batch: a piece, or a chunk too deep to be stored. *)
WorkChunk == {x \in ChunkType : x \in AllPieces \/ Deep(x)}

(* The halves of what is too deep, and of a half, are too deep. *)
LEMMA DeepHalves ==
  ASSUME NEW x \in ChunkType, x.size >= 2, Deep(x) \/ x.ordinal >= SplitFactor \div 2
  PROVE  Deep(Left(x)) /\ Deep(Right(x))
<1> DEFINE h == SplitFactor \div 2
           o == x.ordinal
           m == o * SplitFactor
<1>1. h \in Nat /\ SplitFactor \in Nat /\ SplitFactor > 2 /\ OrdinalLimit \in Nat /\ o \in Nat /\ m \in Nat
      /\ h * SplitFactor > OrdinalLimit
  BY Division, SizesAssumption DEF ChunkType
<1>2. Left(x).ordinal = m + h /\ Right(x).ordinal = m + h + 1
  BY HalfShape
<1>3. ASSUME NEW a \in Nat, NEW b \in Nat, NEW d \in Nat, d > 2, a >= b PROVE a * d >= b * d /\ a * d >= a /\ b * d \in Nat
  BY <1>3, SMTT(30)
<1>4. m > OrdinalLimit
  <2>1. CASE o > OrdinalLimit
    <3>1. o \in Nat /\ o >= o  BY <1>1
    <3>2. o * SplitFactor >= o  BY <1>1, <1>3, <3>1
    <3> HIDE DEF o
    <3> QED BY <1>1, <2>1, <3>2
  <2>2. CASE o >= h
    <3>1. o * SplitFactor >= h * SplitFactor /\ h * SplitFactor \in Nat  BY <1>1, <1>3, <2>2
    <3> DEFINE k == h * SplitFactor
    <3>2. k \in Nat /\ m >= k /\ k > OrdinalLimit  BY <1>1, <3>1
    <3> HIDE DEF k, m
    <3> QED BY <1>1, <3>2
  <2> QED BY <2>1, <2>2 DEF Deep
<1> HIDE DEF m, h
<1>5. m + h > OrdinalLimit /\ m + h + 1 > OrdinalLimit  BY <1>1, <1>4
<1> QED BY <1>2, <1>5 DEF Deep

(* A piece is an expected chunk or a half of one. *)
LEMMA PieceIsWhole ==
  ASSUME NEW x \in AllPieces
  PROVE  \E i \in DOMAIN Text[x.content] :
            LET e == Expected(x.section, x.content)[i]
            IN  /\ e \in ChunkType
                /\ \/ x = e
                   \/ e.size >= 2 /\ x \in {Left(e), Right(e)} /\ x.ordinal >= SplitFactor \div 2
<1>1. x \in ChunkType /\ x.section \in Sections /\ x.content \in Contents /\ x \in Pieces(x.section, x.content)
  BY DEF AllPieces, ChunkType
<1>2. PICK i \in DOMAIN Text[x.content] : x \in Slot(x.section, x.content, i)
  BY <1>1, PiecesInSlots
<1> DEFINE e == Expected(x.section, x.content)[i]
<1>3. e \in ChunkType  BY <1>1, SlotShape, Zenon
<1>4. Slot(x.section, x.content, i) = IF e.size < 2 THEN {e} ELSE {e, Left(e), Right(e)}
  <2>1. PICK s \in Sections, c \in Contents : s = x.section /\ c = x.content  BY <1>1
  <2>3. i \in DOMAIN Text[c]  BY <2>1
  <2>2. Slot(s, c, i) = IF Expected(s, c)[i].size < 2 THEN {Expected(s, c)[i]}
                        ELSE {Expected(s, c)[i], Left(Expected(s, c)[i]), Right(Expected(s, c)[i])}
    BY <2>3, SlotOf
  <2> QED BY <2>1, <2>2
<1> HIDE DEF e
<1>5. e.size \in Nat /\ e.ordinal \in Nat  BY <1>3 DEF ChunkType
<1>6. CASE x = e
  BY <1>3, <1>6 DEF e
<1>7. CASE x # e
  <2>1. e.size >= 2 /\ x \in {Left(e), Right(e)}  BY <1>2, <1>4, <1>5, <1>7
  <2>2. /\ Left(e).ordinal = e.ordinal * SplitFactor + SplitFactor \div 2
        /\ Right(e).ordinal = e.ordinal * SplitFactor + SplitFactor \div 2 + 1
    BY <1>3, <2>1, HalfShape
  <2> DEFINE m == e.ordinal * SplitFactor
             h == SplitFactor \div 2
  <2>3. m \in Nat /\ h \in Nat  BY <1>5, Division
  <2> HIDE DEF m, h
  <2>4. m + h >= h /\ m + h + 1 >= h  BY <2>3
  <2>5. x.ordinal >= h  BY <2>1, <2>2, <2>4 DEF m, h
  <2> QED BY <1>3, <2>1, <2>5 DEF e, h
<1> QED BY <1>6, <1>7

(* The halves of what may wait may wait. *)
LEMMA HalvesStay ==
  ASSUME NEW x \in WorkChunk
  PROVE  /\ Halves(x) \in Seq(WorkChunk) /\ Distinct(Halves(x))
         /\ x.size >= 2 => /\ Left(x) \in WorkChunk /\ Right(x) \in WorkChunk /\ Left(x) # Right(x)
                           /\ ToSet(Halves(x)) = {Left(x), Right(x)}
         /\ x.size < 2 => Halves(x) = << >>
<1>1. x \in ChunkType /\ x.size \in Nat /\ x.section \in Sections /\ x.content \in Contents
  BY DEF WorkChunk, ChunkType
<1>2. /\ Halves(x) = IF x.size < 2 THEN << >> ELSE <<Left(x), Right(x)>>
      /\ ToSet(Halves(x)) = IF x.size < 2 THEN {} ELSE {Left(x), Right(x)}
  BY HalvesOf
<1>3. CASE x.size < 2
  <2>1. << >> \in Seq(WorkChunk) /\ DOMAIN << >> = {} /\ ~ (x.size >= 2)  BY <1>1, <1>3
  <2> QED BY <1>2, <1>3, <2>1 DEF Distinct
<1>4. CASE x.size >= 2
  <2>0. ~ (x.size < 2)  BY <1>1, <1>4
  <2>1. Left(x) \in ChunkType /\ Right(x) \in ChunkType  BY <1>1, <1>4, HalfShape
  <2>2. Left(x) # Right(x)
    <3>1. /\ Left(x).ordinal = x.ordinal * SplitFactor + SplitFactor \div 2
          /\ Right(x).ordinal = x.ordinal * SplitFactor + SplitFactor \div 2 + 1
      BY <1>1, <1>4, HalfShape
    <3> DEFINE k == x.ordinal * SplitFactor + SplitFactor \div 2
    <3>2. k \in Nat
      <4>1. x.ordinal * SplitFactor \in Nat /\ SplitFactor \div 2 \in Nat  BY <1>1, Division DEF ChunkType
      <4> QED BY <4>1
    <3>3. Left(x).ordinal = k /\ Right(x).ordinal = k + 1  BY <3>1
    <3> HIDE DEF k
    <3>4. k # k + 1  BY <3>2
    <3> QED BY <3>3, <3>4
  <2>3. Left(x) \in WorkChunk /\ Right(x) \in WorkChunk
    <3>1. CASE Deep(x)
      <4>1. Deep(Left(x)) /\ Deep(Right(x))  BY <1>1, <1>4, <3>1, DeepHalves
      <4> QED BY <2>1, <4>1 DEF WorkChunk
    <3>2. CASE x \in AllPieces
      <4>1. PICK i \in DOMAIN Text[x.content] :
              LET e == Expected(x.section, x.content)[i]
              IN  /\ e \in ChunkType
                  /\ \/ x = e
                     \/ e.size >= 2 /\ x \in {Left(e), Right(e)} /\ x.ordinal >= SplitFactor \div 2
        BY <3>2, PieceIsWhole
      <4> DEFINE e == Expected(x.section, x.content)[i]
      <4>2. CASE x = e
        <5>1. Slot(x.section, x.content, i) = IF x.size < 2 THEN {x} ELSE {x, Left(x), Right(x)}
          <6>1. Slot(x.section, x.content, i) = IF e.size < 2 THEN {e} ELSE {e, Left(e), Right(e)}
            <7>1. PICK s \in Sections, c \in Contents : s = x.section /\ c = x.content  BY <1>1
            <7>3. i \in DOMAIN Text[c]  BY <7>1
            <7>2. Slot(s, c, i) = IF Expected(s, c)[i].size < 2 THEN {Expected(s, c)[i]}
                                  ELSE {Expected(s, c)[i], Left(Expected(s, c)[i]), Right(Expected(s, c)[i])}
              BY <7>3, SlotOf
            <7> QED BY <7>1, <7>2
          <6> HIDE DEF e
          <6> QED BY <4>2, <6>1
        <5>2. Left(x) \in Pieces(x.section, x.content) /\ Right(x) \in Pieces(x.section, x.content)
          BY <2>0, <5>1, PieceOf
        <5>3. /\ Left(x).section = x.section /\ Left(x).content = x.content
              /\ Right(x).section = x.section /\ Right(x).content = x.content
          BY <1>1, <1>4, HalfShape
        <5> QED BY <2>1, <5>2, <5>3 DEF WorkChunk, AllPieces
      <4>3. CASE x.ordinal >= SplitFactor \div 2
        <5>1. Deep(Left(x)) /\ Deep(Right(x))  BY <1>1, <1>4, <4>3, DeepHalves
        <5> QED BY <2>1, <5>1 DEF WorkChunk
      <4> QED BY <4>1, <4>2, <4>3
    <3> QED BY <3>1, <3>2 DEF WorkChunk
  <2>4. <<Left(x), Right(x)>> \in Seq(WorkChunk) /\ Distinct(<<Left(x), Right(x)>>)
    <3> DEFINE l == Left(x)
               r == Right(x)
    <3>1. l \in WorkChunk /\ r \in WorkChunk /\ l # r  BY <2>2, <2>3
    <3> HIDE DEF l, r
    <3>2. <<l, r>> \in Seq(WorkChunk) /\ DOMAIN <<l, r>> = {1, 2} /\ <<l, r>>[1] = l /\ <<l, r>>[2] = r
      BY <3>1
    <3>3. Distinct(<<l, r>>)  BY <3>1, <3>2 DEF Distinct
    <3> QED BY <3>2, <3>3 DEF l, r
  <2> QED BY <1>2, <2>0, <2>2, <2>3, <2>4
<1> QED BY <1>1, <1>3, <1>4

(* The chunks that are expected of a section are pieces of it, each once. *)
LEMMA ExpectedChunks ==
  ASSUME NEW s \in Sections, NEW c \in Contents
  PROVE  /\ Expected(s, c) \in Seq(WorkChunk) /\ Distinct(Expected(s, c))
         /\ DOMAIN Expected(s, c) = DOMAIN Text[c]
         /\ \A x \in ToSet(Expected(s, c)) : x.section = s /\ x.content = c /\ x \in AllPieces
<1>1. DOMAIN Expected(s, c) = DOMAIN Text[c]  BY DEF Expected
<1>2. \A i \in DOMAIN Text[c] :
         /\ Expected(s, c)[i] = [section |-> s, content |-> c, ordinal |-> i - 1, size |-> Text[c][i], plan |-> Plan]
         /\ Expected(s, c)[i] \in ChunkType
  BY SlotShape, Zenon
<1>3. DOMAIN Text[c] = 1 .. Len(Text[c]) /\ Len(Text[c]) \in Nat  BY TextFacts
<1>4. \A i \in DOMAIN Text[c] : Expected(s, c)[i] \in AllPieces
  <2>1. SUFFICES ASSUME NEW i \in DOMAIN Text[c] PROVE Expected(s, c)[i] \in AllPieces  OBVIOUS
  <2> DEFINE e == Expected(s, c)[i]
  <2>2. e \in Pieces(s, c)  BY PieceOf DEF Slot
  <2>3. e \in ChunkType /\ e.section = s /\ e.content = c
    <3>1. e = [section |-> s, content |-> c, ordinal |-> i - 1, size |-> Text[c][i], plan |-> Plan] /\ e \in ChunkType
      BY <1>2
    <3> HIDE DEF e
    <3> QED BY <3>1
  <2> HIDE DEF e
  <2>4. e \in AllPieces  BY <2>2, <2>3 DEF AllPieces
  <2> QED BY <2>4 DEF e
<1>5. \A i \in DOMAIN Text[c] : Expected(s, c)[i] \in WorkChunk  BY <1>2, <1>4 DEF WorkChunk
<1>6. Expected(s, c) \in Seq(WorkChunk)
  <2> DEFINE e == Expected(s, c)
             n == Len(Text[c])
  <2>1. e = [i \in 1 .. n |-> e[i]]  BY <1>3 DEF Expected
  <2>2. n \in Nat /\ \A i \in 1 .. n : e[i] \in WorkChunk  BY <1>3, <1>5
  <2> HIDE DEF e, n
  <2>3. e \in Seq(WorkChunk)  BY <2>1, <2>2
  <2> QED BY <2>3 DEF e
<1>7. Distinct(Expected(s, c))
  <2>1. SUFFICES ASSUME NEW i \in DOMAIN Text[c], NEW j \in DOMAIN Text[c], Expected(s, c)[i] = Expected(s, c)[j]
                 PROVE  i = j
    BY <1>1 DEF Distinct
  <2>2. Expected(s, c)[i].ordinal = i - 1 /\ Expected(s, c)[j].ordinal = j - 1  BY DEF Expected, Chunk
  <2> QED BY <1>3, <2>1, <2>2
<1>8. \A x \in ToSet(Expected(s, c)) : x.section = s /\ x.content = c /\ x \in AllPieces
  <2>1. SUFFICES ASSUME NEW i \in DOMAIN Text[c]
                 PROVE  Expected(s, c)[i].section = s /\ Expected(s, c)[i].content = c
    BY <1>1, <1>4 DEF ToSet
  <2> QED BY DEF Expected, Chunk
<1> QED BY <1>1, <1>6, <1>7, <1>8

(* A tightened limit is a limit. *)
LEMMA TightenedIsNat ==
  ASSUME NEW limit \in Nat PROVE Tightened(limit) \in Nat
BY DEF Tightened

(* A batch that was too long: the same chunks in smaller batches, or the halves of the only one *)
(* (split_batch).                                                                               *)
LEMMA SmallerWork ==
  ASSUME NEW b \in BatchOf(WorkChunk), Distinct(b.chunks)
  PROVE  /\ Smaller(b) \in Seq(BatchOf(WorkChunk))
         /\ Spread(Smaller(b))
         /\ \/ WorkSet(Smaller(b)) = ToSet(b.chunks)
            \/ \E x \in WorkChunk : ToSet(b.chunks) = {x} /\ WorkSet(Smaller(b)) = ToSet(Halves(x))
<1> DEFINE n == Len(b.chunks)
           limit == Tightened(b.limit)
           q == b.chunks
<1>1. /\ q \in Seq(WorkChunk) /\ q # << >> /\ n \in Nat \ {0} /\ DOMAIN q = 1 .. n
      /\ limit \in Nat /\ b.size \in Nat \ {0} /\ 1 \in Nat \ {0}
  <2>1. q \in Seq(WorkChunk) /\ q # << >> /\ b.size \in Nat \ {0} /\ b.limit \in Nat  BY DEF BatchOf
  <2>2. limit \in Nat  BY <2>1, TightenedIsNat
  <2>3. n # 0 /\ n \in Nat  BY <2>1, EmptySeq
  <2> QED BY <2>1, <2>2, <2>3
<1>3. CASE n > 1
  <2> DEFINE k == n \div 2
             u == SubSeq(q, 1, k)
             v == SubSeq(q, k + 1, n)
  <2>0. k \in Nat /\ k < n /\ k <= n
    <3>1. \A m \in Nat \ {0} : m \div 2 \in Nat /\ m \div 2 < m /\ m \div 2 <= m  OBVIOUS
    <3> HIDE DEF n
    <3> QED BY <1>1, <3>1
  <2>1. Smaller(b) = Batches(u, b.size, limit) \o Batches(v, b.size, limit)  BY <1>3 DEF Smaller
  <2> HIDE DEF k
  <2>2. u \in Seq(WorkChunk) /\ DOMAIN u = 1 .. k /\ \A i \in 1 .. k : u[i] = q[i] /\ i \in DOMAIN q
    <3>1. \A i \in 1 .. k : q[i] \in WorkChunk /\ i \in DOMAIN q  BY <1>1, <2>0
    <3>2. u \in Seq(WorkChunk) /\ Len(u) = k /\ \A i \in 1 .. k : u[i] = q[i]
      BY <2>0, <3>1, SubSeqProperties
    <3> HIDE DEF u, q
    <3> QED BY <2>0, <3>1, <3>2
  <2>3. v \in Seq(WorkChunk) /\ DOMAIN v = 1 .. n - k /\ \A i \in 1 .. n - k : v[i] = q[k + i] /\ k + i \in DOMAIN q
    <3>1. \A i \in k + 1 .. n : q[i] \in WorkChunk /\ i \in DOMAIN q  BY <1>1, <2>0
    <3>2. /\ v \in Seq(WorkChunk) /\ Len(v) = IF k + 1 <= n THEN n - (k + 1) + 1 ELSE 0
          /\ \A i \in 1 .. n - (k + 1) + 1 : v[i] = q[(k + 1) + i - 1]
      BY <1>1, <2>0, <3>1, SubSeqProperties
    <3> HIDE DEF v, n, q
    <3>3. n - (k + 1) + 1 = n - k /\ k + 1 <= n /\ n - k \in Nat
          /\ \A i \in 1 .. n - k : (k + 1) + i - 1 = k + i /\ k + i \in k + 1 .. n
      BY <1>1, <2>0
    <3>4. Len(v) = n - k /\ \A i \in 1 .. n - k : v[i] = q[k + i] /\ k + i \in DOMAIN q
      BY <3>1, <3>2, <3>3
    <3> QED BY <3>2, <3>3, <3>4
  <2> HIDE DEF u, v
  <2>4. Distinct(q) /\ \A i \in DOMAIN q : i \in 1 .. n  BY <1>1
  <2> HIDE DEF q
  <2>5. Distinct(u)
    <3>1. SUFFICES ASSUME NEW i \in 1 .. k, NEW j \in 1 .. k, u[i] = u[j] PROVE i = j
      BY <2>2 DEF Distinct
    <3> QED BY <2>2, <2>4, <3>1 DEF Distinct
  <2>6. Distinct(v)
    <3>1. SUFFICES ASSUME NEW i \in 1 .. n - k, NEW j \in 1 .. n - k, v[i] = v[j] PROVE i = j
      BY <2>3 DEF Distinct
    <3>2. k + i = k + j  BY <2>3, <2>4, <3>1 DEF Distinct
    <3> QED BY <2>0, <3>2
  <2>7. ToSet(u) \cap ToSet(v) = {}
    <3>1. SUFFICES ASSUME NEW i \in 1 .. k, NEW j \in 1 .. n - k, u[i] = v[j] PROVE FALSE
      BY <2>2, <2>3 DEF ToSet
    <3>2. i = k + j  BY <2>2, <2>3, <2>4, <3>1 DEF Distinct
    <3> QED BY <2>0, <3>2
  <2>8. ToSet(u) \cup ToSet(v) = ToSet(q)
    <3>1. ToSet(u) \cup ToSet(v) \subseteq ToSet(q)  BY <2>2, <2>3 DEF ToSet
    <3>2. ASSUME NEW i \in 1 .. n PROVE q[i] \in ToSet(u) \cup ToSet(v)
      <4>1. CASE i <= k
        <5>1. i \in 1 .. k  BY <2>0, <4>1
        <5> QED BY <2>2, <5>1 DEF ToSet
      <4>2. CASE i > k
        <5>1. i - k \in 1 .. n - k /\ k + (i - k) = i  BY <1>1, <2>0, <4>2
        <5> QED BY <2>3, <5>1 DEF ToSet
      <4> QED BY <2>0, <4>1, <4>2
    <3> QED BY <2>4, <3>1, <3>2 DEF ToSet
  <2> DEFINE bu == Batches(u, b.size, limit)
             bv == Batches(v, b.size, limit)
  <2> HIDE DEF limit
  <2>9. bu \in Seq(BatchOf(WorkChunk)) /\ Spread(bu) /\ WorkSet(bu) = ToSet(u)
    BY <1>1, <2>2, <2>5, BatchesPartition
  <2>10. bv \in Seq(BatchOf(WorkChunk)) /\ Spread(bv) /\ WorkSet(bv) = ToSet(v)
    BY <1>1, <2>3, <2>6, BatchesPartition
  <2> HIDE DEF bu, bv
  <2>11. /\ bu \o bv \in Seq(BatchOf(WorkChunk))
         /\ WorkSet(bu \o bv) = WorkSet(bu) \cup WorkSet(bv)
         /\ Spread(bu) /\ Spread(bv) /\ WorkSet(bu) \cap WorkSet(bv) \subseteq {} => Spread(bu \o bv)
    <3>1. bu \in Seq(BatchOf(WorkChunk)) /\ bv \in Seq(BatchOf(WorkChunk))  BY <2>9, <2>10
    <3> QED BY <3>1, WorkConcat, Zenon DEF Spread
  <2>12. Smaller(b) = bu \o bv  BY <2>1 DEF bu, bv
  <2> QED BY <2>7, <2>8, <2>9, <2>10, <2>11, <2>12 DEF q
<1>4. CASE ~ (n > 1)
  <2>0. n = 1
    <3> HIDE DEF n
    <3> QED BY <1>1, <1>4
  <2> DEFINE x == q[1]
  <2>1. Smaller(b) = Batches(Halves(x), 1, limit)  BY <1>4 DEF Smaller
  <2>2. x \in WorkChunk /\ ToSet(q) = {x}
    <3>1. DOMAIN q = {1}  BY <1>1, <2>0
    <3>2. 1 \in DOMAIN q  BY <3>1
    <3>3. q[1] \in WorkChunk  BY <1>1, <3>2
    <3> QED BY <3>1, <3>3 DEF ToSet
  <2> HIDE DEF x, limit
  <2>3. Halves(x) \in Seq(WorkChunk) /\ Distinct(Halves(x))  BY <2>2, HalvesStay
  <2> DEFINE hs == Halves(x)
  <2> HIDE DEF hs
  <2>4. hs \in Seq(WorkChunk) /\ Distinct(hs)  BY <2>3 DEF hs
  <2>5. /\ Batches(hs, 1, limit) \in Seq(BatchOf(WorkChunk))
        /\ Spread(Batches(hs, 1, limit)) /\ WorkSet(Batches(hs, 1, limit)) = ToSet(hs)
    BY <1>1, <2>4, BatchesPartition
  <2> QED BY <2>1, <2>2, <2>5 DEF hs
<1> QED BY <1>3, <1>4

-----------------------------------------------------------------------------
(* The inductive invariant *)

(* What may be stored: what an earlier plan left, or a piece. *)
StoredChunk == Leftovers \cup {x \in AllPieces : ~ Deep(x)}

(* The record of a pass. *)
PassType ==
    [pc : {"idle", "page", "delete", "embed", "sweep", "swept", "retried"},
     inventory : SUBSET StoredChunk, current : [Sections -> Contents \cup {None}],
     offset : Nat, size : Nat, stale : SUBSET Sections, work : Seq(BatchOf(WorkChunk)),
     deferred : BOOLEAN, alone : BOOLEAN]

(* What may wait and is too deep. *)
DeepChunks == {x \in WorkChunk : Deep(x)}

(* A chunk waits once, and not together with a half of its own. *)
Tidy(work) ==
    /\ Apart(DeepChunks, work)
    /\ \A x, y \in WorkSet(work) : x.size >= 2 /\ y \in {Left(x), Right(x)} => Deep(y)

(* Every pass is of its type and its batches are tidy. *)
PassesInv == pass \in [Passes -> PassType] /\ \A p \in Passes : Tidy(pass[p].work)

(* The inductive invariant: whatever happened, what is stored are leftovers and pieces. *)
EmbedInv ==
    /\ SectionsType
    /\ chunks \in SUBSET StoredChunk
    /\ PassesInv

(* Nothing that is stored is too deep. *)
LEMMA StoredFacts ==
  ASSUME NEW stored \in SUBSET StoredChunk
  PROVE  PiecesOnly(stored) /\ \A x \in stored : x.section \in Sections /\ ~ Deep(x)
<1>1. OrdinalLimit \in Nat  BY SizesAssumption
<1>2. \A x \in Leftovers : ~ Deep(x)  BY <1>1, LeftoversAssumption DEF Deep
<1> QED BY <1>2, LeftoversAssumption DEF StoredChunk, AllPieces, ChunkType, PiecesOnly

(* What may wait and can be stored is a piece. *)
LEMMA StorableIsPiece ==
  ASSUME NEW x \in WorkChunk, NEW stored, Storable(x, stored)
  PROVE  x \in AllPieces /\ ~ Deep(x)
<1>1. x.ordinal \in Nat /\ OrdinalLimit \in Nat  BY SizesAssumption DEF WorkChunk, ChunkType
<1>2. x.ordinal <= OrdinalLimit  BY DEF Storable
<1>3. ~ Deep(x)  BY <1>1, <1>2 DEF Deep
<1> QED BY <1>3 DEF WorkChunk

(* The chunks before the one that is refused can be stored. *)
LEMMA RefusedFacts ==
  ASSUME NEW S, NEW batch \in Seq(S), NEW stored
  PROVE  LET n == Refused(batch, stored)
         IN  /\ n \in 0 .. Len(batch)
             /\ n = 0 => \A k \in DOMAIN batch : Storable(batch[k], stored)
             /\ n # 0 => \A k \in 1 .. n - 1 : k \in DOMAIN batch /\ Storable(batch[k], stored)
<1> DEFINE I == {i \in 1 .. Len(batch) : ~ Storable(batch[i], stored)}
           n == Refused(batch, stored)
<1>1. n = IF I # {} THEN Min(I) ELSE 0
  BY Zenon DEF Refused, SelectInSeq
<1>2. Len(batch) \in Nat /\ DOMAIN batch = 1 .. Len(batch)  OBVIOUS
<1> HIDE DEF n
<1>3. CASE I = {}
  <2>1. n = 0  BY <1>1, <1>3
  <2> QED BY <1>2, <1>3, <2>1 DEF n
<1>4. CASE I # {}
  <2>1. I \in SUBSET Nat  OBVIOUS
  <2>2. \E i \in I : \A j \in I : i <= j
    <3> HIDE DEF I
    <3> QED BY <1>4, <2>1, LeastNatural
  <2>3. n \in I /\ \A j \in I : n <= j
    <3> HIDE DEF I
    <3> QED BY <1>1, <1>4, <2>2 DEF Min
  <2>4. \A k \in 1 .. n - 1 : k \in 1 .. Len(batch) /\ k \notin I
    <3>1. n \in 1 .. Len(batch)  BY <2>3
    <3>2. \A k \in 1 .. n - 1 : k \in 1 .. Len(batch) /\ ~ (n <= k)  BY <1>2, <3>1
    <3> HIDE DEF I
    <3> QED BY <2>3, <3>2
  <2> QED BY <1>2, <2>3, <2>4 DEF n
<1> QED BY <1>3, <1>4

(* The elements of a prefix. *)
LEMMA PrefixSet ==
  ASSUME NEW S, NEW q \in Seq(S), NEW n \in Int, \A k \in 1 .. n : k \in DOMAIN q
  PROVE  ToSet(SubSeq(q, 1, n)) = {q[k] : k \in 1 .. n}
<1>1. \A k \in 1 .. n : q[k] \in S  OBVIOUS
<1>2. /\ SubSeq(q, 1, n) \in Seq(S)
      /\ Len(SubSeq(q, 1, n)) = IF 1 <= n THEN n - 1 + 1 ELSE 0
      /\ \A k \in 1 .. n - 1 + 1 : SubSeq(q, 1, n)[k] = q[1 + k - 1]
  BY <1>1, SubSeqProperties
<1>3. DOMAIN SubSeq(q, 1, n) = 1 .. n /\ \A k \in 1 .. n : SubSeq(q, 1, n)[k] = q[k]
  <2> DEFINE w == SubSeq(q, 1, n)
  <2> HIDE DEF w
  <2>1. DOMAIN w = 1 .. Len(w)  BY <1>2 DEF w
  <2>2. CASE 1 <= n
    BY <1>2, <2>1, <2>2 DEF w
  <2>3. CASE ~ (1 <= n)
    BY <1>2, <2>1, <2>3 DEF w
  <2> QED BY <2>2, <2>3 DEF w
<1> QED BY <1>3 DEF ToSet

(* What a page adds to the work: the expected chunks of each stale section, each once. *)
LEMMA PendingWork ==
  ASSUME SectionsType, NEW page \in Seq(Listed), Distinct(page), NEW stale \in SUBSET Listed
  PROVE  LET pending == FlattenSeq([i \in DOMAIN page |->
                            IF page[i] \in stale THEN Expected(page[i], sections[page[i]]) ELSE << >>])
         IN  /\ pending \in Seq(WorkChunk) /\ Distinct(pending)
             /\ ToSet(pending) = UNION {ToSet(Expected(s, sections[s])) : s \in stale \cap ToSet(page)}
<1> DEFINE redo(s) == IF s \in stale THEN Expected(s, sections[s]) ELSE << >>
           seqs == [i \in DOMAIN page |-> redo(page[i])]
<1>1. \A s \in Listed : s \in Sections /\ sections[s] \in Contents  BY DEF Listed, SectionsType
<1>2. ASSUME NEW s \in Listed
      PROVE  /\ redo(s) \in Seq(WorkChunk) /\ Distinct(redo(s))
             /\ \A x \in ToSet(redo(s)) : x.section = s
             /\ ToSet(redo(s)) = IF s \in stale THEN ToSet(Expected(s, sections[s])) ELSE {}
  <2>1. CASE s \in stale
    <3>0. s \in Sections /\ sections[s] \in Contents  BY <1>1
    <3>1. redo(s) = Expected(s, sections[s])  BY <2>1
    <3>2. /\ Expected(s, sections[s]) \in Seq(WorkChunk) /\ Distinct(Expected(s, sections[s]))
          /\ \A x \in ToSet(Expected(s, sections[s])) : x.section = s
      BY <3>0, ExpectedChunks
    <3> HIDE DEF redo
    <3> QED BY <2>1, <3>1, <3>2
  <2>2. CASE s \notin stale
    <3>1. redo(s) = << >>  BY <2>2
    <3>2. << >> \in Seq(WorkChunk) /\ DOMAIN << >> = {}  OBVIOUS
    <3> HIDE DEF redo
    <3> QED BY <2>2, <3>1, <3>2 DEF Distinct, ToSet
  <2> QED BY <2>1, <2>2
<1> HIDE DEF redo
<1>3. /\ seqs \in Seq(Seq(WorkChunk)) /\ DOMAIN seqs = DOMAIN page
      /\ \A i \in DOMAIN page : seqs[i] = redo(page[i]) /\ page[i] \in Listed
  <2>1. DOMAIN page = 1 .. Len(page) /\ Len(page) \in Nat /\ \A i \in DOMAIN page : page[i] \in Listed  OBVIOUS
  <2>2. \A i \in DOMAIN page : redo(page[i]) \in Seq(WorkChunk)  BY <1>2, <2>1
  <2> DEFINE n == Len(page)
             D == DOMAIN page
  <2>3. seqs = [i \in 1 .. n |-> redo(page[i])] /\ \A i \in 1 .. n : redo(page[i]) \in Seq(WorkChunk)
    BY <2>1, <2>2
  <2>4. n \in Nat  BY <2>1
  <2> HIDE DEF seqs, n
  <2>5. seqs \in Seq(Seq(WorkChunk)) /\ DOMAIN seqs = 1 .. n /\ \A i \in 1 .. n : seqs[i] = redo(page[i])  BY <2>3, <2>4
  <2> QED BY <2>1, <2>5 DEF n
<1> HIDE DEF seqs
<1>4. \A i \in DOMAIN seqs : Distinct(seqs[i])  BY <1>2, <1>3
<1>5. \A i, j \in DOMAIN seqs : i # j => ToSet(seqs[i]) \cap ToSet(seqs[j]) = {}
  <2>1. SUFFICES ASSUME NEW i \in DOMAIN page, NEW j \in DOMAIN page, i # j
                 PROVE  ToSet(redo(page[i])) \cap ToSet(redo(page[j])) = {}
    BY <1>3
  <2>2. page[i] # page[j]  BY <2>1 DEF Distinct
  <2>3. page[i] \in Listed /\ page[j] \in Listed  BY <1>3
  <2> QED BY <1>2, <2>2, <2>3
<1>6. /\ FlattenSeq(seqs) \in Seq(WorkChunk) /\ Distinct(FlattenSeq(seqs))
      /\ ToSet(FlattenSeq(seqs)) = UNION {ToSet(seqs[i]) : i \in DOMAIN seqs}
  BY <1>3, <1>4, <1>5, FlattenPartition
<1>7. UNION {ToSet(seqs[i]) : i \in DOMAIN seqs} = UNION {ToSet(Expected(s, sections[s])) : s \in stale \cap ToSet(page)}
  <2> DEFINE of(s) == ToSet(Expected(s, sections[s]))
  <2>1. \A i \in DOMAIN page : ToSet(seqs[i]) = IF page[i] \in stale THEN of(page[i]) ELSE {}
    BY <1>2, <1>3
  <2>2. ToSet(page) = {page[i] : i \in DOMAIN page}  BY DEF ToSet
  <2> HIDE DEF of
  <2>3. ASSUME NEW i \in DOMAIN page, NEW x \in ToSet(seqs[i])
        PROVE  page[i] \in stale \cap ToSet(page) /\ x \in of(page[i])
    BY <2>1, <2>2
  <2>4. ASSUME NEW s \in stale \cap ToSet(page), NEW x \in of(s)
        PROVE  \E i \in DOMAIN page : x \in ToSet(seqs[i])
    <3>1. PICK i \in DOMAIN page : page[i] = s  BY <2>2
    <3>2. ToSet(seqs[i]) = of(s)  BY <2>1, <3>1
    <3> QED BY <3>2
  <2>5. UNION {ToSet(seqs[i]) : i \in DOMAIN page} = UNION {of(s) : s \in stale \cap ToSet(page)}
    <3>1. \A x : x \in UNION {ToSet(seqs[i]) : i \in DOMAIN page} <=> \E i \in DOMAIN page : x \in ToSet(seqs[i])
      OBVIOUS
    <3>2. \A x : x \in UNION {of(s) : s \in stale \cap ToSet(page)} <=> \E s \in stale \cap ToSet(page) : x \in of(s)
      OBVIOUS
    <3>3. \A x : (\E i \in DOMAIN page : x \in ToSet(seqs[i])) <=> \E s \in stale \cap ToSet(page) : x \in of(s)
      BY <2>3, <2>4
    <3> QED BY <3>1, <3>2, <3>3
  <2> QED BY <1>3, <2>5 DEF of
<1>8. seqs = [i \in DOMAIN page |-> IF page[i] \in stale THEN Expected(page[i], sections[page[i]]) ELSE << >>]
  BY DEF seqs, redo
<1> QED BY <1>6, <1>7, <1>8

(* A record that goes on within its page, or past it. *)
LEMMA OnwardFacts ==
  ASSUME NEW r \in PassType
  PROVE  /\ Onward(r) \in PassType
         /\ Onward(r).inventory = r.inventory /\ Onward(r).current = r.current
         /\ Onward(r).size = r.size /\ Onward(r).stale = r.stale /\ Onward(r).work = r.work
         /\ Onward(r).deferred = r.deferred /\ Onward(r).alone = r.alone
         /\ \/ r.stale # {} /\ Onward(r).pc = "delete" /\ Onward(r).offset = r.offset
            \/ r.stale = {} /\ r.work # << >> /\ Onward(r).pc = "embed" /\ Onward(r).offset = r.offset
            \/ r.stale = {} /\ r.work = << >> /\ Onward(r).pc = "page" /\ Onward(r).offset = r.offset + r.size
<1>1. CASE r.stale # {}
  <2>1. Onward(r) = [r EXCEPT !.pc = "delete"]  BY <1>1 DEF Onward
  <2> QED BY <1>1, <2>1 DEF PassType
<1>2. CASE r.stale = {} /\ r.work # << >>
  <2>1. Onward(r) = [r EXCEPT !.pc = "embed"]  BY <1>2 DEF Onward
  <2> QED BY <1>2, <2>1 DEF PassType
<1>3. CASE r.stale = {} /\ r.work = << >>
  <2>1. Onward(r) = [r EXCEPT !.pc = "page", !.offset = r.offset + r.size]  BY <1>3 DEF Onward, PageDone
  <2>2. r.offset + r.size \in Nat  BY DEF PassType
  <2> QED BY <1>3, <2>1, <2>2 DEF PassType
<1> QED BY <1>1, <1>2, <1>3

(* A step beside a pass only says that the pass is not alone. *)
LEMMA DisturbedFacts ==
  ASSUME PassesInv, NEW others, pass' = Disturbed(others)
  PROVE  PassesInv' /\ \A p \in Passes : pass'[p] = IF p \in others THEN [pass[p] EXCEPT !.alone = FALSE] ELSE pass[p]
<1>1. pass' = [p \in Passes |-> IF p \in others THEN [pass[p] EXCEPT !.alone = FALSE] ELSE pass[p]]
  BY DEF Disturbed
<1>2. \A p \in Passes : pass[p] \in PassType  BY DEF PassesInv
<1>3. \A r \in PassType : [r EXCEPT !.alone = FALSE] \in PassType /\ [r EXCEPT !.alone = FALSE].work = r.work
  BY DEF PassType
<1>4. \A p \in Passes : /\ pass'[p] = IF p \in others THEN [pass[p] EXCEPT !.alone = FALSE] ELSE pass[p]
                        /\ pass'[p] \in PassType /\ pass'[p].work = pass[p].work
  BY <1>1, <1>2, <1>3
<1>5. pass' \in [Passes -> PassType]  BY <1>1, <1>2, <1>3
<1> QED BY <1>4, <1>5 DEF PassesInv

(* The step of one pass. *)
LEMMA PassStepFacts ==
  ASSUME PassesInv, NEW p \in Passes, NEW r \in PassType, Tidy(r.work), PassStep(p, r)
  PROVE  /\ PassesInv' /\ pass'[p] = r
         /\ \A q \in Passes \ {p} : pass'[q] = [pass[q] EXCEPT !.alone = FALSE]
<1>1. pass' = [Disturbed(Passes \ {p}) EXCEPT ![p] = r]  BY DEF PassStep
<1>2. Disturbed(Passes \ {p}) = [q \in Passes |-> IF q \in Passes \ {p} THEN [pass[q] EXCEPT !.alone = FALSE] ELSE pass[q]]
  BY DEF Disturbed
<1>3. pass' = [q \in Passes |-> IF q = p THEN r ELSE [pass[q] EXCEPT !.alone = FALSE]]
  BY <1>1, <1>2
<1>4. \A q \in Passes : pass[q] \in PassType  BY DEF PassesInv
<1>5. \A u \in PassType : [u EXCEPT !.alone = FALSE] \in PassType /\ [u EXCEPT !.alone = FALSE].work = u.work
  BY DEF PassType
<1>6. pass' \in [Passes -> PassType]  BY <1>3, <1>4, <1>5
<1>7. pass'[p] = r /\ \A q \in Passes \ {p} : pass'[q] = [pass[q] EXCEPT !.alone = FALSE]
  BY <1>3
<1>8. ASSUME NEW q \in Passes
      PROVE  Tidy(pass'[q].work)
  <2>1. CASE q = p
    BY <1>7, <2>1
  <2>2. CASE q # p
    <3>1. pass[q] \in PassType /\ Tidy(pass[q].work)  BY DEF PassesInv
    <3>2. pass'[q] = [pass[q] EXCEPT !.alone = FALSE]  BY <1>7, <2>2
    <3>3. pass'[q].work = pass[q].work  BY <1>5, <3>1, <3>2
    <3> QED BY <3>1, <3>3
  <2> QED BY <2>1, <2>2
<1> QED BY <1>6, <1>7, <1>8 DEF PassesInv

(* A pass that does not run. *)
LEMMA IdleType == Idle \in PassType /\ Idle.work = << >> /\ Tidy(Idle.work)
<1>1. << >> \in Seq(BatchOf(WorkChunk)) /\ DOMAIN << >> = {}  OBVIOUS
<1>2. NoSections \in [Sections -> Contents \cup {None}]  BY DEF NoSections
<1>3. Idle.work = << >>  BY DEF Idle
<1>4. Idle \in PassType  BY <1>1, <1>2 DEF Idle, PassType
<1> QED BY <1>1, <1>3, <1>4 DEF Tidy, Apart, WorkSet

-----------------------------------------------------------------------------
(* Stacks of batches that stay tidy *)

(* A stack with nothing in it is empty, and what is in one may wait. *)
LEMMA NoWork ==
  ASSUME NEW S, NEW work \in Seq(BatchOf(S))
  PROVE  /\ WorkSet(work) = {} <=> work = << >>
         /\ \A i \in DOMAIN work : /\ work[i] \in BatchOf(S) /\ work[i].chunks \in Seq(S)
                                   /\ ToSet(work[i].chunks) \subseteq WorkSet(work)
                                   /\ ToSet(work[i].chunks) \subseteq S
         /\ WorkSet(work) \subseteq S
<1>1. DOMAIN work = 1 .. Len(work) /\ Len(work) \in Nat /\ \A i \in DOMAIN work : work[i] \in BatchOf(S)  OBVIOUS
<1>2. \A i \in DOMAIN work : work[i].chunks \in Seq(S) /\ work[i].chunks # << >>  BY <1>1 DEF BatchOf
<1>3. \A i \in DOMAIN work : ToSet(work[i].chunks) \subseteq WorkSet(work)  BY DEF WorkSet
<1>4. ASSUME NEW i \in DOMAIN work
      PROVE  ToSet(work[i].chunks) # {} /\ ToSet(work[i].chunks) \subseteq S
  <2>1. PICK q \in Seq(S) : q = work[i].chunks /\ q # << >>  BY <1>2
  <2>2. Len(q) # 0 /\ DOMAIN q = 1 .. Len(q) /\ Len(q) \in Nat  BY <2>1, EmptySeq
  <2>3. 1 \in DOMAIN q  BY <2>2
  <2>4. ToSet(q) # {} /\ ToSet(q) \subseteq S  BY <2>3 DEF ToSet
  <2> QED BY <2>1, <2>4
<1>5. WorkSet(work) = {} => work = << >>
  <2>1. ASSUME WorkSet(work) = {}, work # << >> PROVE FALSE
    <3>1. Len(work) # 0  BY <2>1, EmptySeq
    <3>2. 1 \in DOMAIN work  BY <1>1, <3>1
    <3> QED BY <1>3, <1>4, <2>1, <3>2
  <2> QED BY <2>1
<1>6. work = << >> => WorkSet(work) = {}
  <2>1. DOMAIN << >> = {}  OBVIOUS
  <2> QED BY <2>1 DEF WorkSet
<1>7. WorkSet(work) \subseteq S  BY <1>4 DEF WorkSet
<1> QED BY <1>1, <1>2, <1>3, <1>4, <1>5, <1>6, <1>7

(* A stack with nothing twice has nothing twice but for D. *)
LEMMA SpreadIsApart ==
  ASSUME NEW D, NEW work, Spread(work)
  PROVE  Apart(D, work)
BY DEF Spread, Apart

(* Only one chunk has a given half, unless the half is too deep to be stored. *)
LEMMA WholeOfHalf ==
  ASSUME NEW x \in WorkChunk, x.size >= 2, NEW z \in WorkChunk, z.size >= 2,
         NEW y \in {Left(x), Right(x)}, ~ Deep(y), y \in {Left(z), Right(z)}
  PROVE  x = z
<1>1. \A w \in WorkChunk : w \in ChunkType /\ w.ordinal \in Nat  BY DEF WorkChunk, ChunkType
<1>2. ASSUME NEW w \in WorkChunk, w.size >= 2, y \in {Left(w), Right(w)}
      PROVE  /\ y.section = w.section /\ y.content = w.content /\ y.ordinal \div SplitFactor = w.ordinal
             /\ w.section \in Sections /\ w.content \in Contents
             /\ \E i \in DOMAIN Text[w.content] : w = Expected(w.section, w.content)[i]
  <2>1. w \in ChunkType /\ w.ordinal \in Nat /\ w.section \in Sections /\ w.content \in Contents
    BY DEF WorkChunk, ChunkType
  <2>2. ~ Deep(w) /\ ~ (w.ordinal >= SplitFactor \div 2)  BY <1>2, <2>1, DeepHalves
  <2>3. w \in AllPieces  BY <2>2 DEF WorkChunk
  <2>4. PICK i \in DOMAIN Text[w.content] : w = Expected(w.section, w.content)[i]
    BY <2>2, <2>3, PieceIsWhole
  <2>5. /\ y.section = w.section /\ y.content = w.content
        /\ y.ordinal = w.ordinal * SplitFactor + SplitFactor \div 2 \/ y.ordinal = w.ordinal * SplitFactor + SplitFactor \div 2 + 1
    BY <1>2, <2>1, HalfShape
  <2>6. y.ordinal \div SplitFactor = w.ordinal
    <3> DEFINE h == SplitFactor \div 2
               m == w.ordinal * SplitFactor
    <3>1. h \in Nat /\ h < SplitFactor /\ h + 1 \in Nat /\ h + 1 < SplitFactor /\ m \in Nat
      BY <2>1, Division, SizesAssumption
    <3>2. (m + h) \div SplitFactor = w.ordinal /\ (m + (h + 1)) \div SplitFactor = w.ordinal
      BY <2>1, <3>1, Division
    <3>3. y.ordinal = m + h \/ y.ordinal = m + h + 1  BY <2>5
    <3> HIDE DEF m, h
    <3>4. m + h + 1 = m + (h + 1)  BY <3>1
    <3> QED BY <3>2, <3>3, <3>4
  <2> QED BY <2>1, <2>4, <2>5, <2>6
<1>3. /\ y.section = x.section /\ y.content = x.content /\ y.ordinal \div SplitFactor = x.ordinal
      /\ x.section \in Sections /\ x.content \in Contents
      /\ \E i \in DOMAIN Text[x.content] : x = Expected(x.section, x.content)[i]
  BY <1>2
<1>4. /\ y.section = z.section /\ y.content = z.content /\ y.ordinal \div SplitFactor = z.ordinal
      /\ \E i \in DOMAIN Text[z.content] : z = Expected(z.section, z.content)[i]
  BY <1>2
<1>5. PICK s \in Sections, c \in Contents : s = x.section /\ c = x.content /\ s = z.section /\ c = z.content
  BY <1>3, <1>4
<1>6. PICK i \in DOMAIN Text[c] : x = Expected(s, c)[i]  BY <1>3, <1>5
<1>7. PICK j \in DOMAIN Text[c] : z = Expected(s, c)[j]  BY <1>4, <1>5
<1>8. x.ordinal = i - 1 /\ z.ordinal = j - 1
  <2>1. Expected(s, c)[i].ordinal = i - 1 /\ Expected(s, c)[j].ordinal = j - 1  BY DEF Expected, Chunk
  <2> QED BY <1>6, <1>7, <2>1
<1>9. i \in Nat /\ j \in Nat  BY TextFacts
<1>10. i = j  BY <1>3, <1>4, <1>8, <1>9
<1> QED BY <1>6, <1>7, <1>10

(* The halves of a half are too deep. *)
LEMMA HalfOfHalf ==
  ASSUME NEW x \in WorkChunk, x.size >= 2, NEW z \in {Left(x), Right(x)}, z.size >= 2
  PROVE  Deep(Left(z)) /\ Deep(Right(z))
<1>1. x \in ChunkType /\ x.ordinal \in Nat  BY DEF WorkChunk, ChunkType
<1>2. z \in ChunkType /\ z.ordinal \in Nat  BY <1>1, HalfShape DEF ChunkType
<1>3. z.ordinal >= SplitFactor \div 2
  <2> DEFINE h == SplitFactor \div 2
             m == x.ordinal * SplitFactor
  <2>1. z.ordinal = m + h \/ z.ordinal = m + h + 1  BY <1>1, HalfShape
  <2>2. m \in Nat /\ h \in Nat  BY <1>1, Division
  <2> HIDE DEF m, h
  <2>3. z.ordinal >= h  BY <2>1, <2>2
  <2> QED BY <2>3 DEF h
<1> QED BY <1>2, <1>3, DeepHalves

(* A stack without one of its batches. *)
LEMMA WithoutTidy ==
  ASSUME NEW work \in Seq(BatchOf(WorkChunk)), NEW i \in DOMAIN work, Tidy(work)
  PROVE  LET rest == RemoveAt(work, i)
         IN  /\ rest \in Seq(BatchOf(WorkChunk)) /\ Tidy(rest)
             /\ WorkSet(rest) \subseteq WorkSet(work)
             /\ WorkSet(work) \ ToSet(work[i].chunks) \subseteq WorkSet(rest)
             /\ WorkSet(rest) \cap ToSet(work[i].chunks) \subseteq DeepChunks
<1> DEFINE before == SubSeq(work, 1, i - 1)
           after == SubSeq(work, i + 1, Len(work))
<1>1. /\ before \in Seq(BatchOf(WorkChunk)) /\ Apart(DeepChunks, before)
      /\ after \in Seq(BatchOf(WorkChunk)) /\ Apart(DeepChunks, after)
      /\ WorkSet(before) \cap WorkSet(after) \subseteq DeepChunks
      /\ WorkSet(before) \cup WorkSet(after) \subseteq WorkSet(work)
      /\ WorkSet(work) \ ToSet(work[i].chunks) \subseteq WorkSet(before) \cup WorkSet(after)
      /\ (WorkSet(before) \cup WorkSet(after)) \cap ToSet(work[i].chunks) \subseteq DeepChunks
  BY WorkWithout DEF Tidy
<1>2. RemoveAt(work, i) = before \o after  BY DEF RemoveAt
<1> HIDE DEF before, after
<1>3. before \in Seq(BatchOf(WorkChunk)) /\ after \in Seq(BatchOf(WorkChunk))  BY <1>1
<1>4. /\ before \o after \in Seq(BatchOf(WorkChunk))
      /\ WorkSet(before \o after) = WorkSet(before) \cup WorkSet(after)
      /\ Apart(DeepChunks, before) /\ Apart(DeepChunks, after) /\ WorkSet(before) \cap WorkSet(after) \subseteq DeepChunks
         => Apart(DeepChunks, before \o after)
  BY <1>3, WorkConcat, Zenon
<1>5. Tidy(before \o after)  BY <1>1, <1>4 DEF Tidy
<1> QED BY <1>1, <1>2, <1>4, <1>5

(* A stack in which smaller batches replace one. *)
LEMMA ReplacedTidy ==
  ASSUME NEW work \in Seq(BatchOf(WorkChunk)), NEW i \in DOMAIN work, Tidy(work),
         NEW smaller \in Seq(BatchOf(WorkChunk)), Spread(smaller),
         \/ WorkSet(smaller) = ToSet(work[i].chunks)
         \/ \E x \in WorkChunk : x.size >= 2 /\ ToSet(work[i].chunks) = {x} /\ WorkSet(smaller) = {Left(x), Right(x)}
  PROVE  LET new == ReplacedBy(work, i, smaller)
         IN  /\ new \in Seq(BatchOf(WorkChunk)) /\ Tidy(new)
             /\ \/ WorkSet(new) = WorkSet(work)
                \/ \E x \in WorkSet(work) :
                      /\ x.size >= 2
                      /\ WorkSet(new) \subseteq WorkSet(work) \cup {Left(x), Right(x)}
                      /\ (WorkSet(work) \ {x}) \cup {Left(x), Right(x)} \subseteq WorkSet(new)
                      /\ x \in WorkSet(new) => Deep(x)
<1> DEFINE before == SubSeq(work, 1, i - 1)
           after == SubSeq(work, i + 1, Len(work))
           b == ToSet(work[i].chunks)
<1>1. /\ before \in Seq(BatchOf(WorkChunk)) /\ Apart(DeepChunks, before)
      /\ after \in Seq(BatchOf(WorkChunk)) /\ Apart(DeepChunks, after)
      /\ WorkSet(before) \cap WorkSet(after) \subseteq DeepChunks
      /\ WorkSet(before) \cup WorkSet(after) \subseteq WorkSet(work)
      /\ WorkSet(work) \ b \subseteq WorkSet(before) \cup WorkSet(after)
      /\ (WorkSet(before) \cup WorkSet(after)) \cap b \subseteq DeepChunks
  BY WorkWithout DEF Tidy
<1>2. ReplacedBy(work, i, smaller) = (before \o smaller) \o after  BY DEF ReplacedBy
<1>3. b \subseteq WorkSet(work) /\ WorkSet(work) \subseteq WorkChunk  BY NoWork
<1>4. Apart(DeepChunks, smaller)  BY SpreadIsApart
<1>5. \/ WorkSet(smaller) = b
      \/ \E x \in WorkChunk : x.size >= 2 /\ b = {x} /\ WorkSet(smaller) = {Left(x), Right(x)}
  OBVIOUS
<1> HIDE DEF before, after, b
<1>6. \A y \in WorkSet(smaller) : y \in WorkSet(before) \cup WorkSet(after) => y \in DeepChunks
  <2>1. CASE WorkSet(smaller) = b
    BY <1>1, <2>1
  <2>2. ASSUME NEW x \in WorkChunk, x.size >= 2, b = {x}, WorkSet(smaller) = {Left(x), Right(x)},
               NEW y \in WorkSet(smaller), y \in WorkSet(before) \cup WorkSet(after)
        PROVE  y \in DeepChunks
    <3>1. x \in WorkSet(work) /\ y \in WorkSet(work)  BY <1>1, <1>3, <2>2
    <3>2. Deep(y)  BY <2>2, <3>1 DEF Tidy
    <3> QED BY <1>3, <3>1, <3>2 DEF DeepChunks
  <2> QED BY <1>5, <2>1, <2>2
<1> DEFINE u == before \o smaller
           new == u \o after
<1>7. /\ u \in Seq(BatchOf(WorkChunk))
      /\ WorkSet(u) = WorkSet(before) \cup WorkSet(smaller)
      /\ Apart(DeepChunks, u)
  <2>1. before \in Seq(BatchOf(WorkChunk))  BY <1>1
  <2>2. /\ u \in Seq(BatchOf(WorkChunk))
        /\ WorkSet(u) = WorkSet(before) \cup WorkSet(smaller)
        /\ Apart(DeepChunks, before) /\ Apart(DeepChunks, smaller) /\ WorkSet(before) \cap WorkSet(smaller) \subseteq DeepChunks
           => Apart(DeepChunks, u)
    BY <2>1, WorkConcat, Zenon
  <2>3. WorkSet(before) \cap WorkSet(smaller) \subseteq DeepChunks  BY <1>6
  <2> HIDE DEF u
  <2> QED BY <1>1, <1>4, <2>2, <2>3
<1> HIDE DEF u
<1>8. /\ new \in Seq(BatchOf(WorkChunk))
      /\ WorkSet(new) = WorkSet(u) \cup WorkSet(after)
      /\ Apart(DeepChunks, new)
  <2>1. after \in Seq(BatchOf(WorkChunk)) /\ u \in Seq(BatchOf(WorkChunk))  BY <1>1, <1>7
  <2>2. /\ new \in Seq(BatchOf(WorkChunk))
        /\ WorkSet(new) = WorkSet(u) \cup WorkSet(after)
        /\ Apart(DeepChunks, u) /\ Apart(DeepChunks, after) /\ WorkSet(u) \cap WorkSet(after) \subseteq DeepChunks
           => Apart(DeepChunks, new)
    BY <2>1, WorkConcat, Zenon
  <2>3. WorkSet(u) \cap WorkSet(after) \subseteq DeepChunks  BY <1>1, <1>6, <1>7
  <2> HIDE DEF new
  <2> QED BY <1>1, <1>7, <2>2, <2>3
<1>9. ReplacedBy(work, i, smaller) = new  BY <1>2 DEF u
<1> HIDE DEF new
<1>10. WorkSet(new) = WorkSet(before) \cup WorkSet(after) \cup WorkSet(smaller)  BY <1>7, <1>8
<1>11. CASE WorkSet(smaller) = b
  <2>1. WorkSet(new) = WorkSet(work)  BY <1>1, <1>3, <1>10, <1>11
  <2>2. Tidy(new)  BY <1>8, <2>1 DEF Tidy
  <2> QED BY <1>8, <1>9, <2>1, <2>2
<1>12. ASSUME NEW x \in WorkChunk, x.size >= 2, b = {x}, WorkSet(smaller) = {Left(x), Right(x)}
       PROVE  /\ Tidy(new) /\ x \in WorkSet(work)
              /\ WorkSet(new) \subseteq WorkSet(work) \cup {Left(x), Right(x)}
              /\ (WorkSet(work) \ {x}) \cup {Left(x), Right(x)} \subseteq WorkSet(new)
              /\ x \in WorkSet(new) => Deep(x)
  <2>1. x \in WorkSet(work)  BY <1>3, <1>12
  <2>2. /\ WorkSet(new) \subseteq WorkSet(work) \cup {Left(x), Right(x)}
        /\ (WorkSet(work) \ {x}) \cup {Left(x), Right(x)} \subseteq WorkSet(new)
    BY <1>1, <1>10, <1>12
  <2>3. x \in WorkSet(before) \cup WorkSet(after) => Deep(x)  BY <1>1, <1>12 DEF DeepChunks
  <2>4. x \in ChunkType  BY DEF WorkChunk
  <2>5. Left(x) # x /\ Right(x) # x
    <3>1. Left(x).size = x.size \div 2 /\ Right(x).size = x.size - x.size \div 2 /\ x.size \in Nat
      BY <1>12, <2>4, HalfShape DEF ChunkType
    <3>2. \A n \in Nat : n >= 2 => n \div 2 # n /\ n - n \div 2 # n  OBVIOUS
    <3>3. x.size \div 2 # x.size /\ x.size - x.size \div 2 # x.size  BY <1>12, <3>1, <3>2
    <3> QED BY <3>1, <3>3
  <2>6. x \in WorkSet(new) => Deep(x)  BY <1>10, <1>12, <2>3, <2>5
  <2>7. ASSUME NEW z \in WorkSet(new), NEW y \in WorkSet(new), z.size >= 2, y \in {Left(z), Right(z)}
        PROVE  Deep(y)
    <3>1. CASE z \in {Left(x), Right(x)}
      BY <1>12, <2>7, <3>1, HalfOfHalf
    <3>2. CASE z \in WorkSet(work) /\ y \in WorkSet(work)
      BY <2>7, <3>2 DEF Tidy
    <3>3. CASE z \in WorkSet(work) /\ y \in {Left(x), Right(x)}
      <4>1. SUFFICES ASSUME ~ Deep(y) PROVE FALSE  OBVIOUS
      <4>2. z \in WorkChunk  BY <1>3, <3>3
      <4>3. x = z  BY <1>12, <2>7, <3>3, <4>1, <4>2, WholeOfHalf
      <4>4. Deep(x)  BY <2>6, <2>7, <4>3
      <4> QED BY <1>12, <2>4, <3>3, <4>1, <4>4, DeepHalves
    <3> QED BY <2>2, <2>7, <3>1, <3>2, <3>3
  <2>8. Tidy(new)  BY <1>8, <2>7 DEF Tidy
  <2> QED BY <2>1, <2>2, <2>6, <2>8
<1> QED BY <1>5, <1>8, <1>9, <1>11, <1>12

-----------------------------------------------------------------------------
(* The steps of a pass: pages and batches *)

(* The record of a pass is of its type. *)
LEMMA RecordOf ==
  ASSUME PassesInv, NEW p \in Passes
  PROVE  /\ pass[p] \in PassType /\ Tidy(pass[p].work) /\ pass[p].work \in Seq(BatchOf(WorkChunk))
         /\ pass[p].stale \in SUBSET Sections /\ pass[p].inventory \in SUBSET StoredChunk
         /\ pass[p].offset \in Nat /\ pass[p].current \in [Sections -> Contents \cup {None}]
         /\ pass[p].size \in Nat /\ pass[p].deferred \in BOOLEAN /\ pass[p].alone \in BOOLEAN
BY DEF PassesInv, PassType

(* What reading a page makes of the record. *)
ReadRecord(r, record) ==
    LET page == Page(r.offset)
    IN  /\ record \in PassType /\ Tidy(record.work)
        /\ page # << >>
        /\ record.inventory = r.inventory /\ record.offset = r.offset /\ record.size = Len(page)
        /\ record.current = [s \in Sections |-> IF s \in ToSet(page) THEN sections[s] ELSE r.current[s]]
        /\ record.stale = {s \in ToSet(page) : Evaluation(s, sections[s], r.inventory) # "ready"}
        /\ WorkSet(record.work) = UNION {ToSet(Expected(s, sections[s])) : s \in record.stale}
        /\ record.deferred = r.deferred /\ record.alone = r.alone

(* The batches of a page hold what is pending, each chunk once, whatever they are retried by. *)
LEMMA PlannedPartition ==
  ASSUME NEW pending \in Seq(WorkChunk), Distinct(pending)
  PROVE  /\ Planned(pending) \in Seq(BatchOf(WorkChunk))
         /\ Spread(Planned(pending))
         /\ WorkSet(Planned(pending)) = ToSet(pending)
<1> DEFINE plan == Batches(pending, BatchSize, MaxBatchTokens)
           alone == [i \in DOMAIN plan |-> [plan[i] EXCEPT !.size = 1]]
<1>1. BatchSize \in Nat \ {0} /\ MaxBatchTokens \in Nat  BY SizesAssumption
<1>2. plan \in Seq(BatchOf(WorkChunk)) /\ Spread(plan) /\ WorkSet(plan) = ToSet(pending)
  BY <1>1, BatchesPartition
<1>3. Planned(pending) = plan \/ Planned(pending) = alone  BY DEF Planned
<1> HIDE DEF plan
<1>4. DOMAIN plan = 1 .. Len(plan) /\ Len(plan) \in Nat  BY <1>2
<1>5. \A i \in DOMAIN plan : plan[i] \in BatchOf(WorkChunk)  BY <1>2, <1>4
<1>6. \A b \in BatchOf(WorkChunk) :
          [b EXCEPT !.size = 1] \in BatchOf(WorkChunk) /\ [b EXCEPT !.size = 1].chunks = b.chunks
  BY DEF BatchOf
<1>7. DOMAIN alone = DOMAIN plan /\ \A i \in DOMAIN plan : alone[i] \in BatchOf(WorkChunk) /\ alone[i].chunks = plan[i].chunks
  BY <1>5, <1>6
<1>8. alone \in Seq(BatchOf(WorkChunk))
  <2>1. alone \in [1 .. Len(plan) -> BatchOf(WorkChunk)]  BY <1>4, <1>7
  <2> HIDE DEF alone
  <2> QED BY <1>4, <2>1
<1> HIDE DEF alone
<1>9. Spread(alone)  BY <1>2, <1>7 DEF Spread, Apart
<1>10. WorkSet(alone) = WorkSet(plan)  BY <1>7 DEF WorkSet
<1> QED BY <1>2, <1>3, <1>8, <1>9, <1>10

(* Reading a page makes such a record. *)
LEMMA ReadPageFacts ==
  ASSUME SectionsType, PassesInv, NEW p \in Passes, ReadPage(p)
  PROVE  \E record : ReadRecord(pass[p], record) /\ PassStep(p, Onward(record))
<1> DEFINE r == pass[p]
           page == Page(r.offset)
           stale == {s \in ToSet(page) : Evaluation(s, sections[s], r.inventory) # "ready"}
           pending == FlattenSeq([i \in DOMAIN page |-> IF page[i] \in stale THEN Expected(page[i], sections[page[i]]) ELSE << >>])
           current == [s \in Sections |-> IF s \in ToSet(page) THEN sections[s] ELSE r.current[s]]
           work == Planned(pending)
           record == [r EXCEPT !.current = current, !.size = Len(page), !.stale = stale, !.work = work]
<1>1. page # << >> /\ PassStep(p, Onward(record))
  BY DEF ReadPage
<1>2. r \in PassType /\ r.offset \in Nat /\ r.current \in [Sections -> Contents \cup {None}]  BY RecordOf
<1>3. page \in Seq(Listed) /\ Distinct(page)  BY <1>2, PageFacts
<1>4. Len(page) \in Nat /\ ToSet(page) \subseteq Listed /\ stale \in SUBSET Listed /\ stale \cap ToSet(page) = stale
  <2> HIDE DEF page
  <2> QED BY <1>3 DEF ToSet
<1>5. Listed \subseteq Sections  BY DEF Listed
<1>6. /\ pending \in Seq(WorkChunk) /\ Distinct(pending)
      /\ ToSet(pending) = UNION {ToSet(Expected(s, sections[s])) : s \in stale}
  <2> HIDE DEF page, stale
  <2>1. /\ pending \in Seq(WorkChunk) /\ Distinct(pending)
        /\ ToSet(pending) = UNION {ToSet(Expected(s, sections[s])) : s \in stale \cap ToSet(page)}
    BY <1>3, <1>4, PendingWork
  <2> HIDE DEF pending
  <2> QED BY <1>4, <2>1
<1> HIDE DEF pending
<1>7. /\ work \in Seq(BatchOf(WorkChunk)) /\ Spread(work)
      /\ WorkSet(work) = UNION {ToSet(Expected(s, sections[s])) : s \in stale}
  <2>2. /\ work \in Seq(BatchOf(WorkChunk)) /\ Spread(work) /\ WorkSet(work) = ToSet(pending)
    BY <1>6, PlannedPartition
  <2> HIDE DEF work
  <2> QED BY <1>6, <2>2
<1>8. Tidy(work)
  <2>1. Apart(DeepChunks, work)  BY <1>7, SpreadIsApart
  <2>2. ASSUME NEW x \in WorkSet(work), NEW y \in WorkSet(work), x.size >= 2, y \in {Left(x), Right(x)}
        PROVE  FALSE
    <3> HIDE DEF work
    <3>1. \A z \in WorkSet(work) : \E s \in Sections, c \in Contents : z \in ToSet(Expected(s, c))
      <4>1. \A s \in stale : s \in Sections /\ sections[s] \in Contents  BY <1>4 DEF Listed, SectionsType
      <4> HIDE DEF stale
      <4> QED BY <1>7, <4>1
    <3>2. PICK s \in Sections, c \in Contents : x \in ToSet(Expected(s, c))  BY <3>1, <2>2
    <3>3. PICK t \in Sections, d \in Contents : y \in ToSet(Expected(t, d))  BY <3>1, <2>2
    <3>4. PICK j \in DOMAIN Text[d] : y = Expected(t, d)[j]  BY <3>3, ExpectedChunks DEF ToSet
    <3>5. y.ordinal = j - 1 /\ j - 1 \in Nat /\ j - 1 < SplitFactor \div 2
      <4>1. Expected(t, d)[j].ordinal = j - 1  BY DEF Expected, Chunk
      <4> QED BY <3>4, <4>1, TextFacts
    <3>6. x \in ChunkType  BY <3>2, ExpectedChunks DEF AllPieces
    <3> DEFINE h == SplitFactor \div 2
               m == x.ordinal * SplitFactor
    <3>7. y.ordinal = m + h \/ y.ordinal = m + h + 1  BY <2>2, <3>6, HalfShape
    <3>8. m \in Nat /\ h \in Nat  BY <3>6, Division DEF ChunkType
    <3>9. j - 1 < h  BY <3>5
    <3> HIDE DEF m, h
    <3> QED BY <3>5, <3>7, <3>8, <3>9
  <2> QED BY <2>1, <2>2 DEF Tidy
<1>9. current \in [Sections -> Contents \cup {None}]
  <2> HIDE DEF page
  <2> QED BY <1>2 DEF SectionsType
<1>10. record \in PassType
  <2>1. stale \in SUBSET Sections  BY <1>4, <1>5
  <2> HIDE DEF page, stale, current, work, r
  <2> QED BY <1>2, <1>4, <1>7, <1>9, <2>1 DEF PassType
<1>11. /\ record.inventory = r.inventory /\ record.offset = r.offset /\ record.size = Len(page)
       /\ record.current = current /\ record.stale = stale /\ record.work = work
       /\ record.deferred = r.deferred /\ record.alone = r.alone
  <2> HIDE DEF page, stale, current, work, r
  <2> QED BY <1>2 DEF PassType
<1>12. ReadRecord(r, record)
  <2>1. page = Page(r.offset)  OBVIOUS
  <2>2. /\ current = [s \in Sections |-> IF s \in ToSet(page) THEN sections[s] ELSE r.current[s]]
        /\ stale = {s \in ToSet(page) : Evaluation(s, sections[s], r.inventory) # "ready"}
    OBVIOUS
  <2>3. /\ record \in PassType /\ Tidy(record.work)
        /\ WorkSet(record.work) = UNION {ToSet(Expected(s, sections[s])) : s \in record.stale}
    <3> HIDE DEF record, stale, work
    <3> QED BY <1>7, <1>8, <1>10, <1>11
  <2> HIDE DEF page, stale, current, work, r, record
  <2> QED BY <1>1, <1>11, <2>1, <2>2, <2>3, Zenon DEF ReadRecord
<1> QED BY <1>1, <1>12

(* The stacks of batches before and after one that is too long. *)
Split(old, new) ==
    \/ new = old
    \/ \E x \in old :
          /\ x.size >= 2
          /\ new \subseteq old \cup {Left(x), Right(x)}
          /\ (old \ {x}) \cup {Left(x), Right(x)} \subseteq new
          /\ x \in new => Deep(x)

(* A batch that is too long ends the pass or is split. *)
LEMMA TooLongFacts ==
  ASSUME PassesInv, NEW p \in Passes, NEW i \in DOMAIN pass[p].work, TooLong(p, i)
  PROVE  /\ UNCHANGED <<sections, chunks, sync, queued, edits, faults>>
         /\ \/ PassStep(p, Idle)
            \/ \E work \in Seq(BatchOf(WorkChunk)) :
                  /\ Tidy(work) /\ Split(WorkSet(pass[p].work), WorkSet(work))
                  /\ PassStep(p, [pass[p] EXCEPT !.work = work])
<1> DEFINE r == pass[p]
           b == r.work[i]
           smaller == Smaller(b)
           work == ReplacedBy(r.work, i, smaller)
<1>1. /\ UNCHANGED <<sections, chunks, sync, queued, edits, faults>>
      /\ IF smaller = << >> THEN PassStep(p, Idle) ELSE PassStep(p, [pass[p] EXCEPT !.work = work])
  BY DEF TooLong, Fails
<1>2. r.work \in Seq(BatchOf(WorkChunk)) /\ Tidy(r.work)  BY RecordOf
<1>3. b \in BatchOf(WorkChunk) /\ Distinct(b.chunks)
  <2>1. b \in BatchOf(WorkChunk)  BY <1>2, NoWork
  <2>2. Distinct(b.chunks)  BY <1>2 DEF Tidy, Apart
  <2> QED BY <2>1, <2>2
<1>4. /\ smaller \in Seq(BatchOf(WorkChunk)) /\ Spread(smaller)
      /\ \/ WorkSet(smaller) = ToSet(b.chunks)
         \/ \E x \in WorkChunk : ToSet(b.chunks) = {x} /\ WorkSet(smaller) = ToSet(Halves(x))
  <2> HIDE DEF b
  <2> QED BY <1>3, SmallerWork
<1>5. CASE smaller = << >>
  <2> HIDE DEF smaller
  <2> QED BY <1>1, <1>5
<1>6. CASE smaller # << >>
  <2> HIDE DEF smaller
  <2>1. WorkSet(smaller) # {}  BY <1>4, <1>6, NoWork
  <2>2. \/ WorkSet(smaller) = ToSet(b.chunks)
        \/ \E x \in WorkChunk : x.size >= 2 /\ ToSet(b.chunks) = {x} /\ WorkSet(smaller) = {Left(x), Right(x)}
    <3>1. ASSUME NEW x \in WorkChunk, ToSet(b.chunks) = {x}, WorkSet(smaller) = ToSet(Halves(x))
          PROVE  x.size >= 2 /\ WorkSet(smaller) = {Left(x), Right(x)}
      <4>1. ~ (x.size < 2)  BY <2>1, <3>1, HalvesOf
      <4>2. x.size \in Nat  BY DEF WorkChunk, ChunkType
      <4> QED BY <3>1, <4>1, <4>2, HalvesOf
    <3> HIDE DEF b
    <3> QED BY <1>4, <3>1
  <2>3. work \in Seq(BatchOf(WorkChunk)) /\ Tidy(work) /\ Split(WorkSet(r.work), WorkSet(work))
    <3>1. PICK w \in Seq(BatchOf(WorkChunk)) : w = r.work  BY <1>2
    <3>2. i \in DOMAIN w /\ Tidy(w)  BY <1>2, <3>1
    <3>3. \/ WorkSet(smaller) = ToSet(w[i].chunks)
          \/ \E x \in WorkChunk : x.size >= 2 /\ ToSet(w[i].chunks) = {x} /\ WorkSet(smaller) = {Left(x), Right(x)}
      BY <2>2, <3>1
    <3> DEFINE new == ReplacedBy(w, i, smaller)
    <3>4. /\ new \in Seq(BatchOf(WorkChunk)) /\ Tidy(new)
          /\ \/ WorkSet(new) = WorkSet(w)
             \/ \E x \in WorkSet(w) :
                   /\ x.size >= 2
                   /\ WorkSet(new) \subseteq WorkSet(w) \cup {Left(x), Right(x)}
                   /\ (WorkSet(w) \ {x}) \cup {Left(x), Right(x)} \subseteq WorkSet(new)
                   /\ x \in WorkSet(new) => Deep(x)
      BY <1>4, <3>2, <3>3, ReplacedTidy
    <3>5. new = work  BY <3>1
    <3> HIDE DEF new, work
    <3> QED BY <3>1, <3>4, <3>5 DEF Split
  <2> HIDE DEF work
  <2> QED BY <1>1, <1>6, <2>3
<1> QED BY <1>5, <1>6

(* What a batch that is done with makes of the record. *)
DoneRecord(r, i, deferred, record) ==
    /\ record \in PassType /\ Tidy(record.work)
    /\ record = [r EXCEPT !.work = record.work, !.deferred = record.deferred]
    /\ record.deferred = (r.deferred \/ deferred)
    /\ WorkSet(record.work) \subseteq WorkSet(r.work)
    /\ WorkSet(r.work) \ ToSet(r.work[i].chunks) \subseteq WorkSet(record.work)
    /\ WorkSet(record.work) \cap ToSet(r.work[i].chunks) \subseteq DeepChunks

(* A batch that is done with makes such a record. *)
LEMMA DoneFacts ==
  ASSUME PassesInv, NEW p \in Passes, NEW i \in DOMAIN pass[p].work, NEW deferred \in BOOLEAN, Done(p, i, deferred)
  PROVE  \E record : DoneRecord(pass[p], i, deferred, record) /\ PassStep(p, Onward(record))
<1> DEFINE r == pass[p]
           work == RemoveAt(r.work, i)
           record == [r EXCEPT !.work = work, !.deferred = r.deferred \/ deferred]
<1>1. PassStep(p, Onward(record))  BY DEF Done
<1>2. r \in PassType /\ r.work \in Seq(BatchOf(WorkChunk)) /\ Tidy(r.work)  BY RecordOf
<1>3. /\ work \in Seq(BatchOf(WorkChunk)) /\ Tidy(work)
      /\ WorkSet(work) \subseteq WorkSet(r.work)
      /\ WorkSet(r.work) \ ToSet(r.work[i].chunks) \subseteq WorkSet(work)
      /\ WorkSet(work) \cap ToSet(r.work[i].chunks) \subseteq DeepChunks
  <2>1. PICK w \in Seq(BatchOf(WorkChunk)) : w = r.work  BY <1>2
  <2>2. i \in DOMAIN w /\ Tidy(w)  BY <1>2, <2>1
  <2>3. LET rest == RemoveAt(w, i)
        IN  /\ rest \in Seq(BatchOf(WorkChunk)) /\ Tidy(rest)
            /\ WorkSet(rest) \subseteq WorkSet(w)
            /\ WorkSet(w) \ ToSet(w[i].chunks) \subseteq WorkSet(rest)
            /\ WorkSet(rest) \cap ToSet(w[i].chunks) \subseteq DeepChunks
    BY <2>2, WithoutTidy
  <2> QED BY <2>1, <2>3
<1>4. record \in PassType /\ record.work = work /\ record.deferred = (r.deferred \/ deferred)
      /\ record = [r EXCEPT !.work = record.work, !.deferred = record.deferred]
  <2> HIDE DEF work, r
  <2> QED BY <1>2, <1>3 DEF PassType
<1>5. DoneRecord(r, i, deferred, record)
  <2> HIDE DEF record, work, r
  <2> QED BY <1>3, <1>4 DEF DoneRecord
<1> HIDE DEF record, work
<1> QED BY <1>1, <1>5

-----------------------------------------------------------------------------
(* The steps of a pass: calls, the start and the deletions *)

(* What a batch that the model took adds to the table. *)
LEMMA StoresFacts ==
  ASSUME PassesInv, NEW p \in Passes, NEW i \in DOMAIN pass[p].work, EmbedAndStore(p, i)
  PROVE  /\ UNCHANGED <<sections, sync, queued, edits, faults>>
         /\ \E new \in SUBSET ToSet(pass[p].work[i].chunks) :
              /\ chunks' = chunks \cup new
              /\ \A x \in new : x \in AllPieces /\ ~ Deep(x)
              /\ \/ PassStep(p, Idle)
                 \/ Done(p, i, FALSE) /\ new = ToSet(pass[p].work[i].chunks)
<1>1. pass[p].work \in Seq(BatchOf(WorkChunk))  BY RecordOf
<1>2. pass[p].work[i].chunks \in Seq(WorkChunk) /\ ToSet(pass[p].work[i].chunks) \subseteq WorkChunk  BY <1>1, NoWork
<1>3. PICK q \in Seq(WorkChunk) : q = pass[p].work[i].chunks  BY <1>2
<1>4. PICK n : n = Refused(q, chunks)  OBVIOUS
<1>5. /\ UNCHANGED <<sections, sync, queued, edits, faults>>
      /\ chunks' = chunks \cup ToSet(IF n = 0 THEN q ELSE SubSeq(q, 1, n - 1))
      /\ IF n = 0 THEN Done(p, i, FALSE) ELSE PassStep(p, Idle)
  BY <1>3, <1>4 DEF EmbedAndStore, Fails
<1>6. /\ n \in 0 .. Len(q)
      /\ n = 0 => \A k \in DOMAIN q : Storable(q[k], chunks)
      /\ n # 0 => \A k \in 1 .. n - 1 : k \in DOMAIN q /\ Storable(q[k], chunks)
  BY <1>4, RefusedFacts
<1>7. CASE n = 0
  <2>1. \A x \in ToSet(q) : x \in WorkChunk /\ Storable(x, chunks)  BY <1>2, <1>3, <1>6, <1>7 DEF ToSet
  <2>2. \A x \in ToSet(q) : x \in AllPieces /\ ~ Deep(x)  BY <2>1, StorableIsPiece
  <2> QED BY <1>3, <1>5, <1>7, <2>2
<1>8. CASE n # 0
  <2>1. n - 1 \in Int /\ \A k \in 1 .. n - 1 : k \in DOMAIN q  BY <1>6, <1>8
  <2>2. ToSet(SubSeq(q, 1, n - 1)) = {q[k] : k \in 1 .. n - 1}
    <3> DEFINE m == n - 1
    <3>1. m \in Int /\ \A k \in 1 .. m : k \in DOMAIN q  BY <2>1
    <3> HIDE DEF m
    <3>2. ToSet(SubSeq(q, 1, m)) = {q[k] : k \in 1 .. m}  BY <3>1, PrefixSet
    <3> QED BY <3>2 DEF m
  <2>3. \A x \in {q[k] : k \in 1 .. n - 1} : x \in ToSet(q) /\ x \in WorkChunk /\ Storable(x, chunks)
    BY <1>2, <1>3, <1>6, <1>8, <2>1 DEF ToSet
  <2>4. \A x \in {q[k] : k \in 1 .. n - 1} : x \in AllPieces /\ ~ Deep(x)  BY <2>3, StorableIsPiece
  <2> QED BY <1>3, <1>5, <1>8, <2>2, <2>3, <2>4
<1> QED BY <1>7, <1>8

(* A call that fails ends the pass; what came before the chunk that was refused is stored. *)
LEMMA CallFailsFacts ==
  ASSUME PassesInv, NEW p \in Passes, NEW i \in DOMAIN pass[p].work, CallFails(p, i)
  PROVE  /\ UNCHANGED <<sections, sync, queued, edits>>
         /\ PassStep(p, Idle)
         /\ \E new \in SUBSET ToSet(pass[p].work[i].chunks) :
              /\ chunks' = chunks \cup new
              /\ \A x \in new : x \in AllPieces /\ ~ Deep(x)
<1>1. pass[p].work \in Seq(BatchOf(WorkChunk))  BY RecordOf
<1>2. pass[p].work[i].chunks \in Seq(WorkChunk) /\ ToSet(pass[p].work[i].chunks) \subseteq WorkChunk  BY <1>1, NoWork
<1>3. PICK q \in Seq(WorkChunk) : q = pass[p].work[i].chunks  BY <1>2
<1>4. /\ UNCHANGED <<sections, sync, queued, edits>>
      /\ PassStep(p, Idle)
      /\ \E n \in 0 .. Len(q) - 1 :
            /\ \A k \in 1 .. n : Storable(q[k], chunks)
            /\ chunks' = chunks \cup ToSet(SubSeq(q, 1, n))
  BY <1>3 DEF CallFails, Fails
<1>5. PICK n \in 0 .. Len(q) - 1 : /\ \A k \in 1 .. n : Storable(q[k], chunks)
                                   /\ chunks' = chunks \cup ToSet(SubSeq(q, 1, n))
  BY <1>4
<1>6. n \in Int /\ \A k \in 1 .. n : k \in DOMAIN q  OBVIOUS
<1>7. ToSet(SubSeq(q, 1, n)) = {q[k] : k \in 1 .. n}  BY <1>6, PrefixSet
<1>8. \A x \in {q[k] : k \in 1 .. n} : x \in ToSet(q) /\ x \in WorkChunk /\ Storable(x, chunks)
  BY <1>2, <1>3, <1>5, <1>6 DEF ToSet
<1>9. \A x \in {q[k] : k \in 1 .. n} : x \in AllPieces /\ ~ Deep(x)  BY <1>8, StorableIsPiece
<1> QED BY <1>3, <1>4, <1>5, <1>7, <1>8, <1>9

(* A pass begins with the rows that are stored. *)
LEMMA BeginFacts ==
  ASSUME EmbedInv, NEW p \in Passes, Begin(p)
  PROVE  \E record \in PassType :
            /\ PassStep(p, record) /\ Tidy(record.work)
            /\ record.pc = "page" /\ record.inventory = chunks /\ record.offset = 0 /\ record.size = 0
            /\ record.current = NoSections /\ record.stale = {} /\ record.work = << >> /\ record.deferred = FALSE
<1> DEFINE lone == \A q \in Passes : At(q, "idle")
           record == [Idle EXCEPT !.pc = "page", !.inventory = chunks, !.alone = lone]
<1>1. PassStep(p, record)  BY DEF Begin
<1>2. record \in PassType
  <2>1. lone \in BOOLEAN /\ chunks \in SUBSET StoredChunk  BY DEF EmbedInv
  <2> HIDE DEF lone
  <2> QED BY <2>1, IdleType DEF PassType
<1>3. /\ record.pc = "page" /\ record.inventory = chunks /\ record.offset = 0 /\ record.size = 0
      /\ record.current = NoSections /\ record.stale = {} /\ record.work = << >> /\ record.deferred = FALSE
  BY DEF Idle
<1>4. Tidy(record.work)  BY <1>3, IdleType
<1> HIDE DEF record
<1> QED BY <1>1, <1>2, <1>3, <1>4

(* A deletion takes the embeddings of one stale section. *)
LEMMA DeleteFacts ==
  ASSUME PassesInv, SectionsType, NEW p \in Passes, DeleteStale(p), pass[p].stale # {}
  PROVE  \E s \in pass[p].stale, record \in PassType :
            /\ chunks' = {x \in chunks : x.section # s \/ x.plan # Plan}
            /\ record = [pass[p] EXCEPT !.stale = record.stale] /\ record.stale = pass[p].stale \ {s}
            /\ Tidy(record.work) /\ PassStep(p, Onward(record))
<1>1. pass[p] \in PassType /\ Tidy(pass[p].work) /\ pass[p].stale \in SUBSET Sections  BY RecordOf
<1>2. Sections \subseteq Nat  BY SectionsAssumption
<1>3. PICK T \in SUBSET Nat : T = pass[p].stale /\ T # {}  BY <1>1, <1>2
<1>4. \E m \in T : \A k \in T : m <= k  BY <1>3, LeastNatural
<1>5. Min(T) \in T  BY <1>4 DEF Min
<1>6. PICK s \in T : s = Min(pass[p].stale)  BY <1>3, <1>5
<1> DEFINE record == [pass[p] EXCEPT !.stale = pass[p].stale \ {s}]
<1>7. chunks' = {x \in chunks : x.section # s \/ x.plan # Plan} /\ PassStep(p, Onward(record))
  BY <1>6 DEF DeleteStale
<1>8. /\ record \in PassType /\ record.stale = pass[p].stale \ {s} /\ record.work = pass[p].work
      /\ record = [pass[p] EXCEPT !.stale = record.stale]
  BY <1>1 DEF PassType
<1> HIDE DEF record
<1> QED BY <1>1, <1>3, <1>7, <1>8

-----------------------------------------------------------------------------
(* The invariant holds, and the audit is exact *)

(* Storing pieces leaves leftovers and pieces. *)
LEMMA StoreType ==
  ASSUME chunks \in SUBSET StoredChunk, NEW new, \A x \in new : x \in AllPieces /\ ~ Deep(x), chunks' = chunks \cup new
  PROVE  chunks' \in SUBSET StoredChunk
BY DEF StoredChunk

(* The invariant holds at first, *)
LEMMA EmbedInvInit == ASSUME Init PROVE EmbedInv
<1>1. SectionsType  BY SectionsAssumption DEF Init, SectionsType
<1>2. chunks \in SUBSET StoredChunk  BY DEF Init, StoredChunk
<1>3. pass = [p \in Passes |-> Idle]  BY DEF Init
<1>4. PassesInv
  <2>1. pass \in [Passes -> PassType]  BY <1>3, IdleType
  <2>2. \A p \in Passes : Tidy(pass[p].work)  BY <1>3, IdleType
  <2> QED BY <2>1, <2>2 DEF PassesInv
<1> QED BY <1>1, <1>2, <1>4 DEF EmbedInv

(* and every step keeps it. *)
LEMMA EmbedInvNext == ASSUME EmbedInv, [Next]_vars PROVE EmbedInv'
<1>0. SectionsType /\ chunks \in SUBSET StoredChunk /\ PassesInv  BY DEF EmbedInv
<1> USE <1>0
<1>0a. UNCHANGED sections => SectionsType'  BY DEF SectionsType
<1>0b. \A S \in SUBSET chunks : chunks' = S => chunks' \in SUBSET StoredChunk  OBVIOUS
<1>0c. UNCHANGED pass => PassesInv'
  <2>1. SUFFICES ASSUME UNCHANGED pass PROVE PassesInv'  OBVIOUS
  <2> QED BY <2>1 DEF PassesInv
<1>0d. \A r \in PassType : Tidy(r.work) => Onward(r) \in PassType /\ Tidy(Onward(r).work)
  BY OnwardFacts
<1>1. ASSUME NEW s \in Sections, NEW c \in Contents \cup {None}, ReplaceSection(s, c) PROVE EmbedInv'
  <2>1. sections' = [sections EXCEPT ![s] = c] /\ UNCHANGED chunks /\ pass' = Disturbed(Passes)  BY <1>1 DEF ReplaceSection
  <2>2. SectionsType'  BY <2>1 DEF SectionsType
  <2>3. PassesInv'  BY <2>1, DisturbedFacts
  <2> QED BY <2>1, <2>2, <2>3 DEF EmbedInv
<1>1a. CASE SyncBegins
  <2>1. UNCHANGED <<sections, chunks, pass>>  BY <1>1a DEF SyncBegins
  <2> QED BY <1>0a, <1>0c, <2>1 DEF EmbedInv
<1>2. CASE SyncSucceeds
  <2>1. UNCHANGED <<sections, chunks, pass>>  BY <1>2 DEF SyncSucceeds
  <2> QED BY <1>0a, <1>0c, <2>1 DEF EmbedInv
<1>3. CASE SyncFails
  <2>1. UNCHANGED <<sections, chunks, pass>>  BY <1>3 DEF SyncFails
  <2> QED BY <1>0a, <1>0c, <2>1 DEF EmbedInv
<1>4. CASE EnqueueEnsure
  <2>1. UNCHANGED <<sections, chunks, pass>>  BY <1>4 DEF EnqueueEnsure
  <2> QED BY <1>0a, <1>0c, <2>1 DEF EmbedInv
<1>5. ASSUME NEW p \in Passes, Begin(p) PROVE EmbedInv'
  <2>1. UNCHANGED <<sections, chunks>>  BY <1>5 DEF Begin
  <2>2. PICK record \in PassType : PassStep(p, record) /\ Tidy(record.work)  BY <1>5, BeginFacts
  <2>3. PassesInv'  BY <2>2, PassStepFacts
  <2> QED BY <1>0a, <2>1, <2>3 DEF EmbedInv
<1>6. ASSUME NEW p \in Passes, PageEnds(p) PROVE EmbedInv'
  <2>1. UNCHANGED <<sections, chunks>> /\ PassStep(p, [pass[p] EXCEPT !.pc = "sweep"])  BY <1>6 DEF PageEnds
  <2>2. [pass[p] EXCEPT !.pc = "sweep"] \in PassType /\ [pass[p] EXCEPT !.pc = "sweep"].work = pass[p].work
    BY RecordOf DEF PassType
  <2>3. Tidy(pass[p].work)  BY RecordOf
  <2>4. PassesInv'  BY <2>1, <2>2, <2>3, PassStepFacts
  <2> QED BY <1>0a, <2>1, <2>4 DEF EmbedInv
<1>7. ASSUME NEW p \in Passes, ReadPage(p) PROVE EmbedInv'
  <2>1. UNCHANGED <<sections, chunks>>  BY <1>7 DEF ReadPage
  <2>2. PICK record : ReadRecord(pass[p], record) /\ PassStep(p, Onward(record))  BY <1>7, ReadPageFacts
  <2>3. record \in PassType /\ Tidy(record.work)  BY <2>2 DEF ReadRecord
  <2>4. PassesInv'  BY <1>0d, <2>2, <2>3, PassStepFacts
  <2> QED BY <1>0a, <2>1, <2>4 DEF EmbedInv
<1>8. ASSUME NEW p \in Passes, DeleteStale(p) PROVE EmbedInv'
  <2> DEFINE s == Min(pass[p].stale)
             record == [pass[p] EXCEPT !.stale = pass[p].stale \ {s}]
  <2>1. UNCHANGED sections /\ chunks' \in SUBSET chunks /\ PassStep(p, Onward(record))  BY <1>8 DEF DeleteStale
  <2> HIDE DEF s
  <2>2. record \in PassType /\ record.work = pass[p].work  BY RecordOf DEF PassType
  <2>3. Tidy(pass[p].work)  BY RecordOf
  <2> HIDE DEF record
  <2>4. PassesInv'  BY <1>0d, <2>1, <2>2, <2>3, PassStepFacts
  <2> QED BY <1>0a, <1>0b, <2>1, <2>4 DEF EmbedInv
<1>9. ASSUME NEW p \in Passes, NEW i \in DOMAIN pass[p].work, TooLong(p, i) PROVE EmbedInv'
  <2>1. UNCHANGED <<sections, chunks>>  BY <1>9, TooLongFacts
  <2>2. CASE PassStep(p, Idle)
    <3>1. PassesInv'  BY <2>2, IdleType, PassStepFacts
    <3> QED BY <1>0a, <2>1, <3>1 DEF EmbedInv
  <2>3. ASSUME NEW work \in Seq(BatchOf(WorkChunk)), Tidy(work), PassStep(p, [pass[p] EXCEPT !.work = work])
        PROVE  EmbedInv'
    <3>1. [pass[p] EXCEPT !.work = work] \in PassType /\ [pass[p] EXCEPT !.work = work].work = work
      BY RecordOf DEF PassType
    <3>2. PassesInv'  BY <2>3, <3>1, PassStepFacts
    <3> QED BY <1>0a, <2>1, <3>2 DEF EmbedInv
  <2> QED BY <1>9, <2>2, <2>3, TooLongFacts
<1>10. ASSUME NEW p \in Passes, NEW i \in DOMAIN pass[p].work, NEW d \in BOOLEAN, Done(p, i, d) PROVE PassesInv'
  <2>1. PICK record : DoneRecord(pass[p], i, d, record) /\ PassStep(p, Onward(record))  BY <1>10, DoneFacts
  <2>2. record \in PassType /\ Tidy(record.work)  BY <2>1 DEF DoneRecord
  <2> QED BY <1>0d, <2>1, <2>2, PassStepFacts
<1>11. ASSUME NEW p \in Passes, NEW i \in DOMAIN pass[p].work, EmbedAndStore(p, i) PROVE EmbedInv'
  <2>1. UNCHANGED sections  BY <1>11, StoresFacts
  <2>2. PICK new : chunks' = chunks \cup new /\ (\A x \in new : x \in AllPieces /\ ~ Deep(x))
                   /\ (PassStep(p, Idle) \/ Done(p, i, FALSE))
    BY <1>11, StoresFacts
  <2>3. PassesInv'
    <3>1. CASE PassStep(p, Idle)
      BY <3>1, IdleType, PassStepFacts
    <3>2. CASE Done(p, i, FALSE)
      BY <1>10, <3>2
    <3> QED BY <2>2, <3>1, <3>2
  <2>4. chunks' \in SUBSET StoredChunk  BY <2>2, StoreType
  <2> QED BY <1>0a, <2>1, <2>3, <2>4 DEF EmbedInv
<1>12. ASSUME NEW p \in Passes, NEW i \in DOMAIN pass[p].work, TimesOut(p, i) PROVE EmbedInv'
  <2>1. UNCHANGED <<sections, chunks>> /\ Done(p, i, TRUE)  BY <1>12 DEF TimesOut
  <2>2. PassesInv'  BY <1>10, <2>1
  <2> QED BY <1>0a, <2>1, <2>2 DEF EmbedInv
<1>13. ASSUME NEW p \in Passes, NEW i \in DOMAIN pass[p].work, CallFails(p, i) PROVE EmbedInv'
  <2>1. UNCHANGED sections /\ PassStep(p, Idle)  BY <1>13, CallFailsFacts
  <2>2. PICK new : chunks' = chunks \cup new /\ \A x \in new : x \in AllPieces /\ ~ Deep(x)  BY <1>13, CallFailsFacts
  <2>3. PassesInv'  BY <2>1, IdleType, PassStepFacts
  <2>4. chunks' \in SUBSET StoredChunk  BY <2>2, StoreType
  <2> QED BY <1>0a, <2>1, <2>3, <2>4 DEF EmbedInv
<1>14. ASSUME NEW p \in Passes, Sweep(p) PROVE EmbedInv'
  <2>1. UNCHANGED sections /\ chunks' \in SUBSET chunks /\ PassStep(p, [pass[p] EXCEPT !.pc = "swept"])  BY <1>14 DEF Sweep
  <2>2. [pass[p] EXCEPT !.pc = "swept"] \in PassType /\ [pass[p] EXCEPT !.pc = "swept"].work = pass[p].work
    BY RecordOf DEF PassType
  <2>3. Tidy(pass[p].work)  BY RecordOf
  <2>4. PassesInv'  BY <2>1, <2>2, <2>3, PassStepFacts
  <2> QED BY <1>0a, <1>0b, <2>1, <2>4 DEF EmbedInv
<1>15. ASSUME NEW p \in Passes, QueueRetry(p) PROVE EmbedInv'
  <2>1. UNCHANGED <<sections, chunks>> /\ pass' = [pass EXCEPT ![p].pc = "retried"]  BY <1>15 DEF QueueRetry
  <2>2. \A q \in Passes : pass[q] \in PassType /\ Tidy(pass[q].work)  BY RecordOf
  <2>3. \A r \in PassType : [r EXCEPT !.pc = "retried"] \in PassType /\ [r EXCEPT !.pc = "retried"].work = r.work
    BY DEF PassType
  <2>4. pass' = [q \in Passes |-> IF q = p THEN [pass[q] EXCEPT !.pc = "retried"] ELSE pass[q]]
    BY <2>1 DEF PassesInv
  <2>5. \A q \in Passes : pass'[q] \in PassType /\ pass'[q].work = pass[q].work
    BY <2>2, <2>3, <2>4
  <2>6. PassesInv'
    <3>1. pass' \in [Passes -> PassType]  BY <2>4, <2>5
    <3>2. \A q \in Passes : Tidy(pass'[q].work)  BY <2>2, <2>5
    <3> QED BY <3>1, <3>2 DEF PassesInv
  <2> QED BY <1>0a, <2>1, <2>6 DEF EmbedInv
<1>16. ASSUME NEW p \in Passes, End(p) PROVE EmbedInv'
  <2>1. UNCHANGED <<sections, chunks>> /\ PassStep(p, Idle)  BY <1>16 DEF End
  <2>2. PassesInv'  BY <2>1, IdleType, PassStepFacts
  <2> QED BY <1>0a, <2>1, <2>2 DEF EmbedInv
<1>16a. ASSUME NEW p \in Passes, StoreFails(p) PROVE EmbedInv'
  <2>1. UNCHANGED <<sections, chunks>> /\ PassStep(p, Idle)  BY <1>16a DEF StoreFails, Fails
  <2>2. PassesInv'  BY <2>1, IdleType, PassStepFacts
  <2> QED BY <1>0a, <2>1, <2>2 DEF EmbedInv
<1>17. CASE Crash
  <2>1. UNCHANGED <<sections, chunks>> /\ pass' = [p \in Passes |-> Idle]  BY <1>17 DEF Crash
  <2>2. PassesInv'
    <3>1. pass' \in [Passes -> PassType]  BY <2>1, IdleType
    <3>2. \A p \in Passes : Tidy(pass'[p].work)  BY <2>1, IdleType
    <3> QED BY <3>1, <3>2 DEF PassesInv
  <2> QED BY <1>0a, <2>1, <2>2 DEF EmbedInv
<1>18. CASE UNCHANGED vars
  <2>1. UNCHANGED <<sections, chunks, pass>>  BY <1>18 DEF vars
  <2> QED BY <1>0a, <1>0c, <2>1 DEF EmbedInv
<1>19. ASSUME NEW p \in Passes, EmbedBatch(p) PROVE EmbedInv'
  BY <1>9, <1>11, <1>12, <1>13, <1>19 DEF EmbedBatch
<1> QED BY <1>1, <1>1a, <1>2, <1>3, <1>4, <1>5, <1>6, <1>7, <1>8, <1>14, <1>15, <1>16, <1>16a, <1>17, <1>18, <1>19
        DEF Next, SyncStep, EnsureStep

(* What is stored of the active plan are pieces of what their sections held: expected chunks or their *)
(* halves, whatever edits, splits, faults, crashes and overlapping passes came between.               *)
THEOREM EmbedInvHolds == Spec => []EmbedInv
<1>1. Init => EmbedInv  BY EmbedInvInit
<1>2. EmbedInv /\ [Next]_vars => EmbedInv'  BY EmbedInvNext
<1> QED BY <1>1, <1>2, PTL DEF Spec

(* What the audit looks at (reconcileEmbeddings). *)
LEMMA StatusReadyMeans ==
  Status(sections, chunks) = "ready"
  <=> /\ \A s \in Sections : sections[s] # None => Evaluation(s, sections[s], chunks) = "ready"
      /\ Orphans(sections, chunks) = {}
<1> DEFINE state(s) == Evaluation(s, sections[s], chunks)
           present == {s \in Sections : sections[s] # None}
<1>1. Status(sections, chunks)
      = IF \E s \in present : state(s) = "pending" THEN "indexing"
        ELSE IF \E s \in present : state(s) = "stale" THEN "stale"
        ELSE IF Orphans(sections, chunks) # {} THEN "cleanup_required"
        ELSE "ready"
  BY DEF Status
<1>2. \A s \in present : state(s) \in {"ready", "pending", "stale"}
  <2>1. \A s \in present : \A c : Evaluation(s, c, chunks) \in {"ready", "pending", "stale"}
    <3>1. SUFFICES ASSUME NEW s \in present, NEW c PROVE Evaluation(s, c, chunks) \in {"ready", "pending", "stale"}
      OBVIOUS
    <3> DEFINE active == {x \in chunks : x.section = s /\ x.plan = Plan}
               current == [i \in DOMAIN Text[c] |-> StandIns(active, Expected(s, c)[i])]
               missing == {i \in DOMAIN Text[c] : current[i] = {}}
               all == Text[c] # << >> /\ missing = {} /\ active = UNION {current[i] : i \in DOMAIN Text[c]}
    <3>2. Evaluation(s, c, chunks) = IF all THEN "ready" ELSE IF active = {} THEN "pending" ELSE "stale"
      BY DEF Evaluation
    <3> HIDE DEF all, active
    <3> QED BY <3>2
  <2> QED BY <2>1
<1> HIDE DEF state
<1>3. Status(sections, chunks) = "ready" <=> (\A s \in present : state(s) = "ready") /\ Orphans(sections, chunks) = {}
  BY <1>1, <1>2
<1> QED BY <1>3 DEF state

(* What the audit of a source answers is exact in every state: it says "ready" exactly when every section *)
(* is embedded by its chunks or their halves, nothing else of the plan is stored and no orphan is left.   *)
THEOREM AuditsAreExact == Spec => []AuditIsExact
<1>1. EmbedInv => AuditIsExact
  <2>1. SUFFICES ASSUME EmbedInv PROVE AuditIsExact  OBVIOUS
  <2>2. PiecesOnly(chunks)  BY <2>1, StoredFacts DEF EmbedInv
  <2>3. \A s \in Sections : sections[s] # None => sections[s] \in Contents  BY <2>1 DEF EmbedInv, SectionsType
  <2>4. \A s \in Sections : sections[s] # None => (Evaluation(s, sections[s], chunks) = "ready" <=> Covered(s, chunks))
    <3>1. SUFFICES ASSUME NEW s \in Sections, sections[s] # None
                   PROVE  Evaluation(s, sections[s], chunks) = "ready" <=> Covered(s, chunks)
      OBVIOUS
    <3>2. sections[s] \in Contents  BY <2>3, <3>1
    <3> QED BY <2>2, <3>2, ReadyIsCovered
  <2>5. Orphans(sections, chunks) = {} <=> \A x \in chunks : sections[x.section] # None  BY DEF Orphans
  <2> QED BY <2>4, <2>5, StatusReadyMeans DEF AuditIsExact, Embedded
<1>2. Spec => []EmbedInv  BY EmbedInvHolds
<1> QED BY <1>1, <1>2, PTL

-----------------------------------------------------------------------------
(* A pass that runs alone *)

(* What waits of a section. *)
WorkOf(s, work) == {x \in WorkSet(work) : x.section = s}

(* The pass gave something up, or will have to. *)
Blocked(r) == r.deferred \/ \E x \in WorkSet(r.work) : Deep(x)

(* No half beside its whole. *)
Antichain(T) == \A x, y \in T : x.size >= 2 /\ y \in {Left(x), Right(x)} => Deep(y)

(* Each slot is filled or about to be. *)
Filled(s, T) ==
    \A i \in DOMAIN Text[sections[s]] :
       LET e == Expected(s, sections[s])[i]
       IN  e \in T \/ (e.size >= 2 /\ Left(e) \in T /\ Right(e) \in T)

(* A section that the pass leaves or has embedded: what is stored and what waits together are it, each *)
(* piece once.                                                                                         *)
Kept(s, r, stored) ==
    LET A == Active(s, stored)
        W == WorkOf(s, r.work)
    IN  /\ \A x \in A \cup W : x.content = sections[s]
        /\ Antichain(A \cup W)
        /\ A \cap W = {}
        /\ Blocked(r) \/ Filled(s, A \cup W)

(* A section whose rows are still to be deleted. *)
Redone(s, r, stored) ==
    /\ Active(s, stored) = Active(s, r.inventory)
    /\ Evaluation(s, sections[s], r.inventory) # "ready"
    /\ WorkOf(s, r.work) = ToSet(Expected(s, sections[s]))

(* A section of a later page. *)
Unread(s, r, stored) ==
    /\ s \notin r.stale /\ r.current[s] = None
    /\ Active(s, stored) = Active(s, r.inventory)
    /\ WorkOf(s, r.work) = {}

(* A section that is not there: the sweep knows of its rows. *)
Gone(s, r, stored) ==
    /\ r.current[s] = None
    /\ WorkOf(s, r.work) = {}
    /\ (\E x \in stored : x.section = s) => \E y \in r.inventory : y.section = s

(* A section of this page or an earlier one. *)
Read(s, r, stored) ==
    /\ r.current[s] = sections[s]
    /\ s \in r.stale => Redone(s, r, stored)
    /\ s \notin r.stale => Kept(s, r, stored)

(* A section, as a pass that has read so far must find it. *)
StateOf(s, r, stored, reach) ==
    IF s \notin Listed THEN Gone(s, r, stored)
    ELSE IF Rank(s) < reach THEN Read(s, r, stored)
    ELSE Unread(s, r, stored)

(* The whole index, as a pass that has read so far must find it. *)
InPage(r, stored, reach) ==
    /\ r.stale \subseteq Listed
    /\ \A s \in Sections : StateOf(s, r, stored, reach)

(* How many sections a pass has read. *)
Reach(r) == IF r.pc \in {"delete", "embed"} THEN r.offset + r.size ELSE r.offset

(* What is true of a pass that ran alone so far: once the pages end every section is read, once it *)
(* swept no orphan is left.                                                                        *)
Lone(r, stored) ==
    /\ InPage(r, stored, Reach(r))
    /\ r.pc \in {"sweep", "swept", "retried"} => \A s \in Listed : Rank(s) < Reach(r)
    /\ r.pc \in {"swept", "retried"} => \A x \in stored : x.section \in Listed

(* Each stage has the work it is for. *)
Staged(r) ==
    /\ r.pc = "delete" => r.stale # {}
    /\ r.pc = "embed" => r.stale = {}
    /\ r.pc \in {"idle", "page", "sweep", "swept", "retried"} => r.stale = {} /\ r.work = << >>

(* The invariant of passes that run alone, and of the stages of every pass. *)
LoneInv ==
    \A p \in Passes : \A r \in {pass[p]}, stored \in {chunks} :
        /\ Staged(r)
        /\ r.alone => r.pc # "idle" /\ Lone(r, stored)

(* What is stored for a section and of its content is a piece of it. *)
LEMMA ActivePieces ==
  ASSUME NEW stored \in SUBSET StoredChunk, NEW s \in Sections, NEW c \in Contents, NEW x \in Active(s, stored), x.content = c
  PROVE  x \in AllPieces /\ x \in WorkChunk /\ ~ Deep(x) /\ x \in Pieces(s, c)
<1>1. x \in stored /\ x.section = s /\ x.plan = Plan  BY DEF Active
<1>2. ~ Deep(x) /\ PiecesOnly(stored)  BY <1>1, StoredFacts
<1>3. x \in Pieces(s, c)  BY <1>1, <1>2 DEF PiecesOnly
<1>4. x \in ChunkType  BY <1>3, PiecesInSlots
<1> QED BY <1>1, <1>2, <1>3, <1>4 DEF AllPieces, WorkChunk

(* The stand-ins of an expected chunk, spelled out. *)
Standing(A, e) ==
    IF e \in A THEN {e}
    ELSE IF e.size >= 2 /\ Left(e) \in A /\ Right(e) \in A THEN {Left(e), Right(e)}
    ELSE {}

(* They are what the comparison takes. *)
LEMMA StandInsAre ==
  ASSUME NEW A, NEW s \in Sections, NEW c \in Contents, NEW i \in DOMAIN Text[c]
  PROVE  StandIns(A, Expected(s, c)[i]) = Standing(A, Expected(s, c)[i])
BY StandInsOf DEF Standing

(* A section that the comparison finds current keeps its chunks. *)
LEMMA ReadyIsKept ==
  ASSUME NEW stored \in SUBSET StoredChunk, NEW s \in Sections, sections[s] \in Contents, NEW r,
         Evaluation(s, sections[s], stored) = "ready", WorkOf(s, r.work) = {}
  PROVE  Kept(s, r, stored)
<1> DEFINE A == Active(s, stored)
<1>1. PICK c \in Contents : c = sections[s]  OBVIOUS
<1>2. /\ \A i \in DOMAIN Text[c] : StandIns(A, Expected(s, c)[i]) # {}
      /\ \A x \in A : \E i \in DOMAIN Text[c] : x \in StandIns(A, Expected(s, c)[i])
  BY <1>1, ReadyMeans
<1> HIDE DEF A
<1>3. \A i \in DOMAIN Text[c] :
         LET e == Expected(s, c)[i]
         IN  StandIns(A, e) = IF e \in A THEN {e}
                              ELSE IF e.size >= 2 /\ Left(e) \in A /\ Right(e) \in A THEN {Left(e), Right(e)}
                              ELSE {}
  BY StandInsOf
<1>4. \A i \in DOMAIN Text[c] : Expected(s, c)[i] \in A \/ (Expected(s, c)[i].size >= 2 /\ Left(Expected(s, c)[i]) \in A /\ Right(Expected(s, c)[i]) \in A)
  BY <1>2, <1>3
<1>5. Filled(s, A)  BY <1>1, <1>4 DEF Filled
<1>6. ASSUME NEW x \in A
      PROVE  /\ x.content = c
             /\ \E i \in DOMAIN Text[c] :
                   LET e == Expected(s, c)[i]
                   IN  x = e \/ (x \in {Left(e), Right(e)} /\ e.size >= 2 /\ e \notin A)
  <2>1. PICK i \in DOMAIN Text[c] : x \in StandIns(A, Expected(s, c)[i])  BY <1>2
  <2>2. x \in Slot(s, c, i)  BY <2>1, StandInsOf
  <2>3. x.content = c  BY <2>2, SlotOf
  <2>4. \/ x = Expected(s, c)[i]
        \/ /\ x \in {Left(Expected(s, c)[i]), Right(Expected(s, c)[i])} /\ Expected(s, c)[i].size >= 2
           /\ Expected(s, c)[i] \notin A
    <3> DEFINE e == Expected(s, c)[i]
    <3>1. StandIns(A, e) = IF e \in A THEN {e}
                           ELSE IF e.size >= 2 /\ Left(e) \in A /\ Right(e) \in A THEN {Left(e), Right(e)}
                           ELSE {}
      BY <1>3
    <3>2. x \in StandIns(A, e)  BY <2>1
    <3> HIDE DEF e
    <3>3. x = e \/ (x \in {Left(e), Right(e)} /\ e.size >= 2 /\ e \notin A)  BY <3>1, <3>2
    <3> QED BY <3>3 DEF e
  <2> QED BY <2>3, <2>4
<1>7. \A x \in A : x.content = c /\ x \in WorkChunk /\ ~ Deep(x)  BY <1>6, ActivePieces DEF A
<1>8. Antichain(A)
  <2>1. SUFFICES ASSUME NEW x \in A, NEW y \in A, x.size >= 2, y \in {Left(x), Right(x)} PROVE FALSE
    BY DEF Antichain
  <2>2. x \in WorkChunk /\ y \in WorkChunk /\ ~ Deep(y)  BY <1>7
  <2>3. PICK i \in DOMAIN Text[c] :
           LET e == Expected(s, c)[i]
           IN  y = e \/ (y \in {Left(e), Right(e)} /\ e.size >= 2 /\ e \notin A)
    BY <1>6
  <2>4. PICK e : e = Expected(s, c)[i]  OBVIOUS
  <2>5. e \in ChunkType /\ e \in WorkChunk /\ e.ordinal = i - 1 /\ i - 1 < SplitFactor \div 2 /\ i - 1 \in Nat
    <3>1. e \in ChunkType /\ e.ordinal = i - 1
      <4>1. Expected(s, c)[i] \in ChunkType /\ Expected(s, c)[i] = [section |-> s, content |-> c, ordinal |-> i - 1, size |-> Text[c][i], plan |-> Plan]
        BY SlotShape
      <4>2. e = [section |-> s, content |-> c, ordinal |-> i - 1, size |-> Text[c][i], plan |-> Plan] /\ e \in ChunkType
        BY <2>4, <4>1
      <4> QED BY <4>2
    <3>2. e \in WorkChunk
      <4>1. Expected(s, c)[i] \in ToSet(Expected(s, c))  BY ExpectedChunks DEF ToSet
      <4>2. Expected(s, c)[i] \in AllPieces  BY <4>1, ExpectedChunks
      <4> QED BY <2>4, <3>1, <4>2 DEF WorkChunk
    <3> QED BY <3>1, <3>2, TextFacts
  <2>6. CASE y = e
    <3>1. x \in ChunkType /\ x.ordinal \in Nat  BY <2>2 DEF WorkChunk, ChunkType
    <3> DEFINE h == SplitFactor \div 2
               m == x.ordinal * SplitFactor
    <3>2. y.ordinal = m + h \/ y.ordinal = m + h + 1  BY <2>1, <3>1, HalfShape
    <3>3. m \in Nat /\ h \in Nat  BY <3>1, Division
    <3>4. y.ordinal \in Nat /\ y.ordinal < h  BY <2>5, <2>6
    <3> HIDE DEF m, h
    <3> QED BY <3>2, <3>3, <3>4
  <2>7. CASE y \in {Left(e), Right(e)} /\ e.size >= 2 /\ e \notin A
    <3>1. e = x  BY <2>1, <2>2, <2>5, <2>7, WholeOfHalf
    <3> QED BY <2>7, <3>1
  <2> QED BY <2>3, <2>4, <2>6, <2>7
<1>9. A \cup WorkOf(s, r.work) = A /\ A \cap WorkOf(s, r.work) = {}  OBVIOUS
<1> QED BY <1>1, <1>5, <1>7, <1>8, <1>9 DEF Kept, A

(* Which of a kept section is stored, when nothing of it waits and nothing was given up. *)
LEMMA KeptIsCovered ==
  ASSUME NEW stored \in SUBSET StoredChunk, NEW s \in Sections, sections[s] \in Contents, NEW r,
         Kept(s, r, stored), WorkOf(s, r.work) = {}, ~ Blocked(r)
  PROVE  Covered(s, stored)
<1> DEFINE A == Active(s, stored)
<1>1. PICK c \in Contents : c = sections[s]  OBVIOUS
<1>2. /\ \A x \in A : x.content = c
      /\ Antichain(A) /\ Filled(s, A)
  <2>1. A \cup WorkOf(s, r.work) = A  OBVIOUS
  <2> QED BY <1>1, <2>1 DEF Kept
<1>3. \A x \in A : x \in Pieces(s, c) /\ ~ Deep(x)  BY <1>2, ActivePieces
<1> HIDE DEF A
<1>4. \A i \in DOMAIN Text[c] :
         LET e == Expected(s, c)[i]
         IN  /\ StandIns(A, e) = IF e \in A THEN {e}
                                 ELSE IF e.size >= 2 /\ Left(e) \in A /\ Right(e) \in A THEN {Left(e), Right(e)}
                                 ELSE {}
             /\ e \in A \/ (e.size >= 2 /\ Left(e) \in A /\ Right(e) \in A)
  BY <1>1, <1>2, StandInsOf DEF Filled
<1>5. \A i \in DOMAIN Text[c] : StandIns(A, Expected(s, c)[i]) # {}
  BY <1>4
<1>6. ASSUME NEW x \in A PROVE \E i \in DOMAIN Text[c] : x \in StandIns(A, Expected(s, c)[i])
  <2>1. PICK i \in DOMAIN Text[c] : x \in Slot(s, c, i)  BY <1>3, PiecesInSlots
  <2>2. PICK e : e = Expected(s, c)[i]  OBVIOUS
  <2>3. /\ StandIns(A, e) = IF e \in A THEN {e}
                            ELSE IF e.size >= 2 /\ Left(e) \in A /\ Right(e) \in A THEN {Left(e), Right(e)}
                            ELSE {}
        /\ e \in A \/ (e.size >= 2 /\ Left(e) \in A /\ Right(e) \in A)
    BY <1>4, <2>2
  <2>4. Slot(s, c, i) = IF e.size < 2 THEN {e} ELSE {e, Left(e), Right(e)}  BY <2>2, SlotOf
  <2>5. e.size \in Nat
    <3>1. Expected(s, c)[i] \in ChunkType  BY SlotShape
    <3> QED BY <2>2, <3>1 DEF ChunkType
  <2>6. e.size < 2 \/ e.size >= 2  BY <2>5
  <2>7. CASE e \in A
    <3>1. x = e \/ (e.size >= 2 /\ x \in {Left(e), Right(e)})  BY <2>1, <2>4, <2>6
    <3>2. x = e  BY <1>2, <1>3, <2>7, <3>1 DEF Antichain
    <3> QED BY <2>2, <2>3, <2>7, <3>2
  <2>8. CASE e \notin A
    <3>1. x \in {Left(e), Right(e)}  BY <2>1, <2>4, <2>8
    <3> QED BY <2>2, <2>3, <2>8, <3>1
  <2> QED BY <2>7, <2>8
<1>7. Evaluation(s, c, stored) = "ready"  BY <1>5, <1>6, ReadyMeans DEF A
<1>8. PiecesOnly(stored)  BY StoredFacts
<1> QED BY <1>1, <1>7, <1>8, ReadyIsCovered

(* What waits of a kept section fits into a hole of what is stored. *)
LEMMA WaitingIsMissing ==
  ASSUME NEW stored \in SUBSET StoredChunk, NEW s \in Sections, sections[s] \in Contents, NEW r,
         Kept(s, r, stored), NEW x \in WorkOf(s, r.work), x \in AllPieces, ~ Deep(x)
  PROVE  ~ Covered(s, stored)
<1> DEFINE A == Active(s, stored)
<1>1. PICK c \in Contents : c = sections[s]  OBVIOUS
<1>2. SUFFICES ASSUME Covered(s, stored) PROVE FALSE  OBVIOUS
<1>3. PiecesOnly(stored)  BY StoredFacts
<1>4. Evaluation(s, c, stored) = "ready"  BY <1>1, <1>2, <1>3, ReadyIsCovered
<1>5. \A i \in DOMAIN Text[c] : StandIns(A, Expected(s, c)[i]) # {}  BY <1>4, ReadyMeans
<1>6. x.content = c /\ x.section = s /\ x \notin A /\ Antichain(A \cup WorkOf(s, r.work))  BY <1>1 DEF Kept, WorkOf
<1>7. \A y \in A : ~ Deep(y)  BY StoredFacts DEF Active
<1>8. x \in Pieces(s, c)  BY <1>6 DEF AllPieces
<1> HIDE DEF A
<1>9. PICK i \in DOMAIN Text[c] : x \in Slot(s, c, i)  BY <1>8, PiecesInSlots
<1>10. StandIns(A, Expected(s, c)[i]) = Standing(A, Expected(s, c)[i])
  BY StandInsAre
<1>11. PICK e : e = Expected(s, c)[i] /\ StandIns(A, e) = Standing(A, e)
  BY <1>10
<1>12. e \in A \/ (e.size >= 2 /\ Left(e) \in A /\ Right(e) \in A)  BY <1>5, <1>11 DEF Standing
<1>13. x = e \/ (e.size >= 2 /\ x \in {Left(e), Right(e)})
  <2>1. Slot(s, c, i) = IF e.size < 2 THEN {e} ELSE {e, Left(e), Right(e)}  BY <1>11, SlotOf
  <2>2. Expected(s, c)[i] \in ChunkType  BY SlotShape
  <2>3. e.size \in Nat  BY <1>11, <2>2 DEF ChunkType
  <2>4. e.size < 2 \/ e.size >= 2  BY <2>3
  <2> QED BY <1>9, <2>1, <2>4
<1>14. CASE x = e
  BY <1>6, <1>7, <1>12, <1>14 DEF Antichain
<1>15. CASE e.size >= 2 /\ x \in {Left(e), Right(e)}
  <2>1. e \in A  BY <1>6, <1>12, <1>15
  <2> QED BY <1>6, <1>15, <2>1 DEF Antichain
<1> QED BY <1>13, <1>14, <1>15

-----------------------------------------------------------------------------
(* What a lone pass keeps: pages *)

(* A step that leaves the sections leaves what is true of a record and the rows. *)
LEMMA SameSections ==
  ASSUME UNCHANGED sections, NEW r, NEW stored
  PROVE  Lone(r, stored)' <=> Lone(r, stored)
<1>1. Listed' = Listed  BY DEF Listed
<1>2. \A s : Rank(s)' = Rank(s)  BY <1>1 DEF Rank
<1>3. \A s, T : Filled(s, T)' <=> Filled(s, T)  BY DEF Filled
<1>4. \A s : Kept(s, r, stored)' <=> Kept(s, r, stored)  BY <1>3 DEF Kept
<1>5. \A s : Redone(s, r, stored)' <=> Redone(s, r, stored)  BY DEF Redone
<1>6. \A s : Read(s, r, stored)' <=> Read(s, r, stored)  BY <1>4, <1>5 DEF Read
<1>7. \A s : Gone(s, r, stored)' <=> Gone(s, r, stored)  BY DEF Gone
<1>8. \A s : Unread(s, r, stored)' <=> Unread(s, r, stored)  BY DEF Unread
<1>9. \A s : StateOf(s, r, stored, Reach(r))' <=> StateOf(s, r, stored, Reach(r))
  BY <1>1, <1>2, <1>6, <1>7, <1>8 DEF StateOf
<1>10. InPage(r, stored, Reach(r))' <=> InPage(r, stored, Reach(r))  BY <1>1, <1>9 DEF InPage
<1> QED BY <1>1, <1>2, <1>10 DEF Lone

(* A section that a step does not concern. *)
LEMMA SameState ==
  ASSUME NEW r, NEW m, NEW s, NEW stored, NEW after, NEW reach,
         m.current[s] = r.current[s], m.inventory = r.inventory, s \in m.stale <=> s \in r.stale,
         Active(s, after) = Active(s, stored), WorkOf(s, m.work) = WorkOf(s, r.work),
         Blocked(r) => Blocked(m),
         (\E x \in after : x.section = s) => \E x \in stored : x.section = s,
         StateOf(s, r, stored, reach)
  PROVE  StateOf(s, m, after, reach)
<1>1. CASE s \notin Listed
  BY <1>1 DEF StateOf, Gone
<1>2. CASE s \in Listed /\ ~ (Rank(s) < reach)
  BY <1>2 DEF StateOf, Unread
<1>3. CASE s \in Listed /\ Rank(s) < reach
  <2>1. Read(s, r, stored)  BY <1>3 DEF StateOf
  <2>2. Redone(s, r, stored) => Redone(s, m, after)  BY DEF Redone
  <2>3. Kept(s, r, stored) => Kept(s, m, after)  BY DEF Kept
  <2>4. Read(s, m, after)  BY <2>1, <2>2, <2>3 DEF Read
  <2> QED BY <1>3, <2>4 DEF StateOf
<1> QED BY <1>1, <1>2, <1>3

(* Going on within a page or past it. *)
LEMMA OnwardLone ==
  ASSUME NEW r \in PassType, NEW stored, InPage(r, stored, r.offset + r.size)
  PROVE  Staged(Onward(r)) /\ Lone(Onward(r), stored) /\ Onward(r).pc # "idle"
<1> DEFINE m == Onward(r)
<1>1. /\ m.inventory = r.inventory /\ m.current = r.current /\ m.size = r.size /\ m.stale = r.stale
      /\ m.work = r.work /\ m.deferred = r.deferred
      /\ \/ r.stale # {} /\ m.pc = "delete" /\ m.offset = r.offset
         \/ r.stale = {} /\ r.work # << >> /\ m.pc = "embed" /\ m.offset = r.offset
         \/ r.stale = {} /\ r.work = << >> /\ m.pc = "page" /\ m.offset = r.offset + r.size
  BY OnwardFacts
<1> HIDE DEF m
<1>2. Staged(m)  BY <1>1 DEF Staged
<1>3. Reach(m) = r.offset + r.size  BY <1>1 DEF Reach
<1>4. Blocked(r) => Blocked(m)  BY <1>1 DEF Blocked
<1>5. \A s \in Sections : StateOf(s, m, stored, Reach(m))
  <2>1. SUFFICES ASSUME NEW s \in Sections PROVE StateOf(s, m, stored, r.offset + r.size)  BY <1>3
  <2>2. StateOf(s, r, stored, r.offset + r.size)  BY DEF InPage
  <2> QED BY <1>1, <1>4, <2>2, SameState
<1>6. InPage(m, stored, Reach(m))  BY <1>1, <1>5 DEF InPage
<1>7. m.pc \in {"delete", "embed", "page"}  BY <1>1
<1> QED BY <1>2, <1>6, <1>7 DEF Lone, m

(* Reading a page: what is current is kept, the rest is to be redone. *)
LEMMA ReadLone ==
  ASSUME SectionsType, NEW r \in PassType, r.pc = "page", Staged(r), NEW stored \in SUBSET StoredChunk,
         Lone(r, stored), NEW m, ReadRecord(r, m)
  PROVE  InPage(m, stored, m.offset + m.size)
<1> DEFINE page == Page(r.offset)
<1>1. /\ m \in PassType
      /\ m.inventory = r.inventory /\ m.offset = r.offset /\ m.size = Len(page)
      /\ m.current = [s \in Sections |-> IF s \in ToSet(page) THEN sections[s] ELSE r.current[s]]
      /\ m.stale = {s \in ToSet(page) : Evaluation(s, sections[s], r.inventory) # "ready"}
      /\ WorkSet(m.work) = UNION {ToSet(Expected(s, sections[s])) : s \in m.stale}
      /\ m.deferred = r.deferred
  BY DEF ReadRecord
<1>2. r.stale = {} /\ r.work = << >> /\ r.offset \in Nat /\ Reach(r) = r.offset  BY DEF Staged, PassType, Reach
<1>3. page \in Seq(Listed)
      /\ \A s \in Listed : s \in ToSet(page) <=> ~ (Rank(s) < r.offset) /\ Rank(s) < r.offset + Len(page)
  BY <1>2, PageFacts
<1> HIDE DEF page
<1>4. Len(page) \in Nat /\ ToSet(page) \subseteq Listed  BY <1>3 DEF ToSet
<1>5. m.stale \subseteq Listed /\ m.stale \subseteq ToSet(page)  BY <1>1, <1>4
<1>6. \A s \in Listed : s \in Sections /\ sections[s] \in Contents /\ Rank(s) \in Nat
  BY ListedFacts DEF Listed, SectionsType
<1>7. \A s \in m.stale : \A x \in ToSet(Expected(s, sections[s])) : x.section = s
  BY <1>5, <1>6, ExpectedChunks
<1>8. \A s : WorkOf(s, m.work) = IF s \in m.stale THEN ToSet(Expected(s, sections[s])) ELSE {}
  <2>1. SUFFICES ASSUME NEW s PROVE WorkOf(s, m.work) = IF s \in m.stale THEN ToSet(Expected(s, sections[s])) ELSE {}
    OBVIOUS
  <2>2. \A x : x \in WorkOf(s, m.work) <=> \E t \in m.stale : x \in ToSet(Expected(t, sections[t])) /\ x.section = s
    BY <1>1 DEF WorkOf
  <2>3. \A x : x \in WorkOf(s, m.work) <=> s \in m.stale /\ x \in ToSet(Expected(s, sections[s]))
    BY <1>7, <2>2
  <2> HIDE <1>1, <1>7, <2>2
  <2> QED BY <2>3
<1>9. \A s : WorkOf(s, r.work) = {}
  <2>1. WorkSet(r.work) = {}  BY <1>2, NoWork DEF PassType
  <2> QED BY <2>1 DEF WorkOf
<1>10. Blocked(r) => Blocked(m)
  <2>1. WorkSet(r.work) = {}  BY <1>2, NoWork DEF PassType
  <2> QED BY <1>1, <2>1 DEF Blocked
<1>11. \A s \in Sections : StateOf(s, r, stored, r.offset)  BY <1>2 DEF Lone, InPage
<1>12. ASSUME NEW s \in Sections, s \notin Listed PROVE StateOf(s, m, stored, m.offset + m.size)
  <2>1. Gone(s, r, stored)  BY <1>11, <1>12 DEF StateOf
  <2>2. s \notin ToSet(page) /\ s \notin m.stale  BY <1>4, <1>5, <1>12
  <2>3. m.current[s] = r.current[s]  BY <1>1, <2>2
  <2>4. Gone(s, m, stored)  BY <1>1, <1>8, <2>1, <2>2, <2>3 DEF Gone
  <2> QED BY <1>12, <2>4 DEF StateOf
<1>13. ASSUME NEW s \in Listed, Rank(s) < r.offset PROVE StateOf(s, m, stored, m.offset + m.size)
  <2>1. Read(s, r, stored) /\ s \in Sections  BY <1>6, <1>11, <1>13 DEF StateOf
  <2>2. s \notin ToSet(page) /\ s \notin m.stale  BY <1>3, <1>5, <1>13
  <2>3. m.current[s] = r.current[s]  BY <1>1, <2>1, <2>2
  <2>4. Kept(s, r, stored)  BY <1>2, <2>1 DEF Read
  <2>5. WorkOf(s, m.work) = WorkOf(s, r.work)  BY <1>8, <1>9, <2>2
  <2>6. Kept(s, m, stored)  BY <1>10, <2>4, <2>5 DEF Kept
  <2>7. Read(s, m, stored)  BY <2>1, <2>2, <2>3, <2>6 DEF Read
  <2>8. Rank(s) < m.offset + m.size  BY <1>1, <1>2, <1>4, <1>6, <1>13
  <2> QED BY <2>7, <2>8 DEF StateOf
<1>14. ASSUME NEW s \in Listed, s \in ToSet(page) PROVE StateOf(s, m, stored, m.offset + m.size)
  <2>0. s \in Sections /\ sections[s] \in Contents  BY <1>6
  <2>1. ~ (Rank(s) < r.offset) /\ Rank(s) < m.offset + m.size  BY <1>1, <1>3, <1>14
  <2>2. Unread(s, r, stored)  BY <1>11, <2>0, <2>1 DEF StateOf
  <2>3. m.current[s] = sections[s]  BY <1>1, <1>14, <2>0
  <2>4. CASE s \in m.stale
    <3>1. Redone(s, m, stored)  BY <1>1, <1>8, <2>2, <2>4 DEF Redone, Unread
    <3>2. Read(s, m, stored)  BY <2>3, <2>4, <3>1 DEF Read
    <3> QED BY <2>1, <3>2 DEF StateOf
  <2>5. CASE s \notin m.stale
    <3>1. Evaluation(s, sections[s], r.inventory) = "ready"  BY <1>1, <1>14, <2>5
    <3>2. Active(s, stored) = Active(s, r.inventory)  BY <2>2 DEF Unread
    <3>3. PICK c \in Contents : c = sections[s]  BY <2>0
    <3>4. Evaluation(s, c, r.inventory) = "ready" <=> Evaluation(s, c, stored) = "ready"
      <4>1. PICK inv : inv = r.inventory  OBVIOUS
      <4>2. Evaluation(s, c, inv) = "ready"
            <=> LET A == Active(s, inv)
                IN  /\ \A i \in DOMAIN Text[c] : StandIns(A, Expected(s, c)[i]) # {}
                    /\ \A x \in A : \E i \in DOMAIN Text[c] : x \in StandIns(A, Expected(s, c)[i])
        BY <2>0, ReadyMeans
      <4>3. Evaluation(s, c, stored) = "ready"
            <=> LET A == Active(s, stored)
                IN  /\ \A i \in DOMAIN Text[c] : StandIns(A, Expected(s, c)[i]) # {}
                    /\ \A x \in A : \E i \in DOMAIN Text[c] : x \in StandIns(A, Expected(s, c)[i])
        BY <2>0, ReadyMeans
      <4>4. Active(s, stored) = Active(s, inv)  BY <3>2, <4>1
      <4> HIDE DEF page
      <4> QED BY <4>1, <4>2, <4>3, <4>4
    <3>5. WorkOf(s, m.work) = {}  BY <1>8, <2>5
    <3>6. Evaluation(s, sections[s], stored) = "ready"  BY <3>1, <3>3, <3>4
    <3>7. Kept(s, m, stored)  BY <2>0, <3>5, <3>6, ReadyIsKept
    <3>8. Read(s, m, stored)  BY <2>3, <2>5, <3>7 DEF Read
    <3> QED BY <2>1, <3>8 DEF StateOf
  <2> QED BY <2>4, <2>5
<1>15. ASSUME NEW s \in Listed, ~ (Rank(s) < r.offset), s \notin ToSet(page) PROVE StateOf(s, m, stored, m.offset + m.size)
  <2>0. s \in Sections  BY <1>6
  <2>1. ~ (Rank(s) < m.offset + m.size)  BY <1>1, <1>3, <1>15
  <2>2. Unread(s, r, stored)  BY <1>11, <1>15, <2>0 DEF StateOf
  <2>3. m.current[s] = r.current[s]  BY <1>1, <1>15, <2>0
  <2>4. s \notin m.stale  BY <1>5, <1>15
  <2>5. Unread(s, m, stored)  BY <1>1, <1>8, <2>2, <2>3, <2>4 DEF Unread
  <2> QED BY <2>1, <2>5 DEF StateOf
<1>16. \A s \in Sections : StateOf(s, m, stored, m.offset + m.size)  BY <1>12, <1>13, <1>14, <1>15
<1> QED BY <1>5, <1>16 DEF InPage

-----------------------------------------------------------------------------
(* What a lone pass keeps: deletions and batches *)

(* A section that is listed has a content. *)
LEMMA ListedContents ==
  ASSUME SectionsType
  PROVE  \A s \in Listed : s \in Sections /\ sections[s] \in Contents
BY DEF Listed, SectionsType

(* What is covered is seen from the rows of the section alone. *)
LEMMA SameActive ==
  ASSUME NEW s, NEW stored, NEW after, Active(s, after) = Active(s, stored)
  PROVE  Covered(s, after) <=> Covered(s, stored)
<1>1. \A x : x \in after /\ x.section = s /\ x.plan = Plan <=> x \in stored /\ x.section = s /\ x.plan = Plan
  BY DEF Active
<1>2. \A i : {x \in after : x.section = s /\ x.plan = Plan /\ Root(x.ordinal) = i - 1}
             = {x \in stored : x.section = s /\ x.plan = Plan /\ Root(x.ordinal) = i - 1}
  BY <1>1
<1>3. (\A x \in after : x.section = s /\ x.plan = Plan => x.content = sections[s])
      <=> (\A x \in stored : x.section = s /\ x.plan = Plan => x.content = sections[s])
  BY <1>1
<1> QED BY <1>2, <1>3, Zenon DEF Covered

(* What the deletion of d's stale embeddings makes of the record and of the rows. *)
DeleteRecord(r, stored, d, m, after) ==
    /\ m = [r EXCEPT !.stale = m.stale] /\ m.stale = r.stale \ {d}
    /\ after = {x \in stored : x.section # d \/ x.plan # Plan}

(* A deletion: the section is kept from then on, all its chunks wait, and it was not covered. *)
LEMMA DeleteLone ==
  ASSUME SectionsType, NEW r \in PassType, r.pc = "delete", NEW stored \in SUBSET StoredChunk, Lone(r, stored),
         NEW d \in r.stale, NEW m, NEW after, DeleteRecord(r, stored, d, m, after)
  PROVE  /\ InPage(m, after, m.offset + m.size)
         /\ \A s \in Listed : Covered(s, stored) => Covered(s, after)
<1>0. /\ m = [r EXCEPT !.stale = m.stale] /\ m.stale = r.stale \ {d}
      /\ after = {x \in stored : x.section # d \/ x.plan # Plan}
  BY DEF DeleteRecord
<1> USE <1>0
<1>1. /\ m.inventory = r.inventory /\ m.current = r.current /\ m.offset = r.offset /\ m.size = r.size
      /\ m.work = r.work /\ m.deferred = r.deferred
  BY DEF PassType
<1>2. r.stale \subseteq Listed /\ \A s \in Sections : StateOf(s, r, stored, m.offset + m.size)
  BY <1>1 DEF Lone, InPage, Reach
<1>3. \A s : s # d => Active(s, after) = Active(s, stored)  BY DEF Active
<1>4. Active(d, after) = {}  BY DEF Active
<1>5. d \in Listed /\ d \in Sections /\ sections[d] \in Contents  BY <1>2, ListedContents
<1>6. Rank(d) < m.offset + m.size /\ Read(d, r, stored)
  <2>1. StateOf(d, r, stored, m.offset + m.size)  BY <1>2, <1>5
  <2> QED BY <1>5, <2>1 DEF StateOf, Unread
<1>7. Redone(d, r, stored) /\ r.current[d] = sections[d]  BY <1>6 DEF Read
<1>8. \A s \in Sections \ {d} : StateOf(s, m, after, m.offset + m.size)
  <2>1. SUFFICES ASSUME NEW s \in Sections, s # d PROVE StateOf(s, m, after, m.offset + m.size)  OBVIOUS
  <2>2. StateOf(s, r, stored, m.offset + m.size)  BY <1>2
  <2>3. s \in m.stale <=> s \in r.stale  BY <2>1
  <2>4. Active(s, after) = Active(s, stored)  BY <1>3, <2>1
  <2>5. Blocked(r) => Blocked(m)  BY <1>1 DEF Blocked
  <2> QED BY <1>1, <2>2, <2>3, <2>4, <2>5, SameState
<1>9. StateOf(d, m, after, m.offset + m.size)
  <2>1. PICK c \in Contents : c = sections[d]  BY <1>5
  <2>2. WorkOf(d, m.work) = ToSet(Expected(d, c))  BY <1>1, <1>7, <2>1 DEF Redone
  <2>3. DOMAIN Expected(d, c) = DOMAIN Text[c] /\ \A x \in ToSet(Expected(d, c)) : x.content = c  BY <1>5, ExpectedChunks
  <2>4. \A i \in DOMAIN Text[c] : Expected(d, c)[i] \in ToSet(Expected(d, c))  BY <2>3 DEF ToSet
  <2> DEFINE W == WorkOf(d, m.work)
  <2>5. Antichain(W)
    <3>1. SUFFICES ASSUME NEW x \in W, NEW y \in W, x.size >= 2, y \in {Left(x), Right(x)} PROVE FALSE
      BY DEF Antichain
    <3>2. PICK j \in DOMAIN Text[c] : y = Expected(d, c)[j]  BY <2>2, <2>3 DEF ToSet
    <3>3. y.ordinal = j - 1 /\ j - 1 \in Nat /\ j - 1 < SplitFactor \div 2
      <4>1. Expected(d, c)[j].ordinal = j - 1  BY DEF Expected, Chunk
      <4> QED BY <3>2, <4>1, TextFacts
    <3>4. x \in ChunkType  BY <1>5, <2>2, ExpectedChunks DEF AllPieces
    <3> DEFINE h == SplitFactor \div 2
               k == x.ordinal * SplitFactor
    <3>5. y.ordinal = k + h \/ y.ordinal = k + h + 1  BY <3>1, <3>4, HalfShape
    <3>6. k \in Nat /\ h \in Nat  BY <3>4, Division DEF ChunkType
    <3>7. j - 1 < h  BY <3>3
    <3> HIDE DEF k, h
    <3> QED BY <3>3, <3>5, <3>6, <3>7
  <2>6. Filled(d, W)  BY <2>1, <2>2, <2>4 DEF Filled
  <2>7. \A x \in W : x.content = sections[d]  BY <2>1, <2>2, <2>3
  <2>8. Kept(d, m, after)
    <3>1. Active(d, after) \cup W = W /\ Active(d, after) \cap W = {}  BY <1>4
    <3> QED BY <2>5, <2>6, <2>7, <3>1 DEF Kept
  <2>9. Read(d, m, after)  BY <1>1, <1>7, <2>8 DEF Read
  <2> QED BY <1>5, <1>6, <2>9 DEF StateOf
<1>10. InPage(m, after, m.offset + m.size)
  <2>1. \A s \in Sections : StateOf(s, m, after, m.offset + m.size)  BY <1>8, <1>9
  <2> QED BY <1>2, <2>1 DEF InPage
<1>11. ASSUME NEW s \in Listed, Covered(s, stored) PROVE Covered(s, after)
  <2>1. CASE s # d
    BY <1>3, <1>11, <2>1, SameActive
  <2>2. CASE s = d
    <3>1. PICK c \in Contents : c = sections[d]  BY <1>5
    <3>2. Evaluation(d, sections[d], stored) = "ready"  BY <1>5, <1>11, <2>2, StoredFacts, ReadyIsCovered
    <3>3. Evaluation(d, c, stored) = "ready"  BY <3>1, <3>2
    <3>4. Evaluation(d, c, r.inventory) # "ready" /\ Active(d, stored) = Active(d, r.inventory)
      BY <1>7, <3>1 DEF Redone
    <3>5. PICK inv : inv = r.inventory  OBVIOUS
    <3>6. Evaluation(d, c, inv) = "ready"
          <=> LET A == Active(d, inv)
              IN  /\ \A i \in DOMAIN Text[c] : StandIns(A, Expected(d, c)[i]) # {}
                  /\ \A x \in A : \E i \in DOMAIN Text[c] : x \in StandIns(A, Expected(d, c)[i])
      BY <1>5, ReadyMeans
    <3>7. Evaluation(d, c, stored) = "ready"
          <=> LET A == Active(d, stored)
              IN  /\ \A i \in DOMAIN Text[c] : StandIns(A, Expected(d, c)[i]) # {}
                  /\ \A x \in A : \E i \in DOMAIN Text[c] : x \in StandIns(A, Expected(d, c)[i])
      BY <1>5, ReadyMeans
    <3>8. Active(d, stored) = Active(d, inv)  BY <3>4, <3>5
    <3>9. Evaluation(d, c, inv) = "ready"  BY <3>3, <3>6, <3>7, <3>8
    <3> QED BY <3>4, <3>5, <3>9
  <2> QED BY <2>1, <2>2
<1> QED BY <1>10, <1>11

(* A batch is taken off the stack, stored or given up. *)
LEMMA TakenLone ==
  ASSUME SectionsType, NEW r \in PassType, r.pc = "embed", Staged(r), NEW stored \in SUBSET StoredChunk, Lone(r, stored),
         NEW m \in PassType, m = [r EXCEPT !.work = m.work, !.deferred = m.deferred],
         NEW new \in SUBSET WorkSet(r.work), \A x \in new : x \in AllPieces /\ ~ Deep(x),
         WorkSet(m.work) \subseteq WorkSet(r.work), WorkSet(m.work) \cap new = {},
         m.deferred \/ (m.deferred = r.deferred /\ WorkSet(r.work) \ new \subseteq WorkSet(m.work))
  PROVE  /\ InPage(m, stored \cup new, m.offset + m.size)
         /\ \A s \in Listed : Covered(s, stored) => Covered(s, stored \cup new)
<1> DEFINE after == stored \cup new
<1>1. /\ m.inventory = r.inventory /\ m.current = r.current /\ m.offset = r.offset /\ m.size = r.size
      /\ m.stale = r.stale
  BY DEF PassType
<1>2. r.stale = {}  BY DEF Staged
<1>3. \A s \in Sections : StateOf(s, r, stored, m.offset + m.size)
  BY <1>1 DEF Lone, InPage, Reach
<1>4. Blocked(r) => Blocked(m)
  <2>1. ASSUME NEW x \in WorkSet(r.work), Deep(x), ~ m.deferred PROVE x \in WorkSet(m.work)
    BY <2>1
  <2>2. r.deferred => m.deferred  BY DEF PassType
  <2> QED BY <2>1, <2>2 DEF Blocked
<1>5. \A x \in new : x.plan = Plan  BY DEF AllPieces, ChunkType
<1>6. \A s : /\ Active(s, after) = Active(s, stored) \cup {x \in new : x.section = s}
             /\ {x \in new : x.section = s} \subseteq WorkOf(s, r.work)
             /\ WorkOf(s, m.work) \subseteq WorkOf(s, r.work)
             /\ WorkOf(s, m.work) \cap {x \in new : x.section = s} = {}
             /\ m.deferred \/ WorkOf(s, r.work) \subseteq WorkOf(s, m.work) \cup {x \in new : x.section = s}
  BY <1>5 DEF Active, WorkOf
<1> HIDE DEF after
<1>7. ASSUME NEW s \in Sections, WorkOf(s, r.work) = {} PROVE StateOf(s, m, after, m.offset + m.size)
  <2>1. Active(s, after) = Active(s, stored) /\ WorkOf(s, m.work) = WorkOf(s, r.work) /\ {x \in new : x.section = s} = {}
    <3> DEFINE N == {x \in new : x.section = s}
    <3>1. /\ Active(s, after) = Active(s, stored) \cup N /\ N \subseteq WorkOf(s, r.work)
          /\ WorkOf(s, m.work) \subseteq WorkOf(s, r.work)
      BY <1>6
    <3> HIDE DEF N
    <3>2. N = {}  BY <1>7, <3>1
    <3>3. Active(s, after) = Active(s, stored) /\ WorkOf(s, m.work) = WorkOf(s, r.work)  BY <1>7, <3>1, <3>2
    <3> QED BY <3>2, <3>3 DEF N
  <2>2. (\E x \in after : x.section = s) => \E x \in stored : x.section = s  BY <2>1 DEF after
  <2>3. StateOf(s, r, stored, m.offset + m.size)  BY <1>3
  <2> QED BY <1>1, <1>4, <2>1, <2>2, <2>3, SameState
<1>8. ASSUME NEW s \in Listed, Rank(s) < m.offset + m.size
      PROVE  s \in Sections /\ sections[s] \in Contents /\ Read(s, r, stored) /\ Kept(s, r, stored)
  <2>1. s \in Sections /\ sections[s] \in Contents  BY ListedContents
  <2>2. Read(s, r, stored)  BY <1>3, <1>8, <2>1 DEF StateOf
  <2> QED BY <1>2, <2>1, <2>2 DEF Read
<1>9. ASSUME NEW s \in Listed, Rank(s) < m.offset + m.size PROVE Read(s, m, after)
  <2>1. s \in Sections /\ Read(s, r, stored) /\ Kept(s, r, stored)  BY <1>8, <1>9
  <2> DEFINE N == {x \in new : x.section = s}
             A == Active(s, stored)
             W == WorkOf(s, r.work)
             V == WorkOf(s, m.work)
  <2>2. /\ \A x \in A \cup W : x.content = sections[s]
        /\ Antichain(A \cup W)
        /\ A \cap W = {}
        /\ Blocked(r) \/ Filled(s, A \cup W)
    BY <2>1 DEF Kept
  <2>3. /\ Active(s, after) = A \cup N /\ N \subseteq W /\ V \subseteq W /\ V \cap N = {}
        /\ m.deferred \/ W \subseteq V \cup N
    BY <1>6
  <2> HIDE DEF A, W, V, N
  <2>4. (A \cup N) \cup V \subseteq A \cup W /\ (A \cup N) \cap V = {}  BY <2>2, <2>3
  <2>5. Antichain((A \cup N) \cup V)  BY <2>2, <2>4 DEF Antichain
  <2>6. Blocked(m) \/ Filled(s, (A \cup N) \cup V)
    <3>1. CASE m.deferred
      BY <3>1 DEF Blocked
    <3>2. CASE ~ m.deferred
      <4>1. (A \cup N) \cup V = A \cup W  BY <2>3, <3>2
      <4>2. PICK T : T = A \cup W  OBVIOUS
      <4> QED BY <1>4, <2>2, <4>1, <4>2
    <3> QED BY <3>1, <3>2
  <2>7. Kept(s, m, after)
    <3>1. \A x \in (A \cup N) \cup V : x.content = sections[s]  BY <2>2, <2>4
    <3> QED BY <2>3, <2>4, <2>5, <2>6, <3>1 DEF Kept, V
  <2> QED BY <1>1, <1>2, <2>1, <2>7 DEF Read
<1>10. \A s \in Sections : StateOf(s, m, after, m.offset + m.size)
  <2>1. SUFFICES ASSUME NEW s \in Sections PROVE StateOf(s, m, after, m.offset + m.size)  OBVIOUS
  <2>2. StateOf(s, r, stored, m.offset + m.size)  BY <1>3
  <2>3. CASE s \notin Listed
    BY <1>7, <2>2, <2>3 DEF StateOf, Gone
  <2>4. CASE s \in Listed /\ ~ (Rank(s) < m.offset + m.size)
    BY <1>7, <2>2, <2>4 DEF StateOf, Unread
  <2>5. CASE s \in Listed /\ Rank(s) < m.offset + m.size
    BY <1>9, <2>5 DEF StateOf
  <2> QED BY <2>3, <2>4, <2>5
<1>11. InPage(m, after, m.offset + m.size)  BY <1>1, <1>2, <1>10 DEF InPage
<1>12. ASSUME NEW s \in Listed, Covered(s, stored) PROVE Covered(s, after)
  <2>0. s \in Sections /\ sections[s] \in Contents  BY ListedContents
  <2>1. {x \in new : x.section = s} = {}
    <3>1. SUFFICES ASSUME NEW x \in new, x.section = s PROVE FALSE  OBVIOUS
    <3>2. x \in WorkOf(s, r.work)  BY <3>1 DEF WorkOf
    <3>3. CASE ~ (Rank(s) < m.offset + m.size)
      <4>1. StateOf(s, r, stored, m.offset + m.size)  BY <1>3, <2>0
      <4> QED BY <3>2, <3>3, <4>1 DEF StateOf, Unread
    <3>4. CASE Rank(s) < m.offset + m.size
      <4>1. Kept(s, r, stored)  BY <1>8, <3>4
      <4>2. x \in AllPieces /\ ~ Deep(x)  OBVIOUS
      <4> QED BY <1>12, <2>0, <3>2, <4>1, <4>2, WaitingIsMissing
    <3> QED BY <3>3, <3>4
  <2>2. Active(s, after) = Active(s, stored)
    <3> DEFINE N == {x \in new : x.section = s}
    <3>1. Active(s, after) = Active(s, stored) \cup N /\ N = {}  BY <1>6, <2>1
    <3> HIDE DEF N
    <3> QED BY <3>1
  <2> QED BY <1>12, <2>2, SameActive
<1> QED BY <1>11, <1>12 DEF after

-----------------------------------------------------------------------------
(* What a lone pass keeps: halves, the sweep and the end *)

(* A batch that is split, or whose chunk is halved. *)
LEMMA SplitLone ==
  ASSUME SectionsType, NEW r \in PassType, r.pc = "embed", Staged(r), NEW stored \in SUBSET StoredChunk, Lone(r, stored),
         NEW work \in Seq(BatchOf(WorkChunk)), Split(WorkSet(r.work), WorkSet(work)),
         NEW m, m = [r EXCEPT !.work = work]
  PROVE  Staged(m) /\ Lone(m, stored)
<1>1. /\ m.inventory = r.inventory /\ m.current = r.current /\ m.offset = r.offset /\ m.size = r.size
      /\ m.stale = r.stale /\ m.pc = "embed" /\ m.deferred = r.deferred /\ m.work = work
  BY DEF PassType
<1>2. r.stale = {} /\ Staged(m)  BY <1>1 DEF Staged
<1>3. Reach(m) = Reach(r)  BY <1>1 DEF Reach
<1>4. \A s \in Sections : StateOf(s, r, stored, Reach(m))
  BY <1>3 DEF Lone, InPage
<1>5. SUFFICES \A s \in Sections : StateOf(s, m, stored, Reach(m))
  BY <1>1, <1>2 DEF Lone, InPage
<1>6. CASE WorkSet(work) = WorkSet(r.work)
  <2>1. Blocked(r) => Blocked(m)  BY <1>1, <1>6 DEF Blocked
  <2>2. \A s : WorkOf(s, m.work) = WorkOf(s, r.work)  BY <1>1, <1>6 DEF WorkOf
  <2>3. SUFFICES ASSUME NEW s \in Sections PROVE StateOf(s, m, stored, Reach(m))  OBVIOUS
  <2>4. StateOf(s, r, stored, Reach(m))  BY <1>4
  <2> QED BY <1>1, <2>1, <2>2, <2>4, SameState
<1>7. ASSUME NEW x \in WorkSet(r.work), x.size >= 2,
             WorkSet(work) \subseteq WorkSet(r.work) \cup {Left(x), Right(x)},
             (WorkSet(r.work) \ {x}) \cup {Left(x), Right(x)} \subseteq WorkSet(work),
             x \in WorkSet(work) => Deep(x),
             NEW s \in Sections
      PROVE  StateOf(s, m, stored, Reach(m))
  <2>1. WorkSet(r.work) \subseteq WorkChunk  BY NoWork DEF PassType
  <2>2. x \in WorkChunk /\ x \in ChunkType  BY <2>1 DEF WorkChunk
  <2>3. Left(x).section = x.section /\ Right(x).section = x.section /\ Left(x).content = x.content /\ Right(x).content = x.content
    BY <1>7, <2>2, HalfShape
  <2>4. Left(x) \in WorkSet(work) /\ Right(x) \in WorkSet(work)  BY <1>7
  <2>5. Blocked(r) => Blocked(m)
    <3>1. ASSUME NEW y \in WorkSet(r.work), Deep(y) PROVE \E z \in WorkSet(work) : Deep(z)
      <4>1. CASE y = x
        <5>1. Deep(Left(x))  BY <1>7, <2>2, <3>1, <4>1, DeepHalves
        <5> QED BY <2>4, <5>1
      <4>2. CASE y # x
        BY <1>7, <3>1, <4>2
      <4> QED BY <4>1, <4>2
    <3> QED BY <1>1, <3>1 DEF Blocked
  <2>6. StateOf(s, r, stored, Reach(m))  BY <1>4
  <2>7. CASE s # x.section
    <3>1. WorkOf(s, m.work) = WorkOf(s, r.work)
      <4>1. \A y \in WorkSet(work) : y.section = s => y \in WorkSet(r.work)  BY <1>7, <2>3, <2>7
      <4>2. \A y \in WorkSet(r.work) : y.section = s => y \in WorkSet(work)  BY <1>7, <2>7
      <4> QED BY <1>1, <4>1, <4>2 DEF WorkOf
    <3> QED BY <1>1, <2>5, <2>6, <3>1, SameState
  <2>8. CASE s = x.section
    <3>1. x \in WorkOf(s, r.work)  BY <2>8 DEF WorkOf
    <3>2. s \in Listed /\ Rank(s) < Reach(m) /\ Read(s, r, stored)  BY <2>6, <3>1 DEF StateOf, Gone, Unread
    <3>3. Kept(s, r, stored)  BY <1>2, <3>2 DEF Read
    <3>4. PICK c \in Contents : c = sections[s]  BY <3>2, ListedContents
    <3> DEFINE A == Active(s, stored)
               W == WorkOf(s, r.work)
               V == WorkOf(s, m.work)
    <3>5. /\ \A y \in A \cup W : y.content = sections[s]
          /\ Antichain(A \cup W)
          /\ A \cap W = {}
          /\ Blocked(r) \/ Filled(s, A \cup W)
      BY <3>3 DEF Kept
    <3>6. /\ V \subseteq W \cup {Left(x), Right(x)} /\ (W \ {x}) \cup {Left(x), Right(x)} \subseteq V
          /\ x \in V => Deep(x)
      BY <1>1, <1>7, <2>3, <2>8 DEF WorkOf
    <3>7. \A y \in A : y \in WorkChunk /\ ~ Deep(y)  BY <3>4, <3>5, ActivePieces
    <3>8. \A y \in W : y \in WorkChunk  BY <2>1 DEF WorkOf
    <3> HIDE DEF A, W, V
    <3>9. x \in W  BY <3>1 DEF W
    <3>10. \A y \in A \cup V : y.content = sections[s]  BY <2>3, <3>5, <3>6, <3>9
    <3>11. A \cap V = {}
      <4>1. SUFFICES ASSUME NEW y \in A, y \in {Left(x), Right(x)} PROVE FALSE  BY <3>5, <3>6
      <4>2. y \in A \cup W /\ x \in A \cup W  BY <3>9
      <4>3. Deep(y)  BY <1>7, <3>5, <4>1, <4>2 DEF Antichain
      <4> QED BY <3>7, <4>3
    <3>12. Antichain(A \cup V)
      <4>1. SUFFICES ASSUME NEW z \in A \cup V, NEW y \in A \cup V, z.size >= 2, y \in {Left(z), Right(z)} PROVE Deep(y)
        BY DEF Antichain
      <4>2. CASE z \in {Left(x), Right(x)}
        BY <1>7, <2>2, <4>1, <4>2, HalfOfHalf
      <4>3. CASE z \in A \cup W /\ y \in A \cup W
        BY <3>5, <4>1, <4>3 DEF Antichain
      <4>4. CASE z \in A \cup W /\ y \in {Left(x), Right(x)}
        <5>1. SUFFICES ASSUME ~ Deep(y) PROVE FALSE  OBVIOUS
        <5>2. z \in WorkChunk  BY <3>7, <3>8, <4>4
        <5>3. x = z  BY <1>7, <2>2, <4>1, <4>4, <5>1, <5>2, WholeOfHalf
        <5>4. x \in V  BY <3>5, <3>9, <4>1, <5>3
        <5>5. Deep(x)  BY <3>6, <5>4
        <5> QED BY <1>7, <2>2, <4>4, <5>1, <5>5, DeepHalves
      <4> QED BY <3>6, <4>1, <4>2, <4>3, <4>4
    <3>13. Blocked(m) \/ Filled(s, A \cup V)
      <4>1. SUFFICES ASSUME ~ Blocked(m) PROVE Filled(s, A \cup V)  OBVIOUS
      <4>2. Filled(s, A \cup W)  BY <2>5, <3>5, <4>1
      <4>3. ASSUME NEW i \in DOMAIN Text[sections[s]],
                   NEW e, e = Expected(s, sections[s])[i]
            PROVE  e \in A \cup V \/ (e.size >= 2 /\ Left(e) \in A \cup V /\ Right(e) \in A \cup V)
        <5>1. e \in A \cup W \/ (e.size >= 2 /\ Left(e) \in A \cup W /\ Right(e) \in A \cup W)
          BY <4>2, <4>3 DEF Filled
        <5>2. CASE e \in A \cup W
          BY <1>7, <3>6, <5>2
        <5>3. CASE e.size >= 2 /\ Left(e) \in A \cup W /\ Right(e) \in A \cup W
          <6>1. CASE x \notin {Left(e), Right(e)}
            BY <3>6, <5>3, <6>1
          <6>2. CASE x \in {Left(e), Right(e)}
            <7>1. e \in WorkChunk
              <8>1. Expected(s, c)[i] \in ToSet(Expected(s, c)) /\ i \in DOMAIN Text[c]  BY <3>4, <4>3, ExpectedChunks DEF ToSet
              <8>2. Expected(s, c)[i] \in AllPieces  BY <8>1, ExpectedChunks
              <8> QED BY <3>4, <4>3, <8>2 DEF WorkChunk, AllPieces
            <7>2. Deep(Left(x))  BY <1>7, <5>3, <6>2, <7>1, HalfOfHalf
            <7> QED BY <1>1, <2>4, <4>1, <7>2 DEF Blocked
          <6> QED BY <6>1, <6>2
        <5> QED BY <5>1, <5>2, <5>3
      <4> QED BY <4>3 DEF Filled
    <3>14. Kept(s, m, stored)  BY <3>10, <3>11, <3>12, <3>13 DEF Kept, A, V
    <3>15. Read(s, m, stored)  BY <1>1, <1>2, <3>2, <3>14 DEF Read
    <3> QED BY <3>2, <3>15 DEF StateOf
  <2> QED BY <2>7, <2>8
<1> QED BY <1>6, <1>7 DEF Split

(* The sweep leaves every section that is there. *)
LEMMA SweepLone ==
  ASSUME SectionsType, NEW r \in PassType, r.pc = "sweep", Staged(r), NEW stored \in SUBSET StoredChunk, Lone(r, stored),
         NEW m, m = [r EXCEPT !.pc = "swept"], NEW after,
         after = {x \in stored : x.section \notin {y.section : y \in Orphans(r.current, r.inventory)}}
  PROVE  /\ Staged(m) /\ Lone(m, after)
         /\ \A s \in Listed : Covered(s, stored) => Covered(s, after)
<1>1. /\ m.inventory = r.inventory /\ m.current = r.current /\ m.offset = r.offset
      /\ m.stale = r.stale /\ m.pc = "swept" /\ m.deferred = r.deferred /\ m.work = r.work
  BY DEF PassType
<1>2. Staged(m)  BY <1>1 DEF Staged
<1>3. Reach(m) = Reach(r)  BY <1>1 DEF Reach
<1>4. /\ r.stale \subseteq Listed
      /\ \A s \in Sections : StateOf(s, r, stored, Reach(m))
      /\ \A s \in Listed : Rank(s) < Reach(m)
  BY <1>3 DEF Lone, InPage
<1>5. \A s \in Listed : s \in Sections /\ r.current[s] = sections[s] /\ sections[s] # None
  <2>1. SUFFICES ASSUME NEW s \in Listed PROVE s \in Sections /\ r.current[s] = sections[s] /\ sections[s] # None
    OBVIOUS
  <2>2. s \in Sections /\ sections[s] # None  BY DEF Listed
  <2>3. Read(s, r, stored)  BY <1>4, <2>2 DEF StateOf
  <2> QED BY <2>2, <2>3 DEF Read
<1>6. \A x \in stored : x.section \in Sections  BY StoredFacts
<1>7. \A x \in after : x.section \in Listed
  <2>1. SUFFICES ASSUME NEW x \in stored, x.section \notin Listed PROVE x \notin after  OBVIOUS
  <2>2. PICK s \in Sections : s = x.section  BY <1>6
  <2>3. Gone(s, r, stored)  BY <1>4, <2>1, <2>2 DEF StateOf
  <2>4. PICK y \in r.inventory : y.section = s  BY <2>2, <2>3 DEF Gone
  <2>5. y \in Orphans(r.current, r.inventory)  BY <2>3, <2>4 DEF Gone, Orphans
  <2> QED BY <2>2, <2>4, <2>5
<1>8. \A s \in Listed : Active(s, after) = Active(s, stored)
  <2>1. SUFFICES ASSUME NEW s \in Listed PROVE Active(s, after) = Active(s, stored)  OBVIOUS
  <2>2. \A y \in Orphans(r.current, r.inventory) : y.section # s  BY <1>5 DEF Orphans
  <2>3. \A x \in stored : x.section = s => x \in after  BY <2>2
  <2> QED BY <2>3 DEF Active
<1>9. Blocked(r) => Blocked(m)  BY <1>1 DEF Blocked
<1>10. ASSUME NEW s \in Sections PROVE StateOf(s, m, after, Reach(m))
  <2>1. StateOf(s, r, stored, Reach(m))  BY <1>4
  <2>2. CASE s \in Listed
    <3>1. Active(s, after) = Active(s, stored) /\ (s \in m.stale <=> s \in r.stale)  BY <1>1, <1>8, <2>2
    <3>2. (\E x \in after : x.section = s) => \E x \in stored : x.section = s  OBVIOUS
    <3>3. WorkOf(s, m.work) = WorkOf(s, r.work)  BY <1>1
    <3> QED BY <1>1, <1>9, <2>1, <3>1, <3>2, <3>3, SameState
  <2>3. CASE s \notin Listed
    <3>1. Gone(s, r, stored)  BY <2>1, <2>3 DEF StateOf
    <3>2. Gone(s, m, after)  BY <1>1, <3>1 DEF Gone
    <3> QED BY <2>3, <3>2 DEF StateOf
  <2> QED BY <2>2, <2>3
<1>11. Lone(m, after)
  <2>1. InPage(m, after, Reach(m))  BY <1>1, <1>4, <1>10 DEF InPage
  <2> QED BY <1>4, <1>7, <2>1 DEF Lone
<1>12. \A s \in Listed : Covered(s, stored) => Covered(s, after)
  BY <1>8, SameActive
<1> QED BY <1>2, <1>11, <1>12

(* The pages end when every section is read. *)
LEMMA PageEndsLone ==
  ASSUME NEW r \in PassType, r.pc = "page", Staged(r), NEW stored, Lone(r, stored), Page(r.offset) = << >>,
         NEW m, m = [r EXCEPT !.pc = "sweep"]
  PROVE  Staged(m) /\ Lone(m, stored)
<1>1. /\ m.inventory = r.inventory /\ m.current = r.current /\ m.offset = r.offset
      /\ m.stale = r.stale /\ m.pc = "sweep" /\ m.deferred = r.deferred /\ m.work = r.work
  BY DEF PassType
<1>2. Staged(m)  BY <1>1 DEF Staged
<1>3. Reach(m) = r.offset /\ Reach(r) = r.offset  BY <1>1 DEF Reach
<1>4. \A s \in Listed : Rank(s) < r.offset  BY PageFacts DEF PassType
<1>5. r.stale \subseteq Listed /\ \A s \in Sections : StateOf(s, r, stored, Reach(m))  BY <1>3 DEF Lone, InPage
<1>6. Blocked(r) => Blocked(m)  BY <1>1 DEF Blocked
<1>7. ASSUME NEW s \in Sections PROVE StateOf(s, m, stored, Reach(m))
  <2>1. StateOf(s, r, stored, Reach(m))  BY <1>5
  <2> QED BY <1>1, <1>6, <2>1, SameState
<1>8. InPage(m, stored, Reach(m))  BY <1>1, <1>5, <1>7 DEF InPage
<1> QED BY <1>1, <1>2, <1>3, <1>4, <1>8 DEF Lone

(* Queueing the retry changes nothing of it. *)
LEMMA RetriedLone ==
  ASSUME NEW r \in PassType, r.pc = "swept", Staged(r), NEW stored, Lone(r, stored),
         NEW m, m = [r EXCEPT !.pc = "retried"]
  PROVE  Staged(m) /\ Lone(m, stored)
<1>1. /\ m.inventory = r.inventory /\ m.current = r.current /\ m.offset = r.offset
      /\ m.stale = r.stale /\ m.pc = "retried" /\ m.deferred = r.deferred /\ m.work = r.work
  BY DEF PassType
<1>2. Staged(m)  BY <1>1 DEF Staged
<1>3. Reach(m) = r.offset /\ Reach(r) = r.offset  BY <1>1 DEF Reach
<1>4. \A s \in Listed : Rank(s) < r.offset  BY <1>3 DEF Lone
<1>5. /\ r.stale \subseteq Listed /\ \A s \in Sections : StateOf(s, r, stored, Reach(m))
      /\ \A x \in stored : x.section \in Listed
  BY <1>3 DEF Lone, InPage
<1>6. Blocked(r) => Blocked(m)  BY <1>1 DEF Blocked
<1>7. ASSUME NEW s \in Sections PROVE StateOf(s, m, stored, Reach(m))
  <2>1. StateOf(s, r, stored, Reach(m))  BY <1>5
  <2> QED BY <1>1, <1>6, <2>1, SameState
<1>8. InPage(m, stored, Reach(m))  BY <1>1, <1>5, <1>7 DEF InPage
<1> QED BY <1>1, <1>2, <1>3, <1>4, <1>5, <1>8 DEF Lone

(* A pass that begins has read nothing. *)
LEMMA BeginLone ==
  ASSUME NEW m, NEW stored, m.pc = "page", m.inventory = stored, m.offset = 0,
         m.current = NoSections, m.stale = {}, m.work = << >>
  PROVE  Staged(m) /\ Lone(m, stored)
<1>1. Staged(m)  BY DEF Staged
<1>2. Reach(m) = 0  BY DEF Reach
<1>3. \A s : WorkOf(s, m.work) = {}
  <2>1. DOMAIN << >> = {}  OBVIOUS
  <2> QED BY <2>1 DEF WorkOf, WorkSet
<1>4. \A s \in Sections : m.current[s] = None /\ ~ (Rank(s) < 0)
  BY ListedFacts DEF NoSections
<1>5. \A s \in Sections : StateOf(s, m, stored, 0)
  BY <1>3, <1>4 DEF StateOf, Gone, Unread
<1> QED BY <1>1, <1>2, <1>5 DEF Lone, InPage

-----------------------------------------------------------------------------
(* From a record to the passes *)

(* What a step keeps: what LonePassKeepsCovered says of it. *)
KeepsCovered ==
    \A p \in Passes, s \in Sections :
        /\ pass[p].alone /\ pass'[p].alone /\ sections[s] # None
        /\ Covered(s, chunks)
        => Covered(s, chunks')

(* The step of one pass, from what is true of its record. *)
LEMMA PassStepLone ==
  ASSUME EmbedInv, LoneInv, UNCHANGED sections, NEW p \in Passes, NEW m \in PassType, Tidy(m.work), PassStep(p, m),
         Staged(m), NEW stored, stored = chunks, NEW after, after = chunks',
         m.alone => m.pc # "idle" /\ Lone(m, after),
         pass[p].alone /\ m.alone => \A s \in Listed : Covered(s, stored) => Covered(s, after)
  PROVE  LoneInv' /\ KeepsCovered
<1>1. /\ pass'[p] = m
      /\ \A q \in Passes \ {p} : pass'[q] = [pass[q] EXCEPT !.alone = FALSE]
  BY PassStepFacts DEF EmbedInv
<1>2. \A q \in Passes : pass[q] \in PassType  BY DEF EmbedInv, PassesInv
<1>3. ASSUME NEW q \in Passes \ {p}
      PROVE  /\ pass'[q].alone = FALSE /\ Staged(pass'[q])
  <2>1. PICK r \in PassType : r = pass[q]  BY <1>2
  <2>2. Staged(r)  BY <2>1 DEF LoneInv
  <2>3. [r EXCEPT !.alone = FALSE].alone = FALSE /\ Staged([r EXCEPT !.alone = FALSE])
    BY <2>2 DEF PassType, Staged
  <2> QED BY <1>1, <2>1, <2>3
<1>4. LoneInv'
  <2>1. SUFFICES ASSUME NEW q \in Passes, NEW r, r = pass'[q], NEW st, st = chunks'
                 PROVE  Staged(r) /\ (r.alone => r.pc # "idle" /\ Lone(r, st)')
    BY DEF LoneInv
  <2>2. CASE q # p
    BY <1>3, <2>1, <2>2
  <2>3. CASE q = p
    <3>1. r = m /\ st = after  BY <1>1, <2>1, <2>3
    <3>2. Lone(r, st)' <=> Lone(r, st)  BY SameSections
    <3> QED BY <3>1, <3>2
  <2> QED BY <2>2, <2>3
<1>5. KeepsCovered
  <2>1. SUFFICES ASSUME NEW q \in Passes, NEW s \in Sections, pass[q].alone, pass'[q].alone, sections[s] # None,
                        Covered(s, chunks)
                 PROVE  Covered(s, chunks')
    BY DEF KeepsCovered
  <2>2. q = p  BY <1>3, <2>1
  <2>3. pass[p].alone /\ m.alone /\ s \in Listed  BY <1>1, <2>1, <2>2 DEF Listed
  <2>4. Covered(s, stored)  BY <2>1
  <2>5. Covered(s, after)  BY <2>3, <2>4
  <2> QED BY <2>5
<1> QED BY <1>4, <1>5

(* A step that leaves sections, rows and passes alone. *)
LEMMA QuietLone ==
  ASSUME LoneInv, UNCHANGED <<sections, chunks, pass>>
  PROVE  LoneInv' /\ KeepsCovered
<1>1. LoneInv'
  <2>1. SUFFICES ASSUME NEW q \in Passes, NEW r, r = pass'[q], NEW st, st = chunks'
                 PROVE  Staged(r) /\ (r.alone => r.pc # "idle" /\ Lone(r, st)')
    BY DEF LoneInv
  <2>2. r = pass[q] /\ st = chunks  BY <2>1
  <2>3. Staged(r) /\ (r.alone => r.pc # "idle" /\ Lone(r, st))  BY <2>2 DEF LoneInv
  <2>4. Lone(r, st)' <=> Lone(r, st)  BY SameSections
  <2> QED BY <2>3, <2>4
<1>2. \A s, st : st = chunks => (Covered(s, chunks) => Covered(s, st))  OBVIOUS
<1>3. PICK st : st = chunks'  OBVIOUS
<1>4. st = chunks  BY <1>3
<1>5. KeepsCovered
  <2>1. \A s : Covered(s, chunks) => Covered(s, chunks')  BY <1>2, <1>3, <1>4
  <2> QED BY <2>1 DEF KeepsCovered
<1> QED BY <1>1, <1>5

(* A step after which no pass is alone. *)
LEMMA NobodyLone ==
  ASSUME \A p \in Passes : \A r \in {pass'[p]} : Staged(r) /\ r.alone = FALSE
  PROVE  LoneInv' /\ KeepsCovered
<1>1. LoneInv'  BY DEF LoneInv
<1>2. KeepsCovered  BY DEF KeepsCovered
<1> QED BY <1>1, <1>2

(* A pass that does not run has no work, *)
LEMMA IdleStaged == Staged(Idle) /\ Idle.alone = FALSE /\ Idle \in PassType /\ Tidy(Idle.work)
<1>1. Staged(Idle) /\ Idle.alone = FALSE  BY DEF Idle, Staged
<1> QED BY <1>1, IdleType

(* and nothing to keep when its run is over. *)
LEMMA IdleLone ==
  ASSUME EmbedInv, LoneInv, UNCHANGED sections, NEW p \in Passes, PassStep(p, Idle)
  PROVE  LoneInv' /\ KeepsCovered
<1>1. PICK stored, after : stored = chunks /\ after = chunks'  OBVIOUS
<1> QED BY <1>1, IdleStaged, PassStepLone

(* What is known of one pass. *)
LEMMA LoneOf ==
  ASSUME EmbedInv, LoneInv, NEW p \in Passes, NEW r, r = pass[p], NEW stored, stored = chunks
  PROVE  /\ r \in PassType /\ Tidy(r.work) /\ Staged(r) /\ (r.alone => r.pc # "idle" /\ Lone(r, stored))
         /\ stored \in SUBSET StoredChunk /\ SectionsType /\ PassesInv
<1>1. r \in PassType /\ Tidy(r.work)  BY RecordOf DEF EmbedInv
<1>2. Staged(r) /\ (r.alone => r.pc # "idle" /\ Lone(r, stored))  BY DEF LoneInv
<1> QED BY <1>1, <1>2 DEF EmbedInv

(* No pass runs at first. *)
LEMMA LoneInvInit == ASSUME Init PROVE LoneInv
<1>1. \A p \in Passes : pass[p] = Idle  BY DEF Init
<1> QED BY <1>1, IdleStaged DEF LoneInv

(* A batch that is done with, stored or given up. *)
LEMMA DoneLone ==
  ASSUME EmbedInv, LoneInv, UNCHANGED sections, NEW p \in Passes, At(p, "embed"), NEW i \in DOMAIN pass[p].work,
         NEW d \in BOOLEAN, Done(p, i, d),
         NEW new, new = {} \/ new = ToSet(pass[p].work[i].chunks), d \/ new = ToSet(pass[p].work[i].chunks),
         \A x \in new : x \in AllPieces /\ ~ Deep(x), chunks' = chunks \cup new
  PROVE  LoneInv' /\ KeepsCovered
<1>1. PICK r, stored : r = pass[p] /\ stored = chunks  OBVIOUS
<1>2. /\ r \in PassType /\ Tidy(r.work) /\ Staged(r) /\ (r.alone => r.pc # "idle" /\ Lone(r, stored))
      /\ stored \in SUBSET StoredChunk /\ SectionsType /\ PassesInv
  BY <1>1, LoneOf
<1>3. r.pc = "embed" /\ i \in DOMAIN r.work  BY <1>1 DEF At
<1>4. PICK m : DoneRecord(r, i, d, m) /\ PassStep(p, Onward(m))  BY <1>1, <1>2, DoneFacts
<1>5. /\ m \in PassType /\ Tidy(m.work)
      /\ m = [r EXCEPT !.work = m.work, !.deferred = m.deferred]
      /\ m.deferred = (r.deferred \/ d)
      /\ WorkSet(m.work) \subseteq WorkSet(r.work)
      /\ WorkSet(r.work) \ ToSet(r.work[i].chunks) \subseteq WorkSet(m.work)
      /\ WorkSet(m.work) \cap ToSet(r.work[i].chunks) \subseteq DeepChunks
  BY <1>4 DEF DoneRecord
<1>6. /\ new \in SUBSET WorkSet(r.work) /\ WorkSet(m.work) \cap new = {}
      /\ m.deferred \/ (m.deferred = r.deferred /\ WorkSet(r.work) \ new \subseteq WorkSet(m.work))
  <2>1. ToSet(r.work[i].chunks) \subseteq WorkSet(r.work)  BY <1>3 DEF WorkSet
  <2>2. new = {} \/ new = ToSet(r.work[i].chunks)  BY <1>1
  <2>3. WorkSet(m.work) \cap new = {}  BY <1>5, <2>2 DEF DeepChunks
  <2>4. r.deferred \in BOOLEAN  BY <1>2 DEF PassType
  <2>5. CASE d
    BY <1>5, <2>1, <2>2, <2>3, <2>5
  <2>6. CASE ~ d
    <3>1. new = ToSet(r.work[i].chunks)  BY <1>1, <2>6
    <3>2. m.deferred = r.deferred  BY <1>5, <2>4, <2>6
    <3> QED BY <1>5, <2>1, <2>3, <3>1, <3>2
  <2> QED BY <2>5, <2>6
<1>7. PICK after : after = chunks' /\ after = stored \cup new  BY <1>1
<1>8. r.alone => /\ InPage(m, after, m.offset + m.size)
                 /\ \A s \in Listed : Covered(s, stored) => Covered(s, after)
  <2>1. SUFFICES ASSUME r.alone
                 PROVE  /\ InPage(m, stored \cup new, m.offset + m.size)
                        /\ \A s \in Listed : Covered(s, stored) => Covered(s, stored \cup new)
    BY <1>7
  <2>2. Lone(r, stored) /\ SectionsType /\ Staged(r) /\ r.pc = "embed"  BY <1>2, <1>3, <2>1
  <2>3. WorkSet(m.work) \subseteq WorkSet(r.work) /\ m = [r EXCEPT !.work = m.work, !.deferred = m.deferred]  BY <1>5
  <2>4. stored \in SUBSET StoredChunk /\ r \in PassType /\ m \in PassType  BY <1>2, <1>5
  <2>5. \A x \in new : x \in AllPieces /\ ~ Deep(x)  OBVIOUS
  <2> QED BY <1>6, <2>2, <2>3, <2>4, <2>5, TakenLone
<1>9. m.alone = r.alone  BY <1>2, <1>5 DEF PassType
<1>10. PICK n : n = Onward(m)  OBVIOUS
<1>11. n \in PassType /\ Tidy(n.work) /\ n.alone = m.alone
  BY <1>5, <1>10, OnwardFacts
<1>12. n.alone => n.pc # "idle" /\ Lone(n, after)
  BY <1>5, <1>8, <1>9, <1>10, <1>11, OnwardLone
<1>13. Staged(n)
  <2>1. \/ m.stale # {} /\ n.pc = "delete"
        \/ m.stale = {} /\ m.work # << >> /\ n.pc = "embed"
        \/ m.stale = {} /\ m.work = << >> /\ n.pc = "page"
    BY <1>5, <1>10, OnwardFacts
  <2>2. n.stale = m.stale /\ n.work = m.work  BY <1>5, <1>10, OnwardFacts
  <2> QED BY <2>1, <2>2 DEF Staged
<1> QED BY <1>1, <1>4, <1>7, <1>8, <1>9, <1>10, <1>11, <1>12, <1>13, PassStepLone

-----------------------------------------------------------------------------
(* A lone pass completes and keeps what is covered *)

(* Going on leads to a stage with work. *)
LEMMA OnwardStaged ==
  ASSUME NEW m \in PassType
  PROVE  Staged(Onward(m))
<1>1. PICK n : n = Onward(m)  OBVIOUS
<1>2. n.stale = m.stale /\ n.work = m.work  BY <1>1, OnwardFacts
<1>3. \/ m.stale # {} /\ n.pc = "delete"
      \/ m.stale = {} /\ m.work # << >> /\ n.pc = "embed"
      \/ m.stale = {} /\ m.work = << >> /\ n.pc = "page"
  BY <1>1, OnwardFacts
<1>4. Staged(n)  BY <1>2, <1>3 DEF Staged
<1> QED BY <1>1, <1>4

(* A step that goes on in a page. *)
LEMMA OnwardStepLone ==
  ASSUME EmbedInv, LoneInv, UNCHANGED sections, NEW p \in Passes, NEW m \in PassType, Tidy(m.work),
         PassStep(p, Onward(m)), NEW stored, stored = chunks, NEW after, after = chunks',
         m.alone => InPage(m, after, m.offset + m.size),
         pass[p].alone /\ m.alone => \A s \in Listed : Covered(s, stored) => Covered(s, after)
  PROVE  LoneInv' /\ KeepsCovered
<1>1. PICK n : n = Onward(m)  OBVIOUS
<1>2. n \in PassType /\ Tidy(n.work) /\ n.alone = m.alone  BY <1>1, OnwardFacts
<1>3. Staged(n)  BY <1>1, OnwardStaged
<1>4. n.alone => n.pc # "idle" /\ Lone(n, after)  BY <1>1, <1>2, OnwardLone
<1> QED BY <1>1, <1>2, <1>3, <1>4, PassStepLone

(* Every step keeps the invariant, and keeps covered what is covered. *)
LEMMA LoneInvNext == ASSUME EmbedInv, LoneInv, [Next]_vars PROVE LoneInv' /\ KeepsCovered
<1>0. SectionsType /\ chunks \in SUBSET StoredChunk /\ PassesInv  BY DEF EmbedInv
<1>1. ASSUME NEW s \in Sections, NEW c \in Contents \cup {None}, ReplaceSection(s, c) PROVE LoneInv' /\ KeepsCovered
  <2>1. pass' = Disturbed(Passes)  BY <1>1 DEF ReplaceSection
  <2>2. \A p \in Passes : pass'[p] = [pass[p] EXCEPT !.alone = FALSE]  BY <1>0, <2>1, DisturbedFacts
  <2>3. \A p \in Passes : pass[p] \in PassType /\ Staged(pass[p])  BY <1>0, RecordOf DEF LoneInv
  <2>4. \A r \in PassType : Staged(r) => Staged([r EXCEPT !.alone = FALSE]) /\ [r EXCEPT !.alone = FALSE].alone = FALSE
    BY DEF Staged, PassType
  <2>5. \A p \in Passes : \A r \in {pass'[p]} : Staged(r) /\ r.alone = FALSE  BY <2>2, <2>3, <2>4
  <2> QED BY <2>5, NobodyLone
<1>1a. CASE SyncBegins
  <2>1. UNCHANGED <<sections, chunks, pass>>  BY <1>1a DEF SyncBegins
  <2> QED BY <2>1, QuietLone
<1>2. CASE SyncSucceeds
  <2>1. UNCHANGED <<sections, chunks, pass>>  BY <1>2 DEF SyncSucceeds
  <2> QED BY <2>1, QuietLone
<1>3. CASE SyncFails
  <2>1. UNCHANGED <<sections, chunks, pass>>  BY <1>3 DEF SyncFails
  <2> QED BY <2>1, QuietLone
<1>4. CASE EnqueueEnsure
  <2>1. UNCHANGED <<sections, chunks, pass>>  BY <1>4 DEF EnqueueEnsure
  <2> QED BY <2>1, QuietLone
<1>5. ASSUME NEW p \in Passes, Begin(p) PROVE LoneInv' /\ KeepsCovered
  <2>1. UNCHANGED <<sections, chunks>>  BY <1>5 DEF Begin
  <2>2. PICK m \in PassType :
            /\ PassStep(p, m) /\ Tidy(m.work)
            /\ m.pc = "page" /\ m.inventory = chunks /\ m.offset = 0
            /\ m.current = NoSections /\ m.stale = {} /\ m.work = << >>
    BY <1>5, BeginFacts
  <2>3. PICK stored : stored = chunks /\ stored = chunks'  BY <2>1
  <2>4. Staged(m) /\ Lone(m, stored)  BY <2>2, <2>3, BeginLone
  <2> QED BY <2>1, <2>2, <2>3, <2>4, PassStepLone
<1>6. ASSUME NEW p \in Passes, PageEnds(p) PROVE LoneInv' /\ KeepsCovered
  <2>1. PICK r, stored : r = pass[p] /\ stored = chunks  OBVIOUS
  <2>2. /\ r \in PassType /\ Tidy(r.work) /\ Staged(r) /\ (r.alone => r.pc # "idle" /\ Lone(r, stored))
        /\ stored \in SUBSET StoredChunk
    BY <2>1, LoneOf
  <2>3. UNCHANGED <<sections, chunks>> /\ r.pc = "page" /\ Page(r.offset) = << >> /\ PassStep(p, [r EXCEPT !.pc = "sweep"])
    BY <1>6, <2>1 DEF PageEnds, At
  <2>4. PICK m : m = [r EXCEPT !.pc = "sweep"]  OBVIOUS
  <2>5. m \in PassType /\ m.work = r.work /\ m.alone = r.alone /\ m.pc = "sweep" /\ m.stale = r.stale
    BY <2>2, <2>4 DEF PassType
  <2>6. Staged(m)  BY <2>2, <2>3, <2>5 DEF Staged
  <2>7. m.alone => m.pc # "idle" /\ Lone(m, stored)  BY <2>2, <2>3, <2>4, <2>5, PageEndsLone
  <2>8. stored = chunks'  BY <2>1, <2>3
  <2> QED BY <2>1, <2>2, <2>3, <2>4, <2>5, <2>6, <2>7, <2>8, PassStepLone
<1>7. ASSUME NEW p \in Passes, ReadPage(p) PROVE LoneInv' /\ KeepsCovered
  <2>1. PICK r, stored : r = pass[p] /\ stored = chunks  OBVIOUS
  <2>2. /\ r \in PassType /\ Tidy(r.work) /\ Staged(r) /\ (r.alone => r.pc # "idle" /\ Lone(r, stored))
        /\ stored \in SUBSET StoredChunk
    BY <2>1, LoneOf
  <2>3. UNCHANGED <<sections, chunks>> /\ r.pc = "page"  BY <1>7, <2>1 DEF ReadPage, At
  <2>4. PICK m : ReadRecord(r, m) /\ PassStep(p, Onward(m))  BY <1>0, <1>7, <2>1, ReadPageFacts
  <2>5. m \in PassType /\ Tidy(m.work) /\ m.alone = r.alone  BY <2>4 DEF ReadRecord
  <2>6. m.alone => InPage(m, stored, m.offset + m.size)  BY <1>0, <2>2, <2>3, <2>4, <2>5, ReadLone
  <2>7. stored = chunks'  BY <2>1, <2>3
  <2> QED BY <2>1, <2>3, <2>4, <2>5, <2>6, <2>7, OnwardStepLone
<1>8. ASSUME NEW p \in Passes, DeleteStale(p) PROVE LoneInv' /\ KeepsCovered
  <2>1. PICK r, stored, after : r = pass[p] /\ stored = chunks /\ after = chunks'  OBVIOUS
  <2>2. /\ r \in PassType /\ Tidy(r.work) /\ Staged(r) /\ (r.alone => r.pc # "idle" /\ Lone(r, stored))
        /\ stored \in SUBSET StoredChunk
    BY <2>1, LoneOf
  <2>3. UNCHANGED sections /\ r.pc = "delete" /\ r.stale # {}  BY <1>8, <2>1, <2>2 DEF DeleteStale, At, Staged
  <2>4. PICK d \in r.stale, m \in PassType :
            /\ after = {x \in stored : x.section # d \/ x.plan # Plan}
            /\ m = [r EXCEPT !.stale = m.stale] /\ m.stale = r.stale \ {d}
            /\ Tidy(m.work) /\ PassStep(p, Onward(m))
    BY <1>0, <1>8, <2>1, <2>3, DeleteFacts
  <2>5. m.alone = r.alone  BY <2>2, <2>4 DEF PassType
  <2>6. r.alone => /\ InPage(m, after, m.offset + m.size)
                   /\ \A s \in Listed : Covered(s, stored) => Covered(s, after)
    <3>1. SUFFICES ASSUME r.alone
                   PROVE  /\ InPage(m, after, m.offset + m.size)
                          /\ \A s \in Listed : Covered(s, stored) => Covered(s, after)
      OBVIOUS
    <3>2. Lone(r, stored)  BY <2>2, <3>1
    <3>3. SectionsType /\ r.pc = "delete"  BY <1>0, <2>3
    <3>4. r \in PassType /\ stored \in SUBSET StoredChunk  BY <2>2
    <3>5. DeleteRecord(r, stored, d, m, after)  BY <2>4 DEF DeleteRecord
    <3> QED BY <3>2, <3>3, <3>4, <3>5, DeleteLone
  <2> QED BY <2>1, <2>3, <2>4, <2>5, <2>6, OnwardStepLone
<1>9. ASSUME NEW p \in Passes, NEW i \in DOMAIN pass[p].work, At(p, "embed"), TooLong(p, i) PROVE LoneInv' /\ KeepsCovered
  <2>1. PICK r, stored : r = pass[p] /\ stored = chunks  OBVIOUS
  <2>2. /\ r \in PassType /\ Tidy(r.work) /\ Staged(r) /\ (r.alone => r.pc # "idle" /\ Lone(r, stored))
        /\ stored \in SUBSET StoredChunk
    BY <2>1, LoneOf
  <2>3. UNCHANGED <<sections, chunks>>  BY <1>0, <1>9, TooLongFacts
  <2>4. r.pc = "embed"  BY <1>9, <2>1 DEF At
  <2>5. \/ PassStep(p, Idle)
        \/ \E work \in Seq(BatchOf(WorkChunk)) :
              /\ Tidy(work) /\ Split(WorkSet(r.work), WorkSet(work))
              /\ PassStep(p, [r EXCEPT !.work = work])
    BY <1>0, <1>9, <2>1, TooLongFacts
  <2>6. CASE PassStep(p, Idle)
    BY <2>3, <2>6, IdleLone
  <2>7. ASSUME NEW work \in Seq(BatchOf(WorkChunk)), Tidy(work), Split(WorkSet(r.work), WorkSet(work)),
               PassStep(p, [r EXCEPT !.work = work])
        PROVE  LoneInv' /\ KeepsCovered
    <3>1. PICK m : m = [r EXCEPT !.work = work]  OBVIOUS
    <3>2. m \in PassType /\ m.work = work /\ m.alone = r.alone /\ m.pc = "embed" /\ m.stale = r.stale
      BY <2>2, <2>4, <3>1 DEF PassType
    <3>3. Staged(m)  BY <2>2, <2>4, <3>2 DEF Staged
    <3>4. m.alone => m.pc # "idle" /\ Lone(m, stored)
      <4>1. SUFFICES ASSUME m.alone PROVE Lone(m, stored)  BY <3>2
      <4>2. Lone(r, stored)  BY <2>2, <3>2, <4>1
      <4> QED BY <1>0, <2>2, <2>4, <2>7, <3>1, <4>2, SplitLone
    <3>5. stored = chunks'  BY <2>1, <2>3
    <3> QED BY <2>1, <2>3, <2>7, <3>1, <3>2, <3>3, <3>4, <3>5, PassStepLone
  <2> QED BY <2>5, <2>6, <2>7
<1>10. ASSUME NEW p \in Passes, NEW i \in DOMAIN pass[p].work, At(p, "embed"), EmbedAndStore(p, i) PROVE LoneInv' /\ KeepsCovered
  <2>1. UNCHANGED sections  BY <1>0, <1>10, StoresFacts
  <2>2. PICK new : /\ chunks' = chunks \cup new
                   /\ \A x \in new : x \in AllPieces /\ ~ Deep(x)
                   /\ \/ PassStep(p, Idle)
                      \/ Done(p, i, FALSE) /\ new = ToSet(pass[p].work[i].chunks)
    BY <1>0, <1>10, StoresFacts
  <2>3. CASE PassStep(p, Idle)
    BY <2>1, <2>3, IdleLone
  <2>4. CASE Done(p, i, FALSE) /\ new = ToSet(pass[p].work[i].chunks)
    BY <1>10, <2>1, <2>2, <2>4, DoneLone
  <2> QED BY <2>2, <2>3, <2>4
<1>11. ASSUME NEW p \in Passes, NEW i \in DOMAIN pass[p].work, At(p, "embed"), TimesOut(p, i) PROVE LoneInv' /\ KeepsCovered
  <2>1. UNCHANGED <<sections, chunks>> /\ Done(p, i, TRUE)  BY <1>11 DEF TimesOut
  <2>2. PICK new : new = {}  OBVIOUS
  <2>3. chunks' = chunks \cup new  BY <2>1, <2>2
  <2>4. PICK d \in BOOLEAN : d = TRUE  OBVIOUS
  <2>5. /\ Done(p, i, d) /\ UNCHANGED sections
        /\ new = {} \/ new = ToSet(pass[p].work[i].chunks)
        /\ d \/ new = ToSet(pass[p].work[i].chunks)
        /\ \A x \in new : x \in AllPieces /\ ~ Deep(x)
    BY <2>1, <2>2, <2>4
  <2>6. At(p, "embed")  BY <1>11
  <2> QED BY <2>3, <2>5, <2>6, DoneLone
<1>12. ASSUME NEW p \in Passes, NEW i \in DOMAIN pass[p].work, CallFails(p, i) PROVE LoneInv' /\ KeepsCovered
  <2>1. UNCHANGED sections /\ PassStep(p, Idle)  BY <1>0, <1>12, CallFailsFacts
  <2> QED BY <2>1, IdleLone
<1>13. ASSUME NEW p \in Passes, Sweep(p) PROVE LoneInv' /\ KeepsCovered
  <2>1. PICK r, stored, after : r = pass[p] /\ stored = chunks /\ after = chunks'  OBVIOUS
  <2>2. /\ r \in PassType /\ Tidy(r.work) /\ Staged(r) /\ (r.alone => r.pc # "idle" /\ Lone(r, stored))
        /\ stored \in SUBSET StoredChunk
    BY <2>1, LoneOf
  <2>3. /\ UNCHANGED sections /\ r.pc = "sweep" /\ PassStep(p, [r EXCEPT !.pc = "swept"])
        /\ after = {x \in stored : x.section \notin {y.section : y \in Orphans(r.current, r.inventory)}}
    BY <1>13, <2>1 DEF Sweep, At
  <2>4. PICK m : m = [r EXCEPT !.pc = "swept"]  OBVIOUS
  <2>5. m \in PassType /\ m.work = r.work /\ m.alone = r.alone /\ m.pc = "swept" /\ m.stale = r.stale
    BY <2>2, <2>4 DEF PassType
  <2>6. Staged(m)  BY <2>2, <2>3, <2>5 DEF Staged
  <2>7. m.alone => /\ m.pc # "idle" /\ Lone(m, after)
                   /\ \A s \in Listed : Covered(s, stored) => Covered(s, after)
    <3>1. SUFFICES ASSUME m.alone
                   PROVE  Lone(m, after) /\ \A s \in Listed : Covered(s, stored) => Covered(s, after)
      BY <2>5
    <3>2. Lone(r, stored)  BY <2>2, <2>5, <3>1
    <3> QED BY <1>0, <2>2, <2>3, <2>4, <3>2, SweepLone
  <2> QED BY <2>1, <2>2, <2>3, <2>4, <2>5, <2>6, <2>7, PassStepLone
<1>14. ASSUME NEW p \in Passes, QueueRetry(p) PROVE LoneInv' /\ KeepsCovered
  <2>1. UNCHANGED <<sections, chunks>> /\ pass' = [pass EXCEPT ![p].pc = "retried"] /\ At(p, "swept")  BY <1>14 DEF QueueRetry
  <2>2. pass' = [q \in Passes |-> IF q = p THEN [pass[q] EXCEPT !.pc = "retried"] ELSE pass[q]]
    BY <1>0, <2>1 DEF PassesInv
  <2>3. LoneInv'
    <3>1. SUFFICES ASSUME NEW q \in Passes, NEW m, m = pass'[q], NEW st, st = chunks'
                   PROVE  Staged(m) /\ (m.alone => m.pc # "idle" /\ Lone(m, st)')
      BY DEF LoneInv
    <3>2. PICK r : r = pass[q]  OBVIOUS
    <3>3. st = chunks  BY <2>1, <3>1
    <3>4. r \in PassType /\ Staged(r) /\ (r.alone => r.pc # "idle" /\ Lone(r, st))  BY <3>2, <3>3, LoneOf
    <3>5. CASE q # p
      <4>1. m = r  BY <2>2, <3>1, <3>2, <3>5
      <4>2. Lone(m, st)' <=> Lone(m, st)  BY <2>1, SameSections
      <4> QED BY <3>4, <4>1, <4>2
    <3>6. CASE q = p
      <4>1. m = [r EXCEPT !.pc = "retried"]  BY <2>2, <3>1, <3>2, <3>6
      <4>2. r.pc = "swept"  BY <2>1, <3>2, <3>6 DEF At
      <4>3. m.pc = "retried" /\ m.alone = r.alone /\ m.stale = r.stale /\ m.work = r.work  BY <3>4, <4>1 DEF PassType
      <4>4. Staged(m)  BY <3>4, <4>2, <4>3 DEF Staged
      <4>5. m.alone => m.pc # "idle" /\ Lone(m, st)  BY <3>4, <4>1, <4>2, <4>3, RetriedLone
      <4>6. Lone(m, st)' <=> Lone(m, st)  BY <2>1, SameSections
      <4> QED BY <4>4, <4>5, <4>6
    <3> QED BY <3>5, <3>6
  <2>4. KeepsCovered
    <3>1. PICK st : st = chunks'  OBVIOUS
    <3>2. st = chunks  BY <2>1, <3>1
    <3>3. \A s : Covered(s, chunks) => Covered(s, st)  BY <3>2
    <3>4. \A s : Covered(s, chunks) => Covered(s, chunks')  BY <3>1, <3>3
    <3> QED BY <3>4 DEF KeepsCovered
  <2> QED BY <2>3, <2>4
<1>15. ASSUME NEW p \in Passes, End(p) PROVE LoneInv' /\ KeepsCovered
  <2>1. UNCHANGED sections /\ PassStep(p, Idle)  BY <1>15 DEF End
  <2> QED BY <2>1, IdleLone
<1>15a. ASSUME NEW p \in Passes, StoreFails(p) PROVE LoneInv' /\ KeepsCovered
  <2>1. UNCHANGED sections /\ PassStep(p, Idle)  BY <1>15a DEF StoreFails, Fails
  <2> QED BY <2>1, IdleLone
<1>16. CASE Crash
  <2>1. pass' = [p \in Passes |-> Idle]  BY <1>16 DEF Crash
  <2>2. \A p \in Passes : \A r \in {pass'[p]} : Staged(r) /\ r.alone = FALSE  BY <2>1, IdleStaged
  <2> QED BY <2>2, NobodyLone
<1>17. CASE UNCHANGED vars
  <2>1. UNCHANGED <<sections, chunks, pass>>  BY <1>17 DEF vars
  <2> QED BY <2>1, QuietLone
<1>18. ASSUME NEW p \in Passes, EmbedBatch(p) PROVE LoneInv' /\ KeepsCovered
  BY <1>9, <1>10, <1>11, <1>12, <1>18 DEF EmbedBatch
<1> QED BY <1>1, <1>1a, <1>2, <1>3, <1>4, <1>5, <1>6, <1>7, <1>8, <1>13, <1>14, <1>15, <1>15a, <1>16, <1>17, <1>18
        DEF Next, SyncStep, EnsureStep

(* What a pass alone leaves behind, said of every pass at every moment: each listed section is not read yet, *)
(* or is to be redone, or is whole but for what still waits.                                                *)
THEOREM LoneInvHolds == Spec => [](EmbedInv /\ LoneInv)
<1>1. Init => EmbedInv /\ LoneInv  BY EmbedInvInit, LoneInvInit
<1>2. EmbedInv /\ LoneInv /\ [Next]_vars => (EmbedInv /\ LoneInv)'  BY EmbedInvNext, LoneInvNext
<1> QED BY <1>1, <1>2, PTL DEF Spec

(* A pass beside which nothing ran and which deferred nothing leaves every section embedded and no orphan. *)
THEOREM LonePassesComplete == Spec => []LonePassCompletes
<1>1. EmbedInv /\ LoneInv => LonePassCompletes
  <2>1. SUFFICES ASSUME EmbedInv, LoneInv, NEW p \in Passes, At(p, "swept"), pass[p].alone, ~ pass[p].deferred
                 PROVE  Embedded
    BY DEF LonePassCompletes
  <2>2. PICK r, stored : r = pass[p] /\ stored = chunks  OBVIOUS
  <2>3. /\ r \in PassType /\ Staged(r) /\ (r.alone => r.pc # "idle" /\ Lone(r, stored))
        /\ stored \in SUBSET StoredChunk /\ SectionsType
    BY <2>1, <2>2, LoneOf
  <2>4. r.pc = "swept" /\ ~ r.deferred /\ r.work = << >> /\ r.stale = {} /\ Lone(r, stored)
    BY <2>1, <2>2, <2>3 DEF At, Staged
  <2>5. WorkSet(r.work) = {}
    <3>1. DOMAIN << >> = {}  OBVIOUS
    <3> QED BY <2>4, <3>1 DEF WorkSet
  <2>6. ~ Blocked(r) /\ \A s : WorkOf(s, r.work) = {}  BY <2>4, <2>5 DEF Blocked, WorkOf
  <2>7. ASSUME NEW s \in Listed PROVE Covered(s, stored)
    <3>1. s \in Sections /\ sections[s] \in Contents  BY <2>3, ListedContents
    <3>2. Rank(s) < Reach(r) /\ StateOf(s, r, stored, Reach(r))  BY <2>4, <3>1 DEF Lone, InPage
    <3>3. Kept(s, r, stored)  BY <2>4, <3>2 DEF StateOf, Read
    <3> QED BY <2>3, <2>6, <3>1, <3>3, KeptIsCovered
  <2>8. \A x \in stored : sections[x.section] # None  BY <2>4 DEF Lone, Listed
  <2>9. \A s \in Sections : sections[s] # None => Covered(s, chunks)  BY <2>2, <2>7 DEF Listed
  <2> QED BY <2>2, <2>8, <2>9 DEF Embedded
<1> QED BY <1>1, LoneInvHolds, PTL

(* A pass that runs alone never touches the embeddings of a section that is covered. *)
THEOREM LonePassesKeepCovered == Spec => LonePassKeepsCovered
<1>1. EmbedInv /\ LoneInv /\ [Next]_vars
      => [\A p \in Passes, s \in Sections :
             /\ pass[p].alone /\ pass'[p].alone /\ sections[s] # None
             /\ Covered(s, chunks)
             => Covered(s, chunks')]_vars
  BY LoneInvNext DEF KeepsCovered
<1> QED BY <1>1, LoneInvHolds, PTL DEF Spec, LonePassKeepsCovered

==============================================================================
