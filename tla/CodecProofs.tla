----------------------------- MODULE CodecProofs -----------------------------
(***************************************************************************)
(* The ring file, the requests and the form of the portal, the records it  *)
(* saves and the text of a punch: for any disk, any request in any split,  *)
(* any form, name, password, token and key, any time and any number.       *)
(***************************************************************************)
EXTENDS Codec, TLAPS, NaturalsInduction, WellFoundedInduction, FiniteSetTheorems, SequenceTheorems

(***************************************************************************)
(* Induction and recursion.  The definitions of the model recur on numbers *)
(* and, in the folds, on finite sets; what they compute is proved by       *)
(* induction over sets of numbers.                                         *)
(***************************************************************************)

\* A set of naturals that has a member has a least one.
LEMMA LeastOf ==
    ASSUME NEW T \in SUBSET Nat, T # {}
    PROVE  \E x \in T : \A y \in T : x <= y
<1>1. PICK x \in T : \A y \in T : ~(<<y, x>> \in OpToRel(<, Nat))
  BY WFMin, NatLessThanWellFounded, Zenon
<1>2. \A y \in T : ~(y < x)
  BY <1>1 DEF OpToRel
<1> QED
  BY <1>2

\* A set with 0 and with every successor of its members holds all naturals.
LEMMA Induction ==
    ASSUME NEW S \in SUBSET Nat, 0 \in S, \A n \in S : n + 1 \in S
    PROVE  S = Nat
<1> SUFFICES ASSUME Nat \ S # {} PROVE FALSE
  OBVIOUS
<1>1. PICK x \in Nat \ S : \A y \in Nat \ S : x <= y
  BY LeastOf
<1>2. x - 1 \in Nat /\ x - 1 \notin Nat \ S
  BY <1>1
<1> QED
  BY <1>1, <1>2

\* Outside ends, x recurs to back[x], which is of lower rank.
Recurs(D, V, base, ends, rank, back, step) ==
    /\ base \in V /\ ends \subseteq D
    /\ rank \in [D -> Nat] /\ back \in [D -> D] /\ step \in [D \X V -> V]
    /\ \A x \in D \ ends : rank[back[x]] < rank[x]

\* A function whose value is computed from its value at a place of lower rank
\* exists: a recursive definition of it means what it says.
LEMMA Recursion ==
    ASSUME NEW D, NEW V, NEW base, NEW ends, NEW rank, NEW back, NEW step,
           Recurs(D, V, base, ends, rank, back, step)
    PROVE  \E f \in [D -> V] :
              f = [x \in D |-> IF x \in ends THEN base ELSE step[<<x, f[back[x]]>>]]
<1> USE DEF Recurs
<1> DEFINE Upto(n) == {x \in D : rank[x] <= n}
           Ok(g, n) == \A x \in Upto(n) : g[x] = IF x \in ends THEN base ELSE step[<<x, g[back[x]]>>]
           S == {n \in Nat : \E g \in [Upto(n) -> V] : Ok(g, n)}
<1>0. \A x \in D : rank[x] \in Nat /\ back[x] \in D
  OBVIOUS
<1>1. S = Nat
  <2>1. 0 \in S
    <3> DEFINE g == [x \in Upto(0) |-> base]
    <3>1. g \in [Upto(0) -> V]
      OBVIOUS
    <3>2. ASSUME NEW x \in Upto(0) PROVE x \in ends
      <4>1. x \in D /\ rank[x] <= 0
        OBVIOUS
      <4> QED BY <4>1, <1>0
    <3>3. Ok(g, 0)
      BY <3>2
    <3> QED BY <3>1, <3>3
  <2>2. ASSUME NEW n \in S PROVE n + 1 \in S
    <3>1. PICK g \in [Upto(n) -> V] : Ok(g, n)
      OBVIOUS
    <3>2. n \in Nat /\ n + 1 \in Nat
      OBVIOUS
    <3> DEFINE h == [x \in Upto(n + 1) |-> IF rank[x] <= n THEN g[x]
                                           ELSE IF x \in ends THEN base ELSE step[<<x, g[back[x]]>>]]
    <3>3. ASSUME NEW x \in Upto(n + 1), x \notin ends PROVE back[x] \in Upto(n) /\ g[back[x]] \in V
      <4>1. x \in D /\ rank[x] <= n + 1 /\ rank[x] \in Nat /\ back[x] \in D /\ rank[back[x]] \in Nat
        BY <1>0
      <4>2. rank[back[x]] < rank[x]
        BY <3>3, <4>1
      <4>3. rank[back[x]] <= n
        BY <4>1, <4>2, <3>2
      <4> QED BY <4>1, <4>3, <3>1
    <3>4. h \in [Upto(n + 1) -> V]
      <4> SUFFICES ASSUME NEW x \in Upto(n + 1) PROVE h[x] \in V
        OBVIOUS
      <4>1. CASE rank[x] <= n
        <5>1. x \in Upto(n)
          BY <4>1
        <5> QED BY <5>1, <4>1, <3>1
      <4>2. CASE ~(rank[x] <= n) /\ x \notin ends
        <5>1. <<x, g[back[x]]>> \in D \X V
          BY <4>2, <3>3
        <5> QED BY <5>1, <4>2
      <4>3. CASE ~(rank[x] <= n) /\ x \in ends
        BY <4>3
      <4> QED BY <4>1, <4>2, <4>3
    <3>5. \A x \in Upto(n) : x \in Upto(n + 1) /\ h[x] = g[x]
      <4> SUFFICES ASSUME NEW x \in Upto(n) PROVE x \in Upto(n + 1) /\ h[x] = g[x]
        OBVIOUS
      <4>1. x \in D /\ rank[x] <= n /\ rank[x] \in Nat
        BY <1>0
      <4>2. x \in Upto(n + 1)
        BY <4>1, <3>2
      <4> QED BY <4>1, <4>2
    <3>6. ASSUME NEW x \in Upto(n + 1)
          PROVE  h[x] = IF x \in ends THEN base ELSE step[<<x, h[back[x]]>>]
      <4>1. x \notin ends => h[back[x]] = g[back[x]]
        BY <3>3, <3>5
      <4>2. CASE rank[x] <= n
        <5>1. x \in Upto(n) /\ h[x] = g[x]
          BY <4>2, <3>5
        <5>2. g[x] = IF x \in ends THEN base ELSE step[<<x, g[back[x]]>>]
          BY <5>1, <3>1
        <5> HIDE DEF h
        <5> QED BY <4>1, <5>1, <5>2
      <4>3. CASE ~(rank[x] <= n)
        <5>1. h[x] = IF x \in ends THEN base ELSE step[<<x, g[back[x]]>>]
          BY <4>3
        <5> HIDE DEF h
        <5> QED BY <4>1, <5>1
      <4> QED BY <4>2, <4>3
    <3> HIDE DEF h
    <3>7. Ok(h, n + 1)
      BY <3>6
    <3> QED BY <3>2, <3>4, <3>7
  <2>3. S \in SUBSET Nat
    OBVIOUS
  <2> HIDE DEF S
  <2> QED BY <2>1, <2>2, <2>3, Induction
<1>2. ASSUME NEW n \in Nat, NEW k \in Nat, n <= k, NEW g, NEW h, Ok(g, n), Ok(h, k), NEW x \in Upto(n)
      PROVE  g[x] = h[x]
  <2> DEFINE T == {r \in Nat : \E y \in Upto(n) : rank[y] = r /\ g[y] # h[y]}
  <2> SUFFICES ASSUME g[x] # h[x] PROVE FALSE
    OBVIOUS
  <2>0. T \in SUBSET Nat /\ T # {}
    <3>1. rank[x] \in T
      BY <1>0
    <3> QED BY <3>1
  <2>1. PICK r \in T : \A q \in T : r <= q
    <3> HIDE DEF T
    <3> QED BY <2>0, LeastOf
  <2>2. PICK y \in Upto(n) : rank[y] = r /\ g[y] # h[y]
    OBVIOUS
  <2>3. y \in D /\ rank[y] <= n /\ y \in Upto(k) /\ r \in Nat
    BY <1>0, <1>2, <2>2
  <2>4. y \notin ends
    BY <2>2, <2>3, <1>2
  <2>5. back[y] \in D /\ rank[back[y]] \in Nat /\ rank[back[y]] < r
    BY <2>2, <2>3, <2>4, <1>0
  <2>6. back[y] \in Upto(n)
    BY <2>2, <2>3, <2>5
  <2>7. rank[back[y]] \notin T
    BY <2>1, <2>3, <2>5
  <2>8. g[back[y]] = h[back[y]]
    BY <2>5, <2>6, <2>7
  <2> QED BY <1>2, <2>2, <2>3, <2>4, <2>8
<1> DEFINE G(n) == CHOOSE g \in [Upto(n) -> V] : Ok(g, n)
<1>3. ASSUME NEW n \in Nat PROVE G(n) \in [Upto(n) -> V] /\ Ok(G(n), n)
  <2>1. \E g \in [Upto(n) -> V] : Ok(g, n)
    BY <1>1
  <2> HIDE DEF Ok
  <2> QED BY <2>1
<1>31. \A x \in D : rank[x] \in Nat /\ x \in Upto(rank[x])
  BY <1>0
<1> HIDE DEF G
<1> DEFINE f == [x \in D |-> G(rank[x])[x]]
<1>4. f \in [D -> V]
  <2> HIDE DEF Ok, Upto
  <2>1. \A x \in D : G(rank[x]) \in [Upto(rank[x]) -> V] /\ x \in Upto(rank[x])
    BY <1>3, <1>31
  <2> QED BY <2>1
<1>5. ASSUME NEW x \in D PROVE f[x] = IF x \in ends THEN base ELSE step[<<x, f[back[x]]>>]
  <2> DEFINE n == rank[x]
  <2>1. f[x] = IF x \in ends THEN base ELSE step[<<x, G(n)[back[x]]>>]
    <3>1. Ok(G(n), n) /\ x \in Upto(n) /\ f[x] = G(n)[x]
      <4> HIDE DEF Ok, Upto
      <4> QED BY <1>3, <1>31
    <3> HIDE DEF f
    <3> QED BY <3>1
  <2>2. CASE x \in ends
    BY <2>1, <2>2
  <2>3. CASE x \notin ends
    <3> DEFINE y == back[x]
               k == rank[y]
    <3>1. y \in D /\ k \in Nat /\ n \in Nat /\ k <= n /\ y \in Upto(k)
      BY <2>3, <1>0
    <3>2. Ok(G(n), n) /\ Ok(G(k), k)
      BY <1>3, <3>1
    <3> HIDE DEF Ok, Upto
    <3>3. G(k)[y] = G(n)[y]
      BY <3>1, <3>2, <1>2
    <3>4. f[y] = G(k)[y]
      BY <3>1
    <3> QED BY <2>1, <2>3, <3>3, <3>4
  <2> QED BY <2>2, <2>3
<1> HIDE DEF f
<1>6. f = [x \in D |-> IF x \in ends THEN base ELSE step[<<x, f[back[x]]>>]]
  BY <1>4, <1>5
<1> QED BY <1>4, <1>6

(***************************************************************************)
(* The blocks of a file                                                    *)
(***************************************************************************)

\* Rounding up: the fewest portions of b that make a.
LEMMA CeilDivLeast ==
    ASSUME NEW a \in Nat, NEW b \in Nat \ {0}
    PROVE  /\ CeilDiv(a, b) \in Nat
           /\ CeilDiv(a, b) * b >= a
           /\ \A k \in Nat : k * b >= a => CeilDiv(a, b) <= k
<1> DEFINE c == CeilDiv(a, b)
<1>1. c \in Nat /\ a + b - 1 - b * c \in 0 .. b - 1
  BY Z3 DEF CeilDiv
<1>2. c * b >= a
  BY <1>1, Z3
<1>3. ASSUME NEW k \in Nat, k * b >= a PROVE c <= k
  <2> SUFFICES ASSUME k + 1 <= c PROVE FALSE
    BY <1>1
  <2>1. (k + 1) * b <= c * b
    BY <1>1, Z3
  <2>2. (k + 1) * b = k * b + b
    BY Z3
  <2>3. b * c <= a + b - 1 /\ b * c = c * b
    BY <1>1, Z3
  <2>4. k * b \in Nat /\ c * b \in Nat
    BY <1>1, Z3
  <2> HIDE DEF c
  <2> QED BY <1>3, <2>1, <2>2, <2>3, <2>4
<1> QED BY <1>1, <1>2, <1>3

\* Whole portions divide without a remainder.
LEMMA CeilDivWhole ==
    ASSUME NEW b \in Nat \ {0}, NEW k \in Nat
    PROVE  CeilDiv(b * k, b) = k
<1>1. b * k \in Nat /\ b * k = k * b
  BY Z3
<1>2. CeilDiv(b * k, b) <= k /\ CeilDiv(b * k, b) \in Nat /\ CeilDiv(b * k, b) * b >= b * k
  BY <1>1, CeilDivLeast
<1> DEFINE c == CeilDiv(b * k, b)
<1> HIDE DEF c
<1>3. ASSUME c + 1 <= k PROVE FALSE
  <2>1. (c + 1) * b <= k * b
    BY <1>3, <1>2, Z3 DEF c
  <2>2. (c + 1) * b = c * b + b /\ c * b \in Nat
    BY <1>2, Z3 DEF c
  <2> QED BY <1>1, <1>2, <2>1, <2>2 DEF c
<1> QED BY <1>2, <1>3 DEF c

\* littlefs's pointers, as their recursive definition counts them.
LEMMA PointersMeaning ==
    /\ Pointers \in [Nat -> Nat]
    /\ \A m \in Nat : Pointers[m] = IF m = 0 THEN 0 ELSE m + Pointers[m \div 2]
<1> DEFINE back == [n \in Nat |-> n \div 2]
           rank == [n \in Nat |-> n]
           step == [p \in Nat \X Nat |-> p[1] + p[2]]
<1>1. Recurs(Nat, Nat, 0, {0}, rank, back, step)
  <2>1. back \in [Nat -> Nat] /\ rank \in [Nat -> Nat] /\ step \in [Nat \X Nat -> Nat]
    OBVIOUS
  <2>2. \A n \in Nat \ {0} : rank[back[n]] < rank[n]
    OBVIOUS
  <2> HIDE DEF back, rank, step
  <2> QED BY <2>1, <2>2 DEF Recurs
<1>2. PICK f \in [Nat -> Nat] : f = [n \in Nat |-> IF n \in {0} THEN 0 ELSE step[<<n, f[back[n]]>>]]
  <2> HIDE DEF back, rank, step
  <2> QED BY <1>1, Recursion
<1>3. f = [m \in Nat |-> IF m = 0 THEN 0 ELSE m + f[m \div 2]]
  <2>1. ASSUME NEW m \in Nat PROVE f[m] = IF m = 0 THEN 0 ELSE m + f[m \div 2]
    <3>1. f[m] = IF m \in {0} THEN 0 ELSE step[<<m, f[back[m]]>>]
      BY <1>2
    <3>2. back[m] = m \div 2 /\ m \div 2 \in Nat /\ f[m \div 2] \in Nat
      OBVIOUS
    <3>3. step[<<m, f[m \div 2]>>] = m + f[m \div 2]
      BY <3>2
    <3> HIDE DEF step, back
    <3> QED BY <3>1, <3>2, <3>3
  <2> QED BY <2>1
<1>4. Pointers = [m \in Nat |-> IF m = 0 THEN 0 ELSE m + Pointers[m \div 2]]
  BY <1>3, Zenon DEF Pointers
<1>5. \A m \in Nat : Pointers[m] = IF m = 0 THEN 0 ELSE m + Pointers[m \div 2]
  BY <1>4
<1>6. ASSUME NEW m \in Nat PROVE Pointers[m] = f[m]
  <2> DEFINE T == {k \in Nat : Pointers[k] # f[k]}
  <2> SUFFICES ASSUME T # {} PROVE FALSE
    OBVIOUS
  <2>1. PICK k \in T : \A j \in T : k <= j
    BY LeastOf
  <2>2. k # 0 /\ k \in Nat
    BY <1>3, <1>5
  <2>3. k \div 2 \in Nat /\ k \div 2 < k
    BY <2>2
  <2>4. k \div 2 \notin T
    BY <2>1, <2>3
  <2>5. Pointers[k \div 2] = f[k \div 2]
    BY <2>3, <2>4
  <2>6. f[k] = k + f[k \div 2]
    BY <1>3, <2>2
  <2>7. Pointers[k] = k + Pointers[k \div 2]
    BY <1>5, <2>2
  <2> QED BY <2>5, <2>6, <2>7
<1> QED BY <1>4, <1>5, <1>6

\* At most two pointers a block: the bound kLfsCtzOverheadPerBlock takes.
LEMMA PointersBound ==
    ASSUME NEW m \in Nat
    PROVE  Pointers[m] \in 0 .. 2 * m
<1> DEFINE T == {k \in Nat : ~(Pointers[k] <= 2 * k)}
<1>0. Pointers[m] \in Nat
  BY PointersMeaning
<1> SUFFICES ASSUME T # {} PROVE FALSE
  BY <1>0
<1>1. PICK k \in T : \A j \in T : k <= j
  BY LeastOf
<1>2. k \in Nat \ {0} /\ Pointers[k] = k + Pointers[k \div 2]
  BY PointersMeaning
<1>3. k \div 2 \in Nat /\ k \div 2 < k /\ 2 * (k \div 2) <= k
  BY <1>2
<1>4. Pointers[k \div 2] \in Nat /\ Pointers[k \div 2] <= 2 * (k \div 2)
  BY <1>1, <1>3, PointersMeaning
<1> QED BY <1>2, <1>3, <1>4

LEMMA HoldsBounds ==
    ASSUME NEW bs \in Nat, bs > CtzOverhead, NEW n \in Nat \ {0}
    PROVE  /\ Holds(bs, n) \in Int
           /\ n * (bs - CtzOverhead) <= Holds(bs, n)
           /\ Holds(bs, n) <= n * bs
<1>1. n - 1 \in Nat /\ Pointers[n - 1] \in 0 .. 2 * (n - 1)
  BY PointersBound
<1>2. n * (bs - 8) = n * bs - 8 * n /\ n * bs \in Nat
  BY Z3
<1> QED BY <1>1, <1>2 DEF Holds, CtzOverhead

\* What BlocksOf chooses, between the blocks it would take without pointers
\* and what the code reckons with.
LEMMA BlocksOfBounds ==
    ASSUME NEW bs \in Nat, bs > CtzOverhead, NEW bytes \in Nat
    PROVE  /\ BlocksOf(bs, bytes) \in Nat
           /\ BlocksOf(bs, bytes) <= CeilDiv(bytes, bs - CtzOverhead)
           /\ bytes \div bs <= BlocksOf(bs, bytes)
<1>0. bs - CtzOverhead \in Nat \ {0} /\ bs \in Nat \ {0}
  BY DEF CtzOverhead
<1>1. CASE bytes = 0
  <2>1. CeilDiv(0, bs - CtzOverhead) \in Nat
    BY <1>0, CeilDivLeast
  <2>2. bytes \div bs = 0
    BY <1>0, <1>1, Z3
  <2> QED BY <1>1, <2>1, <2>2 DEF BlocksOf
<1>2. CASE bytes \in Nat \ {0}
  <2> DEFINE Fits(n) == Holds(bs, n) >= bytes
             T == {n \in 1 .. bytes : Fits(n)}
             Least(n) == Fits(n) /\ \A k \in 1 .. n - 1 : Holds(bs, k) < bytes
             b == BlocksOf(bs, bytes)
             c == CeilDiv(bytes, bs - CtzOverhead)
  <2>1. bytes \in T
    <3>1. bytes * (bs - CtzOverhead) >= bytes
      BY <1>0, Z3
    <3>2. bytes * (bs - CtzOverhead) \in Nat
      BY <1>0, Z3
    <3> QED BY <1>2, <3>1, <3>2, HoldsBounds
  <2>2. PICK n \in T : \A k \in T : n <= k
    <3>1. T \in SUBSET Nat /\ T # {}
      BY <2>1
    <3> HIDE DEF T
    <3> QED BY <3>1, LeastOf
  <2>3. Least(n) /\ n \in 1 .. bytes
    <3>1. ASSUME NEW k \in 1 .. n - 1 PROVE Holds(bs, k) < bytes
      <4>1. k \in 1 .. bytes /\ ~(n <= k) /\ k \in Nat \ {0}
        OBVIOUS
      <4>2. k \notin T
        BY <2>2, <4>1
      <4> QED BY <4>1, <4>2, HoldsBounds
    <3> QED BY <3>1
  <2>4. b \in 1 .. bytes /\ Least(b)
    <3>1. b = CHOOSE m \in 1 .. bytes : Least(m)
      BY <1>2 DEF BlocksOf
    <3> HIDE DEF Least, b
    <3> QED BY <2>3, <3>1
  <2>5. b <= c
    <3>1. c \in Nat /\ c * (bs - CtzOverhead) >= bytes
      BY <1>0, CeilDivLeast
    <3>2. c # 0
      <4> HIDE DEF c
      <4>1. 0 * (bs - CtzOverhead) = 0
        BY <1>0
      <4> QED BY <1>2, <3>1, <4>1
    <3>3. Holds(bs, c) \in Int /\ Holds(bs, c) >= c * (bs - CtzOverhead) /\ c * (bs - CtzOverhead) \in Int
      BY <3>1, <3>2, HoldsBounds DEF CtzOverhead
    <3>4. Holds(bs, c) >= bytes
      BY <3>1, <3>3
    <3>5. ~(c \in 1 .. b - 1)
      BY <2>4, <3>3, <3>4
    <3> QED BY <2>4, <3>1, <3>2, <3>5
  <2>6. bytes \div bs <= b
    <3>1. b \in Nat \ {0} /\ Holds(bs, b) \in Int /\ Holds(bs, b) <= b * bs /\ Holds(bs, b) >= bytes /\ b * bs \in Nat
      BY <2>4, HoldsBounds
    <3>2. b * bs >= bytes
      BY <3>1
    <3> HIDE DEF b
    <3>3. bytes \div bs \in Nat /\ bs * (bytes \div bs) <= bytes
      BY <1>0, Z3
    <3>4. ASSUME b + 1 <= bytes \div bs PROVE FALSE
      <4>1. bs * (b + 1) <= bs * (bytes \div bs)
        BY <1>0, <3>1, <3>3, <3>4, Z3
      <4>2. bs * (b + 1) = b * bs + bs
        BY <3>1, Z3
      <4> QED BY <1>0, <3>1, <3>2, <3>3, <4>1, <4>2
    <3> QED BY <3>1, <3>3, <3>4
  <2> QED BY <2>4, <2>5, <2>6
<1> QED BY <1>1, <1>2
(***************************************************************************)
(* The ring file                                                           *)
(***************************************************************************)

\* littlefs can write the ring file once more, in a second copy of its blocks.
Room(fs) ==
    fs.meta + BlocksOf(fs.bs, fs.size) + CeilDiv(fs.size, fs.bs - CtzOverhead) + RingSlackBlocks
      <= fs.blocks

FS == [bs : {b \in Nat : b > CtzOverhead}, blocks : Nat, meta : Nat, size : Nat \cup {Absent},
       cursors : {{}, {<<3, 3>>}, {<<3, 2>>}}]

FileTypes ==
    st \in [done : {FALSE}, boots : Nat, existing : Nat, cap : Nat,
            unsent : {"none", "kept", "lost"}, blind : BOOLEAN, clean : BOOLEAN,
            at : {"begin", "sized", "filling", "filled", "opened", "failed"},
            fs : FS]

\* A file that holds a punch has a ring's size, and cursors that say so unless
\* they are gone.  Cursors that say so of a file that holds none are those of a
\* file that is gone, and outlived the power cut in create(), or its remove():
\* the new file is one that was sized here.
HoldsInv ==
    /\ st.unsent = "kept" => st.fs.size >= MinBytes /\ st.fs.cursors \in {{}, {<<3, 2>>}}
    /\ st.unsent # "kept" /\ st.fs.cursors = {<<3, 2>>} /\ st.fs.size >= MinBytes => Room(st.fs)
    /\ st.unsent = "lost" => st.blind

\* What each step of begin() has established for the next.
StepInv ==
    /\ st.at = "begin" => (st.clean <=> st.unsent # "kept")
    /\ st.at = "sized" =>
         /\ st.existing = 0 \/ st.existing = st.fs.size
         /\ st.existing >= MinBytes /\ st.clean => Room(st.fs)
         /\ st.existing < MinBytes /\ st.unsent = "kept" => st.blind
    /\ st.at \in {"filling", "filled"} =>
         /\ st.unsent # "kept" /\ st.clean /\ st.cap >= MinBytes
         /\ st.cap = (st.cap \div RecordBytes) * RecordBytes
         /\ st.fs.meta + 2 * CeilDiv(st.cap, st.fs.bs - CtzOverhead) + RingSlackBlocks <= st.fs.blocks
    /\ st.at = "filled" => st.fs.size = st.cap
    /\ st.at = "opened" =>
         /\ st.cap \in MinBytes .. st.fs.size /\ (st.clean => Room(st.fs))
         /\ st.cap = (st.fs.size \div RecordBytes) * RecordBytes

FileInv == job.op = "file" => FileTypes /\ HoldsInv /\ StepInv

LEMMA MaxOfTwo ==
    ASSUME NEW a, NEW b, a \in Int, b \in Int
    PROVE  Max({a, b}) = IF a >= b THEN a ELSE b
<1> DEFINE m == IF a >= b THEN a ELSE b
<1>1. m \in {a, b} /\ \A y \in {a, b} : m >= y
  OBVIOUS
<1>2. \A x \in {a, b} : (\A y \in {a, b} : x >= y) => x = m
  OBVIOUS
<1> HIDE DEF m
<1> QED BY <1>1, <1>2 DEF Max, m

LEMMA MinOfTwo ==
    ASSUME NEW a, NEW b, a \in Int, b \in Int
    PROVE  Min({a, b}) = IF a <= b THEN a ELSE b
<1> DEFINE m == IF a <= b THEN a ELSE b
<1>1. m \in {a, b} /\ \A y \in {a, b} : m <= y
  OBVIOUS
<1>2. \A x \in {a, b} : (\A y \in {a, b} : x <= y) => x = m
  OBVIOUS
<1> HIDE DEF m
<1> QED BY <1>1, <1>2 DEF Min, m

LEMMA MinBytesPositive == MinBytes \in Nat \ {0} /\ MinBytes = 60 * RingMinRecords
  BY RingFileAssumption DEF MinBytes, RecordBytes

\* The block counts of a file system, as begin() works them out of usedBytes().
LEMMA Usage ==
    ASSUME NEW fs \in FS
    PROVE  /\ BlocksOf(fs.bs, fs.size) \in Nat
           /\ CeilDiv(UsedBytes(fs), fs.bs) = fs.meta + BlocksOf(fs.bs, fs.size)
           /\ existingSize(fs) = {0, IF fs.size = Absent THEN 0 ELSE fs.size}
           /\ \A n \in existingSize(fs) : n \in Nat /\ n \div fs.bs \in Nat
                                         /\ n \div fs.bs <= BlocksOf(fs.bs, fs.size)
<1>1. fs.bs \in Nat \ {0} /\ fs.bs > CtzOverhead /\ fs.meta \in Nat /\ fs.size \in Nat \cup {Absent}
  BY DEF FS, CtzOverhead
<1> DEFINE n == IF fs.size = Absent THEN 0 ELSE fs.size
<1>2. existingSize(fs) = {0, n}
  <2>1. Max({fs.size, 0}) = n
    BY <1>1, MaxOfTwo DEF Absent
  <2> QED BY <2>1 DEF existingSize
<1>6. 0 \div fs.bs = 0
  BY <1>1, Z3
<1>3. BlocksOf(fs.bs, fs.size) \in Nat /\ n \div fs.bs <= BlocksOf(fs.bs, fs.size)
  <2>1. CASE fs.size \in Nat
    BY <2>1, <1>1, BlocksOfBounds DEF Absent
  <2>2. CASE fs.size = Absent
    <3>1. BlocksOf(fs.bs, fs.size) = 0
      BY <2>2 DEF BlocksOf, Absent
    <3> QED BY <1>6, <2>2, <3>1
  <2> QED BY <1>1, <2>1, <2>2
<1>4. n \in Nat /\ n \div fs.bs \in Nat
  <2>1. n \in Nat
    BY <1>1
  <2> QED BY <1>1, <2>1, Z3
<1>5. CeilDiv(UsedBytes(fs), fs.bs) = fs.meta + BlocksOf(fs.bs, fs.size)
  <2>1. fs.meta + BlocksOf(fs.bs, fs.size) \in Nat
    BY <1>1, <1>3
  <2> QED BY <1>1, <2>1, CeilDivWhole DEF UsedBytes
<1> HIDE DEF n
<1>7. \A x \in {0, n} : x \in Nat /\ x \div fs.bs \in Nat /\ x \div fs.bs <= BlocksOf(fs.bs, fs.size)
  BY <1>3, <1>4, <1>6
<1> QED BY <1>2, <1>3, <1>5, <1>7 DEF n

\* ringFileRewritable() leaves room.
LEMMA RewritableRoom ==
    ASSUME NEW fs \in FS, fs.size \in Nat, Rewritable(fs, fs.size)
    PROVE  Room(fs)
<1>1. CeilDiv(UsedBytes(fs), fs.bs) = fs.meta + BlocksOf(fs.bs, fs.size)
  BY Usage
<1>2. BlocksOf(fs.bs, fs.size) \in Nat /\ fs.meta \in Nat /\ fs.blocks \in Nat /\ RingSlackBlocks \in Nat
  BY Usage, RingFileAssumption DEF FS
<1>3. CeilDiv(fs.size, fs.bs - CtzOverhead) \in Nat
  <2>1. fs.bs - CtzOverhead \in Nat \ {0}
    BY DEF FS, CtzOverhead
  <2> QED BY <2>1, CeilDivLeast
<1> QED BY <1>1, <1>2, <1>3 DEF Rewritable, ringFileRewritable, Room

\* A file of at most the bytes that were budgeted for has room.
LEMMA BudgetRoom ==
    ASSUME NEW fs \in FS, NEW cap \in Nat, fs.size \in 0 .. cap,
           fs.meta + 2 * CeilDiv(cap, fs.bs - CtzOverhead) + RingSlackBlocks <= fs.blocks
    PROVE  Room(fs)
<1> DEFINE b == fs.bs - CtzOverhead
<1>1. b \in Nat \ {0} /\ fs.bs \in Nat /\ fs.bs > CtzOverhead /\ fs.meta \in Nat /\ fs.blocks \in Nat
  BY DEF FS, CtzOverhead
<1>2. CeilDiv(cap, b) \in Nat /\ CeilDiv(cap, b) * b >= cap
  BY <1>1, CeilDivLeast
<1>3. CeilDiv(cap, b) * b \in Nat
  BY <1>1, <1>2
<1>4. CeilDiv(cap, b) * b >= fs.size
  BY <1>2, <1>3
<1>5. CeilDiv(fs.size, b) \in Nat /\ CeilDiv(fs.size, b) <= CeilDiv(cap, b)
  <2>1. fs.size \in Nat
    OBVIOUS
  <2> HIDE DEF b
  <2> QED BY <1>1, <1>2, <1>4, <2>1, CeilDivLeast
<1>6. BlocksOf(fs.bs, fs.size) \in Nat /\ BlocksOf(fs.bs, fs.size) <= CeilDiv(fs.size, b)
  BY <1>1, BlocksOfBounds
<1> QED BY <1>1, <1>2, <1>5, <1>6, RingFileAssumption DEF Room

\* ringCapacityBytes() sizes a file that can be written twice, whatever file
\* it replaces, and whether it could open that file or not.
LEMMA CapacityFits ==
    ASSUME NEW fs \in FS, NEW cap, NEW existing \in existingSize(fs),
           cap = ringCapacityBytes(fs.bs, fs.blocks, UsedBytes(fs), existing, RingSlackBlocks, RingMinRecords),
           cap # 0
    PROVE  /\ cap \in Nat /\ cap >= MinBytes /\ cap = (cap \div RecordBytes) * RecordBytes
           /\ fs.meta + 2 * CeilDiv(cap, fs.bs - CtzOverhead) + RingSlackBlocks <= fs.blocks
<1> DEFINE b == fs.bs - CtzOverhead
           used == CeilDiv(UsedBytes(fs), fs.bs)
           m == used - Min({existing \div fs.bs, used})
           rb == RingBlocks(fs.blocks, m, RingSlackBlocks)
           records == (rb * b) \div RecordBytes
<1>1. b \in Nat \ {0} /\ fs.meta \in Nat /\ fs.blocks \in Nat /\ RingSlackBlocks \in Nat
  BY RingFileAssumption DEF FS, CtzOverhead
<1>2. used \in Nat /\ m \in Nat /\ m >= fs.meta
  <2>1. used = fs.meta + BlocksOf(fs.bs, fs.size) /\ BlocksOf(fs.bs, fs.size) \in Nat
    BY Usage
  <2>2. existing \div fs.bs \in Nat /\ existing \div fs.bs <= BlocksOf(fs.bs, fs.size)
    BY Usage
  <2> DEFINE e == existing \div fs.bs
  <2>4. e \in Nat /\ e <= used /\ used \in Nat
    BY <1>1, <2>1, <2>2
  <2> HIDE DEF used, e
  <2>3. Min({e, used}) = e
    BY <2>4, MinOfTwo
  <2>5. m = used - e
    BY <2>3 DEF e
  <2>6. e <= BlocksOf(fs.bs, fs.size)
    BY <2>2 DEF e
  <2> HIDE DEF m
  <2> QED BY <1>1, <2>1, <2>4, <2>5, <2>6
<1>3. /\ ~(m + RingSlackBlocks >= fs.blocks) /\ ~(records < RingMinRecords)
      /\ cap = records * RecordBytes
  BY DEF ringCapacityBytes
<1> HIDE DEF m, used
<1>4. rb \in Nat /\ m + 2 * rb + RingSlackBlocks <= fs.blocks
  BY <1>1, <1>2, <1>3 DEF RingBlocks
<1> HIDE DEF rb
<1>5. rb * b \in Nat
  BY <1>1, <1>4, Z3
<1>6. records \in Nat /\ records * 60 <= rb * b
  BY <1>5 DEF RecordBytes
<1> HIDE DEF records
<1>7. cap \in Nat /\ cap >= MinBytes /\ cap <= rb * b
  BY <1>3, <1>6, RingFileAssumption DEF MinBytes, RecordBytes
<1>9. cap = (cap \div RecordBytes) * RecordBytes
  <2>1. (records * 60) \div 60 = records
    BY <1>6
  <2> QED BY <1>3, <2>1 DEF RecordBytes
<1>8. CeilDiv(cap, b) \in Nat /\ CeilDiv(cap, b) <= rb
  BY <1>1, <1>4, <1>5, <1>7, CeilDivLeast
<1> QED BY <1>1, <1>2, <1>4, <1>7, <1>8, <1>9

\* Each job starts in one way.
LEMMA JobStarts ==
    ASSUME CodecInit
    PROVE  \/ FileInit /\ job.op = "file"
           \/ HttpInit /\ job.op = "http"
           \/ TimeInit /\ job.op = "time"
           \/ NumberInit /\ job.op = "number"
           \/ PunchInit /\ job.op = "punch"
           \/ FormInit /\ job.op = "form"
           \/ CredsInit /\ job.op = "creds"
           \/ TokenInit /\ job.op = "token"
           \/ KeyInit /\ job.op = "key"
           \/ SpellingInit /\ job.op = "spelling"
           \/ OrderInit /\ job.op = "order"
           \/ ImageInit /\ job.op = "image"
           \/ job.op \in {"json", "base64", "identity", "manifest"}
<1>1. HttpInit => job.op = "http"
  BY DEF HttpInit
<1>2. FormInit => job.op = "form"
  BY DEF FormInit, Start
<1>3. CredsInit => job.op = "creds"
  BY DEF CredsInit, Start
<1>4. TokenInit => job.op = "token"
  BY DEF TokenInit, Start
<1>5. KeyInit => job.op = "key"
  <2>1. KeyInit => \E x : Start("key", x)
    BY Zenon DEF KeyInit
  <2>2. ASSUME NEW x, Start("key", x) PROVE job.op = "key"
    BY <2>2 DEF Start
  <2> QED BY <2>1, <2>2
<1>6. JsonInit => job.op = "json"
  BY DEF JsonInit, Start
<1>7. Base64Init => job.op = "base64"
  BY DEF Base64Init, Start
<1>8. IdentityInit => job.op = "identity"
  BY DEF IdentityInit, Start
<1>9. SpellingInit => job.op = "spelling"
  BY DEF SpellingInit, Start
<1>10. OrderInit => job.op = "order"
  BY DEF OrderInit, Start
<1>11. ManifestInit => job.op = "manifest"
  BY DEF ManifestInit, Start
<1>12. ImageInit => job.op = "image"
  BY DEF ImageInit
<1>13. TimeInit => job.op = "time"
  BY DEF TimeInit, Start
<1>14. NumberInit => job.op = "number"
  BY DEF NumberInit, Start
<1>15. PunchInit => job.op = "punch"
  BY DEF PunchInit, Start
<1>16. FileInit => job.op = "file"
  BY DEF FileInit
<1> QED
  BY <1>1, <1>2, <1>3, <1>4, <1>5, <1>6, <1>7, <1>8, <1>9, <1>10, <1>11, <1>12, <1>13, <1>14, <1>15, <1>16, Zenon DEF CodecInit

LEMMA FileInvInit == CodecInit => FileInv
<1> SUFFICES ASSUME CodecInit, job.op = "file" PROVE FileTypes /\ HoldsInv /\ StepInv
  BY DEF FileInv
<1>1. FileInit
  BY JobStarts
<1>2. PICK d \in Disks, cursors \in {{}, {<<3, 3>>}, {<<3, 2>>}}, unsent \in {"none", "kept"} :
        /\ unsent = "kept" => d.size >= MinBytes /\ cursors # {<<3, 3>>}
        /\ unsent = "none" => d.size < MinBytes \/ cursors # {<<3, 2>>}
        /\ st = [done |-> FALSE, boots |-> 1, at |-> "begin", existing |-> 0, cap |-> 0,
                 unsent |-> unsent, blind |-> FALSE, clean |-> (unsent = "none"),
                 fs |-> [bs |-> d.bs, blocks |-> d.blocks, meta |-> d.meta, size |-> d.size,
                         cursors |-> cursors]]
  BY <1>1, ZenonT(60) DEF FileInit
<1>3. /\ d.bs \in Nat /\ d.bs > CtzOverhead /\ d.blocks \in Nat /\ d.meta \in Nat
      /\ d.size \in Nat \cup {Absent}
  BY CodecAssumption
<1>4. d.size \in Int /\ MinBytes \in Nat
  BY <1>3, MinBytesPositive DEF Absent
<1>5. FileTypes
  <2>1. CASE unsent = "none"
    BY <1>2, <1>3, <2>1 DEF FileTypes, FS
  <2>2. CASE unsent = "kept"
    BY <1>2, <1>3, <2>2 DEF FileTypes, FS
  <2> QED BY <1>2, <2>1, <2>2
<1>6. HoldsInv
  BY <1>2, <1>4 DEF HoldsInv
<1>7. StepInv
  <2>1. st.at = "begin" /\ st.unsent = unsent /\ st.clean = (unsent = "none")
    BY <1>2
  <2> QED BY <1>2, <2>1 DEF StepInv
<1> QED BY <1>5, <1>6, <1>7

\* The file job is left alone by the actions of the others.
FileNext == OpenFile \/ UseFile \/ RebootFile

LEMMA FileActions ==
    ASSUME job.op = "file", CodecNext
    PROVE  FileNext
<1>1. ASSUME NEW n \in 1 .. Chunk, Read(n) PROVE FALSE
  BY <1>1 DEF Read, Pending
<1>2. ASSUME NEW n \in 0 .. Chunk, Feed(n) PROVE FALSE
  BY <1>2 DEF Feed, Pending
<1>3. ~(ReadTimeout \/ DecodeForm \/ MakeCreds \/ MakeToken \/ MakeKey \/ DecodeJson \/ DecodeBase64
        \/ TakeIdentity \/ ReadVersion \/ CompareVersions \/ ReadManifest \/ Finish \/ FormatTime
        \/ FormatNumber \/ BuildEvent)
  BY DEF Pending, ReadTimeout, DecodeForm, MakeCreds, MakeToken, MakeKey, DecodeJson, DecodeBase64,
         TakeIdentity, ReadVersion, CompareVersions, ReadManifest, Finish, FormatTime, FormatNumber, BuildEvent
<1> QED BY <1>1, <1>2, <1>3 DEF CodecNext, FileNext

LEMMA JobKept == CodecNext => job' = job
<1> SUFFICES ASSUME CodecNext PROVE job' = job
  OBVIOUS
<1>1. CASE \E n \in 1 .. Chunk : Read(n)
  BY <1>1 DEF Read
<1>2. CASE \E n \in 0 .. Chunk : Feed(n)
  BY <1>2 DEF Feed
<1>3. CASE ReadTimeout \/ Finish \/ OpenFile \/ UseFile \/ RebootFile
  BY <1>3 DEF ReadTimeout, Finish, OpenFile, UseFile, RebootFile
<1>4. CASE DecodeForm \/ MakeCreds \/ MakeToken \/ MakeKey \/ DecodeJson \/ DecodeBase64 \/ TakeIdentity
  BY <1>4, Zenon DEF DecodeForm, MakeCreds, MakeToken, MakeKey, DecodeJson, DecodeBase64, TakeIdentity, Out
<1>5. CASE \/ ReadVersion \/ CompareVersions \/ ReadManifest \/ FormatTime \/ FormatNumber \/ BuildEvent
  BY <1>5, Zenon DEF ReadVersion, CompareVersions, ReadManifest, FormatTime, FormatNumber, BuildEvent, Out
<1> QED BY <1>1, <1>2, <1>3, <1>4, <1>5, Zenon DEF CodecNext

LEMMA FileInvStep ==
    ASSUME FileInv, [CodecNext]_codecVars
    PROVE  FileInv'
<1> SUFFICES ASSUME job'.op = "file" PROVE FileTypes' /\ HoldsInv' /\ StepInv'
  BY DEF FileInv
<1>0. job' = job /\ job.op = "file" /\ FileTypes /\ HoldsInv /\ StepInv
  <2>1. job' = job
    BY JobKept DEF codecVars
  <2> QED BY <2>1 DEF FileInv
<1>1. st.fs \in FS /\ st.fs.size \in Int /\ MinBytes \in Nat \ {0} /\ st.existing \in Nat /\ st.cap \in Nat
  BY <1>0, MinBytesPositive DEF FileTypes, FS, Absent
<1>2. CASE UNCHANGED codecVars
  <2>1. st' = st
    BY <1>2 DEF codecVars
  <2> QED BY <1>0, <2>1 DEF FileTypes, HoldsInv, StepInv
<1>3. CASE RebootFile
  <2>0. (\E c \in BOOLEAN : c = (st.unsent # "kept")) /\ (\E b \in BOOLEAN : b = (st.blind /\ st.unsent = "lost"))
    BY Zenon
  <2>1. PICK c \in BOOLEAN, b \in BOOLEAN :
           /\ c = (st.unsent # "kept") /\ b = (st.blind /\ st.unsent = "lost")
           /\ st' = [st EXCEPT !.at = "begin", !.existing = 0, !.cap = 0, !.boots = @ + 1, !.blind = b, !.clean = c]
    BY <1>3, <2>0, Zenon DEF RebootFile
  <2>2. FileTypes'
    <3>1. st.boots + 1 \in Nat
      BY <1>0 DEF FileTypes, FS
    <3>2. ASSUME NEW x \in BOOLEAN, NEW y \in BOOLEAN
          PROVE  [st EXCEPT !.at = "begin", !.existing = 0, !.cap = 0, !.boots = @ + 1, !.blind = x, !.clean = y]
                   \in [done : {FALSE}, boots : Nat, existing : Nat, cap : Nat,
                        unsent : {"none", "kept", "lost"}, blind : BOOLEAN, clean : BOOLEAN,
                        at : {"begin", "sized", "filling", "filled", "opened", "failed"}, fs : FS]
      BY <1>0, <3>1 DEF FileTypes
    <3> QED BY <2>1, <3>2 DEF FileTypes
  <2>3. st'.fs = st.fs /\ st'.unsent = st.unsent /\ st'.at = "begin" /\ st'.clean = c /\ st'.blind = b
    BY <1>0, <2>1 DEF FileTypes
  <2>4. HoldsInv'
    <3>1. st.unsent = "lost" => b
      BY <1>0, <2>1, Zenon DEF HoldsInv
    <3> QED BY <1>0, <2>3, <3>1 DEF HoldsInv
  <2>5. StepInv'
    <3>1. st'.clean <=> st'.unsent # "kept"
      BY <2>1, <2>3
    <3> QED BY <2>3, <3>1 DEF StepInv
  <2> QED BY <2>2, <2>4, <2>5
<1>4. CASE UseFile
  <2>1. /\ st.at = "opened" /\ st.cap \in MinBytes .. st.fs.size /\ (st.clean => Room(st.fs))
        /\ st.cap = (st.fs.size \div RecordBytes) * RecordBytes
    BY <1>0, <1>1, <1>4 DEF UseFile, StepInv
  <2>2. PICK pair \in {{<<3, 2>>}, {<<3, 3>>}}, u \in {"none", "kept"} :
           /\ st' = [st EXCEPT !.fs.cursors = pair, !.unsent = u, !.blind = FALSE]
           /\ u = "kept" <=> pair = {<<3, 2>>}
    <3>1. {<<3, 2>>} # {<<3, 3>>}
      <4>1. <<3, 2>>[2] = 2 /\ <<3, 3>>[2] = 3
        OBVIOUS
      <4>2. <<3, 2>> # <<3, 3>>
        BY <4>1
      <4> QED BY <4>2, Zenon
    <3> QED BY <1>4, <3>1 DEF UseFile
  <2>3. /\ st'.unsent = u /\ st'.fs.cursors = pair /\ st'.fs.size = st.fs.size
        /\ st'.at = "opened" /\ st'.cap = st.cap /\ st'.clean = st.clean
        /\ st'.fs.meta = st.fs.meta /\ st'.fs.bs = st.fs.bs /\ st'.fs.blocks = st.fs.blocks
    BY <1>0, <2>1, <2>2 DEF FileTypes, FS
  <2>4. FileTypes'
    BY <1>0, <2>1, <2>2 DEF FileTypes, FS
  <2>5. HoldsInv'
    BY <1>1, <2>1, <2>2, <2>3 DEF HoldsInv
  <2>6. StepInv'
    BY <2>1, <2>3 DEF StepInv, Room
  <2> QED BY <2>4, <2>5, <2>6
<1>5. CASE OpenFile
  <2>0. st' \in BeginStep(st)
    BY <1>5 DEF OpenFile
  <2>1. CASE st.at = "begin"
    <3>1. PICK n \in existingSize(st.fs), pair \in loadCursors(st.fs) : st' \in Sized(st, n, pair)
      BY <2>0, <2>1 DEF BeginStep, DropUnwritable
    <3>2. PICK b \in BOOLEAN : b = (st.blind \/ n = 0 \/ pair = {})
      BY Zenon
    <3> DEFINE t == [st EXCEPT !.existing = n, !.at = "sized", !.blind = b]
    <3>3. /\ n \in Nat
          /\ n = 0 \/ n = st.fs.size
          /\ pair = {} \/ pair = st.fs.cursors
      BY <1>1, Usage DEF loadCursors
    <3>4. /\ t.fs = st.fs /\ t.existing = n /\ t.at = "sized" /\ t.blind = b /\ t.unsent = st.unsent
          /\ t.clean = st.clean /\ t.cap = st.cap /\ t.boots = st.boots /\ t.done = FALSE
          /\ t \in [done : {FALSE}, boots : Nat, existing : Nat, cap : Nat,
                    unsent : {"none", "kept", "lost"}, blind : BOOLEAN, clean : BOOLEAN,
                    at : {"begin", "sized", "filling", "filled", "opened", "failed"}, fs : FS]
      BY <1>0, <3>3 DEF FileTypes
    <3>5. \/ /\ st' \in {[t EXCEPT !.fs.size = Absent, !.existing = 0, !.unsent = Gone(st.unsent), !.clean = TRUE],
                         [t EXCEPT !.at = "failed"]}
             /\ bufferEmpty(pair)
          \/ /\ st' = t
             /\ ~(n >= MinBytes /\ ~Rewritable(st.fs, n) /\ bufferEmpty(pair))
      BY <3>1, <3>2, Zenon DEF Sized, t
    <3> HIDE DEF t
    <3>6. ASSUME st.unsent = "kept", bufferEmpty(pair) PROVE b
      <4>1. CASE pair = {}
        BY <3>2, <4>1
      <4>2. CASE pair = {<<3, 2>>}
        <5>1. <<3, 2>>[1] = <<3, 2>>[2]
          BY <3>6, <4>2, Zenon DEF bufferEmpty
        <5> QED BY <5>1
      <4> QED BY <1>0, <3>3, <3>6, <4>1, <4>2 DEF HoldsInv
    <3>7. st.blind => b
      BY <3>2
    <3>8. CASE st' = [t EXCEPT !.at = "failed"]
      <4>1. FileTypes' /\ st'.fs = st.fs /\ st'.unsent = st.unsent /\ st'.at = "failed" /\ st'.blind = b
        BY <3>4, <3>8 DEF FileTypes
      <4> QED BY <1>0, <3>7, <4>1 DEF HoldsInv, StepInv
    <3>9. CASE /\ st' = [t EXCEPT !.fs.size = Absent, !.existing = 0, !.unsent = Gone(st.unsent), !.clean = TRUE]
               /\ bufferEmpty(pair)
      <4>0. Gone(st.unsent) \in {"none", "lost"} /\ (Gone(st.unsent) = "lost" => st.unsent \in {"kept", "lost"})
        BY <1>0 DEF Gone, FileTypes
      <4>1. FileTypes'
        BY <3>4, <3>9, <4>0 DEF FileTypes, FS
      <4>2. /\ st'.fs.size = Absent /\ st'.at = "sized" /\ st'.blind = b /\ st'.existing = 0
            /\ st'.unsent = Gone(st.unsent)
        BY <3>4, <3>9, <4>0 DEF FS
      <4>3. ~(st'.fs.size >= MinBytes) /\ ~(0 >= MinBytes)
        BY <1>1, <4>2 DEF Absent
      <4>4. HoldsInv'
        BY <1>0, <3>6, <3>7, <3>9, <4>0, <4>2, <4>3 DEF HoldsInv
      <4>5. StepInv'
        BY <4>0, <4>2, <4>3 DEF StepInv
      <4> QED BY <4>1, <4>4, <4>5
    <3>10. CASE /\ st' = t
                /\ ~(n >= MinBytes /\ ~Rewritable(st.fs, n) /\ bufferEmpty(pair))
      <4>1. FileTypes'
        BY <3>4, <3>10 DEF FileTypes
      <4>2. HoldsInv'
        BY <1>0, <3>4, <3>7, <3>10 DEF HoldsInv
      <4>3. ASSUME n >= MinBytes, st.clean PROVE Room(st.fs)
        <5>1. n = st.fs.size /\ st.fs.size \in Nat /\ st.unsent # "kept"
          BY <1>0, <1>1, <2>1, <3>3, <4>3 DEF StepInv
        <5>2. CASE Rewritable(st.fs, n)
          BY <1>1, <5>1, <5>2, RewritableRoom
        <5>3. CASE ~bufferEmpty(pair)
          <6>1. bufferEmpty({}) /\ bufferEmpty({<<3, 3>>})
            BY DEF bufferEmpty
          <6>2. st.fs.cursors = {<<3, 2>>}
            BY <1>1, <3>3, <5>3, <6>1 DEF FS
          <6> QED BY <1>0, <4>3, <5>1, <6>2 DEF HoldsInv
        <5> QED BY <3>10, <4>3, <5>2, <5>3
      <4>4. n < MinBytes /\ st.unsent = "kept" => b
        <5>1. n < MinBytes /\ st.unsent = "kept" => n = 0
          BY <1>0, <1>1, <3>3 DEF HoldsInv
        <5> QED BY <3>2, <5>1, Zenon
      <4>5. StepInv'
        BY <3>3, <3>4, <3>10, <4>3, <4>4 DEF StepInv
      <4> QED BY <4>1, <4>2, <4>5
    <3> QED BY <3>5, <3>8, <3>9, <3>10
  <2>2. CASE st.at = "sized"
    <3>1. st' \in KeepOrSize(st)
      BY <2>0, <2>2 DEF BeginStep
    <3> DEFINE cap == ringCapacityBytes(st.fs.bs, st.fs.blocks, UsedBytes(st.fs), st.existing,
                                        RingSlackBlocks, RingMinRecords)
    <3>2. st.existing \in existingSize(st.fs) /\ (st.existing = 0 \/ st.existing = st.fs.size)
      BY <1>0, <1>1, <2>2, Usage DEF StepInv, Absent
    <3>3. CASE st.existing >= MinBytes
      <4>1. PICK a \in {"opened", "failed"} :
              st' = [st EXCEPT !.cap = (st.existing \div RecordBytes) * RecordBytes, !.at = a]
        BY <3>1, <3>3 DEF KeepOrSize
      <4>2. st.fs.size \in Nat /\ st.fs.size >= MinBytes /\ st.existing = st.fs.size
        BY <1>1, <3>2, <3>3 DEF FS, Absent
      <4>3. (st.fs.size \div RecordBytes) * RecordBytes \in MinBytes .. st.fs.size
        BY <4>2, RingFileAssumption, MinBytesPositive DEF RecordBytes
      <4>4. (st.fs.size \div RecordBytes) * RecordBytes \in Nat
        BY <1>1, <4>3
      <4>5. FileTypes'
        BY <1>0, <4>1, <4>2, <4>4 DEF FileTypes, FS
      <4>6. /\ st'.fs = st.fs /\ st'.at = a /\ st'.unsent = st.unsent /\ st'.clean = st.clean
            /\ st'.cap = (st.fs.size \div RecordBytes) * RecordBytes /\ st'.blind = st.blind
        BY <1>0, <4>1, <4>2 DEF FileTypes, FS
      <4>7. st.clean => Room(st.fs)
        BY <1>0, <2>2, <3>3 DEF StepInv
      <4> QED BY <1>0, <4>3, <4>5, <4>6, <4>7 DEF HoldsInv, StepInv
    <3>4. CASE st' = [st EXCEPT !.at = "failed"]
      <4>2. FileTypes' /\ st'.fs = st.fs /\ st'.unsent = st.unsent /\ st'.at = "failed" /\ st'.blind = st.blind
        BY <1>0, <3>4 DEF FileTypes, FS
      <4> QED BY <1>0, <4>2 DEF HoldsInv, StepInv
    <3>5. CASE /\ ~(st.existing >= MinBytes) /\ cap # 0
               /\ st' = [st EXCEPT !.cap = cap, !.fs.size = 0, !.at = "filling",
                                   !.unsent = Gone(st.unsent), !.clean = TRUE]
      <4>2. /\ cap \in Nat /\ cap >= MinBytes /\ cap = (cap \div RecordBytes) * RecordBytes
            /\ st.fs.meta + 2 * CeilDiv(cap, st.fs.bs - CtzOverhead) + RingSlackBlocks <= st.fs.blocks
        BY <1>1, <3>2, <3>5, CapacityFits
      <4> HIDE DEF cap
      <4>3. Gone(st.unsent) \in {"none", "lost"} /\ (Gone(st.unsent) = "lost" => st.unsent \in {"kept", "lost"})
        BY <1>0 DEF Gone, FileTypes
      <4>4. FileTypes'
        BY <1>0, <3>5, <4>2, <4>3 DEF FileTypes, FS
      <4>5. /\ st'.fs.size = 0 /\ st'.cap = cap /\ st'.at = "filling" /\ st'.unsent = Gone(st.unsent)
            /\ st'.clean = TRUE /\ st'.blind = st.blind
            /\ st'.fs.meta = st.fs.meta /\ st'.fs.bs = st.fs.bs /\ st'.fs.blocks = st.fs.blocks
        BY <1>0, <3>5, <4>3 DEF FileTypes, FS
      <4>8. st.existing < MinBytes
        BY <1>1, <3>5
      <4>9. Gone(st.unsent) = "lost" => st.blind
        BY <1>0, <2>2, <4>3, <4>8 DEF HoldsInv, StepInv
      <4>6. HoldsInv'
        BY <1>1, <4>3, <4>5, <4>9 DEF HoldsInv
      <4>7. StepInv'
        BY <1>0, <2>2, <4>2, <4>3, <4>5 DEF StepInv
      <4> QED BY <4>4, <4>6, <4>7
    <3> QED BY <3>1, <3>3, <3>4, <3>5 DEF KeepOrSize
  <2>3. CASE st.at = "filling"
    <3>1. st' \in Fill(st)
      BY <2>0, <2>3 DEF BeginStep
    <3>2. /\ st.unsent # "kept" /\ st.clean /\ st.cap >= MinBytes
          /\ st.cap = (st.cap \div RecordBytes) * RecordBytes
          /\ st.fs.meta + 2 * CeilDiv(st.cap, st.fs.bs - CtzOverhead) + RingSlackBlocks <= st.fs.blocks
      BY <1>0, <2>3 DEF StepInv
    <3>3. ASSUME NEW size \in 0 .. st.cap, NEW a \in {"filled", "failed"}, a = "filled" => size = st.cap,
                 st' = [st EXCEPT !.fs.size = size, !.at = a]
          PROVE  FileTypes' /\ HoldsInv' /\ StepInv'
      <4>0. size \in Nat
        BY <1>1
      <4>1. FileTypes'
        BY <1>0, <3>3, <4>0 DEF FileTypes, FS
      <4>2. /\ st'.fs.size = size /\ st'.cap = st.cap /\ st'.at = a
            /\ st'.unsent = st.unsent /\ st'.clean = st.clean /\ st'.blind = st.blind
            /\ st'.fs.meta = st.fs.meta /\ st'.fs.bs = st.fs.bs /\ st'.fs.blocks = st.fs.blocks
            /\ st'.fs \in FS
        BY <1>0, <3>2, <3>3, <4>1 DEF FileTypes, FS
      <4>3. Room(st'.fs)
        BY <1>1, <3>2, <4>2, BudgetRoom
      <4>4. HoldsInv'
        BY <1>0, <3>2, <4>2, <4>3 DEF HoldsInv
      <4>5. StepInv'
        BY <3>2, <3>3, <4>2 DEF StepInv
      <4> QED BY <4>1, <4>4, <4>5
    <3>4. CASE st' = [st EXCEPT !.fs.size = st.cap, !.at = "filled"]
      <4>1. st.cap \in 0 .. st.cap
        BY <1>1
      <4> QED BY <3>3, <3>4, <4>1
    <3>5. ASSUME NEW n \in 0 .. (st.cap \div RecordBytes) - 1,
                 st' = [st EXCEPT !.fs.size = n * RecordBytes, !.at = "failed"]
          PROVE  FileTypes' /\ HoldsInv' /\ StepInv'
      <4>1. st.cap \div 60 \in Nat /\ 60 * (st.cap \div 60) <= st.cap
        BY <1>1
      <4>2. n * RecordBytes \in 0 .. st.cap
        BY <1>1, <4>1 DEF RecordBytes
      <4> QED BY <3>3, <3>5, <4>2
    <3> QED BY <3>1, <3>4, <3>5 DEF Fill
  <2>4. CASE st.at = "filled"
    <3>1. PICK pair \in {{}, st.fs.cursors}, a \in {"opened", "failed"} :
            st' = [st EXCEPT !.fs.cursors = pair, !.at = a]
      BY <2>0, <2>4 DEF BeginStep, ClearCursors
    <3>2. /\ st.unsent # "kept" /\ st.clean /\ st.cap >= MinBytes /\ st.fs.size = st.cap
          /\ st.cap = (st.cap \div RecordBytes) * RecordBytes
          /\ st.fs.meta + 2 * CeilDiv(st.cap, st.fs.bs - CtzOverhead) + RingSlackBlocks <= st.fs.blocks
      BY <1>0, <2>4 DEF StepInv
    <3>3. FileTypes'
      BY <1>0, <3>1 DEF FileTypes, FS
    <3>4. /\ st'.fs.size = st.cap /\ st'.cap = st.cap /\ st'.at = a
          /\ st'.unsent = st.unsent /\ st'.clean = st.clean /\ st'.blind = st.blind /\ st'.fs \in FS
          /\ st'.fs.meta = st.fs.meta /\ st'.fs.bs = st.fs.bs /\ st'.fs.blocks = st.fs.blocks
      BY <1>0, <3>1, <3>2, <3>3 DEF FileTypes, FS
    <3>5. Room(st'.fs)
      BY <1>1, <3>2, <3>4, BudgetRoom
    <3>6. HoldsInv'
      BY <1>0, <3>2, <3>4, <3>5 DEF HoldsInv
    <3>7. StepInv'
      <4>1. st'.cap = (st'.fs.size \div RecordBytes) * RecordBytes
        BY <3>2, <3>4
      <4>2. st'.cap \in MinBytes .. st'.fs.size
        BY <1>1, <3>2, <3>4
      <4> QED BY <3>4, <3>5, <4>1, <4>2 DEF StepInv
    <3> QED BY <3>3, <3>6, <3>7
  <2>5. CASE st.at \in {"opened", "failed"}
    BY <2>0, <2>5 DEF BeginStep
  <2> QED BY <1>0, <2>1, <2>2, <2>3, <2>4, <2>5 DEF FileTypes, FS
<1> QED BY <1>0, <1>2, <1>3, <1>4, <1>5, FileActions DEF FileNext

\* LittleFsStorage::begin() leaves a file that can be written whole again, and
\* drops unacknowledged punches only in a boot that could not open the file or
\* read its cursors: on any disk, from any file and cursors it finds, for any
\* kRingMinRecords and kRingSlackBlocks, through any number of boots, failed
\* calls and power cuts.
THEOREM RingFileSafeAlways == CodecSpec => []RingFileSafe
<1>1. FileInv => RingFileSafe
  <2> SUFFICES ASSUME FileInv, job.op = "file" PROVE RingFileSafe
    BY DEF RingFileSafe, RingRewritable, FileKeepsPunches
  <2>1. FileTypes /\ HoldsInv /\ StepInv
    BY DEF FileInv
  <2>2. FileKeepsPunches
    BY <2>1 DEF FileKeepsPunches, HoldsInv, StepInv
  <2>3. ASSUME st.at = "opened", st.clean
        PROVE  /\ st.cap \in MinBytes .. st.fs.size
               /\ st.fs.meta + BlocksOf(st.fs.bs, st.fs.size) + BlocksOf(st.fs.bs, st.fs.size)
                    + RingSlackBlocks <= st.fs.blocks
    <3>1. Room(st.fs) /\ st.cap \in MinBytes .. st.fs.size
      BY <2>1, <2>3 DEF StepInv
    <3>2. st.fs.size \in Nat /\ st.fs.bs \in Nat /\ st.fs.bs > CtzOverhead /\ st.fs.meta \in Nat /\ st.fs.blocks \in Nat
      BY <2>1, <3>1, MinBytesPositive DEF FileTypes, FS, Absent
    <3>3. /\ BlocksOf(st.fs.bs, st.fs.size) \in Nat
          /\ BlocksOf(st.fs.bs, st.fs.size) <= CeilDiv(st.fs.size, st.fs.bs - CtzOverhead)
      BY <3>2, BlocksOfBounds
    <3>4. CeilDiv(st.fs.size, st.fs.bs - CtzOverhead) \in Nat
      <4>1. st.fs.bs - CtzOverhead \in Nat \ {0}
        BY <3>2 DEF CtzOverhead
      <4> QED BY <3>2, <4>1, CeilDivLeast
    <3> QED BY <3>1, <3>2, <3>3, <3>4, RingFileAssumption DEF Room
  <2> QED BY <2>2, <2>3 DEF RingFileSafe, RingRewritable
<1> QED BY <1>1, FileInvInit, FileInvStep, PTL DEF CodecSpec

LEMMA HttpActions ==
    ASSUME job.op = "http", CodecNext
    PROVE  ReadTimeout \/ \E n \in 1 .. Chunk : Read(n)
<1>1. ASSUME NEW n \in 0 .. Chunk, Feed(n) PROVE FALSE
  BY <1>1 DEF Feed, Pending
<1>2. ~(DecodeForm \/ MakeCreds \/ MakeToken \/ MakeKey \/ DecodeJson \/ DecodeBase64
        \/ TakeIdentity \/ ReadVersion \/ CompareVersions \/ ReadManifest \/ Finish \/ FormatTime
        \/ FormatNumber \/ BuildEvent \/ OpenFile \/ UseFile \/ RebootFile)
  BY DEF Pending, DecodeForm, MakeCreds, MakeToken, MakeKey, DecodeJson, DecodeBase64, TakeIdentity,
         ReadVersion, CompareVersions, ReadManifest, Finish, FormatTime, FormatNumber, BuildEvent,
         OpenFile, UseFile, RebootFile
<1> QED BY <1>1, <1>2 DEF CodecNext

(***************************************************************************)
(* Folds over a sequence                                                   *)
(***************************************************************************)

LEMMA MaxOf ==
    ASSUME NEW n \in Nat, NEW s \in SUBSET (1 .. n), s # {}
    PROVE  Max(s) \in s /\ \A y \in s : y <= Max(s)
<1> DEFINE T == {n - x : x \in s}
<1>1. T \in SUBSET Nat /\ T # {}
  <2>1. \A x \in s : x \in 1 .. n /\ n - x \in Nat
    OBVIOUS
  <2> QED BY <2>1
<1>2. PICK d \in T : \A y \in T : d <= y
  <2> HIDE DEF T
  <2> QED BY <1>1, LeastOf
<1>3. PICK x \in s : d = n - x
  OBVIOUS
<1>4. \A y \in s : x >= y
  <2> SUFFICES ASSUME NEW y \in s PROVE x >= y
    OBVIOUS
  <2>1. n - y \in T
    OBVIOUS
  <2>2. n - x <= n - y
    BY <1>2, <1>3, <2>1
  <2> QED BY <2>2
<1>5. Max(s) \in s /\ \A y \in s : Max(s) >= y
  BY <1>4, Zenon DEF Max
<1> QED BY <1>5

LEMMA MinOf ==
    ASSUME NEW s \in SUBSET Nat, s # {}
    PROVE  Min(s) \in s /\ \A y \in s : Min(s) <= y
<1>1. \E x \in s : \A y \in s : x <= y
  BY LeastOf
<1> QED BY <1>1, Zenon DEF Min

LEMMA MaxInterval ==
    ASSUME NEW n \in Nat, NEW k \in 1 .. n
    PROVE  /\ 1 .. k \in SUBSET (1 .. n) /\ 1 .. k # {}
           /\ Max(1 .. k) = k /\ (1 .. k) \ {Max(1 .. k)} = 1 .. (k - 1)
<1>1. 1 .. k \in SUBSET (1 .. n) /\ k \in 1 .. k /\ 1 .. k # {}
  OBVIOUS
<1>2. Max(1 .. k) \in 1 .. k /\ \A y \in 1 .. k : y <= Max(1 .. k)
  BY <1>1, MaxOf
<1>3. Max(1 .. k) = k
  BY <1>1, <1>2
<1>4. (1 .. k) \ {k} = 1 .. (k - 1)
  OBVIOUS
<1> QED BY <1>1, <1>3, <1>4

\* step[<<i, v>>] is what element i of n makes of v.
Folds(n, V, base, step) == n \in Nat /\ base \in V /\ step \in [(1 .. n) \X V -> V]

IsFold(f, n, base, step) ==
    \A s \in SUBSET (1 .. n) : f[s] = IF s = {} THEN base ELSE step[<<Max(s), f[s \ {Max(s)}]>>]

\* The recursion of a fold has a solution.
LEMMA FoldExists ==
    ASSUME NEW n, NEW V, NEW base, NEW step, Folds(n, V, base, step)
    PROVE  \E f \in [SUBSET (1 .. n) -> V] : IsFold(f, n, base, step)
<1> DEFINE D == SUBSET (1 .. n)
           rank == [s \in D |-> Cardinality(s)]
           back == [s \in D |-> s \ {Max(s)}]
           take == [p \in D \X V |-> IF p[1] = {} THEN base ELSE step[<<Max(p[1]), p[2]>>]]
<1>0. n \in Nat /\ base \in V /\ step \in [(1 .. n) \X V -> V]
  BY DEF Folds
<1>1. \A s \in D : IsFiniteSet(s) /\ Cardinality(s) \in Nat
  <2>1. IsFiniteSet(1 .. n)
    BY <1>0, FS_Interval
  <2> QED BY <2>1, FS_Subset, FS_CardinalityType
<1>2. rank \in [D -> Nat] /\ back \in [D -> D]
  BY <1>1
<1>3. take \in [D \X V -> V]
  <2> SUFFICES ASSUME NEW s \in D, NEW v \in V PROVE (IF s = {} THEN base ELSE step[<<Max(s), v>>]) \in V
    OBVIOUS
  <2>1. CASE s = {}
    BY <1>0, <2>1
  <2>2. CASE s # {}
    <3>1. Max(s) \in 1 .. n
      BY <1>0, <2>2, MaxOf
    <3> QED BY <1>0, <2>2, <3>1
  <2> QED BY <2>1, <2>2
<1>4. ASSUME NEW s \in D \ {{}} PROVE rank[back[s]] < rank[s]
  <2>1. Max(s) \in s /\ IsFiniteSet(s) /\ Cardinality(s) \in Nat /\ s \ {Max(s)} \in D
    BY <1>0, <1>1, MaxOf
  <2>2. Cardinality(s \ {Max(s)}) = Cardinality(s) - 1
    BY <2>1, FS_RemoveElement
  <2> QED BY <2>1, <2>2
<1>5. Recurs(D, V, base, {{}}, rank, back, take)
  <2>1. {{}} \subseteq D
    OBVIOUS
  <2> HIDE DEF D, rank, back, take
  <2> QED BY <1>0, <1>2, <1>3, <1>4, <2>1 DEF Recurs
<1>6. PICK f \in [D -> V] : f = [s \in D |-> IF s \in {{}} THEN base ELSE take[<<s, f[back[s]]>>]]
  <2> HIDE DEF D, rank, back, take
  <2> QED BY <1>5, Recursion
<1>7. ASSUME NEW s \in D PROVE f[s] = IF s = {} THEN base ELSE step[<<Max(s), f[s \ {Max(s)}]>>]
  <2>1. f[s] = IF s = {} THEN base ELSE take[<<s, f[back[s]]>>]
    <3> HIDE DEF D, back, take
    <3> QED BY <1>6
  <2>2. back[s] = s \ {Max(s)} /\ back[s] \in D /\ f[back[s]] \in V
    BY <1>2
  <2>3. s # {} => take[<<s, f[back[s]]>>] = step[<<Max(s), f[back[s]]>>]
    <3>1. <<s, f[back[s]]>> \in D \X V
      BY <2>2
    <3> HIDE DEF D, back
    <3> QED BY <3>1
  <2> HIDE DEF D, back, take
  <2> QED BY <2>1, <2>2, <2>3
<1> QED BY <1>7 DEF IsFold

\* What the fold holds after its first k elements.
LEMMA FoldRuns ==
    ASSUME NEW n, NEW V, NEW base, NEW step, Folds(n, V, base, step),
           NEW g, g[{}] = base,
           \A k \in 1 .. n : g[1 .. (k - 1)] \in V => g[1 .. k] = step[<<k, g[1 .. (k - 1)]>>]
    PROVE  /\ \A k \in 0 .. n : g[1 .. k] \in V
           /\ \A k \in 1 .. n : g[1 .. k] = step[<<k, g[1 .. (k - 1)]>>]
<1> DEFINE S == {k \in Nat : k <= n => g[1 .. k] \in V}
<1>0. n \in Nat /\ base \in V /\ step \in [(1 .. n) \X V -> V]
  BY DEF Folds
<1>1. 0 \in S
  <2>1. 1 .. 0 = {}
    OBVIOUS
  <2> QED BY <1>0, <2>1
<1>2. ASSUME NEW k \in S PROVE k + 1 \in S
  <2> SUFFICES ASSUME k + 1 <= n PROVE g[1 .. (k + 1)] \in V
    OBVIOUS
  <2>1. k \in Nat /\ k <= n /\ k + 1 \in 1 .. n /\ (k + 1) - 1 = k
    BY <1>0
  <2>2. g[1 .. k] \in V
    BY <2>1
  <2>3. g[1 .. (k + 1)] = step[<<k + 1, g[1 .. k]>>]
    BY <2>1, <2>2
  <2> QED BY <1>0, <2>1, <2>2, <2>3
<1>3. S = Nat
  <2>1. S \in SUBSET Nat
    OBVIOUS
  <2> HIDE DEF S
  <2> QED BY <1>1, <1>2, <2>1, Induction
<1>4. \A k \in 0 .. n : g[1 .. k] \in V
  BY <1>0, <1>3
<1>5. ASSUME NEW k \in 1 .. n PROVE g[1 .. (k - 1)] \in V
  BY <1>0, <1>4
<1> QED BY <1>4, <1>5

(***************************************************************************)
(* One HTTP request                                                        *)
(***************************************************************************)

\* A decimal digit and its value.
LEMMA Digits ==
    /\ \A c \in Numerals : NumeralValue[c] \in 0 .. 9
    /\ \A i \in 1 .. 10 : NumeralAt[i] \in Numerals /\ NumeralValue[NumeralAt[i]] = i - 1
<1>1. DOMAIN NumeralAt = 1 .. 10 /\ Numerals = ToSet(NumeralAt)
  BY DEF NumeralAt, Numerals, NumeralValue
<1>2. \A i, j \in 1 .. 10 : NumeralAt[i] = NumeralAt[j] => i = j
  BY DEF NumeralAt
<1>3. ASSUME NEW c \in Numerals
      PROVE  \E i \in 1 .. 10 : NumeralAt[i] = c
  BY <1>1 DEF ToSet
<1>4. ASSUME NEW c \in Numerals
      PROVE  /\ (CHOOSE i \in 1 .. 10 : NumeralAt[i] = c) \in 1 .. 10
             /\ NumeralAt[CHOOSE i \in 1 .. 10 : NumeralAt[i] = c] = c
  BY <1>3, Zenon
<1>5. \A c \in Numerals : NumeralValue[c] = (CHOOSE i \in 1 .. 10 : NumeralAt[i] = c) - 1
  BY <1>1 DEF NumeralValue
<1>6. \A c \in Numerals : NumeralValue[c] \in 0 .. 9
  BY <1>4, <1>5
<1>7. ASSUME NEW i \in 1 .. 10
      PROVE  NumeralAt[i] \in Numerals /\ NumeralValue[NumeralAt[i]] = i - 1
  <2>1. NumeralAt[i] \in Numerals
    BY <1>1 DEF ToSet
  <2>2. (CHOOSE j \in 1 .. 10 : NumeralAt[j] = NumeralAt[i]) = i
    BY <1>2, <1>4, <2>1
  <2> QED BY <1>5, <2>1, <2>2
<1> QED BY <1>6, <1>7

\* What parseHttpRequest() knows of the headers: a length it can still accept
\* is within the cap.
Heads == {a \in [verdict : {"Ok", "Bad", "TooLarge"}, have : BOOLEAN, length : Nat] :
            a.verdict = "Ok" => a.length <= MaxBody}

LEMMA LengthStepTyped ==
    ASSUME NEW a \in Heads, NEW c
    PROVE  LengthStep(a, c) \in Heads
<1>1. MaxBody \in Nat
  BY PortalCodecAssumption
<1>2. a.length \in Nat /\ (a.verdict = "Ok" => a.length <= MaxBody)
  BY DEF Heads
<1>3. CASE a.verdict # "Ok"
  BY <1>3 DEF LengthStep
<1>4. CASE a.verdict = "Ok" /\ c \notin Numerals
  BY <1>4 DEF LengthStep, Heads
<1>5. CASE a.verdict = "Ok" /\ c \in Numerals
  <2> DEFINE n == a.length * 10 + NumeralValue[c]
  <2>1. n \in Nat
    BY <1>2, <1>5, Digits
  <2>2. LengthStep(a, c) = [a EXCEPT !.length = n, !.verdict = IF n > MaxBody THEN "TooLarge" ELSE @]
    BY <1>5 DEF LengthStep
  <2> HIDE DEF n
  <2>3. CASE n > MaxBody
    BY <1>5, <2>1, <2>2, <2>3 DEF Heads
  <2>4. CASE ~(n > MaxBody)
    <3>1. LengthStep(a, c) = [a EXCEPT !.length = n, !.verdict = a.verdict] /\ n <= MaxBody
      BY <1>1, <2>1, <2>2, <2>4
    <3> QED BY <1>5, <2>1, <3>1 DEF Heads
  <2> QED BY <2>3, <2>4
<1> QED BY <1>3, <1>4, <1>5

LEMMA LengthFold ==
    ASSUME NEW acc \in Heads, NEW n \in Nat, NEW value, DOMAIN value = 1 .. n
    PROVE  FoldLeft(LengthStep, acc, value) \in Heads
<1> DEFINE step == [p \in (1 .. n) \X Heads |-> LengthStep(p[2], value[p[1]])]
           g == CHOOSE g : g = [s \in SUBSET DOMAIN value |->
                                  IF s = {} THEN acc ELSE LengthStep(g[s \ {Max(s)}], value[Max(s)])]
<1>1. Folds(n, Heads, acc, step)
  BY LengthStepTyped DEF Folds
<1>2. PICK f \in [SUBSET (1 .. n) -> Heads] : IsFold(f, n, acc, step)
  <2> HIDE DEF step
  <2> QED BY <1>1, FoldExists
<1>3. \A k \in 1 .. n, v \in Heads : step[<<k, v>>] = LengthStep(v, value[k])
  OBVIOUS
<1>4. f = [s \in SUBSET DOMAIN value |-> IF s = {} THEN acc ELSE LengthStep(f[s \ {Max(s)}], value[Max(s)])]
  <2> SUFFICES ASSUME NEW s \in SUBSET (1 .. n), s # {}
               PROVE  step[<<Max(s), f[s \ {Max(s)}]>>] = LengthStep(f[s \ {Max(s)}], value[Max(s)])
    <3> HIDE DEF step
    <3> QED BY <1>2 DEF IsFold
  <2>1. Max(s) \in 1 .. n /\ f[s \ {Max(s)}] \in Heads
    BY MaxOf
  <2> HIDE DEF step
  <2> QED BY <1>3, <2>1
<1>5. g = [s \in SUBSET DOMAIN value |-> IF s = {} THEN acc ELSE LengthStep(g[s \ {Max(s)}], value[Max(s)])]
  BY <1>4, Zenon
<1>6. FoldLeft(LengthStep, acc, value) = g[DOMAIN value]
  BY Zenon DEF FoldLeft, MapThenFoldSet
<1> HIDE DEF g, step
<1>7. g[{}] = acc
  BY <1>5
<1>8. ASSUME NEW k \in 1 .. n, g[1 .. (k - 1)] \in Heads
      PROVE  g[1 .. k] = step[<<k, g[1 .. (k - 1)]>>]
  <2>1. 1 .. k \in SUBSET (1 .. n) /\ 1 .. k # {} /\ Max(1 .. k) = k /\ (1 .. k) \ {Max(1 .. k)} = 1 .. (k - 1)
    BY MaxInterval
  <2>2. g[1 .. k] = LengthStep(g[(1 .. k) \ {Max(1 .. k)}], value[Max(1 .. k)])
    BY <1>5, <2>1
  <2> QED BY <1>3, <1>8, <2>1, <2>2
<1>9. g[1 .. n] \in Heads
  <2>1. \A k \in 0 .. n : g[1 .. k] \in Heads
    BY <1>1, <1>7, <1>8, FoldRuns
  <2> QED BY <2>1
<1> QED BY <1>6, <1>9

\* A text's trimmed value has a length.
LEMMA TrimmedDomain ==
    ASSUME NEW s \in Seq(STRING)
    PROVE  \E n \in Nat : DOMAIN trimSpaces(s) = 1 .. n
<1> DEFINE kept == {i \in 1 .. Len(s) : s[i] \notin Space}
<1>1. CASE kept = {}
  <2>1. trimSpaces(s) = << >>
    BY <1>1 DEF trimSpaces
  <2>2. DOMAIN trimSpaces(s) = 1 .. 0
    BY <2>1
  <2> QED BY <2>2
<1>2. CASE kept # {}
  <2>1. kept \in SUBSET (1 .. Len(s)) /\ kept \in SUBSET Nat /\ Len(s) \in Nat
    OBVIOUS
  <2>2. trimSpaces(s) = SubSeq(s, Min(kept), Max(kept))
    BY <1>2 DEF trimSpaces
  <2> HIDE DEF kept
  <2>3. Min(kept) \in 1 .. Len(s) /\ Max(kept) \in 1 .. Len(s)
    BY <1>2, <2>1, MinOf, MaxOf
  <2>4. SubSeq(s, Min(kept), Max(kept)) \in Seq(STRING)
    <3>1. \A i \in Min(kept) .. Max(kept) : s[i] \in STRING
      BY <2>3
    <3> QED BY <2>3, <3>1, SubSeqProperties
  <2> QED BY <2>2, <2>4
<1> QED BY <1>1, <1>2

LEMMA HeaderStepTyped ==
    ASSUME NEW a \in Heads, NEW line, line.text \in Seq(STRING)
    PROVE  HeaderStep(a, line) \in Heads
<1> DEFINE colon == FirstIndex(line.text, LAMBDA c : c = ":")
           name == SubSeq(line.text, 1, colon - 1)
           rest == SubSeq(line.text, colon + 1, Len(line.text))
           value == trimSpaces(rest)
<1>1. CASE a.verdict # "Ok"
  BY <1>1 DEF HeaderStep
<1>2. [a EXCEPT !.verdict = "Bad"] \in Heads
  BY DEF Heads
<1>3. [a EXCEPT !.have = TRUE] \in Heads
  BY DEF Heads
<1>4. FoldLeft(LengthStep, [a EXCEPT !.have = TRUE], value) \in Heads
  <2>1. colon \in 1 .. Len(line.text) + 1
    <3> DEFINE at == {i \in 1 .. Len(line.text) : line.text[i] = ":"} \cup {Len(line.text) + 1}
    <3>1. colon = Min(at)
      BY Zenon DEF FirstIndex
    <3>2. at \in SUBSET Nat /\ at # {} /\ at \subseteq 1 .. Len(line.text) + 1
      OBVIOUS
    <3> HIDE DEF at, colon
    <3> QED BY <3>1, <3>2, MinOf
  <2>2. rest \in Seq(STRING)
    <3> HIDE DEF colon
    <3>1. colon + 1 \in Int /\ Len(line.text) \in Int /\ \A i \in colon + 1 .. Len(line.text) : line.text[i] \in STRING
      BY <2>1
    <3> QED BY <3>1, SubSeqProperties
  <2> HIDE DEF rest
  <2>3. PICK n \in Nat : DOMAIN value = 1 .. n
    BY <2>2, TrimmedDomain
  <2> HIDE DEF value
  <2> QED BY <1>3, <2>3, LengthFold
<1> HIDE DEF name, value, colon
<1>5. CASE a.verdict = "Ok"
  BY <1>2, <1>4, <1>5, Zenon DEF HeaderStep, colon, name, value, rest
<1> QED BY <1>1, <1>5

LEMMA HeadersFold ==
    ASSUME NEW n \in Nat, NEW headers, DOMAIN headers = 1 .. n,
           \A k \in 1 .. n : headers[k].text \in Seq(STRING)
    PROVE  FoldLeft(HeaderStep, NoHeaders, headers) \in Heads
<1> DEFINE step == [p \in (1 .. n) \X Heads |-> HeaderStep(p[2], headers[p[1]])]
           g == CHOOSE g : g = [s \in SUBSET DOMAIN headers |->
                                  IF s = {} THEN NoHeaders ELSE HeaderStep(g[s \ {Max(s)}], headers[Max(s)])]
<1>1. Folds(n, Heads, NoHeaders, step)
  <2>1. NoHeaders \in Heads
    BY PortalCodecAssumption DEF NoHeaders, Heads
  <2>2. ASSUME NEW k \in 1 .. n, NEW v \in Heads PROVE HeaderStep(v, headers[k]) \in Heads
    BY HeaderStepTyped
  <2> QED BY <2>1, <2>2 DEF Folds
<1>2. PICK f \in [SUBSET (1 .. n) -> Heads] : IsFold(f, n, NoHeaders, step)
  <2> HIDE DEF step
  <2> QED BY <1>1, FoldExists
<1>3. \A k \in 1 .. n, v \in Heads : step[<<k, v>>] = HeaderStep(v, headers[k])
  OBVIOUS
<1>4. f = [s \in SUBSET DOMAIN headers |-> IF s = {} THEN NoHeaders ELSE HeaderStep(f[s \ {Max(s)}], headers[Max(s)])]
  <2> SUFFICES ASSUME NEW s \in SUBSET (1 .. n), s # {}
               PROVE  step[<<Max(s), f[s \ {Max(s)}]>>] = HeaderStep(f[s \ {Max(s)}], headers[Max(s)])
    <3> HIDE DEF step
    <3> QED BY <1>2 DEF IsFold
  <2>1. Max(s) \in 1 .. n /\ f[s \ {Max(s)}] \in Heads
    BY MaxOf
  <2> HIDE DEF step
  <2> QED BY <1>3, <2>1
<1>5. g = [s \in SUBSET DOMAIN headers |-> IF s = {} THEN NoHeaders ELSE HeaderStep(g[s \ {Max(s)}], headers[Max(s)])]
  BY <1>4, Zenon
<1>6. FoldLeft(HeaderStep, NoHeaders, headers) = g[DOMAIN headers]
  BY Zenon DEF FoldLeft, MapThenFoldSet
<1> HIDE DEF g, step
<1>7. g[{}] = NoHeaders
  BY <1>5
<1>8. ASSUME NEW k \in 1 .. n, g[1 .. (k - 1)] \in Heads
      PROVE  g[1 .. k] = step[<<k, g[1 .. (k - 1)]>>]
  <2>1. 1 .. k \in SUBSET (1 .. n) /\ 1 .. k # {} /\ Max(1 .. k) = k /\ (1 .. k) \ {Max(1 .. k)} = 1 .. (k - 1)
    BY MaxInterval
  <2>2. g[1 .. k] = HeaderStep(g[(1 .. k) \ {Max(1 .. k)}], headers[Max(1 .. k)])
    BY <1>5, <2>1
  <2> QED BY <1>3, <1>8, <2>1, <2>2
<1>9. g[1 .. n] \in Heads
  <2>1. \A k \in 0 .. n : g[1 .. k] \in Heads
    BY <1>1, <1>7, <1>8, FoldRuns
  <2> QED BY <2>1
<1> QED BY <1>6, <1>9

Lines(B) == Seq(Seq(B)) \ { << >> }

\* What one more element makes of the pieces so far.
SplitPut(v, x, c) == IF x = c THEN Append(v, << >>) ELSE [v EXCEPT ![Len(v)] = Append(@, x)]

LEMMA SplitPutTyped ==
    ASSUME NEW B, NEW v \in Lines(B), NEW x \in B, NEW c
    PROVE  SplitPut(v, x, c) \in Lines(B)
<1> USE DEF SplitPut
<1>1. v \in Seq(Seq(B)) /\ Len(v) \in Nat \ {0} /\ v[Len(v)] \in Seq(B)
  BY DEF Lines
<1>2. CASE x = c
  <2>1. << >> \in Seq(B)
    OBVIOUS
  <2>2. Append(v, << >>) \in Seq(Seq(B)) /\ Append(v, << >>) # << >>
    BY <1>1, <2>1, AppendProperties
  <2> QED BY <1>2, <2>2 DEF Lines
<1>3. CASE x # c
  <2>1. Append(v[Len(v)], x) \in Seq(B)
    BY <1>1, AppendProperties
  <2> DEFINE e == Append(v[Len(v)], x)
             w == [v EXCEPT ![Len(v)] = e]
  <2> HIDE DEF e
  <2>2. w \in Seq(Seq(B)) /\ Len(w) = Len(v)
    <3>0. e \in Seq(B)
      BY <2>1, Zenon DEF e
    <3>1. Len(v) \in 1 .. Len(v) /\ Len(v) \in Nat
      BY <1>1
    <3>2. v \in [1 .. Len(v) -> Seq(B)]
      BY <1>1, LenProperties
    <3>3. w \in [1 .. Len(v) -> Seq(B)]
      BY <3>0, <3>1, <3>2
    <3> HIDE DEF w
    <3>4. w \in Seq(Seq(B))
      <4>1. Seq(Seq(B)) = UNION {[1 .. k -> Seq(B)] : k \in Nat}
        BY SeqDef
      <4>2. [1 .. Len(v) -> Seq(B)] \in {[1 .. k -> Seq(B)] : k \in Nat}
        BY <3>1
      <4> QED BY <3>3, <4>1, <4>2, Zenon
    <3>5. Len(w) \in Nat /\ 1 .. Len(w) = 1 .. Len(v)
      BY <3>3, <3>4, LenProperties
    <3> QED BY <1>1, <3>4, <3>5
  <2>3. w # << >>
    <3> HIDE DEF w
    <3> QED BY <1>1, <2>2
  <2> QED BY <1>3, <2>2, <2>3 DEF Lines, e
<1> QED BY <1>2, <1>3

LEMMA SplitHistory ==
    ASSUME NEW B, NEW s \in Seq(B), NEW c
    PROVE  \E h \in [0 .. Len(s) -> Lines(B)] :
              /\ h[0] = << << >> >> /\ \A k \in 1 .. Len(s) : h[k] = SplitPut(h[k - 1], s[k], c)
              /\ Split(s, c) = h[Len(s)]
<1> DEFINE n == Len(s)
           none == << << >> >>
           step == [p \in (1 .. n) \X Lines(B) |-> SplitPut(p[2], s[p[1]], c)]
           g == CHOOSE g : g = [t \in SUBSET DOMAIN s |->
                                  IF t = {} THEN none ELSE SplitPut(g[t \ {Max(t)}], s[Max(t)], c)]
<1>0. n \in Nat /\ DOMAIN s = 1 .. n /\ \A k \in 1 .. n : s[k] \in B
  OBVIOUS
<1>1. Folds(n, Lines(B), none, step)
  <2>1. none \in Lines(B)
    BY DEF Lines
  <2>3. ASSUME NEW k \in 1 .. n, NEW v \in Lines(B) PROVE SplitPut(v, s[k], c) \in Lines(B)
    BY <1>0, SplitPutTyped
  <2> QED BY <1>0, <2>1, <2>3 DEF Folds
<1>2. PICK f \in [SUBSET (1 .. n) -> Lines(B)] : IsFold(f, n, none, step)
  <2> HIDE DEF step, n, none
  <2> QED BY <1>1, FoldExists
<1>6. Split(s, c) = g[DOMAIN s]
  BY Zenon DEF Split, SplitPut, FoldLeft, MapThenFoldSet
<1> HIDE DEF n, none
<1>3. \A k \in 1 .. n, v \in Lines(B) : step[<<k, v>>] = SplitPut(v, s[k], c)
  OBVIOUS
<1>4. f = [t \in SUBSET DOMAIN s |-> IF t = {} THEN none ELSE SplitPut(f[t \ {Max(t)}], s[Max(t)], c)]
  <2> SUFFICES ASSUME NEW t \in SUBSET (1 .. n), t # {}
               PROVE  step[<<Max(t), f[t \ {Max(t)}]>>] = SplitPut(f[t \ {Max(t)}], s[Max(t)], c)
    <3> HIDE DEF step
    <3> QED BY <1>0, <1>2 DEF IsFold
  <2>1. Max(t) \in 1 .. n /\ f[t \ {Max(t)}] \in Lines(B)
    BY <1>0, MaxOf
  <2> HIDE DEF step
  <2> QED BY <1>3, <2>1
<1>5. g = [t \in SUBSET DOMAIN s |-> IF t = {} THEN none ELSE SplitPut(g[t \ {Max(t)}], s[Max(t)], c)]
  BY <1>4, Zenon
<1> HIDE DEF g, step
<1>7. g[{}] = none
  BY <1>5
<1>8. ASSUME NEW k \in 1 .. n, g[1 .. (k - 1)] \in Lines(B)
      PROVE  g[1 .. k] = step[<<k, g[1 .. (k - 1)]>>]
  <2>1. 1 .. k \in SUBSET (1 .. n) /\ 1 .. k # {} /\ Max(1 .. k) = k /\ (1 .. k) \ {Max(1 .. k)} = 1 .. (k - 1)
    BY <1>0, MaxInterval
  <2>2. g[1 .. k] = SplitPut(g[(1 .. k) \ {Max(1 .. k)}], s[Max(1 .. k)], c)
    BY <1>0, <1>5, <2>1
  <2> QED BY <1>3, <1>8, <2>1, <2>2
<1>9. /\ \A k \in 0 .. n : g[1 .. k] \in Lines(B)
      /\ \A k \in 1 .. n : g[1 .. k] = step[<<k, g[1 .. (k - 1)]>>]
  BY <1>1, <1>7, <1>8, FoldRuns
<1> DEFINE h == [k \in 0 .. n |-> g[1 .. k]]
<1>10. h \in [0 .. n -> Lines(B)]
  BY <1>9
<1>11. h[0] = none
  <2>1. 1 .. 0 = {} /\ 0 \in 0 .. n
    BY <1>0
  <2> QED BY <1>7, <2>1
<1>12. ASSUME NEW k \in 1 .. n PROVE h[k] = SplitPut(h[k - 1], s[k], c)
  <2>1. k \in 0 .. n /\ k - 1 \in 0 .. n
    BY <1>0
  <2>2. g[1 .. k] = SplitPut(g[1 .. (k - 1)], s[k], c)
    BY <1>3, <1>9, <2>1
  <2> QED BY <2>1, <2>2
<1>13. Split(s, c) = h[n]
  <2>1. n \in 0 .. n
    BY <1>0
  <2> QED BY <1>0, <1>6, <2>1
<1> HIDE DEF h
<1>14. \E hh \in [0 .. n -> Lines(B)] :
          /\ hh[0] = none /\ \A k \in 1 .. n : hh[k] = SplitPut(hh[k - 1], s[k], c)
          /\ Split(s, c) = hh[n]
  BY <1>10, <1>11, <1>12, <1>13
<1> QED BY <1>14 DEF n, none

LEMMA SplitTyped ==
    ASSUME NEW B, NEW s \in Seq(B), NEW c
    PROVE  Split(s, c) \in Lines(B)
<1>1. Len(s) \in 0 .. Len(s)
  OBVIOUS
<1> QED BY <1>1, SplitHistory

\* A head is judged, and one that is accepted asks for a body within the cap.
LEMMA HeadTyped ==
    ASSUME NEW text \in Seq(STRING)
    PROVE  LET head == parseHead(text)
           IN  /\ head.verdict \in {"Ok", "Bad", "TooLarge"}
               /\ head.verdict = "Ok" => head.length \in 0 .. MaxBody
<1> DEFINE lines == Split(text, "CR")
           lf(k) == k = Len(lines) \/ (lines[k + 1] # <<>> /\ lines[k + 1][1] = "LF")
           line == RequestLine(lines[1])
           headers == [k \in 1 .. Len(lines) - 1 |->
                         [text |-> SubSeq(lines[k + 1], 2, Len(lines[k + 1])), lf |-> lf(k + 1)]]
           head == FoldLeft(HeaderStep, NoHeaders, headers)
<1>1. parseHead(text) = [line |-> line, length |-> head.length,
                         verdict |-> IF ~lf(1) \/ line = {} THEN "Bad" ELSE head.verdict]
  BY Zenon DEF parseHead
<1>2. lines \in Seq(Seq(STRING)) /\ Len(lines) - 1 \in Nat
  BY SplitTyped DEF Lines
<1> HIDE DEF lines
<1>3. ASSUME NEW k \in 1 .. Len(lines) - 1 PROVE headers[k].text \in Seq(STRING)
  <2>1. lines[k + 1] \in Seq(STRING)
    BY <1>2
  <2>2. SubSeq(lines[k + 1], 2, Len(lines[k + 1])) \in Seq(STRING)
    <3>1. 2 \in Int /\ Len(lines[k + 1]) \in Int /\ \A i \in 2 .. Len(lines[k + 1]) : lines[k + 1][i] \in STRING
      BY <2>1
    <3> QED BY <3>1, SubSeqProperties
  <2> HIDE DEF lf
  <2> QED BY <2>2
<1>4. head \in Heads
  <2>1. DOMAIN headers = 1 .. (Len(lines) - 1)
    OBVIOUS
  <2> HIDE DEF headers
  <2> QED BY <1>2, <1>3, <2>1, HeadersFold
<1> HIDE DEF head, lf, line
<1> QED BY <1>1, <1>4, PortalCodecAssumption DEF Heads

\* The first k bytes of what a client sends.
LEMMA Prefix ==
    ASSUME NEW w \in Seq(STRING), NEW k \in 0 .. Len(w)
    PROVE  /\ SubSeq(w, 1, k) \in Seq(STRING)
           /\ Len(SubSeq(w, 1, k)) = k
           /\ \A i \in 1 .. k : SubSeq(w, 1, k)[i] = w[i]
<1>1. k \in Nat /\ \A i \in 1 .. k : w[i] \in STRING
  OBVIOUS
<1>2. /\ SubSeq(w, 1, k) \in Seq(STRING)
      /\ Len(SubSeq(w, 1, k)) = IF 1 <= k THEN k - 1 + 1 ELSE 0
      /\ \A i \in 1 .. k - 1 + 1 : SubSeq(w, 1, k)[i] = w[1 + i - 1]
  BY <1>1, SubSeqProperties
<1> QED BY <1>1, <1>2

LEMMA Window ==
    ASSUME NEW s \in Seq(STRING), NEW m \in Nat \ {0}, NEW n \in Nat, n <= Len(s)
    PROVE  /\ SubSeq(s, m, n) \in Seq(STRING)
           /\ Len(SubSeq(s, m, n)) = IF m <= n THEN n - m + 1 ELSE 0
           /\ \A i \in 1 .. Len(SubSeq(s, m, n)) : SubSeq(s, m, n)[i] = s[m + i - 1]
<1>1. \A i \in m .. n : s[i] \in STRING
  OBVIOUS
<1>2. /\ SubSeq(s, m, n) \in Seq(STRING)
      /\ Len(SubSeq(s, m, n)) = IF m <= n THEN n - m + 1 ELSE 0
      /\ \A i \in 1 .. n - m + 1 : SubSeq(s, m, n)[i] = s[m + i - 1]
  BY <1>1, SubSeqProperties
<1> QED BY <1>2

LEMMA SameWindow ==
    ASSUME NEW w \in Seq(STRING), NEW k \in 0 .. Len(w), NEW m \in Nat \ {0}, NEW n \in Nat, n <= k
    PROVE  SubSeq(SubSeq(w, 1, k), m, n) = SubSeq(w, m, n)
<1> DEFINE p == SubSeq(w, 1, k)
           a == SubSeq(p, m, n)
           b == SubSeq(w, m, n)
<1>1. p \in Seq(STRING) /\ Len(p) = k /\ \A i \in 1 .. k : p[i] = w[i]
  BY Prefix
<1>2. /\ a \in Seq(STRING) /\ Len(a) = IF m <= n THEN n - m + 1 ELSE 0
      /\ \A i \in 1 .. Len(a) : a[i] = p[m + i - 1]
  <2> HIDE DEF p
  <2> QED BY <1>1, Window
<1>3. /\ b \in Seq(STRING) /\ Len(b) = IF m <= n THEN n - m + 1 ELSE 0
      /\ \A i \in 1 .. Len(b) : b[i] = w[m + i - 1]
  <2>1. n <= Len(w)
    OBVIOUS
  <2> QED BY <2>1, Window
<1> HIDE DEF p, a, b
<1>4. ASSUME NEW i \in 1 .. Len(a) PROVE a[i] = b[i]
  <2>1. m <= n /\ i \in 1 .. n - m + 1
    BY <1>2
  <2>2. m + i - 1 \in 1 .. k
    BY <2>1
  <2> QED BY <1>1, <1>2, <1>3, <2>1, <2>2
<1>5. Len(a) = Len(b)
  BY <1>2, <1>3
<1>6. a = b
  BY <1>2, <1>3, <1>4, <1>5, SeqEqual
<1> QED BY <1>6 DEF a, b, p

BlankLines(buf) ==
    {i \in 1 .. Len(buf) - 3 : i <= MaxHead + 1 /\ SubSeq(buf, i, i + 3) = <<"CR", "LF", "CR", "LF">>}

LEMMA HeadEndIs ==
    ASSUME NEW buf \in Seq(STRING)
    PROVE  /\ BlankLines(buf) \in SUBSET Nat
           /\ HeadEnd(buf) = 0 <=> BlankLines(buf) = {}
           /\ BlankLines(buf) # {} => /\ HeadEnd(buf) \in BlankLines(buf)
                                      /\ \A i \in BlankLines(buf) : HeadEnd(buf) <= i
<1>1. HeadEnd(buf) = IF BlankLines(buf) = {} THEN 0 ELSE Min(BlankLines(buf))
  BY Zenon DEF HeadEnd, BlankLines
<1>2. BlankLines(buf) \in SUBSET Nat /\ 0 \notin BlankLines(buf)
  BY DEF BlankLines
<1> QED BY <1>1, <1>2, MinOf

\* Where the head ends does not change when more arrives, nor does its overflow.
LEMMA HeadEndStable ==
    ASSUME NEW w \in Seq(STRING), NEW k \in 0 .. Len(w), NEW p, p = SubSeq(w, 1, k)
    PROVE  /\ HeadEnd(p) # 0 => HeadEnd(w) = HeadEnd(p) /\ HeadEnd(p) \in 1 .. k - 3
           /\ HeadEnd(p) = 0 /\ HeadOverflow(p) => HeadEnd(w) = 0 /\ HeadOverflow(w)
<1>0. MaxHead \in Nat /\ Len(w) \in Nat /\ k \in Nat /\ k <= Len(w)
  BY PortalCodecAssumption
<1>1. p \in Seq(STRING) /\ Len(p) = k
  BY Prefix
<1>2. ASSUME NEW i \in 1 .. k - 3 PROVE i \in BlankLines(p) <=> i \in BlankLines(w)
  <2>1. i \in Nat \ {0} /\ i + 3 \in Nat /\ i + 3 <= k /\ i \in 1 .. Len(w) - 3
    BY <1>0
  <2>2. SubSeq(p, i, i + 3) = SubSeq(w, i, i + 3)
    BY <2>1, SameWindow
  <2> QED BY <1>1, <2>1, <2>2 DEF BlankLines
<1>3. BlankLines(p) \subseteq 1 .. k - 3 /\ \A i \in BlankLines(w) : i \in Nat /\ i >= 1 /\ i <= MaxHead + 1 /\ i <= Len(w) - 3
  BY <1>0, <1>1 DEF BlankLines
<1>4. ASSUME HeadEnd(p) # 0 PROVE HeadEnd(w) = HeadEnd(p) /\ HeadEnd(p) \in 1 .. k - 3
  <2>1. HeadEnd(p) \in BlankLines(p) /\ \A i \in BlankLines(p) : HeadEnd(p) <= i
    BY <1>1, <1>4, HeadEndIs
  <2>2. HeadEnd(p) \in 1 .. k - 3 /\ HeadEnd(p) \in BlankLines(w)
    BY <1>2, <1>3, <2>1
  <2>3. HeadEnd(w) \in BlankLines(w) /\ \A i \in BlankLines(w) : HeadEnd(w) <= i
    BY <2>2, HeadEndIs
  <2>4. HeadEnd(w) <= HeadEnd(p) /\ HeadEnd(w) \in 1 .. k - 3
    BY <1>0, <1>3, <2>2, <2>3
  <2>5. HeadEnd(w) \in BlankLines(p)
    BY <1>2, <2>3, <2>4
  <2> QED BY <2>1, <2>2, <2>4, <2>5
<1>5. ASSUME HeadEnd(p) = 0, HeadOverflow(p) PROVE HeadEnd(w) = 0 /\ HeadOverflow(w)
  <2>1. k > MaxHead + 3 /\ HeadOverflow(w)
    BY <1>0, <1>1, <1>5 DEF HeadOverflow
  <2>2. BlankLines(p) = {}
    BY <1>1, <1>5, HeadEndIs
  <2>3. ASSUME NEW i \in BlankLines(w) PROVE FALSE
    <3>1. i \in 1 .. k - 3
      BY <1>0, <1>3, <2>1
    <3> QED BY <1>2, <2>2, <3>1
  <2> QED BY <2>1, <2>3, HeadEndIs
<1> QED BY <1>4, <1>5

\* A decision does not change when more arrives.
LEMMA ParseStable ==
    ASSUME NEW w \in Seq(STRING), NEW k \in 0 .. Len(w), NEW p, p = SubSeq(w, 1, k),
           parseHttpRequest(p).verdict # "Incomplete"
    PROVE  parseHttpRequest(w) = parseHttpRequest(p)
<1>0. p \in Seq(STRING) /\ Len(p) = k /\ k \in Nat /\ Len(w) \in Nat /\ k <= Len(w)
  BY Prefix
<1>1. CASE HeadEnd(p) = 0
  <2>1. HeadOverflow(p)
    BY <1>1 DEF parseHttpRequest, Parsed
  <2>2. HeadEnd(w) = 0 /\ HeadOverflow(w)
    BY <1>1, <2>1, HeadEndStable
  <2> QED BY <1>1, <2>1, <2>2, Zenon DEF parseHttpRequest
<1>2. CASE HeadEnd(p) # 0
  <2> DEFINE h == HeadEnd(p)
             head == parseHead(SubSeq(p, 1, h - 1))
             pb == SubSeq(p, h + 4, Len(p))
             wb == SubSeq(w, h + 4, Len(w))
             Answer(body) == [verdict |-> "Ok", req |-> [(CHOOSE r \in head.line : TRUE) EXCEPT
                                 !.body = SubSeq(body, 1, Min({head.length, Len(body)}))]]
             Result(body) == IF head.verdict # "Ok" THEN Parsed(head.verdict)
                             ELSE IF ~BodyArrived(body, head.length) THEN Parsed("Incomplete")
                             ELSE Answer(body)
  <2>1. HeadEnd(w) = h /\ h \in 1 .. k - 3
    BY <1>2, HeadEndStable
  <2>2. SubSeq(w, 1, h - 1) = SubSeq(p, 1, h - 1)
    <3>1. 1 \in Nat \ {0} /\ h - 1 \in Nat /\ h - 1 <= k
      BY <1>0, <2>1
    <3> QED BY <3>1, SameWindow
  <2>3. parseHttpRequest(p) = Result(pb)
    BY <1>2, Zenon DEF parseHttpRequest
  <2>4. parseHttpRequest(w) = Result(wb)
    BY <1>2, <2>1, <2>2, Zenon DEF parseHttpRequest
  <2>5. CASE head.verdict # "Ok"
    BY <2>3, <2>4, <2>5, Zenon
  <2>6. CASE head.verdict = "Ok"
    <3>1. head.length \in Nat
      <4>1. SubSeq(p, 1, h - 1) \in Seq(STRING)
        <5>1. 1 \in Nat \ {0} /\ h - 1 \in Nat /\ h - 1 <= Len(p)
          BY <1>0, <2>1
        <5> QED BY <1>0, <5>1, Window
      <4>2. head.length \in 0 .. MaxBody
        BY <2>6, <4>1, HeadTyped
      <4> QED BY <4>2
    <3>2. BodyArrived(pb, head.length)
      <4>1. parseHttpRequest(p) # Parsed("Incomplete")
        BY DEF Parsed
      <4> QED BY <2>3, <2>6, <4>1, Zenon
    <3>3. /\ pb \in Seq(STRING) /\ Len(pb) = k - h - 3
          /\ \A i \in 1 .. Len(pb) : pb[i] = p[h + 4 + i - 1]
      <4>1. h + 4 \in Nat \ {0} /\ k - h - 3 = IF h + 4 <= k THEN k - (h + 4) + 1 ELSE 0
        BY <1>0, <2>1
      <4>2. Len(p) = k /\ p \in Seq(STRING)
        BY <1>0, Zenon
      <4>3. pb = SubSeq(p, h + 4, k)
        BY <4>2, Zenon
      <4>4. k <= Len(p)
        BY <1>0, <4>2
      <4> HIDE DEF pb, h
      <4> QED BY <1>0, <4>1, <4>2, <4>3, <4>4, Window
    <3>4. /\ wb \in Seq(STRING) /\ Len(wb) = Len(w) - h - 3
          /\ \A i \in 1 .. Len(wb) : wb[i] = w[h + 4 + i - 1]
      <4>1. h + 4 \in Nat \ {0} /\ Len(w) - h - 3 = IF h + 4 <= Len(w) THEN Len(w) - (h + 4) + 1 ELSE 0
        BY <1>0, <2>1
      <4> QED BY <1>0, <4>1, Window
    <3> DEFINE n == head.length
    <3> HIDE DEF head, pb, wb
    <3>5. n \in Nat /\ n <= Len(pb) /\ n <= Len(wb)
      BY <1>0, <2>1, <3>1, <3>2, <3>3, <3>4 DEF BodyArrived
    <3>6. BodyArrived(wb, n)
      BY <3>4, <3>5 DEF BodyArrived
    <3>7. Min({n, Len(pb)}) = n /\ Min({n, Len(wb)}) = n
      <4>1. Len(pb) \in Int /\ Len(wb) \in Int /\ n \in Int
        BY <3>3, <3>4, <3>5
      <4> QED BY <3>5, <4>1, MinOfTwo
    <3>8. SubSeq(pb, 1, n) = SubSeq(wb, 1, n)
      <4> DEFINE a == SubSeq(pb, 1, n)
                 b == SubSeq(wb, 1, n)
      <4>1. a \in Seq(STRING) /\ Len(a) = n /\ \A i \in 1 .. n : a[i] = pb[i]
        BY <3>3, <3>5, Prefix
      <4>2. b \in Seq(STRING) /\ Len(b) = n /\ \A i \in 1 .. n : b[i] = wb[i]
        BY <3>4, <3>5, Prefix
      <4> HIDE DEF n, a, b
      <4>3. ASSUME NEW i \in 1 .. n PROVE a[i] = b[i]
        <5>1. i \in 1 .. Len(pb) /\ i \in 1 .. Len(wb) /\ h + 4 + i - 1 \in 1 .. k
          BY <1>0, <2>1, <3>3, <3>5
        <5>2. p[h + 4 + i - 1] = w[h + 4 + i - 1]
          BY <5>1, Prefix
        <5> QED BY <3>3, <3>4, <4>1, <4>2, <5>1, <5>2
      <4>4. a = b
        BY <4>1, <4>2, <4>3, SeqEqual
      <4> QED BY <4>4 DEF a, b
    <3>9. Answer(pb) = Answer(wb)
      BY <3>7, <3>8, Zenon DEF n
    <3> HIDE DEF Answer
    <3> QED BY <2>3, <2>4, <2>6, <3>2, <3>6, <3>9, Zenon DEF n
  <2> QED BY <2>5, <2>6
<1> QED BY <1>1, <1>2

\* What is not decided yet is short: a head of MaxHead, its blank line less one
\* byte, and less than MaxBody.
LEMMA UndecidedShort ==
    ASSUME NEW p \in Seq(STRING), parseHttpRequest(p).verdict = "Incomplete"
    PROVE  Len(p) <= MaxHead + 3 + MaxBody
<1>0. MaxHead \in Nat /\ MaxBody \in Nat \ {0} /\ Len(p) \in Nat
  BY PortalCodecAssumption
<1>1. CASE HeadEnd(p) = 0
  <2>1. ~HeadOverflow(p)
    BY <1>1 DEF parseHttpRequest, Parsed
  <2> QED BY <1>0, <2>1 DEF HeadOverflow
<1>2. CASE HeadEnd(p) # 0
  <2> DEFINE h == HeadEnd(p)
             head == parseHead(SubSeq(p, 1, h - 1))
             body == SubSeq(p, h + 4, Len(p))
  <2>1. h \in 1 .. Len(p) - 3 /\ h <= MaxHead + 1
    <3>1. h \in BlankLines(p)
      BY <1>2, HeadEndIs
    <3> QED BY <3>1 DEF BlankLines
  <2>2. /\ head.verdict \in {"Ok", "Bad", "TooLarge"}
        /\ head.verdict = "Ok" => head.length \in 0 .. MaxBody
    <3>1. SubSeq(p, 1, h - 1) \in Seq(STRING)
      <4>1. 1 \in Nat \ {0} /\ h - 1 \in Nat /\ h - 1 <= Len(p)
        BY <1>0, <2>1
      <4> QED BY <4>1, Window
    <3> QED BY <3>1, HeadTyped
  <2>3. Len(body) = Len(p) - h - 3
    <3>1. h + 4 \in Nat \ {0} /\ Len(p) - h - 3 = IF h + 4 <= Len(p) THEN Len(p) - (h + 4) + 1 ELSE 0
      BY <1>0, <2>1
    <3> QED BY <1>0, <3>1, Window
  <2> HIDE DEF head, body
  <2>4. head.verdict = "Ok" /\ ~BodyArrived(body, head.length)
    <3>1. CASE head.verdict # "Ok"
      <4>1. parseHttpRequest(p) = Parsed(head.verdict)
        BY <1>2, <3>1, Zenon DEF parseHttpRequest, head
      <4> QED BY <2>2, <4>1 DEF Parsed
    <3>2. CASE head.verdict = "Ok" /\ BodyArrived(body, head.length)
      <4>1. parseHttpRequest(p) = [verdict |-> "Ok", req |-> [(CHOOSE r \in head.line : TRUE) EXCEPT
                                     !.body = SubSeq(body, 1, Min({head.length, Len(body)}))]]
        BY <1>2, <3>2, Zenon DEF parseHttpRequest, head, body
      <4> QED BY <4>1
    <3> QED BY <3>1, <3>2
  <2>5. Len(p) - h - 3 < MaxBody
    BY <1>0, <2>1, <2>2, <2>3, <2>4 DEF BodyArrived
  <2> QED BY <1>0, <2>1, <2>5
<1> QED BY <1>1, <1>2

\* What serveOne() has read is the start of what the client sends, it has
\* parsed all of it, and it reads on only while that is not decided.
HttpInv ==
    job.op = "http" =>
        /\ job.in \in Seq(STRING)
        /\ st = [done |-> st.done, buf |-> st.buf, got |-> st.got, answer |-> st.answer]
        /\ Len(st.buf) \in 0 .. Len(job.in) /\ st.buf = SubSeq(job.in, 1, Len(st.buf))
        /\ st.got = parseHttpRequest(st.buf)
        /\ ~st.done => st.got.verdict = "Incomplete"
        /\ Len(st.buf) <= MaxHead + 3 + MaxBody + Chunk

LEMMA HttpInvInit == CodecInit => HttpInv
<1> SUFFICES ASSUME CodecInit, job.op = "http" PROVE HttpInv
  BY DEF HttpInv
<1>1. PICK w \in Requests :
        /\ job = [op |-> "http", in |-> w]
        /\ st = [done |-> FALSE, buf |-> << >>, got |-> Parsed("Incomplete"), answer |-> "none"]
  BY JobStarts DEF HttpInit
<1>2. w \in Seq(STRING) /\ MaxHead \in Nat /\ MaxBody \in Nat /\ Chunk \in Nat
  BY CodecAssumption, PortalCodecAssumption
<1>3. SubSeq(w, 1, 0) \in Seq(STRING) /\ Len(SubSeq(w, 1, 0)) = 0
  BY <1>2, Prefix
<1>4. SubSeq(w, 1, 0) = << >>
  BY <1>3
<1>5. parseHttpRequest(<< >>) = Parsed("Incomplete")
  <2>1. << >> \in Seq(STRING) /\ Len(<< >>) = 0
    OBVIOUS
  <2>2. BlankLines(<< >>) = {}
    BY <2>1 DEF BlankLines
  <2>3. HeadEnd(<< >>) = 0
    BY <2>1, <2>2, HeadEndIs
  <2>4. ~HeadOverflow(<< >>)
    BY <1>2, <2>1 DEF HeadOverflow
  <2> QED BY <2>3, <2>4, Zenon DEF parseHttpRequest
<1>6. /\ st.buf = << >> /\ st.got = Parsed("Incomplete") /\ st.done = FALSE /\ job.in = w
      /\ st = [done |-> st.done, buf |-> st.buf, got |-> st.got, answer |-> st.answer]
  BY <1>1
<1>7. Parsed("Incomplete").verdict = "Incomplete" /\ Len(<< >>) = 0 /\ 0 \in 0 .. Len(w)
  BY <1>2 DEF Parsed
<1> QED BY <1>2, <1>4, <1>5, <1>6, <1>7 DEF HttpInv

LEMMA HttpInvStep ==
    ASSUME HttpInv, [CodecNext]_codecVars
    PROVE  HttpInv'
<1> SUFFICES ASSUME job'.op = "http" PROVE HttpInv'
  BY DEF HttpInv
<1>0. job' = job /\ job.op = "http"
  BY JobKept DEF codecVars
<1>1. /\ job.in \in Seq(STRING)
      /\ st = [done |-> st.done, buf |-> st.buf, got |-> st.got, answer |-> st.answer]
      /\ Len(st.buf) \in 0 .. Len(job.in) /\ st.buf = SubSeq(job.in, 1, Len(st.buf))
      /\ st.got = parseHttpRequest(st.buf)
      /\ ~st.done => st.got.verdict = "Incomplete"
      /\ Len(st.buf) <= MaxHead + 3 + MaxBody + Chunk
  BY <1>0 DEF HttpInv
<1>2. Len(job.in) \in Nat /\ MaxHead \in Nat /\ MaxBody \in Nat /\ Chunk \in Nat
  <2>1. Len(job.in) \in Nat
    BY <1>1, LenProperties
  <2>2. MaxHead \in Nat /\ MaxBody \in Nat
    BY PortalCodecAssumption
  <2>3. Chunk \in Nat
    BY CodecAssumption
  <2> QED BY <2>1, <2>2, <2>3
<1>3. CASE UNCHANGED codecVars
  BY <1>1, <1>3 DEF codecVars, HttpInv
<1>4. CASE ReadTimeout
  <2> DEFINE a == handle(st.got)
  <2> HIDE DEF a
  <2>1. st' = [st EXCEPT !.done = TRUE, !.answer = a]
    BY <1>4 DEF ReadTimeout, a
  <2>2. st'.buf = st.buf /\ st'.got = st.got /\ st'.done = TRUE /\ st'.answer = a
    BY <1>1, <2>1
  <2>3. st' = [done |-> st'.done, buf |-> st'.buf, got |-> st'.got, answer |-> st'.answer]
    BY <1>1, <2>1, <2>2
  <2> QED BY <1>0, <1>1, <2>2, <2>3 DEF HttpInv
<1>5. ASSUME NEW n \in 1 .. Chunk, Read(n) PROVE HttpInv'
  <2> DEFINE k == Len(st.buf) + n
             buf == SubSeq(job.in, 1, k)
             got == parseHttpRequest(buf)
             a == IF got.verdict # "Incomplete" THEN handle(got) ELSE "none"
  <2>1. /\ ~st.done /\ n \in 1 .. Len(job.in) - Len(st.buf)
        /\ st' = [done |-> got.verdict # "Incomplete", buf |-> buf, got |-> got, answer |-> a]
    BY <1>5, Zenon DEF Read, Pending
  <2>2. k \in 0 .. Len(job.in) /\ k <= Len(st.buf) + Chunk
    BY <1>1, <1>2, <2>1
  <2>3. Len(buf) = k
    BY <1>1, <2>2, Prefix
  <2>4. Len(st.buf) <= MaxHead + 3 + MaxBody
    <3>1. st.buf \in Seq(STRING)
      BY <1>1, Prefix
    <3>2. parseHttpRequest(st.buf).verdict = "Incomplete"
      BY <1>1, <2>1
    <3> QED BY <3>1, <3>2, UndecidedShort
  <2>5. k <= MaxHead + 3 + MaxBody + Chunk
    BY <1>1, <1>2, <2>2, <2>4
  <2> HIDE DEF k, got, a, buf
  <2>6. st'.buf = buf /\ st'.got = got /\ st'.done = (got.verdict # "Incomplete") /\ st'.answer = a
    BY <2>1
  <2>7. st' = [done |-> st'.done, buf |-> st'.buf, got |-> st'.got, answer |-> st'.answer]
    BY <2>1, <2>6, Zenon
  <2> QED BY <1>0, <1>1, <2>2, <2>3, <2>5, <2>6, <2>7 DEF HttpInv, buf, got
<1> QED BY <1>0, <1>3, <1>4, <1>5, HttpActions

\* serveOne() hands the portal what the whole request says, whatever bytes a
\* client sends, however they are split and whenever the reading is given up,
\* and its buffer stays within the caps, for any caps and any size of a read.
THEOREM RequestServedAlways == CodecSpec => []RequestServed
<1>1. HttpInv => RequestServed
  <2> SUFFICES ASSUME HttpInv, job.op = "http" PROVE RequestServed
    BY DEF RequestServed, RequestWhole, PortalBufferBounded
  <2>1. /\ job.in \in Seq(STRING) /\ Len(st.buf) \in 0 .. Len(job.in)
        /\ st.buf = SubSeq(job.in, 1, Len(st.buf)) /\ st.got = parseHttpRequest(st.buf)
        /\ Len(st.buf) <= MaxHead + 3 + MaxBody + Chunk
    BY DEF HttpInv
  <2>2. ASSUME st.got.verdict # "Incomplete" PROVE st.got = parseHttpRequest(job.in)
    <3>1. parseHttpRequest(st.buf).verdict # "Incomplete"
      BY <2>1, <2>2
    <3> QED BY <2>1, <3>1, ParseStable
  <2> QED BY <2>1, <2>2 DEF RequestServed, RequestWhole, PortalBufferBounded
<1> QED BY <1>1, HttpInvInit, HttpInvStep, PTL DEF CodecSpec

(***************************************************************************)
(* A time on the wire                                                      *)
(***************************************************************************)

LEMMA DivMod ==
    ASSUME NEW a \in Int, NEW b \in Nat \ {0}
    PROVE  a \div b \in Int /\ a % b \in 0 .. (b - 1) /\ a = b * (a \div b) + (a % b)
<1>1. a \div b \in Int
  BY SMT
<1>2. a % b \in 0 .. (b - 1)
  BY SMT
<1>3. a = b * (a \div b) + (a % b)
  BY Z3
<1> QED BY <1>1, <1>2, <1>3

LEMMA DivUnique ==
    ASSUME NEW a \in Int, NEW b \in Nat \ {0}, NEW q \in Int, NEW r \in Int, 0 <= r, r < b, a = b * q + r
    PROVE  a \div b = q /\ a % b = r
<1> DEFINE p == a \div b
           s == a % b
<1>1. p \in Int /\ s \in 0 .. (b - 1) /\ a = b * p + s
  BY DivMod
<1> HIDE DEF p, s
<1>2. b * (p - q) = r - s
  BY <1>1, Z3
<1>3. p - q <= 0 /\ p - q >= 0
  BY <1>1, <1>2, Z3
<1>4. p = q /\ s = r
  BY <1>1, <1>2, <1>3, Z3
<1> QED BY <1>4 DEF p, s

\* The year of the 400-year era and the day of it that civil() computes: c
\* whole centuries, f whole spans of four years, j whole years and d days.
YearAndDay(doe, c, f, j, d) ==
    /\ c \in 0 .. 3 /\ f \in 0 .. 24 /\ j \in 0 .. 3 /\ d \in Int /\ 0 <= d /\ d <= 365
    /\ doe = 36524 * c + 1461 * f + 365 * j + d
    /\ d = 365 => j = 3 /\ (f = 24 => c = 3)

YearOf(doe) == (doe - doe \div 1460 + doe \div 36524 - doe \div 146096) \div 365

LEMMA YearOfEra ==
    ASSUME NEW doe \in Int, 0 <= doe, doe <= 146096
    PROVE  \E c, f, j, d : YearAndDay(doe, c, f, j, d) /\ YearOf(doe) = 100 * c + 4 * f + j
<1>1. \E c \in 0 .. 3, r \in Int : /\ doe = 36524 * c + r /\ 0 <= r /\ r <= 36524
                                   /\ r = 36524 => c = 3
  <2>1. CASE doe = 146096
    <3>1. 3 \in 0 .. 3 /\ 36524 \in Int /\ doe = 36524 * 3 + 36524
      BY <2>1, SMT
    <3> QED BY <3>1, SMT
  <2>2. CASE doe # 146096
    <3> DEFINE c == doe \div 36524
               r == doe % 36524
    <3>1. c \in 0 .. 3 /\ r \in Int /\ 0 <= r /\ r < 36524 /\ doe = 36524 * c + r
      BY <2>2, SMT
    <3> HIDE DEF c, r
    <3> QED BY <3>1, SMT
  <2> QED BY <2>1, <2>2, SMT
<1>2. PICK c \in 0 .. 3, r \in Int : /\ doe = 36524 * c + r /\ 0 <= r /\ r <= 36524
                                     /\ r = 36524 => c = 3
  BY <1>1, SMT
<1>3. \E f \in 0 .. 24, g \in Int : r = 1461 * f + g /\ 0 <= g /\ g <= 1460
  <2> DEFINE f == r \div 1461
             g == r % 1461
  <2>1. f \in 0 .. 24 /\ g \in Int /\ 0 <= g /\ g <= 1460 /\ r = 1461 * f + g
    BY <1>2, SMT
  <2> HIDE DEF f, g
  <2> QED BY <2>1, SMT
<1>4. PICK f \in 0 .. 24, g \in Int : r = 1461 * f + g /\ 0 <= g /\ g <= 1460
  BY <1>3, SMT
<1>5. \E j \in 0 .. 3, d \in Int : g = 365 * j + d /\ 0 <= d /\ d <= 365 /\ (d = 365 => j = 3)
  <2>1. CASE g = 1460
    <3>1. 3 \in 0 .. 3 /\ 365 \in Int /\ g = 365 * 3 + 365
      BY <2>1, SMT
    <3> QED BY <3>1, SMT
  <2>2. CASE g # 1460
    <3> DEFINE j == g \div 365
               d == g % 365
    <3>1. j \in 0 .. 3 /\ d \in Int /\ 0 <= d /\ d < 365 /\ g = 365 * j + d
      BY <1>4, <2>2, SMT
    <3> HIDE DEF j, d
    <3> QED BY <3>1, SMT
  <2> QED BY <2>1, <2>2, SMT
<1>6. PICK j \in 0 .. 3, d \in Int : g = 365 * j + d /\ 0 <= d /\ d <= 365 /\ (d = 365 => j = 3)
  BY <1>5, SMT
<1>7. YearAndDay(doe, c, f, j, d)
  BY <1>2, <1>4, <1>6, SMT DEF YearAndDay
\* The correction of one day in a span of four years: made only in its last
\* year, where it cannot change which year it is.
<1>8. \E e \in 0 .. 1 : doe \div 1460 = 25 * c + f + e /\ 365 * j <= g - e /\ g - e < 365 * j + 365
  <2>1. doe = 1460 * (25 * c + f) + (24 * c + f + g)
    BY <1>2, <1>4, SMT
  <2>2. CASE 24 * c + f + g < 1460
    <3>1. doe \div 1460 = 25 * c + f
      BY <1>4, <2>1, <2>2, SMT
    <3>2. 0 \in 0 .. 1 /\ 365 * j <= g - 0 /\ g - 0 < 365 * j + 365
      BY <1>4, <1>6, <2>2, SMT
    <3> QED BY <3>1, <3>2, SMT
  <2>3. CASE 24 * c + f + g >= 1460
    <3>1. doe \div 1460 = 25 * c + f + 1
      BY <1>4, <2>1, <2>3, SMT
    <3>2. 1 \in 0 .. 1 /\ 365 * j <= g - 1 /\ g - 1 < 365 * j + 365
      BY <1>4, <1>6, <2>3, SMT
    <3> QED BY <3>1, <3>2, SMT
  <2> QED BY <1>4, <2>2, <2>3, SMT
<1>9. PICK e \in 0 .. 1 : doe \div 1460 = 25 * c + f + e /\ 365 * j <= g - e /\ g - e < 365 * j + 365
  BY <1>8, SMT
<1>10. doe \div 36524 - doe \div 146096 = c
  <2>1. CASE doe = 146096
    BY <1>2, <2>1, SMT
  <2>2. CASE doe # 146096
    BY <1>2, <2>2, SMT
  <2> QED BY <2>1, <2>2, SMT
<1> DEFINE n == doe - doe \div 1460 + doe \div 36524 - doe \div 146096
<1>11. n = 365 * (100 * c + 4 * f) + (g - e)
  <2>1. doe \div 1460 \in Int /\ doe \div 36524 \in Int /\ doe \div 146096 \in Int
    BY SMT
  <2> QED BY <1>2, <1>4, <1>9, <1>10, <2>1, SMT
<1> HIDE DEF n
<1>12. n \div 365 = 100 * c + 4 * f + j
  BY <1>4, <1>9, <1>11, SMT
<1>13. YearOf(doe) = 100 * c + 4 * f + j
  <2>1. YearOf(doe) = n \div 365
    BY SMT DEF n, YearOf
  <2> HIDE DEF YearOf
  <2> QED BY <1>12, <2>1, SMT
<1> QED BY <1>7, <1>13, SMT

\* The leap years up to year n, by the rule of the calendar.
LeapDays(n) == n \div 4 - n \div 100 + n \div 400

LEMMA LeapStep ==
    ASSUME NEW n \in Int
    PROVE  LeapDays(n) = LeapDays(n - 1) + (IF Leap(n) THEN 1 ELSE 0)
<1>1. n \div 4 = (n - 1) \div 4 + (IF n % 4 = 0 THEN 1 ELSE 0)
  BY SMT
<1>2. n \div 100 = (n - 1) \div 100 + (IF n % 100 = 0 THEN 1 ELSE 0)
  BY SMT
<1>3. n \div 400 = (n - 1) \div 400 + (IF n % 400 = 0 THEN 1 ELSE 0)
  BY SMT
<1>4. (n % 100 = 0 => n % 4 = 0) /\ (n % 400 = 0 => n % 100 = 0)
  BY SMT
<1>5. /\ n \div 4 \in Int /\ n \div 100 \in Int /\ n \div 400 \in Int
      /\ (n - 1) \div 4 \in Int /\ (n - 1) \div 100 \in Int /\ (n - 1) \div 400 \in Int
  BY SMT
<1>6. CASE n % 4 # 0
  BY <1>1, <1>2, <1>3, <1>4, <1>5, <1>6, SMT DEF LeapDays, Leap
<1>7. CASE n % 4 = 0 /\ n % 100 # 0
  BY <1>1, <1>2, <1>3, <1>4, <1>5, <1>7, SMT DEF LeapDays, Leap
<1>8. CASE n % 100 = 0
  BY <1>1, <1>2, <1>3, <1>4, <1>5, <1>8, SMT DEF LeapDays, Leap
<1> QED BY <1>6, <1>7, <1>8, SMT

LEMMA LeapsCounted ==
    ASSUME NEW y \in Int, y >= 1970
    PROVE  Cardinality({k \in 1970 .. y - 1 : Leap(k)}) = LeapDays(y - 1) - 477
<1> DEFINE Leaps(x) == {k \in 1970 .. x - 1 : Leap(k)}
           Counted(x) == IsFiniteSet(Leaps(x)) /\ Cardinality(Leaps(x)) = LeapDays(x - 1) - 477
           S == {i \in Nat : Counted(1970 + i)}
<1>1. 0 \in S
  <2>1. Leaps(1970 + 0) = {}
    BY SMT
  <2>2. LeapDays(1970 + 0 - 1) = 477
    BY SMT DEF LeapDays
  <2>3. IsFiniteSet({}) /\ Cardinality({}) = 0
    BY FS_EmptySet
  <2> HIDE DEF Leaps
  <2> QED BY <2>1, <2>2, <2>3, SMT
<1>2. ASSUME NEW i \in S PROVE i + 1 \in S
  <2> DEFINE x == 1970 + i
  <2>1. i \in Nat /\ i + 1 \in Nat /\ 1970 + (i + 1) = x + 1 /\ x \in Int /\ x >= 1970
    BY SMT
  <2>2. IsFiniteSet(Leaps(x)) /\ Cardinality(Leaps(x)) = LeapDays(x - 1) - 477
    BY SMT
  <2> HIDE DEF x
  <2>3. LeapDays(x) = LeapDays(x - 1) + (IF Leap(x) THEN 1 ELSE 0) /\ (x + 1) - 1 = x /\ LeapDays(x - 1) \in Int
    <3>1. LeapDays(x - 1) \in Int
      BY <2>1, SMT DEF LeapDays
    <3> QED BY <2>1, <3>1, LeapStep, SMT
  <2>4. CASE Leap(x)
    <3>1. Leaps(x + 1) = Leaps(x) \cup {x} /\ x \notin Leaps(x)
      BY <2>1, <2>4, SMT
    <3>2. IsFiniteSet(Leaps(x) \cup {x}) /\ Cardinality(Leaps(x) \cup {x}) = Cardinality(Leaps(x)) + 1
      <4> HIDE DEF Leaps
      <4> QED BY <2>2, <3>1, FS_AddElement
    <3> HIDE DEF Leaps
    <3>3. Counted(x + 1)
      BY <2>2, <2>3, <2>4, <3>1, <3>2, SMT
    <3> QED BY <2>1, <3>3, SMT
  <2>5. CASE ~Leap(x)
    <3>1. Leaps(x + 1) = Leaps(x)
      BY <2>1, <2>5, SMT
    <3> HIDE DEF Leaps
    <3>2. Counted(x + 1)
      BY <2>2, <2>3, <2>5, <3>1, SMT
    <3> QED BY <2>1, <3>2, SMT
  <2> QED BY <2>4, <2>5, SMT
<1>3. S = Nat
  <2>1. S \in SUBSET Nat
    BY SMT
  <2> HIDE DEF S
  <2> QED BY <1>1, <1>2, <2>1, Induction, SMT
<1>4. y - 1970 \in S /\ 1970 + (y - 1970) = y
  <2>1. y - 1970 \in Nat /\ 1970 + (y - 1970) = y
    BY SMT
  <2> HIDE DEF S
  <2> QED BY <1>3, <2>1, SMT
<1>5. Counted(y)
  <2> HIDE DEF Counted
  <2> QED BY <1>4, SMT
<1> QED BY <1>5, SMT

\* The month, counted from March, and its days that lie before day d of the
\* year that begins there.
MonthAndStart(d, mp, start) ==
    /\ (5 * d + 2) \div 153 = mp /\ (153 * mp + 2) \div 5 = start
    /\ start <= d
    /\ \/ mp = 0 /\ start = 0 /\ d < 31
       \/ mp = 1 /\ start = 31 /\ d < 61
       \/ mp = 2 /\ start = 61 /\ d < 92
       \/ mp = 3 /\ start = 92 /\ d < 122
       \/ mp = 4 /\ start = 122 /\ d < 153
       \/ mp = 5 /\ start = 153 /\ d < 184
       \/ mp = 6 /\ start = 184 /\ d < 214
       \/ mp = 7 /\ start = 214 /\ d < 245
       \/ mp = 8 /\ start = 245 /\ d < 275
       \/ mp = 9 /\ start = 275 /\ d < 306
       \/ mp = 10 /\ start = 306 /\ d < 337
       \/ mp = 11 /\ start = 337 /\ d < 366

LEMMA MonthOfYear ==
    ASSUME NEW d \in Int, 0 <= d, d <= 365
    PROVE  MonthAndStart(d, (5 * d + 2) \div 153, (153 * ((5 * d + 2) \div 153) + 2) \div 5)
<1> DEFINE mp == (5 * d + 2) \div 153
<1>1. mp \in Int /\ 153 * mp <= 5 * d + 2 /\ 5 * d + 2 < 153 * mp + 153
  BY SMT
<1> HIDE DEF mp
<1>2. mp \in 0 .. 11
  BY <1>1, SMT
<1>3. (153 * mp + 2) \div 5 = (CASE mp = 0 -> 0 [] mp = 1 -> 31 [] mp = 2 -> 61 [] mp = 3 -> 92
                                 [] mp = 4 -> 122 [] mp = 5 -> 153 [] mp = 6 -> 184 [] mp = 7 -> 214
                                 [] mp = 8 -> 245 [] mp = 9 -> 275 [] mp = 10 -> 306 [] OTHER -> 337)
  BY <1>2, SMT
<1> DEFINE start == (153 * mp + 2) \div 5
<1>4. MonthAndStart(d, mp, start)
  <2>1. (5 * d + 2) \div 153 = mp
    BY SMT DEF mp
  <2> HIDE DEF start
  <2>2. \/ mp = 0 /\ start = 0
        \/ mp = 1 /\ start = 31
        \/ mp = 2 /\ start = 61
        \/ mp = 3 /\ start = 92
        \/ mp = 4 /\ start = 122
        \/ mp = 5 /\ start = 153
        \/ mp = 6 /\ start = 184
        \/ mp = 7 /\ start = 214
        \/ mp = 8 /\ start = 245
        \/ mp = 9 /\ start = 275
        \/ mp = 10 /\ start = 306
        \/ mp = 11 /\ start = 337
    BY <1>2, <1>3, SMT DEF start
  <2>3. (153 * mp + 2) \div 5 = start
    BY SMT DEF start
  <2> QED BY <1>1, <2>1, <2>2, <2>3, SMT DEF MonthAndStart
<1> QED BY <1>4, SMT DEF mp

\* civil() names the day that the calendar counts to.
IsDate(days, y, m, dd) ==
    /\ y \in Int /\ 1970 <= y /\ y <= 9999 /\ m \in 1 .. 12 /\ dd \in 1 .. MonthDays(y, m)
    /\ 365 * (y - 1970) + (LeapDays(y - 1) - 477) + DaysBeforeMonth(y, m) + dd - 1 = days

LEMMA CivilDays ==
    ASSUME NEW days \in Int, 0 <= days, days <= 2932896,
           NEW era \in Int, NEW doe \in Int, days + 719468 = 146097 * era + doe,
           0 <= doe, doe <= 146096,
           NEW c, NEW f, NEW j, NEW d, YearAndDay(doe, c, f, j, d),
           NEW mp, NEW start, MonthAndStart(d, mp, start),
           NEW y \in Int, y = 400 * era + 100 * c + 4 * f + j
    PROVE  /\ mp < 10 => IsDate(days, y, mp + 3, d - start + 1)
           /\ ~(mp < 10) => IsDate(days, y + 1, mp - 9, d - start + 1)
<1>1. /\ c \in 0 .. 3 /\ f \in 0 .. 24 /\ j \in 0 .. 3 /\ d \in Int /\ 0 <= d /\ d <= 365
      /\ doe = 36524 * c + 1461 * f + 365 * j + d
      /\ d = 365 => j = 3 /\ (f = 24 => c = 3)
  BY SMT DEF YearAndDay
<1>2. y \div 4 = 100 * era + 25 * c + f /\ y \div 100 = 4 * era + c /\ y \div 400 = era
  BY <1>1, SMT
<1>3. LeapDays(y) = 97 * era + 24 * c + f
  BY <1>1, <1>2, SMT DEF LeapDays
<1>4. days + 719468 = 365 * y + LeapDays(y) + d
  BY <1>1, <1>3, SMT
<1>5. LeapDays(y) = LeapDays(y - 1) + (IF Leap(y) THEN 1 ELSE 0) /\ LeapDays(y - 1) \in Int
  <2>1. LeapDays(y - 1) \in Int
    BY SMT DEF LeapDays
  <2> QED BY <2>1, LeapStep
<1>6. CASE mp < 10
  <2>1. 1970 <= y /\ y <= 9999
    BY <1>1, <1>3, <1>4, <1>6, SMT DEF MonthAndStart
  <2>2. /\ mp + 3 \in 3 .. 12
        /\ d - start + 1 \in 1 .. MonthDays(y, mp + 3)
        /\ DaysBeforeMonth(y, mp + 3) = 59 + start + (IF Leap(y) THEN 1 ELSE 0)
    BY <1>1, <1>6, SMT DEF MonthAndStart, MonthDays, DaysBeforeMonth
  <2>3. start \in Int
    BY SMT DEF MonthAndStart
  <2>4. 365 * (y - 1970) + (LeapDays(y - 1) - 477) + DaysBeforeMonth(y, mp + 3) + (d - start + 1) - 1 = days
    BY <1>1, <1>4, <1>5, <2>2, <2>3, SMT
  <2> QED BY <1>6, <2>1, <2>2, <2>4, SMT DEF IsDate
<1>7. CASE ~(mp < 10)
  <2>1. 1970 <= y + 1 /\ y + 1 <= 9999
    BY <1>1, <1>3, <1>4, <1>7, SMT DEF MonthAndStart
  <2>2. /\ mp - 9 \in 1 .. 2
        /\ DaysBeforeMonth(y + 1, mp - 9) = start - 306
    BY <1>1, <1>7, SMT DEF MonthAndStart, DaysBeforeMonth
  <2>3. start \in Int
    BY SMT DEF MonthAndStart
  <2>4. d = 365 => Leap(y + 1)
    <3> SUFFICES ASSUME d = 365 PROVE Leap(y + 1)
      BY SMT
    <3>1. y + 1 = 400 * era + 100 * c + 4 * f + 4 /\ (f = 24 => c = 3)
      BY <1>1, SMT
    <3>2. (y + 1) % 4 = 0
      BY <1>1, <3>1, SMT
    <3>3. CASE f = 24
      <4>1. (y + 1) % 400 = 0
        BY <3>1, <3>3, SMT
      <4> QED BY <3>2, <4>1, SMT DEF Leap
    <3>4. CASE f # 24
      <4>1. (y + 1) % 100 # 0
        BY <1>1, <3>1, <3>4, SMT
      <4> QED BY <3>2, <4>1, SMT DEF Leap
    <3> QED BY <3>3, <3>4, SMT
  <2>5. d - start + 1 \in 1 .. MonthDays(y + 1, mp - 9)
    BY <1>1, <1>7, <2>4, SMT DEF MonthAndStart, MonthDays
  <2>6. 365 * ((y + 1) - 1970) + (LeapDays((y + 1) - 1) - 477) + DaysBeforeMonth(y + 1, mp - 9) + (d - start + 1) - 1 = days
    <3>1. (y + 1) - 1 = y
      BY SMT
    <3> QED BY <1>1, <1>3, <1>4, <2>2, <2>3, <3>1, SMT
  <2> QED BY <1>7, <2>1, <2>2, <2>5, <2>6, SMT DEF IsDate
<1> QED BY <1>6, <1>7, SMT

LEMMA CivilExact ==
    ASSUME NEW days \in Int, 0 <= days, days <= 2932896
    PROVE  /\ civil(days) = [year |-> civil(days).year, month |-> civil(days).month, day |-> civil(days).day]
           /\ IsDate(days, civil(days).year, civil(days).month, civil(days).day)
<1> DEFINE z == days + 719468
           era == z \div 146097
           doe == z - era * 146097
           yoe == YearOf(doe)
           doy == doe - (365 * yoe + yoe \div 4 - yoe \div 100)
           mp == (5 * doy + 2) \div 153
           start == (153 * mp + 2) \div 5
           month == IF mp < 10 THEN mp + 3 ELSE mp - 9
           year == yoe + era * 400 + (IF month <= 2 THEN 1 ELSE 0)
<1>1. civil(days) = [year |-> IF year > 9999 THEN 9999 ELSE year, month |-> month, day |-> doy - start + 1]
  BY SMT DEF civil, YearOf
<1>2. era \in Int /\ doe \in Int /\ 0 <= doe /\ doe <= 146096 /\ days + 719468 = 146097 * era + doe
  BY SMT
<1> HIDE DEF z, era, doe
<1>3. PICK c, f, j, d : YearAndDay(doe, c, f, j, d) /\ yoe = 100 * c + 4 * f + j
  BY <1>2, YearOfEra, SMT
<1>4. /\ c \in 0 .. 3 /\ f \in 0 .. 24 /\ j \in 0 .. 3 /\ d \in Int /\ 0 <= d /\ d <= 365
      /\ doe = 36524 * c + 1461 * f + 365 * j + d
  BY <1>3, SMT DEF YearAndDay
<1> HIDE DEF yoe
<1>5. yoe \in Int /\ yoe \div 4 = 25 * c + f /\ yoe \div 100 = c
  BY <1>3, <1>4, SMT
<1>6. doy = d
  BY <1>3, <1>4, <1>5, SMT
<1> HIDE DEF doy
<1>7. MonthAndStart(d, mp, start)
  BY <1>4, <1>6, MonthOfYear, SMT
<1> HIDE DEF mp, start
<1>8. mp \in Int
  BY <1>7, SMT DEF MonthAndStart
<1> DEFINE y == 400 * era + 100 * c + 4 * f + j
<1>9. y \in Int /\ yoe + era * 400 = y
  BY <1>2, <1>3, <1>4, SMT
<1>10. /\ mp < 10 => IsDate(days, y, mp + 3, d - start + 1)
       /\ ~(mp < 10) => IsDate(days, y + 1, mp - 9, d - start + 1)
  <2>1. y = 400 * era + 100 * c + 4 * f + j
    BY SMT
  <2> HIDE DEF y
  <2> QED BY <1>2, <1>3, <1>7, <1>9, <2>1, CivilDays, SMT
<1> HIDE DEF y
<1>11. CASE mp < 10
  <2>1. month = mp + 3 /\ ~(month <= 2) /\ year = y
    <3>1. mp >= 0
      BY <1>7, SMT DEF MonthAndStart
    <3> QED BY <1>8, <1>9, <1>11, <3>1, SMT
  <2>2. y <= 9999 /\ y \in Int
    BY <1>10, <1>11, SMT DEF IsDate
  <2>3. (IF year > 9999 THEN 9999 ELSE year) = y
    BY <2>1, <2>2, SMT
  <2> HIDE DEF month, year
  <2>4. civil(days).year = y /\ civil(days).month = mp + 3 /\ civil(days).day = d - start + 1
    BY <1>1, <1>6, <2>1, <2>3, SMT
  <2> QED BY <1>1, <1>10, <1>11, <2>4, SMT
<1>12. CASE ~(mp < 10)
  <2>1. month = mp - 9 /\ month <= 2 /\ year = y + 1
    <3>1. mp <= 11
      BY <1>7, SMT DEF MonthAndStart
    <3> QED BY <1>8, <1>9, <1>12, <3>1, SMT
  <2>2. y + 1 <= 9999 /\ y + 1 \in Int
    BY <1>10, <1>12, SMT DEF IsDate
  <2>3. (IF year > 9999 THEN 9999 ELSE year) = y + 1
    BY <2>1, <2>2, SMT
  <2> HIDE DEF month, year
  <2>4. civil(days).year = y + 1 /\ civil(days).month = mp - 9 /\ civil(days).day = d - start + 1
    BY <1>1, <1>6, <2>1, <2>3, SMT
  <2> QED BY <1>1, <1>10, <1>12, <2>4, SMT
<1> QED BY <1>11, <1>12, SMT

\* The fields of a time of day give it back.
LEMMA ClockExact ==
    ASSUME NEW m \in Int, 0 <= m, m < 86400000
    PROVE  /\ m \div 3600000 < 24 /\ (m \div 60000) % 60 < 60 /\ (m \div 1000) % 60 < 60 /\ m % 1000 < 1000
           /\ (((m \div 3600000) * 60 + ((m \div 60000) % 60)) * 60 + ((m \div 1000) % 60)) * 1000 + (m % 1000) = m
<1> DEFINE s == m \div 1000
           n == m \div 60000
           h == m \div 3600000
<1>1. s \in Int /\ m = 1000 * s + (m % 1000) /\ m % 1000 \in Int /\ 0 <= m % 1000 /\ m % 1000 < 1000
  BY SMT
<1>2. n \in Int /\ 60000 * n <= m /\ m < 60000 * n + 60000
  BY SMT
<1>3. h \in Int /\ 3600000 * h <= m /\ m < 3600000 * h + 3600000
  BY SMT
<1> HIDE DEF s, n, h
<1>4. s % 60 = s - 60 * n
  BY <1>1, <1>2, SMT
<1>5. n % 60 = n - 60 * h
  BY <1>2, <1>3, SMT
<1>6. h < 24 /\ n % 60 < 60 /\ s % 60 < 60
  BY <1>1, <1>2, <1>3, SMT
<1>7. ((h * 60 + (n % 60)) * 60 + (s % 60)) * 1000 + (m % 1000) = m
  BY <1>1, <1>2, <1>3, <1>4, <1>5, SMT
<1> QED BY <1>1, <1>6, <1>7, SMT DEF s, n, h

LEMMA CalendarEnds ==
    /\ LastDay \in Int /\ \A x \in Int : x <= LastDay => x <= 2932896
    /\ DayMs \in Int /\ \A x \in Int : x <= DayMs - 1 => x < 86400000
BY SMT DEF LastDay, DayMs

\* The gateway reads the time the terminal wrote.
LEMMA TimeReadBack ==
    ASSUME NEW t \in (0 .. LastDay) \X (0 .. DayMs - 1)
    PROVE  ParseTime(formatRfc3339Utc(t)) = {t}
<1> DEFINE days == t[1]
           m == t[2]
           C == civil(days)
           f == formatRfc3339Utc(t)
<1>1. t = <<days, m>> /\ days \in Int /\ 0 <= days /\ days <= LastDay /\ m \in Int /\ 0 <= m /\ m <= DayMs - 1
  <2>1. LastDay \in Int /\ DayMs \in Int
    BY CalendarEnds, SMT
  <2> QED BY <2>1, SMT
<1>2. days <= 2932896 /\ m < 86400000
  BY <1>1, CalendarEnds, SMT
<1> HIDE DEF days, m
<1>3. IsDate(days, C.year, C.month, C.day)
  BY <1>1, <1>2, CivilExact, SMT
<1>4. /\ f.date = C /\ f.hour = m \div 3600000 /\ f.minute = (m \div 60000) % 60
      /\ f.second = (m \div 1000) % 60 /\ f.milli = m % 1000
  BY SMT DEF formatRfc3339Utc, days, m
<1> HIDE DEF C, f
<1>5. /\ f.hour < 24 /\ f.minute < 60 /\ f.second < 60 /\ f.milli < 1000
      /\ ((f.hour * 60 + f.minute) * 60 + f.second) * 1000 + f.milli = m
  BY <1>1, <1>2, <1>4, ClockExact, SMT
<1>6. DaysBeforeYear(C.year) = 365 * (C.year - 1970) + (LeapDays(C.year - 1) - 477)
  <2>1. C.year \in Int /\ C.year >= 1970
    BY <1>3, SMT DEF IsDate
  <2> DEFINE y == C.year
  <2>2. Cardinality({k \in 1970 .. y - 1 : Leap(k)}) = LeapDays(y - 1) - 477
    <3> HIDE DEF y
    <3> QED BY <2>1, LeapsCounted, SMT DEF y
  <2> QED BY <2>2, SMT DEF DaysBeforeYear
<1>7. /\ C.month \in 1 .. 12 /\ C.day \in 1 .. MonthDays(C.year, C.month)
      /\ DaysBeforeYear(C.year) + DaysBeforeMonth(C.year, C.month) + C.day - 1 = days
  BY <1>3, <1>6, SMT DEF IsDate
<1> DEFINE day == DaysBeforeYear(f.date.year) + DaysBeforeMonth(f.date.year, f.date.month) + f.date.day - 1
           ms == ((f.hour * 60 + f.minute) * 60 + f.second) * 1000 + f.milli
<1>8. /\ f.date.month \in 1 .. 12 /\ f.date.day \in 1 .. MonthDays(f.date.year, f.date.month)
      /\ f.hour < 24 /\ f.minute < 60 /\ f.second < 60 /\ f.milli < 1000
      /\ day = days /\ ms = m
  <2>1. f.date = C
    BY <1>4, SMT
  <2>2. day = days
    BY <1>7, <2>1, SMT
  <2>3. ms = m
    BY <1>5, SMT
  <2> QED BY <1>5, <1>7, <2>1, <2>2, <2>3, SMT
<1>9. ParseTime(f) = {<<day, ms>>}
  BY <1>8, SMT DEF ParseTime
<1> HIDE DEF day, ms
<1>10. ParseTime(f) = {t}
  BY <1>1, <1>8, <1>9, Zenon
<1> QED BY <1>10, SMT DEF f

(***************************************************************************)
(* A number on the wire                                                    *)
(***************************************************************************)

\* What the gateway makes of digits read from the left.
DigitsValue(s) == FoldLeft(LAMBDA a, c : a * 10 - NumeralValue[c], 0, s)

LEMMA DigitsRead ==
    ASSUME NEW s \in Seq(Numerals)
    PROVE  \E h \in [0 .. Len(s) -> Int] :
              /\ h[0] = 0 /\ \A k \in 1 .. Len(s) : h[k] = h[k - 1] * 10 - NumeralValue[s[k]]
              /\ DigitsValue(s) = h[Len(s)]
<1> DEFINE n == Len(s)
           step == [p \in (1 .. n) \X Int |-> p[2] * 10 - NumeralValue[s[p[1]]]]
           g == CHOOSE g : g = [x \in SUBSET DOMAIN s |->
                                  IF x = {} THEN 0 ELSE g[x \ {Max(x)}] * 10 - NumeralValue[s[Max(x)]]]
<1>0. n \in Nat /\ DOMAIN s = 1 .. n /\ \A k \in 1 .. n : NumeralValue[s[k]] \in Int
  <2>1. n \in Nat /\ DOMAIN s = 1 .. n /\ \A k \in 1 .. n : s[k] \in Numerals
    OBVIOUS
  <2> HIDE DEF n
  <2> QED BY <2>1, Digits
<1> HIDE DEF n
<1>1. Folds(n, Int, 0, step)
  BY <1>0 DEF Folds
<1>2. PICK f \in [SUBSET (1 .. n) -> Int] : IsFold(f, n, 0, step)
  <2> HIDE DEF step
  <2> QED BY <1>1, FoldExists
<1>3. \A k \in 1 .. n, v \in Int : step[<<k, v>>] = v * 10 - NumeralValue[s[k]]
  OBVIOUS
<1>4. f = [x \in SUBSET DOMAIN s |-> IF x = {} THEN 0 ELSE f[x \ {Max(x)}] * 10 - NumeralValue[s[Max(x)]]]
  <2> SUFFICES ASSUME NEW x \in SUBSET (1 .. n), x # {}
               PROVE  step[<<Max(x), f[x \ {Max(x)}]>>] = f[x \ {Max(x)}] * 10 - NumeralValue[s[Max(x)]]
    <3> HIDE DEF step
    <3> QED BY <1>0, <1>2 DEF IsFold
  <2>1. Max(x) \in 1 .. n /\ f[x \ {Max(x)}] \in Int
    BY <1>0, MaxOf
  <2> HIDE DEF step
  <2> QED BY <1>3, <2>1
<1>5. g = [x \in SUBSET DOMAIN s |-> IF x = {} THEN 0 ELSE g[x \ {Max(x)}] * 10 - NumeralValue[s[Max(x)]]]
  BY <1>4, Zenon
<1>6. DigitsValue(s) = g[DOMAIN s]
  BY Zenon DEF DigitsValue, FoldLeft, MapThenFoldSet
<1> HIDE DEF g, step
<1>7. g[{}] = 0
  BY <1>5
<1>8. ASSUME NEW k \in 1 .. n, g[1 .. (k - 1)] \in Int
      PROVE  g[1 .. k] = step[<<k, g[1 .. (k - 1)]>>]
  <2>1. 1 .. k \in SUBSET (1 .. n) /\ 1 .. k # {} /\ Max(1 .. k) = k /\ (1 .. k) \ {Max(1 .. k)} = 1 .. (k - 1)
    BY <1>0, MaxInterval
  <2>2. g[1 .. k] = g[(1 .. k) \ {Max(1 .. k)}] * 10 - NumeralValue[s[Max(1 .. k)]]
    BY <1>0, <1>5, <2>1
  <2> QED BY <1>3, <1>8, <2>1, <2>2
<1>9. /\ \A k \in 0 .. n : g[1 .. k] \in Int
      /\ \A k \in 1 .. n : g[1 .. k] = step[<<k, g[1 .. (k - 1)]>>]
  BY <1>1, <1>7, <1>8, FoldRuns
<1> DEFINE h == [k \in 0 .. n |-> g[1 .. k]]
<1>10. h \in [0 .. n -> Int]
  BY <1>9
<1>11. h[0] = 0
  <2>1. 1 .. 0 = {} /\ 0 \in 0 .. n
    BY <1>0
  <2> QED BY <1>7, <2>1
<1>12. ASSUME NEW k \in 1 .. n PROVE h[k] = h[k - 1] * 10 - NumeralValue[s[k]]
  <2>1. k \in 0 .. n /\ k - 1 \in 0 .. n
    BY <1>0
  <2>2. g[1 .. k] = g[1 .. (k - 1)] * 10 - NumeralValue[s[k]]
    BY <1>3, <1>9, <2>1
  <2> QED BY <2>1, <2>2
<1>13. DigitsValue(s) = h[n]
  <2>1. n \in 0 .. n
    BY <1>0
  <2> QED BY <1>0, <1>6, <2>1
<1> HIDE DEF h
<1>14. \E hh \in [0 .. n -> Int] :
          /\ hh[0] = 0 /\ \A k \in 1 .. n : hh[k] = hh[k - 1] * 10 - NumeralValue[s[k]]
          /\ DigitsValue(s) = hh[n]
  BY <1>10, <1>11, <1>12, <1>13
<1> QED BY <1>14 DEF n

LEMMA DigitsAppend ==
    ASSUME NEW s \in Seq(Numerals), NEW c \in Numerals
    PROVE  /\ s \o <<c>> \in Seq(Numerals) /\ s \o <<c>> # << >>
           /\ DigitsValue(s) \in Int /\ DigitsValue(s \o <<c>>) = DigitsValue(s) * 10 - NumeralValue[c]
<1> DEFINE t == s \o <<c>>
           n == Len(s)
<1>1. /\ t \in Seq(Numerals) /\ Len(t) = n + 1 /\ n \in Nat /\ t[n + 1] = c
      /\ \A k \in 1 .. n : t[k] = s[k]
  OBVIOUS
<1>2. t # << >>
  BY <1>1
<1> HIDE DEF t
<1>3. PICK h \in [0 .. n -> Int] : /\ h[0] = 0 /\ \A k \in 1 .. n : h[k] = h[k - 1] * 10 - NumeralValue[s[k]]
                                   /\ DigitsValue(s) = h[n]
  BY DigitsRead
<1>4. PICK b \in [0 .. n + 1 -> Int] : /\ b[0] = 0 /\ \A k \in 1 .. n + 1 : b[k] = b[k - 1] * 10 - NumeralValue[t[k]]
                                       /\ DigitsValue(t) = b[n + 1]
  <2> HIDE DEF n
  <2>1. \E b \in [0 .. Len(t) -> Int] : /\ b[0] = 0 /\ \A k \in 1 .. Len(t) : b[k] = b[k - 1] * 10 - NumeralValue[t[k]]
                                        /\ DigitsValue(t) = b[Len(t)]
    BY <1>1, DigitsRead
  <2> QED BY <1>1, <2>1
<1> HIDE DEF n
<1> DEFINE S == {k \in Nat : k <= n => h[k] = b[k]}
<1>5. 0 \in S
  BY <1>3, <1>4
<1>6. ASSUME NEW k \in S PROVE k + 1 \in S
  <2> SUFFICES ASSUME k + 1 <= n PROVE h[k + 1] = b[k + 1]
    OBVIOUS
  <2>1. k \in Nat /\ k <= n /\ h[k] = b[k] /\ k + 1 \in 1 .. n /\ k + 1 \in 1 .. n + 1 /\ (k + 1) - 1 = k
    BY <1>1
  <2> QED BY <1>1, <1>3, <1>4, <2>1
<1>7. S = Nat
  <2>1. S \in SUBSET Nat
    OBVIOUS
  <2> HIDE DEF S
  <2> QED BY <1>5, <1>6, <2>1, Induction
<1>8. h[n] = b[n]
  <2>1. n \in S
    <3> HIDE DEF S
    <3> QED BY <1>1, <1>7
  <2> QED BY <1>1, <2>1
<1>9. b[n + 1] = b[n] * 10 - NumeralValue[c]
  <2>1. n + 1 \in 1 .. n + 1 /\ (n + 1) - 1 = n
    BY <1>1
  <2> QED BY <1>1, <1>4, <2>1
<1>10. h[n] \in Int
  BY <1>1, <1>3
<1>11. DigitsValue(t) = DigitsValue(s) * 10 - NumeralValue[c] /\ DigitsValue(s) \in Int
  BY <1>3, <1>4, <1>8, <1>9, <1>10
<1> QED BY <1>1, <1>2, <1>11, Zenon DEF t

\* The digits jsonInt() takes of a number on the negative side.
Decimals == CHOOSE D : D = [x \in IntMin .. 0 |->
                IF x = 0 THEN <<>> ELSE D[-((-x) \div 10)] \o <<NumeralAt[((-x) % 10) + 1]>>]

LEMMA DecimalsMeaning ==
    /\ \A x \in IntMin .. 0 : Decimals[x] \in Seq(Numerals)
    /\ \A x \in IntMin .. 0 : Decimals[x] = IF x = 0 THEN <<>>
                                            ELSE Decimals[-((-x) \div 10)] \o <<NumeralAt[((-x) % 10) + 1]>>
<1> DEFINE D == IntMin .. 0
           V == Seq(Numerals)
           rank == [x \in D |-> -x]
           back == [x \in D |-> -((-x) \div 10)]
           step == [p \in D \X V |-> p[2] \o <<NumeralAt[((-p[1]) % 10) + 1]>>]
<1>0. IntMin \in Int /\ IntMin < 0
  BY PunchCodecAssumption DEF IntMin
<1>1. ASSUME NEW x \in D
      PROVE  /\ -x \in Nat /\ -((-x) \div 10) \in D /\ (x # 0 => (-x) \div 10 < -x)
             /\ ((-x) % 10) + 1 \in 1 .. 10
  <2>1. x \in Int /\ IntMin <= x /\ x <= 0
    BY <1>0
  <2>2. -x \in Nat /\ (-x) \div 10 \in Nat /\ (-x) \div 10 <= -x /\ (x # 0 => (-x) \div 10 < -x)
    BY <2>1
  <2>3. (-x) % 10 \in 0 .. 9
    BY <2>1
  <2> QED BY <1>0, <2>1, <2>2, <2>3
<1>2. rank \in [D -> Nat] /\ back \in [D -> D] /\ {0} \subseteq D /\ << >> \in V
  BY <1>0, <1>1
<1>3. step \in [D \X V -> V]
  <2> SUFFICES ASSUME NEW x \in D, NEW v \in V PROVE v \o <<NumeralAt[((-x) % 10) + 1]>> \in V
    OBVIOUS
  <2>1. NumeralAt[((-x) % 10) + 1] \in Numerals
    BY <1>1, Digits
  <2> QED BY <2>1, DigitsAppend
<1>4. ASSUME NEW x \in D \ {0} PROVE rank[back[x]] < rank[x]
  <2>1. x \in D /\ -x \in Nat /\ (-x) \div 10 < -x /\ -((-x) \div 10) \in D
    BY <1>1
  <2>2. back[x] = -((-x) \div 10) /\ rank[back[x]] = -(-((-x) \div 10)) /\ rank[x] = -x
    BY <2>1
  <2>3. (-x) \div 10 \in Int
    BY <2>1
  <2> QED BY <2>1, <2>2, <2>3
<1>5. Recurs(D, V, << >>, {0}, rank, back, step)
  <2> HIDE DEF D, V, rank, back, step
  <2> QED BY <1>2, <1>3, <1>4 DEF Recurs
<1>6. PICK f \in [D -> V] : f = [x \in D |-> IF x \in {0} THEN << >> ELSE step[<<x, f[back[x]]>>]]
  <2> HIDE DEF D, V, rank, back, step
  <2> QED BY <1>5, Recursion
<1>7. ASSUME NEW x \in D
      PROVE  f[x] = IF x = 0 THEN << >> ELSE f[-((-x) \div 10)] \o <<NumeralAt[((-x) % 10) + 1]>>
  <2>1. f[x] = IF x = 0 THEN << >> ELSE step[<<x, f[back[x]]>>]
    <3> HIDE DEF D, V, back, step
    <3> QED BY <1>6
  <2>2. back[x] = -((-x) \div 10) /\ f[-((-x) \div 10)] \in V
    BY <1>1
  <2>3. step[<<x, f[-((-x) \div 10)]>>] = f[-((-x) \div 10)] \o <<NumeralAt[((-x) % 10) + 1]>>
    <3>1. <<x, f[-((-x) \div 10)]>> \in D \X V
      BY <2>2
    <3> HIDE DEF D, V
    <3> QED BY <3>1
  <2> HIDE DEF D, V, back, step
  <2> QED BY <2>1, <2>2, <2>3
<1>8. f = [x \in D |-> IF x = 0 THEN << >> ELSE f[-((-x) \div 10)] \o <<NumeralAt[((-x) % 10) + 1]>>]
  <2> HIDE DEF D, V
  <2> QED BY <1>7
<1>9. Decimals = [x \in D |-> IF x = 0 THEN << >> ELSE Decimals[-((-x) \div 10)] \o <<NumeralAt[((-x) % 10) + 1]>>]
  BY <1>8, Zenon DEF Decimals
<1>10. \A x \in D : Decimals[x] = IF x = 0 THEN << >> ELSE Decimals[-((-x) \div 10)] \o <<NumeralAt[((-x) % 10) + 1]>>
  BY <1>9, Zenon
<1> DEFINE T == {n \in Nat : -n \in D /\ Decimals[-n] \notin V}
<1>11. T = {}
  <2> SUFFICES ASSUME T # {} PROVE FALSE
    OBVIOUS
  <2>1. PICK n \in T : \A m \in T : n <= m
    <3>1. T \in SUBSET Nat
      OBVIOUS
    <3> HIDE DEF T
    <3> QED BY <3>1, LeastOf
  <2> DEFINE x == -n
             y == -((-x) \div 10)
  <2>2. n \in Nat /\ x \in D /\ Decimals[x] \notin V /\ -x = n
    OBVIOUS
  <2> HIDE DEF x
  <2>3. CASE x = 0
    BY <1>2, <1>10, <2>2, <2>3
  <2>4. CASE x # 0
    <3>1. y \in D /\ (-x) \div 10 < n /\ (-x) \div 10 \in Nat /\ -((-x) \div 10) = y
      BY <1>1, <2>2, <2>4
    <3>2. (-x) \div 10 \notin T
      BY <2>1, <2>2, <3>1
    <3>3. Decimals[y] \in V
      BY <3>1, <3>2
    <3>4. NumeralAt[((-x) % 10) + 1] \in Numerals
      BY <1>1, <2>2, Digits
    <3>5. Decimals[x] = Decimals[y] \o <<NumeralAt[((-x) % 10) + 1]>>
      BY <1>10, <2>2, <2>4
    <3> QED BY <2>2, <3>3, <3>4, <3>5, DigitsAppend
  <2> QED BY <2>3, <2>4
<1>12. ASSUME NEW x \in D PROVE Decimals[x] \in V
  <2>1. -x \in Nat /\ -(-x) = x
    BY <1>0, <1>1
  <2>2. -x \notin T
    BY <1>11
  <2> QED BY <2>1, <2>2
<1> QED BY <1>10, <1>12

\* The digits of a number are read as that number.
LEMMA DecimalsExact ==
    ASSUME NEW z \in IntMin .. 0
    PROVE  /\ Decimals[z] \in Seq(Numerals) /\ DigitsValue(Decimals[z]) = z
           /\ z # 0 => Decimals[z] # << >>
<1> DEFINE D == IntMin .. 0
           Good(x) == DigitsValue(Decimals[x]) = x /\ (x # 0 => Decimals[x] # << >>)
           T == {n \in Nat : -n \in D /\ ~Good(-n)}
<1>0. IntMin \in Int /\ IntMin < 0
  BY PunchCodecAssumption DEF IntMin
<1>1. T = {}
  <2> SUFFICES ASSUME T # {} PROVE FALSE
    OBVIOUS
  <2>1. PICK n \in T : \A m \in T : n <= m
    <3>1. T \in SUBSET Nat
      OBVIOUS
    <3> HIDE DEF T
    <3> QED BY <3>1, LeastOf
  <2> DEFINE x == -n
             q == n \div 10
             c == NumeralAt[(n % 10) + 1]
             y == -q
  <2>2. n \in Nat /\ x \in D /\ ~Good(x) /\ -x = n
    OBVIOUS
  <2>3. CASE n = 0
    <3>1. x = 0 /\ Decimals[0] = << >>
      BY <2>2, <2>3, DecimalsMeaning
    <3>2. DigitsValue(<< >>) = 0
      <4>1. << >> \in Seq(Numerals) /\ Len(<< >>) = 0
        OBVIOUS
      <4> QED BY <4>1, DigitsRead
    <3> QED BY <2>2, <3>1, <3>2
  <2>4. CASE n # 0
    <3>1. q \in Nat /\ q < n /\ n % 10 \in 0 .. 9 /\ n = 10 * q + (n % 10) /\ (n % 10) + 1 \in 1 .. 10
      BY <2>2, <2>4
    <3>2. c \in Numerals /\ NumeralValue[c] = n % 10
      <4> DEFINE i == (n % 10) + 1
      <4>1. i \in 1 .. 10 /\ i - 1 = n % 10
        BY <3>1
      <4> HIDE DEF i
      <4>2. NumeralAt[i] \in Numerals /\ NumeralValue[NumeralAt[i]] = i - 1
        BY <4>1, Digits
      <4>3. c = NumeralAt[i]
        BY Zenon DEF i
      <4> HIDE DEF c
      <4> QED BY <4>1, <4>2, <4>3
    <3> HIDE DEF q, c
    <3>3. y \in D /\ x # 0
      BY <1>0, <2>2, <2>4, <3>1
    <3>4. Good(y)
      <4>1. q \notin T
        <5> HIDE DEF T
        <5> QED BY <2>1, <2>2, <3>1
      <4> QED BY <3>1, <3>3, <4>1
    <3>5. Decimals[x] = Decimals[y] \o <<c>> /\ Decimals[y] \in Seq(Numerals)
      <4>1. Decimals[x] = Decimals[-((-x) \div 10)] \o <<NumeralAt[((-x) % 10) + 1]>>
        BY <2>2, <3>3, DecimalsMeaning
      <4>2. -x = n
        BY <2>2
      <4>3. Decimals[x] = Decimals[y] \o <<c>>
        BY <4>1, <4>2, Zenon DEF q, c
      <4> QED BY <3>3, <4>3, DecimalsMeaning
    <3>6. /\ Decimals[y] \o <<c>> # << >>
          /\ DigitsValue(Decimals[y] \o <<c>>) = DigitsValue(Decimals[y]) * 10 - NumeralValue[c]
      BY <3>2, <3>5, DigitsAppend
    <3>7. DigitsValue(Decimals[x]) = y * 10 - (n % 10) /\ Decimals[x] # << >>
      BY <3>2, <3>4, <3>5, <3>6
    <3>8. y * 10 - (n % 10) = x
      BY <2>2, <3>1
    <3> HIDE DEF x
    <3> QED BY <2>2, <3>7, <3>8
  <2> QED BY <2>3, <2>4
<1>2. -z \in Nat /\ -(-z) = z
  <2>1. z \in Int /\ z <= 0
    BY <1>0
  <2> QED BY <2>1
<1>3. Good(z)
  <2>1. -z \notin T
    BY <1>1
  <2> QED BY <1>2, <2>1
<1> QED BY <1>3, DecimalsMeaning

\* jsonInt() and the gateway's reading of it agree on every value of the type,
\* the least one included, whose magnitude the type does not have.
LEMMA NumberReadBack ==
    ASSUME NEW v \in IntMin .. IntMax
    PROVE  ReadNumber(jsonInt(v)) = v
<1>0. IntMin \in Int /\ IntMax \in Int /\ IntMin < 0 /\ IntMax = -IntMin - 1 /\ v \in Int
  BY PunchCodecAssumption DEF IntMin, IntMax
<1>1. jsonInt(v) = IF v = 0 THEN <<"0">> ELSE IF v < 0 THEN <<"-">> \o Decimals[v] ELSE Decimals[Neg(v)]
  BY Zenon DEF jsonInt, Decimals
<1>2. ASSUME NEW text
      PROVE  ReadNumber(text) = IF text[1] = "-" THEN DigitsValue(Tail(text)) ELSE -DigitsValue(text)
  <2>1. CASE text[1] = "-"
    BY <2>1, Zenon DEF ReadNumber, DigitsValue
  <2>2. CASE text[1] # "-"
    BY <2>2, Zenon DEF ReadNumber, DigitsValue
  <2> QED BY <2>1, <2>2
<1>3. "-" \notin Numerals
  <2>1. \A i \in 1 .. 10 : NumeralAt[i] # "-"
    BY DEF NumeralAt
  <2>2. DOMAIN NumeralAt = 1 .. 10 /\ Numerals = ToSet(NumeralAt)
    BY DEF NumeralAt, Numerals, NumeralValue
  <2> QED BY <2>1, <2>2 DEF ToSet
<1>4. CASE v = 0
  <2>1. jsonInt(v) = << >> \o <<"0">>
    BY <1>1, <1>4
  <2>2. "0" \in Numerals /\ NumeralValue["0"] = 0
    <3>1. NumeralAt[1] = "0"
      BY DEF NumeralAt
    <3> QED BY <3>1, Digits
  <2>3. << >> \in Seq(Numerals) /\ DigitsValue(<< >>) = 0
    <3>1. << >> \in Seq(Numerals) /\ Len(<< >>) = 0
      OBVIOUS
    <3> QED BY <3>1, DigitsRead
  <2>4. DigitsValue(<< >> \o <<"0">>) = 0 * 10 - 0
    BY <2>2, <2>3, DigitsAppend
  <2>5. <<"0">>[1] # "-" /\ << >> \o <<"0">> = <<"0">>
    OBVIOUS
  <2>6. DigitsValue(<<"0">>) = 0
    BY <2>4, <2>5
  <2> QED BY <1>1, <1>2, <1>4, <2>5, <2>6
<1>5. CASE v < 0
  <2> DEFINE s == Decimals[v]
             text == <<"-">> \o s
  <2>1. v \in IntMin .. 0
    BY <1>0, <1>5
  <2>2. s \in Seq(Numerals) /\ DigitsValue(s) = v
    BY <2>1, DecimalsExact
  <2>3. jsonInt(v) = text
    BY <1>0, <1>1, <1>5
  <2> HIDE DEF s
  <2>4. text[1] = "-" /\ Tail(text) = s
    <3> DEFINE W == Numerals \cup {"-"}
    <3>0. Numerals \subseteq W /\ "-" \in W
      OBVIOUS
    <3> HIDE DEF W
    <3>1. s \in Seq(W) /\ <<"-">> \in Seq(W) /\ Len(<<"-">>) = 1 /\ <<"-">>[1] = "-"
      <4>1. s \in Seq(W)
        BY <2>2, <3>0
      <4>2. <<"-">> \in Seq(W) /\ Len(<<"-">>) = 1 /\ <<"-">>[1] = "-"
        BY <3>0
      <4> QED BY <4>1, <4>2
    <3>2. text[1] = "-" /\ Len(text) = Len(s) + 1 /\ Len(s) \in Nat /\ text \in Seq(W)
      BY <3>1
    <3>3. Tail(text) \in Seq(W) /\ Len(Tail(text)) = Len(s)
      BY <3>2
    <3>4. ASSUME NEW i \in 1 .. Len(s) PROVE Tail(text)[i] = s[i]
      <4>1. Tail(text)[i] = text[i + 1]
        BY <3>2, <3>3
      <4>2. text[i + 1] = s[i]
        BY <3>1, <3>2
      <4> QED BY <4>1, <4>2
    <3> HIDE DEF text
    <3> QED BY <3>1, <3>2, <3>3, <3>4
  <2> HIDE DEF text
  <2>5. ReadNumber(text) = DigitsValue(s)
    BY <1>2, <2>4, Zenon
  <2> QED BY <2>2, <2>3, <2>5
<1>6. CASE v > 0
  <2> DEFINE s == Decimals[-v]
  <2>1. -v \in IntMin .. 0 /\ -v # 0 /\ v # IntMin
    BY <1>0, <1>6
  <2>2. Neg(v) = -v
    BY <2>1 DEF Neg
  <2>3. s \in Seq(Numerals) /\ DigitsValue(s) = -v /\ s # << >>
    BY <2>1, DecimalsExact
  <2>4. jsonInt(v) = s
    BY <1>0, <1>1, <1>6, <2>2
  <2> HIDE DEF s
  <2>5. s[1] # "-"
    BY <1>3, <2>3
  <2>6. ReadNumber(s) = -DigitsValue(s)
    BY <1>2, <2>5, Zenon
  <2> QED BY <1>0, <2>3, <2>4, <2>6
<1> QED BY <1>0, <1>4, <1>5, <1>6

(***************************************************************************)
(* A punch on the wire                                                     *)
(***************************************************************************)

\* The gateway reads the event the terminal built of a record.
LEMMA EventReadBack ==
    ASSUME NEW r, {r.seq, r.uptime, r.slot, r.score} \subseteq IntMin .. IntMax,
           r.epoch \in Times \cup {<<0, 0>>}
    PROVE  ReadEvent(buildEvent(r)) =
              [seq |-> r.seq, uptime |-> r.uptime, slot |-> r.slot, score |-> r.score,
               at |-> IF r.epoch = <<0, 0>> THEN {} ELSE {r.epoch}]
<1> DEFINE all == [seq |-> jsonInt(r.seq), captured_at |-> formatRfc3339Utc(r.epoch),
                   captured_uptime_ms |-> jsonInt(r.uptime), time_source |-> timeSourceName(r.source),
                   credential_kind |-> credentialKindName(r.kind), slot_no |-> jsonInt(r.slot),
                   match_score |-> jsonInt(r.score), direction_hint |-> directionHintName(r.hint)]
           e == buildEvent(r)
           number(k) == IF k \in DOMAIN e THEN ReadNumber(e[k]) ELSE 0
<1>1. e = [k \in DOMAIN all \ LeftOut(r) |-> all[k]]
  BY Zenon DEF buildEvent
<1>2. /\ {"seq", "captured_at", "captured_uptime_ms", "slot_no", "match_score"} \subseteq DOMAIN all
      /\ all["seq"] = jsonInt(r.seq) /\ all["captured_at"] = formatRfc3339Utc(r.epoch)
      /\ all["captured_uptime_ms"] = jsonInt(r.uptime) /\ all["slot_no"] = jsonInt(r.slot)
      /\ all["match_score"] = jsonInt(r.score)
  OBVIOUS
<1> HIDE DEF all
<1> HIDE DEF e
<1>3. DOMAIN e = DOMAIN all \ LeftOut(r) /\ \A k \in DOMAIN e : e[k] = all[k]
  BY <1>1
<1>4. /\ "seq" \notin LeftOut(r)
      /\ "captured_at" \in LeftOut(r) <=> r.epoch = <<0, 0>>
      /\ "captured_uptime_ms" \in LeftOut(r) <=> r.uptime = 0
      /\ "slot_no" \in LeftOut(r) <=> r.slot = 0
      /\ "match_score" \in LeftOut(r) <=> r.score = 0
  <2> DEFINE noTime == r.epoch = <<0, 0>>
             noUptime == r.uptime = 0
             noSlot == r.slot = 0
             noScore == r.score = 0
  <2>1. LeftOut(r) = (IF noTime THEN {"captured_at"} ELSE {}) \cup (IF noUptime THEN {"captured_uptime_ms"} ELSE {})
                     \cup (IF noSlot THEN {"slot_no"} ELSE {}) \cup (IF noScore THEN {"match_score"} ELSE {})
    BY Zenon DEF LeftOut
  <2> HIDE DEF noTime, noUptime, noSlot, noScore
  <2>2. /\ "seq" \notin LeftOut(r)
        /\ "captured_at" \in LeftOut(r) <=> noTime
        /\ "captured_uptime_ms" \in LeftOut(r) <=> noUptime
        /\ "slot_no" \in LeftOut(r) <=> noSlot
        /\ "match_score" \in LeftOut(r) <=> noScore
    BY <2>1
  <2> QED BY <2>2, Zenon DEF noTime, noUptime, noSlot, noScore
<1>5. /\ ReadNumber(jsonInt(r.seq)) = r.seq /\ ReadNumber(jsonInt(r.uptime)) = r.uptime
      /\ ReadNumber(jsonInt(r.slot)) = r.slot /\ ReadNumber(jsonInt(r.score)) = r.score
  <2>1. r.seq \in IntMin .. IntMax /\ r.uptime \in IntMin .. IntMax /\ r.slot \in IntMin .. IntMax /\ r.score \in IntMin .. IntMax
    BY Zenon
  <2> QED BY <2>1, NumberReadBack, Zenon
<1>6. number("seq") = r.seq
  BY <1>2, <1>3, <1>4, <1>5
<1>7. number("captured_uptime_ms") = r.uptime
  BY <1>2, <1>3, <1>4, <1>5
<1>8. number("slot_no") = r.slot
  BY <1>2, <1>3, <1>4, <1>5
<1>9. number("match_score") = r.score
  BY <1>2, <1>3, <1>4, <1>5
<1>10. (IF "captured_at" \in DOMAIN e THEN ParseTime(e["captured_at"]) ELSE {})
         = (IF r.epoch = <<0, 0>> THEN {} ELSE {r.epoch})
  <2>1. CASE r.epoch = <<0, 0>>
    BY <1>3, <1>4, <2>1, Zenon
  <2>2. CASE r.epoch # <<0, 0>>
    <3>1. "captured_at" \in DOMAIN e /\ e["captured_at"] = formatRfc3339Utc(r.epoch)
      BY <1>2, <1>3, <1>4, <2>2, Zenon
    <3>2. r.epoch \in (0 .. LastDay) \X (0 .. DayMs - 1)
      BY <2>2, CodecAssumption, Zenon
    <3>3. ParseTime(formatRfc3339Utc(r.epoch)) = {r.epoch}
      BY <3>2, TimeReadBack, Zenon
    <3> QED BY <2>2, <3>1, <3>3, Zenon
  <2> QED BY <2>1, <2>2, Zenon
<1>11. ReadEvent(e) = [seq |-> number("seq"), uptime |-> number("captured_uptime_ms"),
                       slot |-> number("slot_no"), score |-> number("match_score"),
                       at |-> IF "captured_at" \in DOMAIN e THEN ParseTime(e["captured_at"]) ELSE {}]
  BY Zenon DEF ReadEvent
<1> HIDE DEF number
<1> QED BY <1>6, <1>7, <1>8, <1>9, <1>10, <1>11, Zenon DEF e

\* Inductive: what is on the wire is what the record, number or time makes.
PunchInv ==
    /\ job.op = "time" => job.in \in Times /\ (st.done => st.out = formatRfc3339Utc(job.in))
    /\ job.op = "number" => job.in \in IntMin .. IntMax /\ (st.done => st.out = jsonInt(job.in))
    /\ job.op = "punch" => job.in \in Punches /\ (st.done => st.out = buildEvent(job.in))

LEMMA PunchInvInit == CodecInit => PunchInv
<1> SUFFICES ASSUME CodecInit PROVE PunchInv
  OBVIOUS
<1>1. CASE TimeInit
  <2>1. PICK t \in Times : job = [op |-> "time", in |-> t] /\ st = [done |-> FALSE]
    BY <1>1 DEF TimeInit, Start, Waiting
  <2> QED BY <2>1 DEF PunchInv
<1>2. CASE NumberInit
  <2>1. PICK v \in IntMin .. IntMax : job = [op |-> "number", in |-> v] /\ st = [done |-> FALSE]
    BY <1>2 DEF NumberInit, Start, Waiting
  <2> QED BY <2>1 DEF PunchInv
<1>3. CASE PunchInit
  <2>1. PICK r \in Punches : job = [op |-> "punch", in |-> r] /\ st = [done |-> FALSE]
    BY <1>3 DEF PunchInit, Start, Waiting
  <2> QED BY <2>1 DEF PunchInv
<1>4. CASE job.op \notin {"time", "number", "punch"}
  BY <1>4 DEF PunchInv
<1> QED BY <1>1, <1>2, <1>3, <1>4, JobStarts

LEMMA PunchActions ==
    ASSUME CodecNext, job.op \in {"time", "number", "punch"}
    PROVE  \/ job.op = "time" /\ FormatTime
           \/ job.op = "number" /\ FormatNumber
           \/ job.op = "punch" /\ BuildEvent
<1>1. ASSUME NEW n \in 1 .. Chunk, Read(n) PROVE FALSE
  BY <1>1 DEF Read, Pending
<1>2. ASSUME NEW n \in 0 .. Chunk, Feed(n) PROVE FALSE
  BY <1>2 DEF Feed, Pending
<1>3. ~(ReadTimeout \/ DecodeForm \/ MakeCreds \/ MakeToken \/ MakeKey \/ DecodeJson \/ DecodeBase64
        \/ TakeIdentity \/ ReadVersion \/ CompareVersions \/ ReadManifest \/ Finish
        \/ OpenFile \/ UseFile \/ RebootFile)
  BY DEF Pending, ReadTimeout, DecodeForm, MakeCreds, MakeToken, MakeKey, DecodeJson, DecodeBase64,
         TakeIdentity, ReadVersion, CompareVersions, ReadManifest, Finish, OpenFile, UseFile, RebootFile
<1>4. FormatTime \/ FormatNumber \/ BuildEvent
  BY <1>1, <1>2, <1>3 DEF CodecNext
<1> QED BY <1>4 DEF FormatTime, FormatNumber, BuildEvent, Pending

LEMMA PunchInvStep ==
    ASSUME PunchInv, [CodecNext]_codecVars
    PROVE  PunchInv'
<1>1. CASE UNCHANGED codecVars
  BY <1>1 DEF codecVars, PunchInv
<1>2. CASE CodecNext
  <2>1. job' = job
    BY <1>2, JobKept
  <2>2. CASE job.op \notin {"time", "number", "punch"}
    BY <2>1, <2>2 DEF PunchInv
  <2>3. CASE job.op = "time" /\ FormatTime
    <3>1. st' = [done |-> TRUE, out |-> formatRfc3339Utc(job.in)]
      BY <2>3, Zenon DEF FormatTime, Out
    <3>2. st'.out = formatRfc3339Utc(job.in)
      BY <3>1
    <3> QED BY <2>1, <2>3, <3>2 DEF PunchInv
  <2>4. CASE job.op = "number" /\ FormatNumber
    <3>1. st' = [done |-> TRUE, out |-> jsonInt(job.in)]
      BY <2>4, Zenon DEF FormatNumber, Out
    <3>2. st'.out = jsonInt(job.in)
      BY <3>1
    <3> QED BY <2>1, <2>4, <3>2 DEF PunchInv
  <2>5. CASE job.op = "punch" /\ BuildEvent
    <3>1. st' = [done |-> TRUE, out |-> buildEvent(job.in)]
      BY <2>5, Zenon DEF BuildEvent, Out
    <3>2. st'.out = buildEvent(job.in)
      BY <3>1
    <3> QED BY <2>1, <2>5, <3>2 DEF PunchInv
  <2> QED BY <1>2, <2>2, <2>3, <2>4, <2>5, PunchActions
<1> QED BY <1>1, <1>2

\* The ledger gets the punch the terminal recorded: every time from 1970 to
\* 9999 to the millisecond, every number of the type's width and every
\* optional member of buildEventsJson() read back as they were, and a punch
\* without a clock reads as one without a time.
THEOREM PunchExactAlways == CodecSpec => []PunchExact
<1>1. PunchInv => PunchExact
  <2> SUFFICES ASSUME PunchInv PROVE PunchExact
    OBVIOUS
  <2>1. TimeExact
    <3> SUFFICES ASSUME job.op = "time", st.done PROVE ParseTime(st.out) = {job.in}
      BY DEF TimeExact, Done
    <3>1. st.out = formatRfc3339Utc(job.in) /\ job.in \in Times
      BY DEF PunchInv
    <3>2. job.in \in (0 .. LastDay) \X (0 .. DayMs - 1)
      BY <3>1, CodecAssumption, Zenon
    <3> QED BY <3>1, <3>2, TimeReadBack, Zenon
  <2>2. ASSUME job.op = "number", st.done PROVE ReadNumber(st.out) = job.in
    <3>1. st.out = jsonInt(job.in) /\ job.in \in IntMin .. IntMax
      BY <2>2 DEF PunchInv
    <3> QED BY <3>1, NumberReadBack, Zenon
  <2>3. ASSUME job.op = "punch", st.done
        PROVE  ReadEvent(st.out) =
                 [seq |-> job.in.seq, uptime |-> job.in.uptime, slot |-> job.in.slot, score |-> job.in.score,
                  at |-> IF job.in.epoch = <<0, 0>> THEN {} ELSE {job.in.epoch}]
    <3>1. st.out = buildEvent(job.in) /\ job.in \in Punches
      BY <2>3 DEF PunchInv
    <3>2. /\ {job.in.seq, job.in.uptime, job.in.slot, job.in.score} \subseteq IntMin .. IntMax
          /\ job.in.epoch \in Times \cup {<<0, 0>>}
      BY <3>1, CodecAssumption, Zenon
    <3> QED BY <3>1, <3>2, EventReadBack, Zenon
  <2> QED BY <2>1, <2>2, <2>3, Zenon DEF PunchExact, PunchSurvives, Done
<1> QED BY <1>1, PunchInvInit, PunchInvStep, PTL DEF CodecSpec

(***************************************************************************)
(* The records kept in NVS                                                 *)
(***************************************************************************)

LEMMA FirstNul ==
    ASSUME NEW a
    PROVE  CString(a) = SubSeq(a, 1, Min({i \in 1 .. Len(a) : a[i] = "NUL"} \cup {Len(a) + 1}) - 1)
BY Zenon DEF CString, FirstIndex

\* What of a sequence lies before the first NUL, when there is one.
LEMMA CStringOf ==
    ASSUME NEW s \in Seq(Byte), NEW n \in Nat, Len(s) < n, "NUL" \notin ToSet(s)
    PROVE  /\ CString(Array(s, n)) = s /\ HasEnd(Array(s, n))
           /\ \A i \in 1 .. Len(s) : Array(s, n)[i] = s[i]
           /\ \A i \in 1 .. n : i > Len(s) => Array(s, n)[i] = "NUL"
<1> DEFINE a == Array(s, n)
           k == Len(s)
<1>1. k \in Nat /\ DOMAIN s = 1 .. k
  OBVIOUS
<1>2. a = [i \in 1 .. n |-> IF i <= k THEN s[i] ELSE "NUL"]
  BY Zenon DEF Array
<1>3. /\ DOMAIN a = 1 .. n /\ \A i \in 1 .. k : a[i] = s[i]
      /\ \A i \in 1 .. n : i > k => a[i] = "NUL"
  BY <1>1, <1>2
<1>4. "NUL" \in Byte
  BY DEF Byte, Ascii, ToSet
<1>5. \A i \in 1 .. n : a[i] \in Byte
  BY <1>1, <1>3, <1>4
<1>6. a \in Seq(Byte) /\ Len(a) = n
  BY <1>2, <1>3, <1>5
<1> HIDE DEF a
<1>7. ASSUME NEW i \in 1 .. k PROVE a[i] # "NUL"
  BY <1>1, <1>3, <1>7 DEF ToSet
<1> DEFINE T == {i \in 1 .. Len(a) : a[i] = "NUL"} \cup {Len(a) + 1}
<1>8. T \in SUBSET Nat /\ k + 1 \in T /\ \A i \in T : k + 1 <= i
  <2>1. k + 1 \in 1 .. n /\ a[k + 1] = "NUL"
    BY <1>1, <1>3
  <2> QED BY <1>1, <1>6, <1>7, <2>1
<1>9. Min(T) = k + 1
  <2> HIDE DEF T
  <2>1. Min(T) \in T /\ \A y \in T : Min(T) <= y
    BY <1>8, MinOf
  <2>2. Min(T) \in Nat /\ k + 1 <= Min(T) /\ Min(T) <= k + 1
    BY <1>8, <2>1
  <2> QED BY <1>1, <2>2
<1>10. CString(a) = SubSeq(a, 1, k)
  <2>1. CString(a) = SubSeq(a, 1, Min(T) - 1)
    BY FirstNul, Zenon
  <2>2. (k + 1) - 1 = k
    BY <1>1
  <2> HIDE DEF T
  <2> QED BY <1>9, <2>1, <2>2
<1>11. SubSeq(a, 1, k) = s
  <2>1. SubSeq(a, 1, k) \in Seq(Byte) /\ Len(SubSeq(a, 1, k)) = k /\ \A i \in 1 .. k : SubSeq(a, 1, k)[i] = a[i]
    BY <1>1, <1>6
  <2> QED BY <1>1, <1>3, <2>1
<1>12. HasEnd(a)
  <2>1. k + 1 \in DOMAIN a /\ a[k + 1] = "NUL"
    BY <1>1, <1>3
  <2> QED BY <2>1 DEF HasEnd, ToSet
<1> QED BY <1>3, <1>10, <1>11, <1>12 DEF a

LEMMA CredsSaved ==
    ASSUME NEW l, {l.ssid, l.password} \subseteq Seq(Byte), NEW c \in makeCredentials(l.ssid, l.password)
    PROVE  credentialsUsable(c) /\ CString(c.ssid) = l.ssid /\ CString(c.password) = l.password
<1>1. /\ validateSsid(l.ssid) /\ validatePassword(l.password)
      /\ c = [magic |-> "WIF1", ssid |-> Array(l.ssid, SsidMax + 1), password |-> Array(l.password, PskHex + 1)]
  BY Zenon DEF makeCredentials
<1>2. l.ssid \in Seq(Byte) /\ l.password \in Seq(Byte)
  OBVIOUS
<1>3. SsidMax \in Nat /\ PskHex \in Nat /\ PassMin \in Nat /\ PassMax \in Nat /\ PskHex = PassMax + 1
  BY PortalCodecAssumption
<1>4. Len(l.ssid) < SsidMax + 1 /\ "NUL" \notin ToSet(l.ssid)
  BY <1>1, <1>2, <1>3 DEF validateSsid, Control
<1>5. Len(l.password) < PskHex + 1 /\ "NUL" \notin ToSet(l.password)
  <2>1. CASE l.password = << >>
    BY <1>3, <2>1 DEF ToSet
  <2>2. CASE Len(l.password) = PskHex /\ ToSet(l.password) \subseteq HexDigits
    BY <1>3, <2>2 DEF HexDigits
  <2>3. CASE Len(l.password) \in PassMin .. PassMax /\ ToSet(l.password) \cap (Control \cup {"hi"}) = {}
    BY <1>3, <2>3 DEF Control
  <2> QED BY <1>1, <2>1, <2>2, <2>3 DEF validatePassword
<1>6. CString(Array(l.ssid, SsidMax + 1)) = l.ssid /\ HasEnd(Array(l.ssid, SsidMax + 1))
  BY <1>2, <1>3, <1>4, CStringOf
<1>7. CString(Array(l.password, PskHex + 1)) = l.password /\ HasEnd(Array(l.password, PskHex + 1))
  BY <1>2, <1>3, <1>5, CStringOf
<1>8. c.magic = "WIF1" /\ c.ssid = Array(l.ssid, SsidMax + 1) /\ c.password = Array(l.password, PskHex + 1)
  BY <1>1
<1> QED BY <1>1, <1>6, <1>7, <1>8, Zenon DEF credentialsUsable

LEMMA TokenSaved ==
    ASSUME NEW t \in Seq(Byte), NEW r \in makeTokenRecord(t)
    PROVE  tokenRecordUsable(r) /\ CString(r.token) = Lower(trimSpaces(t))
<1> DEFINE u == trimSpaces(t)
           w == Lower(u)
<1>1. /\ Len(u) = TokenChars /\ ToSet(u) \subseteq HexDigits
      /\ r = [magic |-> "TOK1", token |-> Array(w, TokenChars + 1)]
  BY Zenon DEF makeTokenRecord
<1>2. TokenChars \in Nat
  BY PortalCodecAssumption
<1>3. u \in Seq(Byte)
  <2> DEFINE kept == {i \in 1 .. Len(t) : t[i] \notin Space}
  <2>1. CASE kept = {}
    <3>1. u = << >>
      BY <2>1, Zenon DEF trimSpaces
    <3> QED BY <3>1
  <2>2. CASE kept # {}
    <3>1. u = SubSeq(t, Min(kept), Max(kept))
      BY <2>2, Zenon DEF trimSpaces
    <3>2. Len(t) \in Nat /\ kept \in SUBSET (1 .. Len(t)) /\ kept \in SUBSET Nat
      OBVIOUS
    <3> HIDE DEF kept
    <3>3. Min(kept) \in kept
      BY <2>2, <3>2, MinOf
    <3>4. Max(kept) \in kept
      BY <2>2, <3>2, MaxOf
    <3>5. Min(kept) \in 1 .. Len(t) /\ Max(kept) \in 1 .. Len(t)
      BY <3>2, <3>3, <3>4
    <3>6. \A i \in Min(kept) .. Max(kept) : t[i] \in Byte
      BY <3>2, <3>5
    <3> QED BY <3>1, <3>2, <3>5, <3>6, SubSeqProperties
  <2> QED BY <2>1, <2>2
<1> HIDE DEF u
<1>4. w = [i \in DOMAIN u |-> IF u[i] = "A" THEN "a" ELSE u[i]]
  BY Zenon DEF Lower
<1>5. DOMAIN u = 1 .. TokenChars /\ \A i \in 1 .. TokenChars : u[i] \in HexDigits /\ u[i] \in Byte
  BY <1>1, <1>2, <1>3 DEF ToSet
<1>6. "a" \in Byte
  BY DEF Byte, Ascii, ToSet
<1>7. \A i \in 1 .. TokenChars : w[i] \in HexDigits \ {"A"} /\ w[i] \in Byte
  <2> SUFFICES ASSUME NEW i \in 1 .. TokenChars PROVE w[i] \in HexDigits \ {"A"} /\ w[i] \in Byte
    OBVIOUS
  <2>1. w[i] = IF u[i] = "A" THEN "a" ELSE u[i]
    BY <1>4, <1>5
  <2> HIDE DEF w
  <2> QED BY <1>5, <1>6, <2>1 DEF HexDigits
<1>8. w \in Seq(Byte) /\ Len(w) = TokenChars
  <2>1. DOMAIN w = 1 .. TokenChars /\ w = [i \in 1 .. TokenChars |-> w[i]]
    BY <1>4, <1>5
  <2> HIDE DEF w
  <2> QED BY <1>2, <1>7, <2>1
<1> HIDE DEF w
<1>9. "NUL" \notin ToSet(w)
  <2>1. DOMAIN w = 1 .. TokenChars
    BY <1>8
  <2> QED BY <1>7, <2>1 DEF ToSet, HexDigits
<1> DEFINE a == Array(w, TokenChars + 1)
<1>10. /\ CString(a) = w /\ \A i \in 1 .. Len(w) : a[i] = w[i]
       /\ \A i \in 1 .. TokenChars + 1 : i > Len(w) => a[i] = "NUL"
  BY <1>2, <1>8, <1>9, CStringOf
<1> HIDE DEF a
<1>11. r.magic = "TOK1" /\ r.token = a
  BY <1>1 DEF a
<1>12. a[TokenChars + 1] = "NUL" /\ \A i \in 1 .. TokenChars : a[i] \in HexDigits \ {"A"}
  BY <1>2, <1>7, <1>8, <1>10
<1> QED BY <1>10, <1>11, <1>12, Zenon DEF tokenRecordUsable, w, u

KeyCommand == <<"SETUP-", "KEY">>
LineBytes == Byte \cup {"SETUP-", "KEY"}
IsKeyLine(line, key) ==
    /\ line \in Seq(LineBytes) /\ Len(line) = Len(key) + 2 /\ line[1] = "SETUP-" /\ line[2] = "KEY"
    /\ \A i \in 1 .. Len(key) : line[i + 2] = key[i]

LEMMA KeyLine ==
    ASSUME NEW key \in Seq(Byte)
    PROVE  IsKeyLine(KeyCommand \o key, key)
<1>1. Byte \subseteq LineBytes /\ "SETUP-" \in LineBytes /\ "KEY" \in LineBytes
  BY DEF LineBytes
<1>2. key \in Seq(LineBytes)
  BY <1>1
<1>3. KeyCommand \in Seq(LineBytes) /\ Len(KeyCommand) = 2 /\ KeyCommand[1] = "SETUP-" /\ KeyCommand[2] = "KEY"
  BY <1>1 DEF KeyCommand
<1> DEFINE line == KeyCommand \o key
<1>4. /\ line \in Seq(LineBytes) /\ Len(line) = 2 + Len(key) /\ Len(key) \in Nat
      /\ \A i \in 1 .. 2 + Len(key) : line[i] = IF i <= 2 THEN KeyCommand[i] ELSE key[i - 2]
  <2>1. /\ line \in Seq(LineBytes) /\ Len(line) = Len(KeyCommand) + Len(key)
        /\ \A i \in 1 .. Len(KeyCommand) + Len(key) :
             line[i] = IF i <= Len(KeyCommand) THEN KeyCommand[i] ELSE key[i - Len(KeyCommand)]
    BY <1>2, <1>3, ConcatProperties, Zenon
  <2>2. Len(key) \in Nat
    OBVIOUS
  <2> HIDE DEF line
  <2> QED BY <1>3, <2>1, <2>2, Zenon
<1> HIDE DEF line
<1>5. line[1] = "SETUP-" /\ line[2] = "KEY"
  BY <1>3, <1>4
<1>6. ASSUME NEW i \in 1 .. Len(key) PROVE line[i + 2] = key[i]
  <2>1. i + 2 \in 1 .. Len(line) /\ ~(i + 2 <= 2) /\ (i + 2) - 2 = i
    BY <1>4
  <2> QED BY <1>4, <2>1
<1>7. IsKeyLine(line, key)
  BY <1>4, <1>5, <1>6 DEF IsKeyLine
<1> QED BY <1>7, Zenon DEF line

LEMMA KeySaved ==
    ASSUME NEW key \in Seq(Byte), NEW line, IsKeyLine(line, key),
           parseSetupCommand(line).kind = "SetKey", NEW k \in makeSetupKey(parseSetupCommand(line).key)
    PROVE  setupKeyUsable(k) /\ CString(k.key) = key
<1>1. parseSetupCommand(line).kind = "SetKey" /\ k \in makeSetupKey(parseSetupCommand(line).key)
  OBVIOUS
<1>2. key \in Seq(LineBytes)
  <2>1. Byte \subseteq LineBytes
    BY DEF LineBytes
  <2> QED BY <2>1
<1>3. line \in Seq(LineBytes) /\ Len(line) = Len(key) + 2 /\ Len(key) \in Nat /\ line[1] = "SETUP-" /\ line[2] = "KEY"
      /\ \A i \in 1 .. Len(key) : line[i + 2] = key[i]
  BY DEF IsKeyLine
<1>4. SubSeq(line, 3, Len(line)) = key
  <2>1. Len(line) \in Nat /\ \A i \in 3 .. Len(line) : line[i] \in LineBytes
    BY <1>3
  <2>2. SubSeq(line, 3, Len(line)) \in Seq(LineBytes) /\ Len(SubSeq(line, 3, Len(line))) = Len(key)
        /\ \A i \in 1 .. Len(key) : SubSeq(line, 3, Len(line))[i] = line[i + 2]
    BY <1>3, <2>1, SubSeqProperties
  <2> QED BY <1>2, <1>3, <2>2
<1>5. parseSetupCommand(line).key = key
  <2>1. line # << >>
    BY <1>3
  <2>2. CASE line = <<"SETUP-", "ID">>
    <3>1. line[2] = "ID"
      BY <2>2
    <3> QED BY <1>3, <3>1
  <2>3. CASE line # <<"SETUP-", "ID">> /\ Len(line) > 2
    <3>1. parseSetupCommand(line) = [kind |-> "SetKey", key |-> SubSeq(line, 3, Len(line))]
      BY <1>3, <2>1, <2>3, Zenon DEF parseSetupCommand
    <3> QED BY <1>4, <3>1
  <2>4. CASE line # <<"SETUP-", "ID">> /\ ~(Len(line) > 2)
    <3>1. parseSetupCommand(line) = [kind |-> "Malformed", key |-> << >>]
      BY <1>3, <2>1, <2>4, Zenon DEF parseSetupCommand
    <3> QED BY <1>1, <3>1
  <2> QED BY <2>2, <2>3, <2>4
<1>6. validSetupKey(key) /\ k = [magic |-> "SAK1", key |-> Array(key, KeyChars + 1)]
  BY <1>1, <1>5, Zenon DEF makeSetupKey
<1>7. KeyChars \in Nat
  BY PortalCodecAssumption
<1>8. Len(key) = KeyChars /\ "NUL" \notin ToSet(key)
  <2>1. Len(key) = KeyChars /\ \A i \in 1 .. KeyChars : key[i] = "-" \/ key[i] \in KeyAlphabet
    BY <1>6, Zenon DEF validSetupKey
  <2>2. DOMAIN key = 1 .. KeyChars
    BY <2>1
  <2>3. \A i \in DOMAIN key : key[i] # "NUL"
    BY <2>1, <2>2 DEF KeyAlphabet
  <2> QED BY <2>1, <2>3 DEF ToSet
<1> DEFINE a == Array(key, KeyChars + 1)
<1>9. /\ CString(a) = key /\ \A i \in 1 .. Len(key) : a[i] = key[i]
      /\ \A i \in 1 .. KeyChars + 1 : i > Len(key) => a[i] = "NUL"
  BY <1>7, <1>8, CStringOf
<1>10. a[KeyChars + 1] = "NUL"
  BY <1>7, <1>8, <1>9
<1>11. SubSeq(a, 1, KeyChars) = key
  <2>1. a = [i \in 1 .. KeyChars + 1 |-> a[i]]
    BY DEF Array
  <2> HIDE DEF a
  <2>2. \A i \in 1 .. KeyChars : a[i] \in Byte
    BY <1>7, <1>8, <1>9
  <2>3. "NUL" \in Byte
    BY DEF Byte, Ascii, ToSet
  <2>4. \A i \in 1 .. KeyChars + 1 : a[i] \in Byte
    BY <1>7, <1>10, <2>2, <2>3
  <2>5. a \in Seq(Byte) /\ Len(a) = KeyChars + 1
    BY <1>7, <2>1, <2>4
  <2>6. SubSeq(a, 1, KeyChars) \in Seq(Byte) /\ Len(SubSeq(a, 1, KeyChars)) = KeyChars
        /\ \A i \in 1 .. KeyChars : SubSeq(a, 1, KeyChars)[i] = a[i]
    BY <1>7, <2>5
  <2> QED BY <1>7, <1>8, <1>9, <2>6
<1> HIDE DEF a
<1>12. k.magic = "SAK1" /\ k.key = a
  BY <1>6 DEF a
<1> QED BY <1>6, <1>9, <1>10, <1>11, <1>12, Zenon DEF setupKeyUsable

\* Inductive: what make...() returned is what it makes of the text.
SavedInv ==
    /\ job.op = "creds" => job.in \in Logins /\ (st.done => st.out = makeCredentials(job.in.ssid, job.in.password))
    /\ job.op = "token" => job.in \in Tokens /\ (st.done => st.out = makeTokenRecord(job.in))
    /\ job.op = "key" =>
         /\ \E k \in Keys : job.in = KeyCommand \o k
         /\ st.done => \A r \in st.out : /\ parseSetupCommand(job.in).kind = "SetKey"
                                         /\ r \in makeSetupKey(parseSetupCommand(job.in).key)

LEMMA SavedInvInit == CodecInit => SavedInv
<1> SUFFICES ASSUME CodecInit PROVE SavedInv
  OBVIOUS
<1>1. CASE CredsInit
  <2>1. PICK l \in Logins : job = [op |-> "creds", in |-> l] /\ st = [done |-> FALSE]
    BY <1>1 DEF CredsInit, Start, Waiting
  <2> QED BY <2>1 DEF SavedInv
<1>2. CASE TokenInit
  <2>1. PICK t \in Tokens : job = [op |-> "token", in |-> t] /\ st = [done |-> FALSE]
    BY <1>2 DEF TokenInit, Start, Waiting
  <2> QED BY <2>1 DEF SavedInv
<1>3. CASE KeyInit
  <2>1. PICK k \in Keys : job = [op |-> "key", in |-> KeyCommand \o k] /\ st = [done |-> FALSE]
    BY <1>3, Zenon DEF KeyInit, Start, Waiting, KeyCommand
  <2> DEFINE line == KeyCommand \o k
  <2>2. \E q \in Keys : line = KeyCommand \o q
    BY Zenon
  <2> HIDE DEF line
  <2>3. job.op = "key" /\ job.in = line /\ st.done = FALSE
    BY <2>1, Zenon DEF line
  <2> QED BY <2>2, <2>3, Zenon DEF SavedInv
<1>4. CASE job.op \notin {"creds", "token", "key"}
  BY <1>4 DEF SavedInv
<1> QED BY <1>1, <1>2, <1>3, <1>4, JobStarts

LEMMA SavedActions ==
    ASSUME CodecNext, job.op \in {"creds", "token", "key"}
    PROVE  \/ job.op = "creds" /\ MakeCreds
           \/ job.op = "token" /\ MakeToken
           \/ job.op = "key" /\ MakeKey
<1>1. ASSUME NEW n \in 1 .. Chunk, Read(n) PROVE FALSE
  BY <1>1 DEF Read, Pending
<1>2. ASSUME NEW n \in 0 .. Chunk, Feed(n) PROVE FALSE
  BY <1>2 DEF Feed, Pending
<1>3. ~(ReadTimeout \/ DecodeForm \/ DecodeJson \/ DecodeBase64
        \/ TakeIdentity \/ ReadVersion \/ CompareVersions \/ ReadManifest \/ Finish
        \/ FormatTime \/ FormatNumber \/ BuildEvent \/ OpenFile \/ UseFile \/ RebootFile)
  BY DEF Pending, ReadTimeout, DecodeForm, DecodeJson, DecodeBase64, TakeIdentity, ReadVersion, CompareVersions,
         ReadManifest, Finish, FormatTime, FormatNumber, BuildEvent, OpenFile, UseFile, RebootFile
<1>4. MakeCreds \/ MakeToken \/ MakeKey
  BY <1>1, <1>2, <1>3 DEF CodecNext
<1> QED BY <1>4 DEF MakeCreds, MakeToken, MakeKey, Pending

LEMMA SavedInvStep ==
    ASSUME SavedInv, [CodecNext]_codecVars
    PROVE  SavedInv'
<1>1. CASE UNCHANGED codecVars
  BY <1>1 DEF codecVars, SavedInv
<1>2. CASE CodecNext
  <2>1. job' = job
    BY <1>2, JobKept
  <2>2. CASE job.op \notin {"creds", "token", "key"}
    BY <2>1, <2>2 DEF SavedInv
  <2>3. CASE job.op = "creds" /\ MakeCreds
    <3>1. st' = [done |-> TRUE, out |-> makeCredentials(job.in.ssid, job.in.password)]
      BY <2>3, Zenon DEF MakeCreds, Out
    <3>2. st'.out = makeCredentials(job.in.ssid, job.in.password)
      BY <3>1
    <3> QED BY <2>1, <2>3, <3>2 DEF SavedInv
  <2>4. CASE job.op = "token" /\ MakeToken
    <3>1. st' = [done |-> TRUE, out |-> makeTokenRecord(job.in)]
      BY <2>4, Zenon DEF MakeToken, Out
    <3>2. st'.out = makeTokenRecord(job.in)
      BY <3>1
    <3> QED BY <2>1, <2>4, <3>2 DEF SavedInv
  <2>5. CASE job.op = "key" /\ MakeKey
    <3> DEFINE c == parseSetupCommand(job.in)
               out == IF c.kind = "SetKey" THEN makeSetupKey(c.key) ELSE {}
    <3>1. st' = [done |-> TRUE, out |-> out]
      BY <2>5, Zenon DEF MakeKey, Out
    <3>2. \A r \in out : c.kind = "SetKey" /\ r \in makeSetupKey(c.key)
      BY Zenon
    <3>3. \E k \in Keys : job.in = KeyCommand \o k
      BY <2>5, Zenon DEF SavedInv
    <3> HIDE DEF out
    <3>4. st'.out = out
      BY <3>1
    <3> QED BY <2>1, <2>5, <3>2, <3>3, <3>4, Zenon DEF SavedInv
  <2> QED BY <1>2, <2>2, <2>3, <2>4, <2>5, SavedActions
<1> QED BY <1>1, <1>2

\* What the setup page and the bench cable save is there after a restart: a
\* record that makeCredentials(), makeTokenRecord() or makeSetupKey() accepts
\* passes the check of its size, mark and terminator that the boot applies to
\* it, and the string read from it is the network, the password, the token in
\* lower case or the setup key that was typed.
THEOREM SavedIsUsableAlways == CodecSpec => []SavedIsUsable
<1>1. SavedInv => SavedIsUsable
  <2> SUFFICES ASSUME SavedInv PROVE SavedIsUsable
    OBVIOUS
  <2>1. ASSUME Done("creds"), NEW c \in st.out
        PROVE  credentialsUsable(c) /\ CString(c.ssid) = job.in.ssid /\ CString(c.password) = job.in.password
    <3>1. job.in \in Logins /\ c \in makeCredentials(job.in.ssid, job.in.password)
      BY <2>1, Zenon DEF SavedInv, Done
    <3>2. {job.in.ssid, job.in.password} \subseteq Seq(Byte)
      BY <3>1, CodecAssumption, Zenon
    <3> QED BY <3>1, <3>2, CredsSaved, Zenon
  <2>2. ASSUME Done("token"), NEW r \in st.out
        PROVE  tokenRecordUsable(r) /\ CString(r.token) = Lower(trimSpaces(job.in))
    <3>1. job.in \in Tokens /\ r \in makeTokenRecord(job.in)
      BY <2>2, Zenon DEF SavedInv, Done
    <3>2. job.in \in Seq(Byte)
      BY <3>1, CodecAssumption, Zenon
    <3> QED BY <3>1, <3>2, TokenSaved, Zenon
  <2>3. ASSUME Done("key"), NEW r \in st.out
        PROVE  setupKeyUsable(r) /\ <<"SETUP-", "KEY">> \o CString(r.key) = job.in
    <3>1. PICK k \in Keys : job.in = KeyCommand \o k
      BY <2>3, Zenon DEF SavedInv, Done
    <3>2. parseSetupCommand(job.in).kind = "SetKey" /\ r \in makeSetupKey(parseSetupCommand(job.in).key)
      BY <2>3, Zenon DEF SavedInv, Done
    <3>3. k \in Seq(Byte)
      BY CodecAssumption, Zenon
    <3>4. IsKeyLine(job.in, k)
      BY <3>1, <3>3, KeyLine, Zenon
    <3>5. setupKeyUsable(r) /\ CString(r.key) = k
      BY <3>2, <3>3, <3>4, KeySaved, Zenon
    <3> QED BY <3>1, <3>5, Zenon DEF KeyCommand
  <2> QED BY <2>1, <2>2, <2>3, Zenon DEF SavedIsUsable
<1> QED BY <1>1, SavedInvInit, SavedInvStep, PTL DEF CodecSpec

(***************************************************************************)
(* The form of the setup page                                              *)
(***************************************************************************)

LEMMA FirstElements ==
    ASSUME NEW S, NEW s \in Seq(S), NEW k \in 0 .. Len(s)
    PROVE  /\ SubSeq(s, 1, 0) = << >> /\ SubSeq(s, 1, Len(s)) = s
           /\ SubSeq(s, 1, k) \in Seq(S) /\ Len(SubSeq(s, 1, k)) = k
           /\ \A i \in 1 .. k : SubSeq(s, 1, k)[i] = s[i]
           /\ k < Len(s) => SubSeq(s, 1, k + 1) = Append(SubSeq(s, 1, k), s[k + 1])
<1>1. Len(s) \in Nat /\ \A j \in 1 .. Len(s) : s[j] \in S
  OBVIOUS
<1>2. ASSUME NEW m \in 0 .. Len(s)
      PROVE  /\ SubSeq(s, 1, m) \in Seq(S) /\ Len(SubSeq(s, 1, m)) = m
             /\ \A i \in 1 .. m : SubSeq(s, 1, m)[i] = s[i]
  <2>1. \A i \in 1 .. m : s[i] \in S
    BY <1>1
  <2> QED BY <1>1, <2>1
<1>3. SubSeq(s, 1, 0) = << >>
  BY <1>1, <1>2
<1>4. SubSeq(s, 1, Len(s)) = s
  <2>1. Len(s) \in 0 .. Len(s)
    BY <1>1
  <2>2. /\ SubSeq(s, 1, Len(s)) \in Seq(S) /\ Len(SubSeq(s, 1, Len(s))) = Len(s)
        /\ \A i \in 1 .. Len(s) : SubSeq(s, 1, Len(s))[i] = s[i]
    BY <1>2, <2>1
  <2> QED BY <2>2
<1>5. ASSUME k < Len(s) PROVE SubSeq(s, 1, k + 1) = Append(SubSeq(s, 1, k), s[k + 1])
  <2>1. k + 1 \in 0 .. Len(s) /\ k + 1 \in 1 .. Len(s) /\ s[k + 1] \in S
    BY <1>1, <1>5
  <2> DEFINE a == SubSeq(s, 1, k)
             b == SubSeq(s, 1, k + 1)
  <2>2. a \in Seq(S) /\ Len(a) = k /\ \A i \in 1 .. k : a[i] = s[i]
    BY <1>2
  <2>3. b \in Seq(S) /\ Len(b) = k + 1 /\ \A i \in 1 .. k + 1 : b[i] = s[i]
    BY <1>2, <2>1
  <2> HIDE DEF a, b
  <2> DEFINE c == Append(a, s[k + 1])
  <2>4. c \in Seq(S) /\ Len(c) = k + 1 /\ \A i \in 1 .. k : c[i] = a[i]
    BY <2>1, <2>2
  <2>5. c[k + 1] = s[k + 1]
    BY <2>1, <2>2
  <2> HIDE DEF c
  <2>6. \A i \in 1 .. k + 1 : c[i] = b[i]
    <3> SUFFICES ASSUME NEW i \in 1 .. k + 1 PROVE c[i] = b[i]
      OBVIOUS
    <3>1. CASE i = k + 1
      BY <2>3, <2>5, <3>1
    <3>2. CASE i \in 1 .. k
      BY <2>2, <2>3, <2>4, <3>2
    <3> QED BY <3>1, <3>2
  <2>7. c = b
    BY <2>3, <2>4, <2>6
  <2> QED BY <2>7 DEF a, b, c
<1>6. /\ SubSeq(s, 1, k) \in Seq(S) /\ Len(SubSeq(s, 1, k)) = k
      /\ \A i \in 1 .. k : SubSeq(s, 1, k)[i] = s[i]
  BY <1>2
<1> QED BY <1>3, <1>4, <1>5, <1>6, Zenon

LEMMA SplitAppend ==
    ASSUME NEW B, NEW s \in Seq(B), NEW x \in B, NEW c
    PROVE  Split(Append(s, x), c) = SplitPut(Split(s, c), x, c)
<1> DEFINE t == Append(s, x)
           n == Len(s)
           none == << << >> >>
<1>1. /\ t \in Seq(B) /\ Len(t) = n + 1 /\ n \in Nat /\ t[n + 1] = x
      /\ \A k \in 1 .. n : t[k] = s[k]
  <2>1. n \in Nat
    OBVIOUS
  <2>2. /\ t \in Seq(B) /\ Len(t) = n + 1 /\ t[n + 1] = x /\ \A k \in 1 .. n : t[k] = s[k]
    BY AppendProperties
  <2> QED BY <2>1, <2>2, Zenon
<1> HIDE DEF t
<1>3. PICK h \in [0 .. n -> Lines(B)] : /\ h[0] = none /\ \A k \in 1 .. n : h[k] = SplitPut(h[k - 1], s[k], c)
                                     /\ Split(s, c) = h[n]
  BY SplitHistory
<1>4. PICK b \in [0 .. n + 1 -> Lines(B)] :
          /\ b[0] = none /\ \A k \in 1 .. n + 1 : b[k] = SplitPut(b[k - 1], t[k], c)
          /\ Split(t, c) = b[n + 1]
  <2> HIDE DEF n
  <2>1. \E b \in [0 .. Len(t) -> Lines(B)] :
          /\ b[0] = none /\ \A k \in 1 .. Len(t) : b[k] = SplitPut(b[k - 1], t[k], c)
          /\ Split(t, c) = b[Len(t)]
    BY <1>1, SplitHistory
  <2> HIDE DEF none
  <2> QED BY <1>1, <2>1
<1> HIDE DEF n, none
<1> DEFINE S == {k \in Nat : k <= n => h[k] = b[k]}
<1>5. 0 \in S
  BY <1>3, <1>4
<1>6. ASSUME NEW k \in S PROVE k + 1 \in S
  <2> SUFFICES ASSUME k + 1 <= n PROVE h[k + 1] = b[k + 1]
    OBVIOUS
  <2>0. k \in Nat /\ (k <= n => h[k] = b[k]) /\ n \in Nat
    BY <1>1
  <2>1. k <= n /\ k + 1 \in 1 .. n /\ k + 1 \in 1 .. n + 1 /\ (k + 1) - 1 = k
    BY <2>0
  <2> QED BY <1>1, <2>0, <1>3, <1>4, <2>1
<1>7. S = Nat
  <2>1. S \in SUBSET Nat
    OBVIOUS
  <2> HIDE DEF S
  <2> QED BY <1>5, <1>6, <2>1, Induction
<1>8. h[n] = b[n]
  <2>1. n \in S
    <3> HIDE DEF S
    <3> QED BY <1>1, <1>7
  <2> QED BY <1>1, <2>1
<1>9. b[n + 1] = SplitPut(b[n], x, c)
  <2>1. n + 1 \in 1 .. n + 1 /\ (n + 1) - 1 = n
    BY <1>1
  <2> QED BY <1>1, <1>4, <2>1
<1>10. Split(t, c) = SplitPut(Split(s, c), x, c)
  BY <1>3, <1>4, <1>8, <1>9
<1> QED BY <1>10, Zenon DEF t

\* A text without the separator lengthens the last piece.
LEMMA SplitPlain ==
    ASSUME NEW B, NEW u \in Seq(B), NEW t \in Seq(B), NEW c, \A i \in 1 .. Len(t) : t[i] # c
    PROVE  /\ Split(u, c) \in Lines(B)
           /\ Split(u \o t, c) = [Split(u, c) EXCEPT ![Len(Split(u, c))] = Split(u, c)[Len(Split(u, c))] \o t]
<1> DEFINE v == Split(u, c)
           m == Len(v)
           p == [k \in 0 .. Len(t) |-> SubSeq(t, 1, k)]
           S == {k \in Nat : k <= Len(t) => Split(u \o p[k], c) = [v EXCEPT ![m] = v[m] \o p[k]]}
<1>0. ASSUME NEW a \in Seq(B), NEW b \in Seq(B), NEW x \in B PROVE a \o Append(b, x) = Append(a \o b, x)
  OBVIOUS
<1>1. v \in Lines(B)
  BY SplitTyped
<1> HIDE DEF v
<1>2. v \in Seq(Seq(B)) /\ m \in Nat \ {0} /\ v[m] \in Seq(B) /\ m \in 1 .. m /\ DOMAIN v = 1 .. m
  BY <1>1 DEF Lines
<1> HIDE DEF m
<1>4. Len(t) \in Nat /\ \A k \in 1 .. Len(t) : t[k] \in B /\ t[k] # c
  OBVIOUS
<1>3. \A k \in 0 .. Len(t) : /\ p[0] = << >> /\ p[Len(t)] = t /\ p[k] \in Seq(B)
                             /\ k < Len(t) => p[k + 1] = Append(p[k], t[k + 1])
  <2> SUFFICES ASSUME NEW k \in 0 .. Len(t)
               PROVE  /\ p[0] = << >> /\ p[Len(t)] = t /\ p[k] \in Seq(B)
                      /\ k < Len(t) => p[k + 1] = Append(p[k], t[k + 1])
    OBVIOUS
  <2>1. p[0] = SubSeq(t, 1, 0) /\ p[Len(t)] = SubSeq(t, 1, Len(t)) /\ p[k] = SubSeq(t, 1, k)
    BY <1>4
  <2>2. k < Len(t) => p[k + 1] = SubSeq(t, 1, k + 1)
    BY <1>4
  <2> HIDE DEF p
  <2>3. /\ SubSeq(t, 1, 0) = << >> /\ SubSeq(t, 1, Len(t)) = t /\ SubSeq(t, 1, k) \in Seq(B)
        /\ k < Len(t) => SubSeq(t, 1, k + 1) = Append(SubSeq(t, 1, k), t[k + 1])
    BY FirstElements, Zenon
  <2> QED BY <2>1, <2>2, <2>3, Zenon
<1> HIDE DEF p
<1>5. 0 \in S
  <2>1. p[0] = << >>
    BY <1>3, <1>4
  <2>2. u \o << >> = u /\ v[m] \o << >> = v[m]
    BY <1>2
  <2>3. [v EXCEPT ![m] = v[m]] = v
    BY <1>2
  <2> QED BY <2>1, <2>2, <2>3 DEF v
<1>6. ASSUME NEW k \in S PROVE k + 1 \in S
  <2> SUFFICES ASSUME k + 1 <= Len(t) PROVE Split(u \o p[k + 1], c) = [v EXCEPT ![m] = v[m] \o p[k + 1]]
    OBVIOUS
  <2>1. k \in 0 .. Len(t) /\ k < Len(t) /\ k <= Len(t) /\ k + 1 \in 1 .. Len(t)
    BY <1>4
  <2> DEFINE x == t[k + 1]
             w == [v EXCEPT ![m] = v[m] \o p[k]]
  <2>2. x \in B /\ x # c /\ p[k] \in Seq(B) /\ p[k + 1] = Append(p[k], x)
    BY <1>3, <1>4, <2>1
  <2>3. Split(u \o p[k], c) = w
    BY <2>1
  <2> HIDE DEF S, x
  <2>4. u \o p[k] \in Seq(B)
    BY <2>2
  <2>5. u \o p[k + 1] = Append(u \o p[k], x)
    <3>1. u \o Append(p[k], x) = Append(u \o p[k], x)
      BY <1>0, <2>2, Zenon
    <3> QED BY <2>2, <3>1, Zenon
  <2>6. Split(u \o p[k + 1], c) = SplitPut(w, x, c)
    <3> DEFINE q == u \o p[k]
    <3> HIDE DEF q, w
    <3>1. q \in Seq(B)
      BY <2>4 DEF q
    <3>2. Split(Append(q, x), c) = SplitPut(Split(q, c), x, c)
      BY <2>2, <3>1, SplitAppend
    <3> QED BY <2>3, <2>5, <3>2, Zenon DEF q
  <2>7. DOMAIN w = 1 .. m /\ w[m] = v[m] \o p[k]
    BY <1>2
  <2>8. w \in Lines(B)
    BY <2>3, <2>4, SplitTyped
  <2>9. Len(w) = m
    <3> HIDE DEF w
    <3> QED BY <1>2, <2>7, <2>8 DEF Lines
  <2>10. SplitPut(w, x, c) = [w EXCEPT ![m] = Append(w[m], x)]
    BY <2>2, <2>9 DEF SplitPut
  <2>11. Append(w[m], x) = v[m] \o p[k + 1]
    <3>1. v[m] \o p[k + 1] = Append(v[m] \o p[k], x)
      <4>1. v[m] \o Append(p[k], x) = Append(v[m] \o p[k], x)
        BY <1>0, <1>2, <2>2, Zenon
      <4> QED BY <2>2, <4>1, Zenon
    <3> QED BY <2>7, <3>1, Zenon
  <2> DEFINE y == v[m] \o p[k]
             z == v[m] \o p[k + 1]
  <2> HIDE DEF y, z
  <2>12. [w EXCEPT ![m] = z] = [v EXCEPT ![m] = z]
    <3>1. w = [v EXCEPT ![m] = y]
      BY Zenon DEF y
    <3> HIDE DEF w
    <3> QED BY <1>2, <3>1
  <2> QED BY <2>6, <2>10, <2>11, <2>12, Zenon DEF z
<1>7. S = Nat
  <2>1. S \in SUBSET Nat
    OBVIOUS
  <2> HIDE DEF S
  <2> QED BY <1>5, <1>6, <2>1, Induction
<1>8. Split(u \o p[Len(t)], c) = [v EXCEPT ![m] = v[m] \o p[Len(t)]]
  <2>1. Len(t) \in S
    <3> HIDE DEF S
    <3> QED BY <1>4, <1>7
  <2>2. Len(t) <= Len(t)
    BY <1>4
  <2> QED BY <2>1, <2>2, Zenon
<1>9. p[Len(t)] = t
  BY <1>3, <1>4
<1> QED BY <1>1, <1>8, <1>9, Zenon DEF v, m

LEMMA FlattenHistory ==
    ASSUME NEW B, NEW ss \in Seq(Seq(B))
    PROVE  \E h \in [0 .. Len(ss) -> Seq(B)] :
              /\ h[0] = << >> /\ \A k \in 1 .. Len(ss) : h[k] = h[k - 1] \o ss[k]
              /\ FlattenSeq(ss) = h[Len(ss)]
<1> DEFINE n == Len(ss)
<1>0. n \in Nat /\ \A k \in 1 .. n : ss[k] \in Seq(B)
  OBVIOUS
<1>1. CASE n = 0
  <2> DEFINE h == [k \in 0 .. n |-> << >>]
  <2>1. h \in [0 .. n -> Seq(B)] /\ h[0] = << >> /\ h[n] = << >>
    BY <1>0
  <2>2. ss = << >>
    BY <1>1
  <2>3. FlattenSeq(ss) = ss
    BY <1>1, Zenon DEF FlattenSeq
  <2>4. 1 .. n = {}
    BY <1>1
  <2> HIDE DEF h, n
  <2>5. h \in [0 .. n -> Seq(B)] /\ h[0] = << >> /\ (\A k \in 1 .. n : h[k] = h[k - 1] \o ss[k]) /\ FlattenSeq(ss) = h[n]
    BY <2>1, <2>2, <2>3, <2>4, Zenon
  <2> QED BY <2>5, Zenon DEF n
<1>2. CASE n # 0
  <2> DEFINE D == 1 .. n
             V == Seq(B)
             rank == [k \in D |-> k]
             back == [k \in D |-> IF k = 1 THEN 1 ELSE k - 1]
             step == [p \in D \X V |-> p[2] \o ss[p[1]]]
             flatten == CHOOSE f : f = [i \in 1 .. n |-> IF i = 1 THEN ss[i] ELSE f[i - 1] \o ss[i]]
  <2>1. 1 \in D /\ ss[1] \in V /\ rank \in [D -> Nat] /\ back \in [D -> D]
    BY <1>0, <1>2
  <2>2. step \in [D \X V -> V]
    <3> SUFFICES ASSUME NEW k \in D, NEW v \in V PROVE v \o ss[k] \in V
      OBVIOUS
    <3>1. ss[k] \in Seq(B) /\ v \in Seq(B)
      BY <1>0
    <3> QED BY <3>1, ConcatProperties
  <2>3. \A k \in D \ {1} : rank[back[k]] < rank[k]
    BY <1>0
  <2>4. Recurs(D, V, ss[1], {1}, rank, back, step)
    <3> HIDE DEF D, V, rank, back, step
    <3> QED BY <2>1, <2>2, <2>3 DEF Recurs
  <2>5. PICK f \in [D -> V] : f = [k \in D |-> IF k \in {1} THEN ss[1] ELSE step[<<k, f[back[k]]>>]]
    <3> HIDE DEF D, V, rank, back, step
    <3> QED BY <2>4, Recursion
  <2>6. ASSUME NEW k \in D PROVE f[k] = IF k = 1 THEN ss[k] ELSE f[k - 1] \o ss[k]
    <3>1. f[k] = IF k = 1 THEN ss[1] ELSE step[<<k, f[back[k]]>>]
      <4> HIDE DEF D, V, back, step
      <4> QED BY <2>5
    <3>2. CASE k = 1
      BY <3>1, <3>2
    <3>3. CASE k # 1
      <4>1. back[k] = k - 1 /\ k - 1 \in D
        BY <1>0, <3>3
      <4>2. f[k - 1] \in V
        BY <2>5, <4>1
      <4>3. step[<<k, f[k - 1]>>] = f[k - 1] \o ss[k]
        <5>1. <<k, f[k - 1]>> \in D \X V
          BY <4>2
        <5> HIDE DEF D, V
        <5> QED BY <5>1
      <4> HIDE DEF step, back
      <4> QED BY <3>1, <3>3, <4>1, <4>3
    <3> QED BY <3>2, <3>3
  <2>7. f = [i \in 1 .. n |-> IF i = 1 THEN ss[i] ELSE f[i - 1] \o ss[i]]
    <3> HIDE DEF V
    <3> QED BY <2>5, <2>6, Zenon
  <2>8. flatten = [i \in 1 .. n |-> IF i = 1 THEN ss[i] ELSE flatten[i - 1] \o ss[i]]
    BY <2>7, Zenon
  <2>9. FlattenSeq(ss) = flatten[n]
    BY <1>2, Zenon DEF FlattenSeq
  <2> HIDE DEF flatten, n
  <2>10. \A i \in 1 .. n : flatten[i] = IF i = 1 THEN ss[i] ELSE flatten[i - 1] \o ss[i]
    BY <2>8, Zenon
  <2> DEFINE S == {k \in Nat : k + 1 <= n => flatten[k + 1] \in Seq(B)}
  <2>11. 0 \in S
    <3>1. 0 + 1 = 1
      OBVIOUS
    <3>2. flatten[1] = ss[1] /\ ss[1] \in Seq(B)
      BY <1>0, <2>1, <2>10
    <3> QED BY <3>1, <3>2
  <2>12. ASSUME NEW k \in S PROVE k + 1 \in S
    <3> SUFFICES ASSUME (k + 1) + 1 <= n PROVE flatten[(k + 1) + 1] \in Seq(B)
      OBVIOUS
    <3>0. k \in Nat /\ (k + 1 <= n => flatten[k + 1] \in Seq(B))
      OBVIOUS
    <3>1. k + 1 <= n /\ (k + 1) + 1 \in 1 .. n /\ (k + 1) + 1 # 1 /\ ((k + 1) + 1) - 1 = k + 1
      BY <1>0, <3>0
    <3> DEFINE a == flatten[k + 1]
               b == ss[(k + 1) + 1]
    <3>2. flatten[(k + 1) + 1] = a \o b
      BY <2>10, <3>1, Zenon
    <3>3. a \in Seq(B) /\ b \in Seq(B)
      BY <1>0, <3>0, <3>1
    <3> HIDE DEF a, b
    <3>4. a \o b \in Seq(B)
      BY <3>3, ConcatProperties
    <3> QED BY <3>2, <3>4
  <2>13. S = Nat
    <3>1. S \in SUBSET Nat
      OBVIOUS
    <3> HIDE DEF S
    <3> QED BY <2>11, <2>12, <3>1, Induction
  <2>14. ASSUME NEW k \in 1 .. n PROVE flatten[k] \in Seq(B)
    <3>1. k - 1 \in S /\ (k - 1) + 1 = k /\ (k - 1) + 1 <= n
      <4> HIDE DEF S
      <4> QED BY <1>0, <2>13
    <3>2. flatten[(k - 1) + 1] \in Seq(B)
      BY <3>1, Zenon
    <3> QED BY <3>1, <3>2, Zenon
  <2> DEFINE h == [k \in 0 .. n |-> IF k = 0 THEN << >> ELSE flatten[k]]
  <2>15. h \in [0 .. n -> Seq(B)]
    <3> SUFFICES ASSUME NEW k \in 0 .. n PROVE (IF k = 0 THEN << >> ELSE flatten[k]) \in Seq(B)
      OBVIOUS
    <3>1. CASE k = 0
      BY <3>1
    <3>2. CASE k # 0
      BY <1>0, <2>14, <3>2
    <3> QED BY <3>1, <3>2
  <2>16. h[0] = << >> /\ \A k \in 1 .. n : h[k] = flatten[k]
    BY <1>0
  <2>17. ASSUME NEW k \in 1 .. n PROVE h[k] = h[k - 1] \o ss[k]
    <3>1. CASE k = 1
      <4> DEFINE a == ss[k]
      <4>1. h[k] = a /\ h[k - 1] = << >> /\ a \in Seq(B)
        BY <1>0, <2>10, <2>16, <3>1
      <4> HIDE DEF a, h
      <4>2. << >> \o a = a
        BY <4>1
      <4> QED BY <4>1, <4>2, Zenon DEF a
    <3>2. CASE k # 1
      <4>1. k - 1 \in 1 .. n
        BY <1>0, <3>2
      <4> HIDE DEF h
      <4> QED BY <2>10, <2>16, <3>2, <4>1, Zenon
    <3> QED BY <3>1, <3>2
  <2>18. FlattenSeq(ss) = h[n]
    <3>1. n \in 1 .. n
      BY <1>0, <1>2
    <3> HIDE DEF h
    <3> QED BY <2>9, <2>16, <3>1
  <2> HIDE DEF h
  <2> QED BY <2>15, <2>16, <2>17, <2>18, Zenon DEF n
<1> QED BY <1>1, <1>2

\* What percentDecode() makes of the text from byte i on.
Decoded(s) ==
    CHOOSE D : D = [i \in 1 .. Len(s) + 1 |->
        IF i > Len(s) THEN { <<>> }
        ELSE IF BadEscapeAt(s, i) THEN {}
        ELSE IF s[i] = "%"
             THEN {<<Ascii[HexByte(s[i + 1], s[i + 2]) + 1]>> \o d : d \in D[i + 3]}
             ELSE {<<IF s[i] = "+" THEN "SP" ELSE s[i]>> \o d : d \in D[i + 1]}]

\* The byte that the text has at i, and where the next one starts.
ByteAt(s, i) ==
    IF s[i] = "%" THEN Ascii[HexByte(s[i + 1], s[i + 2]) + 1] ELSE IF s[i] = "+" THEN "SP" ELSE s[i]
After(s, i) == IF s[i] = "%" THEN i + 3 ELSE i + 1

Prepend(a, X) == {<<a>> \o x : x \in X}

LEMMA AsciiBytes ==
    /\ \A i \in 1 .. 16 : Ascii[i] \in Byte
    /\ \A c \in Byte : \E i \in 1 .. 16 : Ascii[i] = c
<1>1. DOMAIN Ascii = 1 .. 16
  BY DEF Ascii
<1> QED BY <1>1 DEF Byte, ToSet

LEMMA HexValues ==
    /\ \A c \in HexDigits : HexValue(c) \in 0 .. 3
    /\ HexValue("0") = 0 /\ HexValue("1") = 1 /\ HexValue("2") = 2 /\ HexValue("A") = 3 /\ HexValue("a") = 3
<1>1. NumeralAt[1] = "0" /\ NumeralAt[2] = "1" /\ NumeralAt[3] = "2"
  BY DEF NumeralAt
<1>2. NumeralValue["0"] = 0 /\ NumeralValue["1"] = 1 /\ NumeralValue["2"] = 2
  <2>1. NumeralValue[NumeralAt[1]] = 1 - 1 /\ NumeralValue[NumeralAt[2]] = 2 - 1 /\ NumeralValue[NumeralAt[3]] = 3 - 1
    BY Digits
  <2> QED BY <1>1, <2>1
<1>3. HexValue("0") = 0 /\ HexValue("1") = 1 /\ HexValue("2") = 2 /\ HexValue("A") = 3 /\ HexValue("a") = 3
  BY <1>2 DEF HexValue
<1> QED BY <1>3 DEF HexDigits

LEMMA HexBytes ==
    ASSUME NEW h \in HexDigits, NEW l \in HexDigits
    PROVE  HexByte(h, l) \in 0 .. 15 /\ Ascii[HexByte(h, l) + 1] \in Byte
<1>1. HexValue(h) \in 0 .. 3 /\ HexValue(l) \in 0 .. 3
  BY HexValues
<1>2. HexByte(h, l) \in 0 .. 15
  BY <1>1 DEF HexByte
<1>3. HexByte(h, l) + 1 \in 1 .. 16
  BY <1>2
<1> QED BY <1>2, <1>3, AsciiBytes

LEMMA ByteAtTyped ==
    ASSUME NEW s \in Seq(Byte), NEW i \in 1 .. Len(s), ~BadEscapeAt(s, i)
    PROVE  ByteAt(s, i) \in Byte /\ After(s, i) \in i + 1 .. Len(s) + 1
<1>1. Len(s) \in Nat /\ i \in Nat /\ s[i] \in Byte /\ i <= Len(s)
  OBVIOUS
<1>2. CASE s[i] = "%"
  <2>1. i + 2 <= Len(s) /\ s[i + 1] \in HexDigits /\ s[i + 2] \in HexDigits
    BY <1>1, <1>2 DEF BadEscapeAt
  <2> QED BY <1>1, <1>2, <2>1, HexBytes DEF ByteAt, After
<1>3. CASE s[i] # "%"
  <2>1. "SP" \in Byte
    BY DEF Byte, Ascii, ToSet
  <2> QED BY <1>1, <1>3, <2>1 DEF ByteAt, After
<1> QED BY <1>2, <1>3

LEMMA DecodedMeaning ==
    ASSUME NEW s \in Seq(Byte)
    PROVE  /\ \A i \in 1 .. Len(s) + 1 : Decoded(s)[i] \in SUBSET Seq(Byte)
           /\ Decoded(s)[Len(s) + 1] = { << >> }
           /\ \A i \in 1 .. Len(s) :
                Decoded(s)[i] = IF BadEscapeAt(s, i) THEN {}
                                ELSE Prepend(ByteAt(s, i), Decoded(s)[After(s, i)])
<1> DEFINE n == Len(s)
           D == 1 .. n + 1
           V == SUBSET Seq(Byte)
           rank == [i \in D |-> n + 1 - i]
           back == [i \in D |-> IF i = n + 1 \/ BadEscapeAt(s, i) THEN n + 1 ELSE After(s, i)]
           step == [p \in D \X V |-> IF p[1] = n + 1 \/ BadEscapeAt(s, p[1]) THEN {}
                                     ELSE {<<ByteAt(s, p[1])>> \o d : d \in p[2]}]
<1>0. n \in Nat /\ n + 1 \in D /\ { << >> } \in V
  OBVIOUS
<1>1. ASSUME NEW i \in D, i # n + 1, ~BadEscapeAt(s, i)
      PROVE  ByteAt(s, i) \in Byte /\ After(s, i) \in D /\ After(s, i) > i
  <2>1. i \in 1 .. n
    BY <1>0, <1>1
  <2>2. ByteAt(s, i) \in Byte /\ After(s, i) \in i + 1 .. n + 1
    BY <1>1, <2>1, ByteAtTyped
  <2> QED BY <1>0, <2>1, <2>2
<1>2. rank \in [D -> Nat]
  BY <1>0
<1>3. back \in [D -> D]
  BY <1>0, <1>1
<1>4. step \in [D \X V -> V]
  <2> SUFFICES ASSUME NEW i \in D, NEW v \in V, i # n + 1, ~BadEscapeAt(s, i), NEW d \in v
               PROVE  <<ByteAt(s, i)>> \o d \in Seq(Byte)
    BY Zenon
  <2> DEFINE a == ByteAt(s, i)
  <2>1. a \in Byte /\ d \in Seq(Byte)
    BY <1>1
  <2> HIDE DEF a
  <2>2. <<a>> \in Seq(Byte)
    BY <2>1
  <2>3. <<a>> \o d \in Seq(Byte)
    BY <2>1, <2>2, ConcatProperties
  <2> QED BY <2>3 DEF a
<1>5. ASSUME NEW i \in D \ {n + 1} PROVE rank[back[i]] < rank[i]
  <2>1. back[i] \in D /\ back[i] > i
    BY <1>0, <1>1
  <2> HIDE DEF back
  <2> QED BY <1>0, <2>1
<1>6. Recurs(D, V, { << >> }, {n + 1}, rank, back, step)
  <2> HIDE DEF D, V, rank, back, step
  <2> QED BY <1>0, <1>2, <1>3, <1>4, <1>5 DEF Recurs
<1>7. PICK f \in [D -> V] : f = [i \in D |-> IF i \in {n + 1} THEN { << >> } ELSE step[<<i, f[back[i]]>>]]
  <2> HIDE DEF D, V, rank, back, step
  <2> QED BY <1>6, Recursion
<1> DEFINE R(g, i) == IF i > n THEN { <<>> }
                      ELSE IF BadEscapeAt(s, i) THEN {}
                      ELSE IF s[i] = "%"
                           THEN {<<Ascii[HexByte(s[i + 1], s[i + 2]) + 1]>> \o d : d \in g[i + 3]}
                           ELSE {<<IF s[i] = "+" THEN "SP" ELSE s[i]>> \o d : d \in g[i + 1]}
           Q(g, i) == IF i = n + 1 THEN { << >> } ELSE IF BadEscapeAt(s, i) THEN {}
                      ELSE {<<ByteAt(s, i)>> \o d : d \in g[After(s, i)]}
<1>8. ASSUME NEW g, NEW i \in D PROVE R(g, i) = Q(g, i)
  <2>1. (i > n) = (i = n + 1)
    BY <1>0
  <2> HIDE DEF n
  <2>2. CASE s[i] = "%"
    BY <2>1, <2>2, Zenon DEF ByteAt, After
  <2>3. CASE s[i] # "%"
    BY <2>1, <2>3, Zenon DEF ByteAt, After
  <2> QED BY <2>2, <2>3
<1>9. ASSUME NEW i \in D PROVE f[i] = Q(f, i)
  <2>1. f[i] = IF i = n + 1 THEN { << >> } ELSE step[<<i, f[back[i]]>>]
    <3> HIDE DEF D, V, back, step
    <3> QED BY <1>7, Zenon
  <2>2. back[i] \in D /\ f[back[i]] \in V
    BY <1>3
  <2>3. step[<<i, f[back[i]]>>] = IF i = n + 1 \/ BadEscapeAt(s, i) THEN {}
                                  ELSE {<<ByteAt(s, i)>> \o d : d \in f[back[i]]}
    <3>1. <<i, f[back[i]]>> \in D \X V
      BY <2>2
    <3> DEFINE q == <<i, f[back[i]]>>
    <3>2. q[1] = i /\ q[2] = f[back[i]]
      OBVIOUS
    <3> HIDE DEF D, V, back, q
    <3>3. step[q] = IF q[1] = n + 1 \/ BadEscapeAt(s, q[1]) THEN {} ELSE {<<ByteAt(s, q[1])>> \o d : d \in q[2]}
      BY <3>1, Zenon DEF q
    <3> QED BY <3>2, <3>3, Zenon DEF q
  <2>4. i # n + 1 /\ ~BadEscapeAt(s, i) => back[i] = After(s, i)
    BY <1>0, Zenon
  <2> HIDE DEF back, step, D, V, n
  <2> QED BY <2>1, <2>3, <2>4, Zenon
<1>10. f = [i \in D |-> R(f, i)]
  <2>1. \A i \in D : f[i] = R(f, i)
    BY <1>8, <1>9, Zenon
  <2> HIDE DEF R, Q, V
  <2> QED BY <2>1, Zenon
<1>11. Decoded(s) = [i \in D |-> R(Decoded(s), i)]
  BY <1>10, Zenon DEF Decoded
<1> DEFINE g == Decoded(s)
<1> HIDE DEF g
<1>12. \A i \in D : g[i] = Q(g, i)
  <2>1. g = [i \in D |-> R(g, i)]
    BY <1>11, Zenon DEF g
  <2> HIDE DEF R, Q
  <2>2. \A i \in D : g[i] = R(g, i)
    BY <2>1, Zenon
  <2> QED BY <1>8, <2>2, Zenon
<1>13. g[n + 1] = { << >> }
  BY <1>0, <1>12, Zenon
<1>14. \A i \in 1 .. n : g[i] = IF BadEscapeAt(s, i) THEN {} ELSE {<<ByteAt(s, i)>> \o d : d \in g[After(s, i)]}
  <2>1. \A i \in 1 .. n : i \in D /\ i # n + 1
    BY <1>0
  <2> HIDE DEF D
  <2> QED BY <1>12, <2>1, Zenon
<1>15. \A i \in D : g[i] \in V
  <2> DEFINE T == {k \in Nat : k <= n /\ g[n + 1 - k] \notin V}
  <2> SUFFICES ASSUME T # {} PROVE FALSE
    <3>1. ASSUME NEW i \in D, g[i] \notin V PROVE FALSE
      <4>1. n + 1 - i \in Nat /\ n + 1 - i <= n /\ n + 1 - (n + 1 - i) = i
        BY <1>0
      <4>2. n + 1 - i \in T
        <5> HIDE DEF n, V
        <5> QED BY <3>1, <4>1
      <4> QED BY <4>2
    <3> QED BY <3>1
  <2>1. PICK k \in T : \A y \in T : k <= y
    <3>1. T \in SUBSET Nat
      OBVIOUS
    <3> HIDE DEF T
    <3> QED BY <3>1, LeastOf
  <2> DEFINE i == n + 1 - k
  <2>2. k \in Nat /\ k <= n /\ g[i] \notin V
    OBVIOUS
  <2>3. i \in D /\ (i = n + 1 <=> k = 0)
    BY <1>0, <2>2
  <2>4. i # n + 1 /\ ~BadEscapeAt(s, i)
    <3> HIDE DEF i, V, D, n
    <3>1. CASE i = n + 1
      BY <1>0, <1>13, <2>2, <3>1
    <3>2. CASE i # n + 1 /\ BadEscapeAt(s, i)
      <4>1. g[i] = {}
        BY <1>12, <2>3, <3>2, Zenon
      <4> QED BY <2>2, <4>1 DEF V
    <3> QED BY <3>1, <3>2
  <2>5. ByteAt(s, i) \in Byte /\ After(s, i) \in D /\ After(s, i) > i
    <3> HIDE DEF i, D
    <3> QED BY <1>1, <2>3, <2>4
  <2>6. g[After(s, i)] \in V
    <3> DEFINE j == After(s, i)
               m == n + 1 - j
    <3>1. m \in Nat /\ m < k /\ n + 1 - m = j /\ m <= n
      <4> HIDE DEF j
      <4>1. j \in D /\ j > i
        BY <2>5 DEF j
      <4> QED BY <1>0, <2>2, <4>1
    <3> HIDE DEF m, j
    <3>2. m \notin T
      <4> HIDE DEF T
      <4> QED BY <2>1, <2>2, <3>1
    <3> QED BY <3>1, <3>2 DEF j
  <2> HIDE DEF i
  <2>7. g[i] = {<<ByteAt(s, i)>> \o d : d \in g[After(s, i)]}
    <3> HIDE DEF D, n
    <3> QED BY <1>12, <2>3, <2>4, Zenon
  <2>8. ASSUME NEW d \in g[After(s, i)] PROVE <<ByteAt(s, i)>> \o d \in Seq(Byte)
    <3> DEFINE a == ByteAt(s, i)
    <3>1. a \in Byte /\ d \in Seq(Byte)
      BY <2>5, <2>6
    <3> HIDE DEF a
    <3>2. <<a>> \in Seq(Byte)
      BY <3>1
    <3>3. <<a>> \o d \in Seq(Byte)
      BY <3>1, <3>2, ConcatProperties
    <3> QED BY <3>3 DEF a
  <2>9. g[i] \in V
    BY <2>7, <2>8, Zenon
  <2> QED BY <2>2, <2>9 DEF i
<1> QED BY <1>13, <1>14, <1>15, Zenon DEF g, Prepend

\* One byte as the browser may write it.
Writes(e, c) ==
    /\ e \in Seq(Byte) /\ \A i \in 1 .. Len(e) : e[i] \notin {"&", "="}
    /\ \/ Len(e) = 1 /\ e[1] # "%" /\ c = IF e[1] = "+" THEN "SP" ELSE e[1]
       \/ /\ Len(e) = 3 /\ e[1] = "%" /\ e[2] \in HexDigits /\ e[3] \in HexDigits
          /\ c = Ascii[HexByte(e[2], e[3]) + 1]

LEMMA ConcatElements ==
    ASSUME NEW S, NEW s \in Seq(S), NEW t \in Seq(S)
    PROVE  /\ s \o t \in Seq(S) /\ Len(s \o t) = Len(s) + Len(t)
           /\ \A i \in 1 .. Len(s) : (s \o t)[i] = s[i]
           /\ \A i \in 1 .. Len(t) : (s \o t)[Len(s) + i] = t[i]
<1>1. Len(s) \in Nat /\ Len(t) \in Nat
  OBVIOUS
<1> DEFINE w == s \o t
<1>2. w \in Seq(S) /\ Len(w) = Len(s) + Len(t)
      /\ \A i \in 1 .. Len(s) + Len(t) : w[i] = IF i <= Len(s) THEN s[i] ELSE t[i - Len(s)]
  BY ConcatProperties
<1> HIDE DEF w
<1>3. \A i \in 1 .. Len(s) : w[i] = s[i]
  BY <1>1, <1>2
<1>4. ASSUME NEW i \in 1 .. Len(t) PROVE w[Len(s) + i] = t[i]
  <2>1. Len(s) + i \in 1 .. Len(s) + Len(t) /\ ~(Len(s) + i <= Len(s)) /\ (Len(s) + i) - Len(s) = i
    BY <1>1
  <2> QED BY <1>2, <2>1
<1> QED BY <1>2, <1>3, <1>4 DEF w

LEMMA EncodeByteWrites ==
    ASSUME NEW c \in Byte, NEW all \in BOOLEAN
    PROVE  Writes(EncodeByte(c, all), c)
<1>1. CASE c = "SP" /\ ~all
  <2>1. EncodeByte(c, all) = <<"+">>
    BY <1>1, Zenon DEF EncodeByte
  <2>2. "+" \in Byte
    BY DEF Byte, Ascii, ToSet
  <2> DEFINE e == <<"+">>
  <2>3. e \in Seq(Byte) /\ Len(e) = 1 /\ e[1] = "+"
    BY <2>2
  <2> HIDE DEF e
  <2>4. \A i \in 1 .. Len(e) : e[i] \notin {"&", "="}
    BY <2>3
  <2>5. Writes(e, c)
    BY <1>1, <2>3, <2>4 DEF Writes
  <2> QED BY <2>1, <2>5, Zenon DEF e
<1>2. CASE ~(c = "SP" /\ ~all) /\ (all \/ c \in {"NUL", "TAB", "SP", "%", "&", "+", "=", "?", "hi"})
  <2> DEFINE k == CHOOSE i \in 1 .. 16 : Ascii[i] = c
  <2>1. k \in 1 .. 16 /\ Ascii[k] = c
    BY AsciiBytes, Zenon
  <2>2. EncodeByte(c, all) = <<"%">> \o HexText(k - 1)
    BY <1>2, Zenon DEF EncodeByte
  <2> HIDE DEF k
  <2> DEFINE digit == <<"0", "1", "2", "A">>
             b == k - 1
             h == digit[(b \div 4) + 1]
             l == digit[(b % 4) + 1]
  <2>3. b \in 0 .. 15 /\ (b \div 4) \in 0 .. 3 /\ (b % 4) \in 0 .. 3 /\ b = 4 * (b \div 4) + (b % 4) /\ b + 1 = k
    BY <2>1
  <2> HIDE DEF b
  <2>4. ASSUME NEW i \in 0 .. 3 PROVE digit[i + 1] \in HexDigits /\ HexValue(digit[i + 1]) = i
    <3>1. CASE i = 0
      BY <3>1, HexValues DEF HexDigits
    <3>2. CASE i = 1
      BY <3>2, HexValues DEF HexDigits
    <3>3. CASE i = 2
      BY <3>3, HexValues DEF HexDigits
    <3>4. CASE i = 3
      BY <3>4, HexValues DEF HexDigits
    <3> QED BY <3>1, <3>2, <3>3, <3>4
  <2>5. HexText(b) = <<h, l>>
    BY Zenon DEF HexText
  <2> HIDE DEF digit
  <2>6. h \in HexDigits /\ l \in HexDigits /\ HexValue(h) = b \div 4 /\ HexValue(l) = b % 4
    BY <2>3, <2>4
  <2> HIDE DEF h, l
  <2>7. HexByte(h, l) + 1 = k
    BY <2>3, <2>6 DEF HexByte
  <2>9. HexDigits \cup {"%"} \subseteq Byte \ {"&", "="}
    BY DEF Byte, Ascii, ToSet, HexDigits
  <2> DEFINE y == <<"%">>
             z == <<h, l>>
             e == y \o z
  <2>8. EncodeByte(c, all) = e
    BY <2>2, <2>5, Zenon DEF b
  <2>10. /\ y \in Seq(Byte) /\ Len(y) = 1 /\ y[1] = "%"
         /\ z \in Seq(Byte) /\ Len(z) = 2 /\ z[1] = h /\ z[2] = l
    BY <2>6, <2>9
  <2> HIDE DEF y, z
  <2>101. /\ e \in Seq(Byte) /\ Len(e) = Len(y) + Len(z) /\ (\A i \in 1 .. Len(y) : e[i] = y[i])
          /\ \A i \in 1 .. Len(z) : e[Len(y) + i] = z[i]
    <3>1. y \in Seq(Byte) /\ z \in Seq(Byte)
      BY <2>10
    <3> QED BY <3>1, ConcatElements
  <2> HIDE DEF e
  <2>102. Len(e) = 3 /\ e[1] = "%" /\ e[2] = h /\ e[3] = l
    <3>1. e[1 + 1] = z[1] /\ e[1 + 2] = z[2]
      BY <2>10, <2>101
    <3> QED BY <2>10, <2>101, <3>1
  <2>11. e \in Seq(Byte) /\ \A i \in 1 .. Len(e) : e[i] \notin {"&", "="}
    <3>1. \A i \in 1 .. 3 : i = 1 \/ i = 2 \/ i = 3
      OBVIOUS
    <3> QED BY <2>6, <2>9, <2>101, <2>102, <3>1
  <2>12. c = Ascii[HexByte(e[2], e[3]) + 1]
    BY <2>1, <2>7, <2>102, Zenon
  <2>13. Writes(e, c)
    BY <2>6, <2>102, <2>11, <2>12, Zenon DEF Writes
  <2> QED BY <2>8, <2>13, Zenon DEF e
<1>3. CASE ~(all \/ c \in {"NUL", "TAB", "SP", "%", "&", "+", "=", "?", "hi"})
  <2>1. EncodeByte(c, all) = <<c>>
    BY <1>3, Zenon DEF EncodeByte
  <2> DEFINE e == <<c>>
  <2>2. e \in Seq(Byte) /\ Len(e) = 1 /\ e[1] = c
    OBVIOUS
  <2> HIDE DEF e
  <2>3. c \notin {"&", "=", "%", "+"}
    BY <1>3
  <2>4. Writes(e, c)
    BY <2>2, <2>3 DEF Writes
  <2> QED BY <2>1, <2>4, Zenon DEF e
<1> QED BY <1>1, <1>2, <1>3

\* One more byte after a text that decodes: the bytes before it are read as
\* they were, the new one as what it stands for.
LEMMA DecodeOneMore ==
    ASSUME NEW t \in Seq(Byte), NEW e, NEW c \in Byte, Writes(e, c), NEW d \in Seq(Byte), Decoded(t)[1] = {d}
    PROVE  Decoded(t \o e)[1] = {Append(d, c)}
<1> DEFINE w == t \o e
           n == Len(t)
           D == Decoded(t)
           W == Decoded(w)
           N == Len(w)
<1>0. e \in Seq(Byte) /\ n \in Nat /\ Len(e) \in {1, 3}
  BY DEF Writes
<1>1. w \in Seq(Byte) /\ N = n + Len(e) /\ (\A i \in 1 .. n : w[i] = t[i]) /\ \A i \in 1 .. Len(e) : w[n + i] = e[i]
  BY <1>0, ConcatElements
<1> HIDE DEF w
<1>2. /\ \A i \in 1 .. n + 1 : D[i] \in SUBSET Seq(Byte)
      /\ D[n + 1] = { << >> }
      /\ \A i \in 1 .. n : D[i] = IF BadEscapeAt(t, i) THEN {} ELSE Prepend(ByteAt(t, i), D[After(t, i)])
  BY DecodedMeaning, Zenon
<1>3. /\ W[N + 1] = { << >> }
      /\ \A i \in 1 .. N : W[i] = IF BadEscapeAt(w, i) THEN {} ELSE Prepend(ByteAt(w, i), W[After(w, i)])
  BY <1>1, DecodedMeaning, Zenon
<1> HIDE DEF D, W
<1>4. W[n + 1] = {<<c>>}
  <2>0. 1 \in 1 .. Len(e) /\ n + 1 \in 1 .. N
    <3>1. N = n + Len(e)
      BY <1>1
    <3>2. n \in Nat /\ (Len(e) = 1 \/ Len(e) = 3)
      BY <1>0
    <3> DEFINE m == Len(e)
    <3> HIDE DEF n, N, m
    <3>3. N = n + m /\ n \in Nat /\ (m = 1 \/ m = 3)
      BY <3>1, <3>2, Zenon DEF m
    <3>4. 1 \in 1 .. m /\ n + 1 \in 1 .. N
      BY <3>3
    <3> QED BY <3>4 DEF m
  <2>1. n + 1 \in 1 .. N /\ w[n + 1] = e[1]
    BY <1>1, <2>0, Zenon
  <2>2. ~BadEscapeAt(w, n + 1) /\ ByteAt(w, n + 1) = c /\ After(w, n + 1) = N + 1
    <3>1. CASE Len(e) = 1 /\ e[1] # "%" /\ c = IF e[1] = "+" THEN "SP" ELSE e[1]
      BY <1>0, <1>1, <2>1, <3>1 DEF BadEscapeAt, ByteAt, After
    <3>2. CASE /\ Len(e) = 3 /\ e[1] = "%" /\ e[2] \in HexDigits /\ e[3] \in HexDigits
               /\ c = Ascii[HexByte(e[2], e[3]) + 1]
      <4>1. N = n + 3 /\ (n + 1) + 1 = n + 2 /\ (n + 1) + 2 = n + 3 /\ (n + 1) + 3 = N + 1 /\ ~(n + 3 > N)
        BY <1>0, <1>1, <3>2
      <4>2. w[n + 2] = e[2] /\ w[n + 3] = e[3]
        BY <1>0, <1>1, <3>2
      <4>3. ~BadEscapeAt(w, n + 1)
        BY <2>1, <3>2, <4>1, <4>2 DEF BadEscapeAt
      <4>4. ByteAt(w, n + 1) = Ascii[HexByte(e[2], e[3]) + 1] /\ After(w, n + 1) = N + 1
        BY <2>1, <3>2, <4>1, <4>2 DEF ByteAt, After
      <4> QED BY <3>2, <4>3, <4>4, Zenon
    <3> QED BY <3>1, <3>2, Zenon DEF Writes
  <2>3. W[n + 1] = Prepend(c, W[N + 1])
    BY <1>3, <2>1, <2>2, Zenon
  <2>4. W[n + 1] = {<<c>> \o << >>}
    BY <1>3, <2>3, Zenon DEF Prepend
  <2>5. <<c>> \o << >> = <<c>>
    OBVIOUS
  <2> QED BY <2>4, <2>5
<1>5. ASSUME NEW i \in 1 .. n, ~BadEscapeAt(t, i)
      PROVE  /\ ~BadEscapeAt(w, i) /\ ByteAt(w, i) = ByteAt(t, i) /\ After(w, i) = After(t, i)
             /\ ByteAt(t, i) \in Byte /\ After(t, i) \in i + 1 .. n + 1
  <2>1. ByteAt(t, i) \in Byte /\ After(t, i) \in i + 1 .. n + 1
    BY <1>5, ByteAtTyped
  <2>2. w[i] = t[i]
    BY <1>1
  <2>3. CASE t[i] = "%"
    <3>1. i + 2 <= n /\ t[i + 1] \in HexDigits /\ t[i + 2] \in HexDigits
      BY <1>0, <1>5, <2>3 DEF BadEscapeAt
    <3>2. w[i + 1] = t[i + 1] /\ w[i + 2] = t[i + 2]
      BY <1>0, <1>1, <3>1
    <3>3. i + 2 <= N
      BY <1>0, <1>1, <3>1
    <3> QED BY <1>0, <1>1, <2>1, <2>2, <2>3, <3>1, <3>2, <3>3 DEF BadEscapeAt, ByteAt, After
  <2>4. CASE t[i] # "%"
    BY <2>1, <2>2, <2>4 DEF BadEscapeAt, ByteAt, After
  <2> QED BY <2>3, <2>4
<1> DEFINE Good(i) == D[i] # {} => \E x \in Seq(Byte) : D[i] = {x} /\ W[i] = {Append(x, c)}
           T == {k \in Nat : k <= n /\ ~Good(n + 1 - k)}
<1>6. T = {}
  <2> SUFFICES ASSUME T # {} PROVE FALSE
    OBVIOUS
  <2>1. PICK k \in T : \A y \in T : k <= y
    <3>1. T \in SUBSET Nat
      OBVIOUS
    <3> HIDE DEF T
    <3> QED BY <3>1, LeastOf
  <2> DEFINE i == n + 1 - k
  <2>2. k \in Nat /\ k <= n /\ ~Good(i)
    OBVIOUS
  <2>3. i \in 1 .. n + 1 /\ (i # n + 1 => i \in 1 .. n)
    BY <1>0, <2>2
  <2> HIDE DEF n
  <2>4. CASE i = n + 1
    <3>1. D[i] = { << >> } /\ W[i] = {<<c>>}
      BY <1>2, <1>4, <2>4, Zenon
    <3>2. Append(<< >>, c) = <<c>> /\ << >> \in Seq(Byte)
      OBVIOUS
    <3> HIDE DEF i
    <3> QED BY <2>2, <3>1, <3>2, Zenon
  <2>5. CASE i # n + 1
    <3>1. i \in 1 .. n /\ D[i] # {}
      BY <2>2, <2>3, <2>5, Zenon
    <3> HIDE DEF i
    <3>2. ~BadEscapeAt(t, i)
      BY <1>2, <3>1, Zenon
    <3> DEFINE j == After(t, i)
               a == ByteAt(t, i)
    <3>3. /\ ~BadEscapeAt(w, i) /\ ByteAt(w, i) = a /\ After(w, i) = j /\ a \in Byte /\ j \in i + 1 .. n + 1
      BY <1>5, <3>1, <3>2, Zenon
    <3>4. D[i] = Prepend(a, D[j])
      BY <1>2, <3>1, <3>2, Zenon
    <3>5. i \in 1 .. N
      BY <1>0, <1>1, <3>1
    <3>6. W[i] = Prepend(a, W[j])
      BY <1>3, <3>3, <3>5, Zenon
    <3> HIDE DEF j, a
    <3>7. D[j] # {}
      BY <3>1, <3>4, Zenon DEF Prepend
    <3>8. n + 1 - j \notin T
      <4> HIDE DEF T
      <4>1. n + 1 - j \in Int /\ n + 1 - j < k
        BY <1>0, <2>2, <3>3 DEF i
      <4> QED BY <2>1, <2>2, <4>1
    <3>9. n + 1 - j \in Nat /\ n + 1 - j <= n /\ n + 1 - (n + 1 - j) = j
      BY <1>0, <3>1, <3>3
    <3>10. Good(j)
      BY <3>8, <3>9, Zenon
    <3>11. PICK x \in Seq(Byte) : D[j] = {x} /\ W[j] = {Append(x, c)}
      BY <3>7, <3>10, Zenon
    <3>12. D[i] = {<<a>> \o x} /\ W[i] = {<<a>> \o Append(x, c)}
      BY <3>4, <3>6, <3>11, Zenon DEF Prepend
    <3>13. <<a>> \o x \in Seq(Byte) /\ <<a>> \o Append(x, c) = Append(<<a>> \o x, c)
      <4> DEFINE y == <<a>>
      <4>1. y \in Seq(Byte)
        BY <3>3
      <4> HIDE DEF y
      <4>2. y \o x \in Seq(Byte) /\ y \o Append(x, c) = Append(y \o x, c)
        <5>1. ASSUME NEW z \in Seq(Byte), NEW b \in Seq(Byte), NEW g \in Byte
              PROVE  z \o b \in Seq(Byte) /\ z \o Append(b, g) = Append(z \o b, g)
          OBVIOUS
        <5> QED BY <4>1, <5>1, Zenon
      <4> QED BY <4>2 DEF y
    <3>14. Good(i)
      BY <3>12, <3>13, Zenon
    <3> QED BY <2>2, <3>14 DEF i
  <2> QED BY <2>4, <2>5
<1>7. Good(1)
  <2>1. n \in Nat /\ n <= n /\ n + 1 - n = 1
    BY <1>0
  <2>2. n \notin T
    <3> HIDE DEF T
    <3> QED BY <1>6
  <2> HIDE DEF n
  <2> QED BY <2>1, <2>2, Zenon
<1>8. PICK x \in Seq(Byte) : D[1] = {x} /\ W[1] = {Append(x, c)}
  BY <1>7 DEF D
<1>9. x = d
  BY <1>8 DEF D
<1> QED BY <1>8, <1>9, Zenon DEF W, w

Plain(t) == t \in Seq(Byte) /\ \A i \in 1 .. Len(t) : t[i] \notin {"&", "="}

\* The text t has none of the separators and is read as d.
Spells(t, d) == Plain(t) /\ d \in Seq(Byte) /\ Decoded(t)[1] = {d}

LEMMA PlainConcat ==
    ASSUME NEW t, NEW e, Plain(t), Plain(e)
    PROVE  Plain(t \o e)
<1>1. t \in Seq(Byte) /\ e \in Seq(Byte) /\ Len(t) \in Nat /\ Len(e) \in Nat
  BY DEF Plain
<1> DEFINE w == t \o e
<1>2. w \in Seq(Byte) /\ Len(w) = Len(t) + Len(e)
      /\ \A i \in 1 .. Len(t) + Len(e) : w[i] = IF i <= Len(t) THEN t[i] ELSE e[i - Len(t)]
  BY <1>1, ConcatProperties
<1> HIDE DEF w
<1>3. ASSUME NEW i \in 1 .. Len(w) PROVE w[i] \notin {"&", "="}
  <2>1. CASE i <= Len(t)
    <3>1. i \in 1 .. Len(t) /\ w[i] = t[i]
      BY <1>1, <1>2, <2>1
    <3> QED BY <3>1 DEF Plain
  <2>2. CASE ~(i <= Len(t))
    <3>1. i - Len(t) \in 1 .. Len(e) /\ w[i] = e[i - Len(t)]
      BY <1>1, <1>2, <2>2
    <3> QED BY <3>1 DEF Plain
  <2> QED BY <2>1, <2>2
<1>4. Plain(w)
  BY <1>2, <1>3 DEF Plain
<1> QED BY <1>4 DEF w

LEMMA SpellsNothing == Spells(<< >>, << >>)
<1>1. << >> \in Seq(Byte) /\ Len(<< >>) = 0 /\ 0 + 1 = 1
  OBVIOUS
<1>2. Decoded(<< >>)[Len(<< >>) + 1] = { << >> }
  BY <1>1, DecodedMeaning, Zenon
<1>3. Plain(<< >>)
  BY <1>1 DEF Plain
<1> QED BY <1>1, <1>2, <1>3 DEF Spells

LEMMA SpellsOneMore ==
    ASSUME NEW t, NEW d, Spells(t, d), NEW c \in Byte, NEW e, Writes(e, c)
    PROVE  Spells(t \o e, Append(d, c))
<1>1. Plain(t) /\ t \in Seq(Byte) /\ d \in Seq(Byte) /\ Decoded(t)[1] = {d}
  BY DEF Spells, Plain
<1>2. Plain(e)
  BY DEF Writes, Plain
<1>3. Plain(t \o e)
  BY <1>1, <1>2, PlainConcat
<1>4. Decoded(t \o e)[1] = {Append(d, c)}
  BY <1>1, DecodeOneMore
<1>5. Append(d, c) \in Seq(Byte)
  BY <1>1, AppendProperties
<1> QED BY <1>3, <1>4, <1>5, Zenon DEF Spells

\* However the browser writes a text, percentDecode() reads it.
LEMMA EncodeSpells ==
    ASSUME NEW s \in Seq(Byte), NEW all \in BOOLEAN
    PROVE  Spells(Encode(s, all), s)
<1> DEFINE n == Len(s)
           ss == [i \in DOMAIN s |-> EncodeByte(s[i], all)]
<1>0. n \in Nat /\ DOMAIN s = 1 .. n /\ \A i \in 1 .. n : s[i] \in Byte
  OBVIOUS
<1>1. ASSUME NEW i \in 1 .. n PROVE Writes(EncodeByte(s[i], all), s[i]) /\ EncodeByte(s[i], all) \in Seq(Byte)
  <2>1. Writes(EncodeByte(s[i], all), s[i])
    BY <1>0, EncodeByteWrites
  <2> QED BY <2>1, Zenon DEF Writes
<1>2. ss \in Seq(Seq(Byte)) /\ Len(ss) = n /\ \A i \in 1 .. n : ss[i] = EncodeByte(s[i], all)
  <2>1. ss = [i \in 1 .. n |-> EncodeByte(s[i], all)]
    BY <1>0
  <2> HIDE DEF ss, n
  <2> QED BY <1>0, <1>1, <2>1
<1>3. Encode(s, all) = FlattenSeq(ss)
  BY Zenon DEF Encode
<1> HIDE DEF ss
<1>4. PICK h \in [0 .. n -> Seq(Byte)] :
          /\ h[0] = << >> /\ \A k \in 1 .. n : h[k] = h[k - 1] \o ss[k]
          /\ FlattenSeq(ss) = h[n]
  <2>1. \E h \in [0 .. Len(ss) -> Seq(Byte)] :
          /\ h[0] = << >> /\ \A k \in 1 .. Len(ss) : h[k] = h[k - 1] \o ss[k]
          /\ FlattenSeq(ss) = h[Len(ss)]
    BY <1>2, FlattenHistory
  <2> HIDE DEF n
  <2> QED BY <1>2, <2>1, Zenon
<1> DEFINE S == {k \in Nat : k <= n => Spells(h[k], SubSeq(s, 1, k))}
<1>5. 0 \in S
  <2>1. 0 \in 0 .. n
    BY <1>0
  <2>2. SubSeq(s, 1, 0) = << >>
    BY <2>1, FirstElements, Zenon
  <2> QED BY <1>4, <2>2, SpellsNothing
<1>6. ASSUME NEW k \in S PROVE k + 1 \in S
  <2> SUFFICES ASSUME k + 1 <= n PROVE Spells(h[k + 1], SubSeq(s, 1, k + 1))
    OBVIOUS
  <2>0. k \in Nat /\ (k <= n => Spells(h[k], SubSeq(s, 1, k)))
    BY Zenon
  <2>1. k <= n /\ k < n /\ k \in 0 .. n /\ k + 1 \in 1 .. n /\ (k + 1) - 1 = k
    BY <1>0, <2>0
  <2>2. SubSeq(s, 1, k + 1) = Append(SubSeq(s, 1, k), s[k + 1])
    BY <2>1, FirstElements, Zenon
  <2>3. h[k + 1] = h[k] \o ss[k + 1]
    <3>1. h[k + 1] = h[(k + 1) - 1] \o ss[k + 1]
      BY <1>4, <2>1, Zenon
    <3> QED BY <2>1, <3>1, Zenon
  <2>4. Writes(ss[k + 1], s[k + 1]) /\ s[k + 1] \in Byte
    BY <1>0, <1>1, <1>2, <2>1, Zenon
  <2>5. Spells(h[k] \o ss[k + 1], Append(SubSeq(s, 1, k), s[k + 1]))
    BY <2>0, <2>1, <2>4, SpellsOneMore, Zenon
  <2> QED BY <2>2, <2>3, <2>5, Zenon
<1>7. S = Nat
  <2>1. S \in SUBSET Nat
    OBVIOUS
  <2> HIDE DEF S
  <2> QED BY <1>5, <1>6, <2>1, Induction
<1>8. Spells(h[n], SubSeq(s, 1, n))
  <2>1. n \in S
    <3> HIDE DEF S
    <3> QED BY <1>0, <1>7
  <2>2. n <= n
    BY <1>0
  <2> HIDE DEF n
  <2> QED BY <2>1, <2>2, Zenon
<1>9. SubSeq(s, 1, n) = s
  <2>1. 0 \in 0 .. n
    BY <1>0
  <2> QED BY <2>1, FirstElements, Zenon
<1> HIDE DEF n
<1> QED BY <1>3, <1>4, <1>8, <1>9, Zenon

LEMMA SpellsRead ==
    ASSUME NEW t, NEW d, Spells(t, d), NEW cap
    PROVE  percentDecode(t, cap) = IF Len(d) <= cap THEN {d} ELSE {}
<1>1. percentDecode(t, cap) = {x \in Decoded(t)[1] : Len(x) <= cap}
  BY Zenon DEF percentDecode, Decoded
<1>2. Decoded(t)[1] = {d}
  BY DEF Spells
<1>3. {x \in {d} : Len(x) <= cap} = IF Len(d) <= cap THEN {d} ELSE {}
  BY Zenon
<1> QED BY <1>1, <1>2, <1>3, Zenon

(***************************************************************************)
(* The body: pairs of texts, and Split() finds them again                  *)
(***************************************************************************)
LEMMA Separators == "&" \in Byte /\ "=" \in Byte
  BY DEF Byte, Ascii, ToSet

LEMMA SplitNone ==
    ASSUME NEW c
    PROVE  Split(<< >>, c) = << << >> >>
<1> DEFINE s == << >>
<1>1. s \in Seq(Byte) /\ Len(s) = 0
  OBVIOUS
<1> HIDE DEF s
<1>2. PICK h \in [0 .. Len(s) -> Lines(Byte)] :
          /\ h[0] = << << >> >> /\ \A k \in 1 .. Len(s) : h[k] = SplitPut(h[k - 1], s[k], c)
          /\ Split(s, c) = h[Len(s)]
  BY <1>1, SplitHistory
<1> QED BY <1>1, <1>2, Zenon DEF s

\* What the lemmas say of a text of bytes.
LEMMA SplitBytes ==
    ASSUME NEW u \in Seq(Byte), NEW c
    PROVE  /\ Split(u, c) \in Lines(Byte)
           /\ \A x \in Byte : Split(Append(u, x), c) = SplitPut(Split(u, c), x, c)
           /\ \A t \in Seq(Byte) :
                (\A i \in 1 .. Len(t) : t[i] # c) =>
                  Split(u \o t, c) = [Split(u, c) EXCEPT ![Len(Split(u, c))] = Split(u, c)[Len(Split(u, c))] \o t]
<1>1. Split(u, c) \in Lines(Byte)
  BY SplitTyped
<1>2. ASSUME NEW x \in Byte PROVE Split(Append(u, x), c) = SplitPut(Split(u, c), x, c)
  BY SplitAppend
<1>3. ASSUME NEW t \in Seq(Byte), \A i \in 1 .. Len(t) : t[i] # c
      PROVE  Split(u \o t, c) = [Split(u, c) EXCEPT ![Len(Split(u, c))] = Split(u, c)[Len(Split(u, c))] \o t]
  BY <1>3, SplitPlain
<1> QED BY <1>1, <1>2, <1>3, Zenon

OnePiece(t) == t \in Seq(Byte) /\ \A i \in 1 .. Len(t) : t[i] # "&"

\* A first piece, and one more piece after a separator.
LEMMA SplitFirst ==
    ASSUME NEW t, OnePiece(t)
    PROVE  Split(t, "&") = <<t>>
<1>1. t \in Seq(Byte) /\ << >> \in Seq(Byte) /\ \A i \in 1 .. Len(t) : t[i] # "&"
  BY Separators DEF OnePiece
<1> DEFINE v == Split(<< >>, "&")
<1>2. Split(<< >> \o t, "&") = [v EXCEPT ![Len(v)] = v[Len(v)] \o t]
  BY <1>1, SplitBytes, Zenon
<1>3. v = << << >> >>
  BY SplitNone
<1>4. << >> \o t = t
  BY <1>1
<1> HIDE DEF v
<1>5. Len(v) = 1 /\ v[1] = << >>
  BY <1>3
<1>6. Split(t, "&") = [v EXCEPT ![1] = t]
  BY <1>2, <1>4, <1>5, Zenon
<1>7. [v EXCEPT ![1] = t] = <<t>>
  BY <1>3
<1> QED BY <1>6, <1>7

LEMMA SplitNext ==
    ASSUME NEW u \in Seq(Byte), NEW t, OnePiece(t)
    PROVE  Split(Append(u, "&") \o t, "&") = Append(Split(u, "&"), t)
<1>1. t \in Seq(Byte) /\ "&" \in Byte /\ \A i \in 1 .. Len(t) : t[i] # "&"
  BY Separators DEF OnePiece
<1> DEFINE v == Split(u, "&")
           a == Append(u, "&")
           y == Split(a, "&")
<1>2. a \in Seq(Byte)
  <2> DEFINE amp == "&"
  <2>1. amp \in Byte
    BY <1>1
  <2> HIDE DEF amp
  <2>2. Append(u, amp) \in Seq(Byte)
    BY <2>1, AppendProperties
  <2> QED BY <2>2 DEF amp
<1>3. v \in Lines(Byte)
  BY SplitBytes
<1>4. y = SplitPut(v, "&", "&")
  BY <1>1, SplitBytes, Zenon
<1>5. y = Append(v, << >>)
  BY <1>4, Zenon DEF SplitPut
<1>6. Split(a \o t, "&") = [y EXCEPT ![Len(y)] = y[Len(y)] \o t]
  BY <1>1, <1>2, SplitBytes, Zenon
<1> HIDE DEF v, a, y
<1> DEFINE m == Len(v)
<1>7. v \in Seq(Seq(Byte)) /\ m \in Nat
  BY <1>3 DEF Lines
<1> HIDE DEF m
<1>8. << >> \in Seq(Byte)
  OBVIOUS
<1>9. y \in Seq(Seq(Byte)) /\ Len(y) = m + 1 /\ y[m + 1] = << >> /\ \A i \in 1 .. m : y[i] = v[i]
  <2>1. /\ Append(v, << >>) \in Seq(Seq(Byte)) /\ Len(Append(v, << >>)) = Len(v) + 1
        /\ Append(v, << >>)[Len(v) + 1] = << >> /\ \A i \in 1 .. Len(v) : Append(v, << >>)[i] = v[i]
    BY <1>7, <1>8, AppendProperties
  <2> QED BY <1>5, <2>1, Zenon DEF m
<1>10. << >> \o t = t
  BY <1>1
<1>11. Split(a \o t, "&") = [y EXCEPT ![m + 1] = t]
  BY <1>6, <1>9, <1>10, Zenon
<1> DEFINE z == [y EXCEPT ![m + 1] = t]
           w == Append(v, t)
<1>12. w \in Seq(Seq(Byte)) /\ Len(w) = m + 1 /\ w[m + 1] = t /\ \A i \in 1 .. m : w[i] = v[i]
  <2>1. /\ Append(v, t) \in Seq(Seq(Byte)) /\ Len(Append(v, t)) = Len(v) + 1
        /\ Append(v, t)[Len(v) + 1] = t /\ \A i \in 1 .. Len(v) : Append(v, t)[i] = v[i]
    BY <1>1, <1>7, AppendProperties
  <2> QED BY <2>1, Zenon DEF m
<1>13. DOMAIN y = 1 .. m + 1
  BY <1>9
<1> HIDE DEF w
<1>14. DOMAIN w = 1 .. m + 1 /\ w = [i \in 1 .. m + 1 |-> w[i]]
  BY <1>12
<1>15. z = [i \in 1 .. m + 1 |-> IF i = m + 1 THEN t ELSE y[i]]
  BY <1>13
<1> HIDE DEF z
<1>16. \A i \in 1 .. m + 1 : w[i] = IF i = m + 1 THEN t ELSE y[i]
  BY <1>7, <1>9, <1>12
<1>17. z = w
  BY <1>14, <1>15, <1>16, Zenon
<1> QED BY <1>11, <1>17, Zenon DEF z, w, a, v

\* One field as the body has it.
PairText(N, V) == (N \o <<"=">>) \o V

LEMMA PairParts ==
    ASSUME NEW N, NEW V, Plain(N), Plain(V)
    PROVE  /\ OnePiece(PairText(N, V)) /\ PairText(N, V) # << >>
           /\ FirstIndex(PairText(N, V), LAMBDA c : c = "=") = Len(N) + 1
           /\ SubSeq(PairText(N, V), 1, Len(N)) = N
           /\ SubSeq(PairText(N, V), Len(N) + 2, Len(PairText(N, V))) = V
<1> DEFINE y == <<"=">>
           u == N \o y
           x == u \o V
           a == Len(N)
           b == Len(V)
<1>0. N \in Seq(Byte) /\ V \in Seq(Byte) /\ a \in Nat /\ b \in Nat
  BY DEF Plain
<1>1. y \in Seq(Byte) /\ Len(y) = 1 /\ y[1] = "="
  BY Separators
<1> HIDE DEF y
<1>2. u \in Seq(Byte) /\ Len(u) = a + 1 /\ u[a + 1] = "=" /\ \A i \in 1 .. a : u[i] = N[i]
  <2>1. /\ u \in Seq(Byte) /\ Len(u) = Len(N) + Len(y) /\ (\A i \in 1 .. Len(N) : u[i] = N[i])
        /\ \A i \in 1 .. Len(y) : u[Len(N) + i] = y[i]
    <3>1. N \in Seq(Byte) /\ y \in Seq(Byte)
      BY <1>0, <1>1
    <3> QED BY <3>1, ConcatElements
  <2> HIDE DEF u
  <2> QED BY <1>1, <2>1
<1> HIDE DEF u
<1>3. /\ x \in Seq(Byte) /\ Len(x) = (a + 1) + b /\ (\A i \in 1 .. a + 1 : x[i] = u[i])
      /\ \A i \in 1 .. b : x[(a + 1) + i] = V[i]
  <2>1. /\ x \in Seq(Byte) /\ Len(x) = Len(u) + Len(V) /\ (\A i \in 1 .. Len(u) : x[i] = u[i])
        /\ \A i \in 1 .. Len(V) : x[Len(u) + i] = V[i]
    <3>1. u \in Seq(Byte) /\ V \in Seq(Byte)
      BY <1>0, <1>2
    <3> QED BY <3>1, ConcatElements
  <2> HIDE DEF x
  <2> QED BY <1>2, <2>1, Zenon
<1>4. PairText(N, V) = x
  BY Zenon DEF PairText, x, u, y
<1> HIDE DEF x
<1>5. \A i \in 1 .. a : i \in 1 .. a + 1 /\ x[i] = N[i]
  BY <1>0, <1>2, <1>3
<1>6. x[a + 1] = "=" /\ a + 1 \in 1 .. Len(x)
  BY <1>0, <1>2, <1>3
<1>7. ASSUME NEW i \in 1 .. a PROVE N[i] \notin {"&", "="}
  BY DEF Plain
<1>8. ASSUME NEW i \in 1 .. b PROVE V[i] \notin {"&", "="}
  BY DEF Plain
<1>9. OnePiece(x)
  <2> SUFFICES ASSUME NEW i \in 1 .. Len(x) PROVE x[i] # "&"
    BY <1>3 DEF OnePiece
  <2>1. CASE i \in 1 .. a
    BY <1>5, <1>7, <2>1
  <2>2. CASE i = a + 1
    BY <1>6, <2>2
  <2>3. CASE i > a + 1
    <3>1. i - (a + 1) \in 1 .. b /\ (a + 1) + (i - (a + 1)) = i
      BY <1>0, <1>3, <2>3
    <3>2. x[i] = V[i - (a + 1)]
      BY <1>3, <3>1
    <3> QED BY <1>8, <3>1, <3>2
  <2> QED BY <1>0, <2>1, <2>2, <2>3
<1>10. x # << >>
  <2>1. Len(x) # 0
    BY <1>0, <1>3
  <2> QED BY <2>1
<1>11. FirstIndex(x, LAMBDA c : c = "=") = a + 1
  <2> DEFINE T == {i \in 1 .. Len(x) : x[i] = "="} \cup {Len(x) + 1}
  <2>1. FirstIndex(x, LAMBDA c : c = "=") = Min(T)
    BY Zenon DEF FirstIndex
  <2>2. ASSUME NEW i \in 1 .. Len(x), x[i] = "=" PROVE i >= a + 1
    <3>1. CASE i \in 1 .. a
      BY <1>5, <1>7, <2>2, <3>1
    <3> QED BY <1>0, <3>1
  <2>3. T \in SUBSET Nat /\ a + 1 \in T
    BY <1>6
  <2>4. \A i \in T : a + 1 <= i
    BY <1>0, <1>3, <2>2
  <2> HIDE DEF T
  <2>5. Min(T) \in T /\ \A i \in T : Min(T) <= i
    BY <2>3, MinOf
  <2>6. Min(T) \in Nat /\ Min(T) <= a + 1 /\ a + 1 <= Min(T)
    BY <2>3, <2>4, <2>5
  <2>7. Min(T) = a + 1
    BY <1>0, <2>6
  <2> QED BY <2>1, <2>7, Zenon
<1>12. SubSeq(x, 1, a) = N
  <2>1. a \in 0 .. Len(x)
    BY <1>0, <1>3
  <2>2. SubSeq(x, 1, a) \in Seq(Byte) /\ Len(SubSeq(x, 1, a)) = a /\ \A i \in 1 .. a : SubSeq(x, 1, a)[i] = x[i]
    BY <1>3, <2>1, FirstElements
  <2> DEFINE z == SubSeq(x, 1, a)
  <2> HIDE DEF z
  <2>3. z \in Seq(Byte) /\ Len(z) = a /\ \A i \in 1 .. a : z[i] = N[i]
    BY <1>5, <2>2 DEF z
  <2>4. z = N
    BY <1>0, <2>3
  <2> QED BY <2>4 DEF z
<1>13. SubSeq(x, a + 2, Len(x)) = V
  <2>1. a + 2 \in 1 .. Len(x) + 1 /\ Len(x) - (a + 2) + 1 = b /\ Len(x) \in Nat
    BY <1>0, <1>3
  <2> DEFINE z == SubSeq(x, a + 2, Len(x))
  <2>2. z \in Seq(Byte) /\ Len(z) = b /\ \A i \in 1 .. b : z[i] = x[(a + 1) + i]
    <3>1. \A i \in a + 2 .. Len(x) : x[i] \in Byte
      BY <1>0, <1>3
    <3> DEFINE m == a + 2
               k == Len(x)
    <3>11. m \in Nat /\ k \in Nat /\ m <= k + 1 /\ (k - m) + 1 = b /\ m = (a + 1) + 1 /\ a \in Nat
      BY <1>0, <1>3
    <3> HIDE DEF m, k
    <3>2. z \in Seq(Byte) /\ (m <= k => Len(z) = (k - m) + 1) /\ (~(m <= k) => Len(z) = 0)
          /\ \A i \in 1 .. (k - m) + 1 : z[i] = x[m + i - 1]
      <4>1. \A i \in m .. k : x[i] \in Byte
        BY <3>1 DEF m, k
      <4>2. SubSeq(x, m, k) \in Seq(Byte)
        BY <3>11, <4>1, SubSeqProperties
      <4>3. /\ (m <= k => Len(SubSeq(x, m, k)) = (k - m) + 1) /\ (~(m <= k) => Len(SubSeq(x, m, k)) = 0)
            /\ \A i \in 1 .. (k - m) + 1 : SubSeq(x, m, k)[i] = x[m + i - 1]
        BY <3>11, <4>1, SubSeqProperties
      <4> QED BY <4>2, <4>3, Zenon DEF m, k
    <3> HIDE DEF z
    <3>3. Len(z) = b
      BY <1>0, <3>11, <3>2
    <3>4. ASSUME NEW i \in 1 .. b PROVE z[i] = x[(a + 1) + i]
      <4>1. z[i] = x[m + i - 1] /\ m + i - 1 = (a + 1) + i
        BY <1>0, <3>11, <3>2
      <4> QED BY <4>1, Zenon
    <3> QED BY <3>2, <3>3, <3>4
  <2> HIDE DEF z
  <2>3. \A i \in 1 .. b : z[i] = V[i]
    BY <1>3, <2>2
  <2>4. z = V
    BY <1>0, <2>2, <2>3
  <2> QED BY <2>4 DEF z
<1> QED BY <1>4, <1>9, <1>10, <1>11, <1>12, <1>13, Zenon

\* The form as parseWifiForm() keeps it.
Errors == {"Ok", "Malformed", "FieldTooLong", "Duplicate"}
FormStates == [err : Errors, val : [Fields -> Seq(Byte)], have : SUBSET Fields]

LEMMA FieldNames ==
    /\ Fields = {"ssid", "password", "token"}
    /\ \A f \in Fields : NameText[f] = FieldName[f]
    /\ \A f \in Fields, g \in Fields \cup {"submit"} : FieldName[f] = NameText[g] => f = g
    /\ \A f \in Fields \cup {"submit"} : NameText[f] \in Seq(Byte) /\ Len(NameText[f]) = 1
<1>1. Fields = {"ssid", "password", "token"}
  BY DEF Fields, FieldName
<1>2. FieldName["ssid"] = <<"z">> /\ FieldName["password"] = <<"a">> /\ FieldName["token"] = <<"2">>
  BY DEF FieldName
<1>3. NameText = [f \in Fields \cup {"submit"} |-> IF f = "submit" THEN <<"-">> ELSE FieldName[f]]
  BY Zenon DEF NameText
<1>4. NameText["ssid"] = <<"z">> /\ NameText["password"] = <<"a">> /\ NameText["token"] = <<"2">>
      /\ NameText["submit"] = <<"-">>
  BY <1>1, <1>2, <1>3
<1>5. "z" \in Byte /\ "a" \in Byte /\ "2" \in Byte /\ "-" \in Byte
  BY DEF Byte, Ascii, ToSet
<1>6. \A f \in Fields \cup {"submit"} : NameText[f] \in Seq(Byte) /\ Len(NameText[f]) = 1
  <2>1. <<"z">> \in Seq(Byte) /\ Len(<<"z">>) = 1
    BY <1>5
  <2>2. <<"a">> \in Seq(Byte) /\ Len(<<"a">>) = 1
    BY <1>5
  <2>3. <<"2">> \in Seq(Byte) /\ Len(<<"2">>) = 1
    BY <1>5
  <2>4. <<"-">> \in Seq(Byte) /\ Len(<<"-">>) = 1
    BY <1>5
  <2> QED BY <1>1, <1>4, <2>1, <2>2, <2>3, <2>4, Zenon
<1>7. \A f \in Fields : NameText[f] = FieldName[f]
  BY <1>1, <1>2, <1>4
<1>8. \A f \in Fields, g \in Fields \cup {"submit"} : FieldName[f][1] = NameText[g][1] => f = g
  BY <1>1, <1>2, <1>4
<1> QED BY <1>1, <1>6, <1>7, <1>8

\* The form with one more field in it; a field that is not ours changes nothing.
Taken(form, f, v) ==
    [err |-> "Ok", have |-> form.have \cup ({f} \cap Fields),
     val |-> [g \in Fields |-> IF g = f THEN v ELSE form.val[g]]]

LEMMA FormPut ==
    ASSUME NEW r \in FormStates, NEW a \in SUBSET Fields, NEW b \in [Fields -> Seq(Byte)]
    PROVE  [r EXCEPT !.have = a, !.val = b] = [err |-> r.err, have |-> a, val |-> b]
<1> DEFINE x == [r EXCEPT !.have = a, !.val = b]
           y == [err |-> r.err, have |-> a, val |-> b]
<1>1. x \in FormStates /\ y \in FormStates
  BY DEF FormStates
<1>2. x.err = r.err /\ x.val = b /\ x.have = a
  BY DEF FormStates
<1>3. y.err = r.err /\ y.val = b /\ y.have = a
  OBVIOUS
<1> HIDE DEF x, y
<1>4. x = y
  BY <1>1, <1>2, <1>3 DEF FormStates
<1> QED BY <1>4 DEF x, y

\* The form as the field f with the value v leaves it: a refusal stands, and a
\* field too long or typed before is refused.
Takes(form, f, v, next) ==
    /\ form.err # "Ok" => next = form
    /\ form.err = "Ok" =>
         IF Len(v) <= FieldCap /\ f \notin form.have THEN next = Taken(form, f, v)
         ELSE next \in FormStates /\ next.err # "Ok"

\* What FormStep() makes of the field f with the value v, however it is written.
LEMMA FormStepTakes ==
    ASSUME NEW form \in FormStates, NEW f \in Fields \cup {"submit"}, NEW v,
           NEW N, NEW V, Spells(N, NameText[f]), Spells(V, v)
    PROVE  Takes(form, f, v, FormStep(form, PairText(N, V)))
<1> DEFINE pair == PairText(N, V)
           eq == FirstIndex(pair, LAMBDA c : c = "=")
           key == percentDecode(SubSeq(pair, 1, eq - 1), 32)
           raw == SubSeq(pair, eq + 1, Len(pair))
           value == percentDecode(raw, FieldCap)
           why == IF \E i \in 1 .. Len(raw) : BadEscapeAt(raw, i) THEN "Malformed" ELSE "FieldTooLong"
           ff == {g \in Fields : FieldName[g] \in key}
           next == FormStep(form, pair)
           chosen == CHOOSE w \in value : TRUE
           full == [form EXCEPT !.have = @ \cup ff,
                                !.val = [g \in Fields |-> IF g \in ff THEN chosen ELSE form.val[g]]]
<1>0. Plain(N) /\ Plain(V) /\ v \in Seq(Byte) /\ Len(N) \in Nat /\ form.val \in [Fields -> Seq(Byte)]
      /\ form.have \in SUBSET Fields
  BY DEF Spells, Plain, FormStates
<1>1. next = IF form.err # "Ok" \/ pair = <<>> THEN form
             ELSE IF key = {} THEN Refuse(form, "Malformed")
             ELSE IF value = {} THEN Refuse(form, why)
             ELSE IF ff \cap form.have # {} THEN Refuse(form, "Duplicate")
             ELSE full
  BY Zenon DEF FormStep
<1>2. pair # << >> /\ eq = Len(N) + 1 /\ SubSeq(pair, 1, Len(N)) = N /\ SubSeq(pair, Len(N) + 2, Len(pair)) = V
  BY <1>0, PairParts, Zenon
<1> HIDE DEF pair, eq
<1>3. eq - 1 = Len(N) /\ eq + 1 = Len(N) + 2
  BY <1>0, <1>2
<1>4. key = {NameText[f]}
  <2>1. key = percentDecode(N, 32)
    BY <1>2, <1>3, Zenon
  <2>2. percentDecode(N, 32) = IF Len(NameText[f]) <= 32 THEN {NameText[f]} ELSE {}
    BY SpellsRead, Zenon
  <2>3. Len(NameText[f]) <= 32
    <3>1. Len(NameText[f]) = 1
      BY FieldNames, Zenon
    <3> QED BY <3>1
  <2> QED BY <2>1, <2>2, <2>3, Zenon
<1>5. value = IF Len(v) <= FieldCap THEN {v} ELSE {}
  <2>1. value = percentDecode(V, FieldCap)
    BY <1>2, <1>3, Zenon
  <2>2. percentDecode(V, FieldCap) = IF Len(v) <= FieldCap THEN {v} ELSE {}
    BY SpellsRead, Zenon
  <2> QED BY <2>1, <2>2, Zenon
<1>6. why \in {"Malformed", "FieldTooLong"}
  BY Zenon
<1>7. ff = {f} \cap Fields
  <2>1. ff = {g \in Fields : FieldName[g] = NameText[f]}
    BY <1>4, Zenon
  <2>2. \A g \in Fields : (FieldName[g] = NameText[f]) <=> g = f
    BY FieldNames, Zenon
  <2> QED BY <2>1, <2>2, Zenon
<1> HIDE DEF key, value, why, raw
<1>8. ASSUME NEW w \in {"Malformed", "FieldTooLong", "Duplicate"}
      PROVE  Refuse(form, w) \in FormStates /\ Refuse(form, w).err # "Ok"
  BY DEF Refuse, FormStates, Errors
<1>9. CASE form.err = "Ok" /\ ~(Len(v) <= FieldCap)
  <2>1. next = Refuse(form, why)
    BY <1>1, <1>2, <1>4, <1>5, <1>9, Zenon
  <2>2. next \in FormStates /\ next.err # "Ok"
    BY <1>6, <1>8, <2>1
  <2> QED BY <1>9, <2>2, Zenon DEF next, pair, Takes
<1>10. CASE form.err = "Ok" /\ Len(v) <= FieldCap /\ f \in form.have
  <2>1. ff \cap form.have # {}
    BY <1>0, <1>7, <1>10
  <2> HIDE DEF ff
  <2>2. next = Refuse(form, "Duplicate")
    BY <1>1, <1>2, <1>4, <1>5, <1>10, <2>1, Zenon
  <2>3. next \in FormStates /\ next.err # "Ok"
    BY <1>8, <2>2
  <2> QED BY <1>10, <2>3, Zenon DEF next, pair, Takes
<1>11. CASE form.err = "Ok" /\ Len(v) <= FieldCap /\ f \notin form.have
  <2> HIDE DEF ff
  <2>1. ff \cap form.have = {}
    BY <1>7, <1>11
  <2>2. next = full
    BY <1>1, <1>2, <1>4, <1>5, <1>11, <2>1, Zenon
  <2>3. chosen = v
    BY <1>5, <1>11, Zenon
  <2> HIDE DEF chosen
  <2>4. \A g \in Fields : g \in ff <=> g = f
    BY <1>7
  <2> DEFINE vals == [g \in Fields |-> IF g \in ff THEN chosen ELSE form.val[g]]
             taken == [g \in Fields |-> IF g = f THEN v ELSE form.val[g]]
  <2>5. vals = taken
    <3>1. ASSUME NEW g \in Fields
          PROVE  (IF g \in ff THEN chosen ELSE form.val[g]) = (IF g = f THEN v ELSE form.val[g])
      <4>1. CASE g = f
        BY <2>3, <2>4, <4>1, Zenon
      <4>2. CASE g # f
        BY <2>4, <4>2, Zenon
      <4> QED BY <4>1, <4>2, Zenon
    <3> QED BY <3>1, Zenon
  <2> HIDE DEF vals, taken
  <2>6. full = [form EXCEPT !.have = form.have \cup ff, !.val = vals]
    BY Zenon DEF vals
  <2>7. [form EXCEPT !.have = form.have \cup ff, !.val = vals] = [err |-> "Ok", have |-> form.have \cup ff, val |-> vals]
    <3> DEFINE had == form.have \cup ff
    <3>1. had \in SUBSET Fields
      BY <1>0, <1>7
    <3>2. vals \in [Fields -> Seq(Byte)]
      BY <1>0, <2>5 DEF taken
    <3> HIDE DEF had
    <3>3. [form EXCEPT !.have = had, !.val = vals] = [err |-> form.err, have |-> had, val |-> vals]
      BY <3>1, <3>2, FormPut, Zenon
    <3> QED BY <1>11, <3>3, Zenon DEF had
  <2> HIDE DEF full
  <2>8. next = Taken(form, f, v)
    BY <1>7, <2>2, <2>5, <2>6, <2>7, Zenon DEF Taken, taken
  <2> QED BY <1>11, <2>8, Zenon DEF next, pair, Takes
<1>12. CASE form.err # "Ok"
  <2>1. next = form
    BY <1>1, <1>12, Zenon
  <2> QED BY <1>12, <2>1, Zenon DEF next, pair, Takes
<1> QED BY <1>9, <1>10, <1>11, <1>12

LEMMA TakenTyped ==
    ASSUME NEW form \in FormStates, NEW f, NEW v \in Seq(Byte)
    PROVE  Taken(form, f, v) \in FormStates
<1> DEFINE vals == [g \in Fields |-> IF g = f THEN v ELSE form.val[g]]
           had == form.have \cup ({f} \cap Fields)
<1>1. form.val \in [Fields -> Seq(Byte)] /\ form.have \in SUBSET Fields
  BY DEF FormStates
<1>2. vals \in [Fields -> Seq(Byte)] /\ had \in SUBSET Fields
  BY <1>1
<1> HIDE DEF vals, had
<1>3. [err |-> "Ok", have |-> had, val |-> vals] \in FormStates
  BY <1>2 DEF FormStates, Errors
<1> QED BY <1>3, Zenon DEF Taken, vals, had

LEMMA EmptyFormTyped == EmptyForm \in FormStates
<1> DEFINE vals == [g \in Fields |-> << >>]
<1>1. vals \in [Fields -> Seq(Byte)]
  OBVIOUS
<1> HIDE DEF vals
<1>2. [err |-> "Ok", val |-> vals, have |-> {}] \in FormStates
  BY <1>1 DEF FormStates, Errors
<1> QED BY <1>2, Zenon DEF EmptyForm, vals

\* The states of the form as parseWifiForm() goes through the pieces.
LEMMA FormHistory ==
    ASSUME NEW n \in Nat, NEW texts, DOMAIN texts = 1 .. n,
           \A k \in 1 .. n : \A form \in FormStates : FormStep(form, texts[k]) \in FormStates
    PROVE  \E h \in [0 .. n -> FormStates] :
              /\ h[0] = EmptyForm /\ \A k \in 1 .. n : h[k] = FormStep(h[k - 1], texts[k])
              /\ FoldLeft(FormStep, EmptyForm, texts) = h[n]
<1> DEFINE step == [p \in (1 .. n) \X FormStates |-> FormStep(p[2], texts[p[1]])]
           g == CHOOSE g : g = [s \in SUBSET DOMAIN texts |->
                                  IF s = {} THEN EmptyForm ELSE FormStep(g[s \ {Max(s)}], texts[Max(s)])]
<1>1. Folds(n, FormStates, EmptyForm, step)
  BY EmptyFormTyped DEF Folds
<1>2. PICK f \in [SUBSET (1 .. n) -> FormStates] : IsFold(f, n, EmptyForm, step)
  <2> HIDE DEF step
  <2> QED BY <1>1, FoldExists
<1>3. \A k \in 1 .. n, v \in FormStates : step[<<k, v>>] = FormStep(v, texts[k])
  OBVIOUS
<1>4. f = [s \in SUBSET DOMAIN texts |-> IF s = {} THEN EmptyForm ELSE FormStep(f[s \ {Max(s)}], texts[Max(s)])]
  <2> SUFFICES ASSUME NEW s \in SUBSET (1 .. n), s # {}
               PROVE  step[<<Max(s), f[s \ {Max(s)}]>>] = FormStep(f[s \ {Max(s)}], texts[Max(s)])
    <3> HIDE DEF step
    <3> QED BY <1>2 DEF IsFold
  <2>1. Max(s) \in 1 .. n /\ f[s \ {Max(s)}] \in FormStates
    BY MaxOf
  <2> HIDE DEF step
  <2> QED BY <1>3, <2>1
<1>5. g = [s \in SUBSET DOMAIN texts |-> IF s = {} THEN EmptyForm ELSE FormStep(g[s \ {Max(s)}], texts[Max(s)])]
  BY <1>4, Zenon
<1>6. FoldLeft(FormStep, EmptyForm, texts) = g[DOMAIN texts]
  BY Zenon DEF FoldLeft, MapThenFoldSet
<1> HIDE DEF g, step
<1>7. g[{}] = EmptyForm
  BY <1>5
<1>8. ASSUME NEW k \in 1 .. n, g[1 .. (k - 1)] \in FormStates
      PROVE  g[1 .. k] = step[<<k, g[1 .. (k - 1)]>>]
  <2>1. 1 .. k \in SUBSET (1 .. n) /\ 1 .. k # {} /\ Max(1 .. k) = k /\ (1 .. k) \ {Max(1 .. k)} = 1 .. (k - 1)
    BY MaxInterval
  <2>2. g[1 .. k] = FormStep(g[(1 .. k) \ {Max(1 .. k)}], texts[Max(1 .. k)])
    BY <1>5, <2>1
  <2> QED BY <1>3, <1>8, <2>1, <2>2
<1>9. /\ \A k \in 0 .. n : g[1 .. k] \in FormStates
      /\ \A k \in 1 .. n : g[1 .. k] = step[<<k, g[1 .. (k - 1)]>>]
  BY <1>1, <1>7, <1>8, FoldRuns
<1> DEFINE h == [k \in 0 .. n |-> g[1 .. k]]
<1>10. h \in [0 .. n -> FormStates]
  BY <1>9
<1>11. h[0] = EmptyForm
  <2>1. 1 .. 0 = {} /\ 0 \in 0 .. n
    OBVIOUS
  <2> QED BY <1>7, <2>1
<1>12. ASSUME NEW k \in 1 .. n PROVE h[k] = FormStep(h[k - 1], texts[k])
  <2>1. k \in 0 .. n /\ k - 1 \in 0 .. n
    OBVIOUS
  <2>2. g[1 .. k] = FormStep(g[1 .. (k - 1)], texts[k])
    BY <1>3, <1>9, <2>1
  <2> QED BY <2>1, <2>2
<1>13. FoldLeft(FormStep, EmptyForm, texts) = h[n]
  <2>1. n \in 0 .. n
    OBVIOUS
  <2> QED BY <1>6, <2>1
<1> HIDE DEF h
<1> QED BY <1>10, <1>11, <1>12, <1>13

\* The fields of a submission, and one of them as the browser writes it.
Submitted == (Fields \cup {"submit"}) \X Seq(Byte)
PieceText(p, all) == PairText(Encode(NameText[p[1]], all), Encode(p[2], all))

LEMMA PieceReads ==
    ASSUME NEW p \in Submitted, NEW all \in BOOLEAN
    PROVE  /\ p[1] \in Fields \cup {"submit"} /\ p[2] \in Seq(Byte)
           /\ Spells(Encode(NameText[p[1]], all), NameText[p[1]])
           /\ Spells(Encode(p[2], all), p[2])
           /\ OnePiece(PieceText(p, all))
<1>1. p[1] \in Fields \cup {"submit"} /\ p[2] \in Seq(Byte)
  BY DEF Submitted
<1>2. NameText[p[1]] \in Seq(Byte)
  BY <1>1, FieldNames, Zenon
<1>3. Spells(Encode(NameText[p[1]], all), NameText[p[1]]) /\ Spells(Encode(p[2], all), p[2])
  BY <1>1, <1>2, EncodeSpells, Zenon
<1>4. Plain(Encode(NameText[p[1]], all)) /\ Plain(Encode(p[2], all))
  BY <1>3, Zenon DEF Spells
<1> QED BY <1>1, <1>3, <1>4, PairParts, Zenon DEF PieceText

AllBytes(b, s, N, e, V) ==
    b \in Seq(Byte) /\ s \in Seq(Byte) /\ N \in Seq(Byte) /\ e \in Seq(Byte) /\ V \in Seq(Byte)
Regrouped(b, s, N, e, V) == b \o (((s \o N) \o e) \o V) = (b \o s) \o ((N \o e) \o V)

LEMMA Regroup ==
    ASSUME NEW b, NEW s, NEW N, NEW e, NEW V, AllBytes(b, s, N, e, V)
    PROVE  Regrouped(b, s, N, e, V)
<1>1. b \in Seq(Byte) /\ s \in Seq(Byte) /\ N \in Seq(Byte) /\ e \in Seq(Byte) /\ V \in Seq(Byte)
  BY DEF AllBytes
<1> DEFINE p == N \o e
           q == p \o V
<1>2. (s \o N) \o e = s \o p
  BY <1>1
<1>3. p \in Seq(Byte)
  BY <1>1
<1> HIDE DEF p
<1>4. (s \o p) \o V = s \o q
  BY <1>1, <1>3
<1>5. q \in Seq(Byte)
  BY <1>1, <1>3
<1> HIDE DEF q
<1>6. (b \o s) \o q = b \o (s \o q)
  BY <1>1, <1>5
<1> QED BY <1>2, <1>4, <1>6, Zenon DEF p, q, Regrouped

LEMMA OneMoreOf ==
    ASSUME NEW n \in Nat, NEW p, NEW k \in 1 .. n, k + 1 <= n
    PROVE  Append([i \in 1 .. k |-> p[i]], p[k + 1]) = [i \in 1 .. k + 1 |-> p[i]]
<1> DEFINE a == [i \in 1 .. k |-> p[i]]
           x == p[k + 1]
<1>1. a \in Seq({p[i] : i \in 1 .. n}) /\ Len(a) = k
  OBVIOUS
<1> QED OBVIOUS

LEMMA BodyPieces ==
    ASSUME NEW pairs \in Seq(Submitted), NEW all \in BOOLEAN, Len(pairs) # 0
    PROVE  Split(Body(pairs, all), "&") = [k \in 1 .. Len(pairs) |-> PieceText(pairs[k], all)]
<1> DEFINE n == Len(pairs)
           sep == [i \in 1 .. n |-> IF i = 1 THEN << >> ELSE <<"&">>]
           name == [i \in 1 .. n |-> Encode(NameText[pairs[i][1]], all)]
           val == [i \in 1 .. n |-> Encode(pairs[i][2], all)]
           eq == <<"=">>
           c == [i \in 1 .. n |-> ((sep[i] \o name[i]) \o eq) \o val[i]]
           piece == [k \in 1 .. n |-> PieceText(pairs[k], all)]
<1>0. n \in Nat /\ n # 0 /\ DOMAIN pairs = 1 .. n /\ \A i \in 1 .. n : pairs[i] \in Submitted
  <2> HIDE DEF n
  <2> QED BY DEF n
<1>1. FlattenSeq(c) = Body(pairs, all)
  <2>1. c = [i \in DOMAIN pairs |-> (IF i = 1 THEN <<>> ELSE <<"&">>) \o Encode(NameText[pairs[i][1]], all)
                                    \o <<"=">> \o Encode(pairs[i][2], all)]
    BY <1>0, Zenon
  <2> QED BY <2>1, Zenon DEF Body
<1>2. eq \in Seq(Byte) /\ <<"&">> \in Seq(Byte) /\ << >> \in Seq(Byte)
  BY Separators
<1>3. ASSUME NEW i \in 1 .. n
      PROVE  /\ name[i] \in Seq(Byte) /\ val[i] \in Seq(Byte) /\ sep[i] \in Seq(Byte)
             /\ piece[i] = PairText(name[i], val[i]) /\ OnePiece(piece[i]) /\ piece[i] \in Seq(Byte)
  <2>1. Spells(Encode(NameText[pairs[i][1]], all), NameText[pairs[i][1]]) /\ Spells(Encode(pairs[i][2], all), pairs[i][2])
        /\ OnePiece(PieceText(pairs[i], all))
    BY <1>0, PieceReads, Zenon
  <2>2. Encode(NameText[pairs[i][1]], all) \in Seq(Byte) /\ Encode(pairs[i][2], all) \in Seq(Byte)
        /\ PieceText(pairs[i], all) \in Seq(Byte)
    BY <2>1, Zenon DEF Spells, Plain, OnePiece
  <2>3. sep[i] \in Seq(Byte)
    BY <1>2, Zenon
  <2> QED BY <2>1, <2>2, <2>3, Zenon DEF PieceText
<1> HIDE DEF sep, name, val, eq
<1>4. ASSUME NEW i \in 1 .. n PROVE c[i] \in Seq(Byte) /\ c[i] = ((sep[i] \o name[i]) \o eq) \o val[i]
  <2> DEFINE a == sep[i]
             b == name[i]
             d == val[i]
  <2>1. a \in Seq(Byte) /\ b \in Seq(Byte) /\ d \in Seq(Byte) /\ eq \in Seq(Byte)
    BY <1>2, <1>3
  <2>2. c[i] = ((a \o b) \o eq) \o d
    BY Zenon
  <2> HIDE DEF a, b, d
  <2>3. ((a \o b) \o eq) \o d \in Seq(Byte)
    BY <2>1
  <2> QED BY <2>2, <2>3, Zenon DEF a, b, d
<1>5. c \in Seq(Seq(Byte)) /\ Len(c) = n
  <2>1. c \in [1 .. n -> Seq(Byte)]
    BY <1>4, Zenon
  <2> HIDE DEF c, n
  <2>2. c \in Seq(Seq(Byte)) /\ Len(c) = n
    BY <1>0, <2>1
  <2> QED BY <2>2 DEF n
<1> HIDE DEF c
<1>6. PICK h \in [0 .. n -> Seq(Byte)] :
         h[0] = << >> /\ (\A k \in 1 .. n : h[k] = h[k - 1] \o c[k]) /\ FlattenSeq(c) = h[n]
  <2> HIDE DEF n
  <2> QED BY <1>5, FlattenHistory
<1> HIDE DEF piece, n
<1>7. h[1] = piece[1]
  <2>1. 1 \in 1 .. n /\ 1 - 1 = 0
    BY <1>0
  <2> DEFINE b == name[1]
             d == val[1]
  <2>2. h[1] = << >> \o (((<< >> \o b) \o eq) \o d)
    <3>1. sep[1] = << >>
      BY <2>1, Zenon DEF sep
    <3> QED BY <1>4, <1>6, <2>1, <3>1, Zenon
  <2>3. b \in Seq(Byte) /\ d \in Seq(Byte) /\ eq \in Seq(Byte) /\ piece[1] = (b \o eq) \o d
    BY <1>2, <1>3, <2>1, Zenon DEF PairText, eq
  <2> HIDE DEF b, d
  <2>4. << >> \o b = b
    BY <2>3
  <2>5. (b \o eq) \o d \in Seq(Byte)
    BY <2>3
  <2>6. << >> \o piece[1] = piece[1]
    BY <2>3, <2>5
  <2> QED BY <2>2, <2>3, <2>4, <2>6, Zenon
<1>8. ASSUME NEW k \in 1 .. n, k + 1 <= n
      PROVE  h[k] \in Seq(Byte) /\ k + 1 \in 1 .. n /\ h[k + 1] = Append(h[k], "&") \o piece[k + 1]
  <2>1. k \in 0 .. n /\ k + 1 \in 1 .. n /\ (k + 1) - 1 = k /\ k + 1 # 1
    BY <1>0, <1>8
  <2> DEFINE u == h[k]
             s == <<"&">>
             b == name[k + 1]
             d == val[k + 1]
  <2>2. h[k + 1] = u \o (((s \o b) \o eq) \o d)
    <3>1. sep[k + 1] = s
      BY <2>1, Zenon DEF sep
    <3> QED BY <1>4, <1>6, <2>1, <3>1, Zenon
  <2>3. u \in Seq(Byte) /\ b \in Seq(Byte) /\ d \in Seq(Byte) /\ eq \in Seq(Byte) /\ s \in Seq(Byte)
        /\ piece[k + 1] = (b \o eq) \o d
    BY <1>2, <1>3, <1>6, <2>1, Zenon DEF PairText, eq
  <2>4. u \o s = Append(u, "&")
    <3> HIDE DEF u
    <3> QED BY <2>3, Separators
  <2> HIDE DEF u, b, d, s
  <2>5. u \o (((s \o b) \o eq) \o d) = (u \o s) \o ((b \o eq) \o d)
    <3>1. AllBytes(u, s, b, eq, d)
      BY <2>3, Zenon DEF AllBytes
    <3>2. Regrouped(u, s, b, eq, d)
      BY <3>1, Regroup, Zenon
    <3> QED BY <3>2, Zenon DEF Regrouped
  <2>6. h[k + 1] = (u \o s) \o piece[k + 1]
    BY <2>2, <2>3, <2>5, Zenon
  <2>7. h[k + 1] = Append(u, "&") \o piece[k + 1]
    BY <2>4, <2>6, Zenon
  <2> QED BY <2>1, <2>3, <2>7, Zenon DEF u
<1> DEFINE first == [k \in 0 .. n |-> [i \in 1 .. k |-> piece[i]]]
           S == {k \in Nat : k + 1 <= n => Split(h[k + 1], "&") = first[k + 1]}
<1>9. 0 \in S
  <2>1. 0 + 1 = 1 /\ 1 \in 1 .. n /\ 1 \in 0 .. n
    BY <1>0
  <2>2. Split(h[1], "&") = <<piece[1]>>
    BY <1>3, <1>7, <2>1, SplitFirst, Zenon
  <2>3. first[1] = <<piece[1]>>
    BY <2>1
  <2> HIDE DEF first
  <2> QED BY <2>1, <2>2, <2>3, Zenon
<1>10. ASSUME NEW k \in S PROVE k + 1 \in S
  <2>0. k \in Nat /\ (k + 1 <= n => Split(h[k + 1], "&") = first[k + 1])
    OBVIOUS
  <2> SUFFICES ASSUME (k + 1) + 1 <= n PROVE Split(h[(k + 1) + 1], "&") = first[(k + 1) + 1]
    BY <2>0
  <2> DEFINE j == k + 1
  <2>1. j \in 1 .. n /\ j + 1 <= n /\ j + 1 \in 1 .. n /\ j \in 0 .. n /\ j + 1 \in 0 .. n
    BY <1>0, <2>0
  <2>2. Split(h[j], "&") = first[j]
    BY <2>0, <2>1
  <2> HIDE DEF j, S
  <2>3. h[j] \in Seq(Byte) /\ h[j + 1] = Append(h[j], "&") \o piece[j + 1] /\ OnePiece(piece[j + 1])
    BY <1>3, <1>8, <2>1, Zenon
  <2>4. Split(h[j + 1], "&") = Append(Split(h[j], "&"), piece[j + 1])
    BY <2>3, SplitNext, Zenon
  <2>5. Append([i \in 1 .. j |-> piece[i]], piece[j + 1]) = [i \in 1 .. j + 1 |-> piece[i]]
    BY <1>0, <2>1, OneMoreOf, Zenon
  <2>6. first[j + 1] = Append(first[j], piece[j + 1])
    BY <2>1, <2>5, Zenon
  <2> QED BY <2>2, <2>4, <2>6, Zenon DEF j
<1>11. S = Nat
  <2>1. S \in SUBSET Nat
    OBVIOUS
  <2> HIDE DEF S
  <2> QED BY <1>9, <1>10, <2>1, Induction
<1>12. Split(h[n], "&") = first[n]
  <2>1. n - 1 \in S /\ (n - 1) + 1 = n /\ n <= n
    <3> HIDE DEF S
    <3> QED BY <1>0, <1>11
  <2>2. (n - 1) + 1 <= n => Split(h[(n - 1) + 1], "&") = first[(n - 1) + 1]
    BY <2>1, Zenon
  <2> QED BY <2>1, <2>2, Zenon
<1>13. first[n] = [k \in 1 .. Len(pairs) |-> PieceText(pairs[k], all)]
  <2>1. n \in 0 .. n
    BY <1>0
  <2> QED BY <2>1, Zenon DEF piece, n
<1> QED BY <1>1, <1>6, <1>12, <1>13, Zenon

LEMMA EmptyBody ==
    ASSUME NEW pairs \in Seq(Submitted), NEW all \in BOOLEAN, Len(pairs) = 0
    PROVE  Body(pairs, all) = << >>
<1> DEFINE c == [i \in DOMAIN pairs |-> (IF i = 1 THEN <<>> ELSE <<"&">>) \o Encode(NameText[pairs[i][1]], all)
                                        \o <<"=">> \o Encode(pairs[i][2], all)]
<1>1. DOMAIN pairs = {}
  OBVIOUS
<1>2. c = << >>
  <2>1. DOMAIN c = {} /\ c = [i \in {} |-> c[i]]
    BY <1>1, Zenon
  <2> HIDE DEF c
  <2>2. [i \in {} |-> c[i]] = << >>
    OBVIOUS
  <2> QED BY <2>1, <2>2, Zenon
<1>3. Body(pairs, all) = FlattenSeq(c)
  BY Zenon DEF Body
<1> HIDE DEF c
<1>4. Len(<< >>) = 0
  OBVIOUS
<1>5. FlattenSeq(<< >>) = << >>
  BY <1>4, Zenon DEF FlattenSeq
<1> QED BY <1>2, <1>3, <1>5, Zenon

LEMMA StepTyped ==
    ASSUME NEW form \in FormStates, NEW p \in Submitted, NEW all \in BOOLEAN
    PROVE  /\ FormStep(form, PieceText(p, all)) \in FormStates
           /\ form.err # "Ok" => FormStep(form, PieceText(p, all)) = form
           /\ form.err = "Ok" =>
                IF Len(p[2]) <= FieldCap /\ p[1] \notin form.have
                THEN FormStep(form, PieceText(p, all)) = Taken(form, p[1], p[2])
                ELSE FormStep(form, PieceText(p, all)).err # "Ok"
<1> DEFINE N == Encode(NameText[p[1]], all)
           V == Encode(p[2], all)
           next == FormStep(form, PieceText(p, all))
<1>1. p[1] \in Fields \cup {"submit"} /\ p[2] \in Seq(Byte) /\ Spells(N, NameText[p[1]]) /\ Spells(V, p[2])
  BY PieceReads, Zenon
<1>2. next = FormStep(form, PairText(N, V))
  BY Zenon DEF PieceText
<1> HIDE DEF N, V, next
<1>3. /\ form.err # "Ok" => next = form
      /\ form.err = "Ok" =>
           IF Len(p[2]) <= FieldCap /\ p[1] \notin form.have THEN next = Taken(form, p[1], p[2])
           ELSE next \in FormStates /\ next.err # "Ok"
  <2>1. Takes(form, p[1], p[2], FormStep(form, PairText(N, V)))
    BY <1>1, FormStepTakes, Zenon
  <2> QED BY <1>2, <2>1, Zenon DEF Takes
<1>4. Taken(form, p[1], p[2]) \in FormStates
  BY <1>1, TakenTyped, Zenon
<1>5. next \in FormStates
  BY <1>3, <1>4, Zenon
<1> QED BY <1>3, <1>5, Zenon DEF next

LEMMA FormFold ==
    ASSUME NEW pairs \in Seq(Submitted), NEW all \in BOOLEAN
    PROVE  \E h \in [0 .. Len(pairs) -> FormStates] :
              /\ h[0] = EmptyForm
              /\ \A k \in 1 .. Len(pairs) : h[k] = FormStep(h[k - 1], PieceText(pairs[k], all))
              /\ FoldLeft(FormStep, EmptyForm, Split(Body(pairs, all), "&")) = h[Len(pairs)]
<1> DEFINE n == Len(pairs)
<1>0. n \in Nat /\ \A k \in 1 .. n : pairs[k] \in Submitted
  OBVIOUS
<1>1. CASE n # 0
  <2> DEFINE texts == [k \in 1 .. n |-> PieceText(pairs[k], all)]
  <2>1. DOMAIN texts = 1 .. n /\ \A k \in 1 .. n : texts[k] = PieceText(pairs[k], all)
    BY Zenon
  <2>2. Split(Body(pairs, all), "&") = texts
    BY <1>1, BodyPieces, Zenon
  <2> HIDE DEF texts, n
  <2>3. \A k \in 1 .. n : \A form \in FormStates : FormStep(form, texts[k]) \in FormStates
    BY <1>0, <2>1, StepTyped, Zenon
  <2>4. PICK h \in [0 .. n -> FormStates] :
          /\ h[0] = EmptyForm /\ \A k \in 1 .. n : h[k] = FormStep(h[k - 1], texts[k])
          /\ FoldLeft(FormStep, EmptyForm, texts) = h[n]
    BY <1>0, <2>1, <2>3, FormHistory, Zenon
  <2>5. \A k \in 1 .. n : h[k] = FormStep(h[k - 1], PieceText(pairs[k], all))
    BY <2>1, <2>4, Zenon
  <2> QED BY <2>2, <2>4, <2>5, Zenon DEF n
<1>2. CASE n = 0
  <2> DEFINE texts == << << >> >>
  <2>1. Split(Body(pairs, all), "&") = texts
    BY <1>2, EmptyBody, SplitNone, Zenon
  <2>2. DOMAIN texts = 1 .. 1 /\ texts[1] = << >> /\ 1 \in Nat /\ (\A k \in 1 .. 1 : k = 1) /\ 1 \in 1 .. 1 /\ 1 - 1 = 0
    OBVIOUS
  <2> HIDE DEF texts
  <2>3. ASSUME NEW form PROVE FormStep(form, << >>) = form
    BY Zenon DEF FormStep
  <2>4. \A k \in 1 .. 1 : \A form \in FormStates : FormStep(form, texts[k]) \in FormStates
    BY <2>2, <2>3, Zenon
  <2>5. PICK h \in [0 .. 1 -> FormStates] :
          /\ h[0] = EmptyForm /\ \A k \in 1 .. 1 : h[k] = FormStep(h[k - 1], texts[k])
          /\ FoldLeft(FormStep, EmptyForm, texts) = h[1]
    BY <2>2, <2>4, FormHistory, Zenon
  <2>6. h[1] = EmptyForm
    BY <2>2, <2>3, <2>5, Zenon
  <2> DEFINE g == [k \in 0 .. n |-> EmptyForm]
  <2>7. g \in [0 .. n -> FormStates]
    BY EmptyFormTyped, Zenon
  <2>8. 0 \in 0 .. n /\ 1 .. n = {}
    BY <1>2
  <2>9. g[0] = EmptyForm /\ g[n] = EmptyForm
    BY <1>2, <2>8, Zenon
  <2> HIDE DEF g, n
  <2>10. \A k \in 1 .. n : g[k] = FormStep(g[k - 1], PieceText(pairs[k], all))
    BY <2>8, Zenon
  <2> QED BY <2>1, <2>5, <2>6, <2>7, <2>9, <2>10, Zenon DEF n
<1> QED BY <1>1, <1>2, Zenon

\* A field the form still takes: not too long, and of a name not yet typed.
Fresh(pairs, i) ==
    /\ Len(pairs[i][2]) <= FieldCap
    /\ \A j \in 1 .. i - 1 : pairs[j][1] = pairs[i][1] => pairs[i][1] = "submit"

\* What is known of the form after the first k fields.
Progress(pairs, k, form) ==
    /\ (form.err = "Ok") <=> (\A i \in 1 .. k : Fresh(pairs, i))
    /\ form.err = "Ok" =>
         /\ \A f \in Fields : f \in form.have <=> \E i \in 1 .. k : pairs[i][1] = f
         /\ \A i \in 1 .. k : pairs[i][1] \in Fields => form.val[pairs[i][1]] = pairs[i][2]
         /\ \A f \in Fields : f \notin form.have => form.val[f] = << >>

LEMMA ProgressFirst ==
    ASSUME NEW pairs PROVE Progress(pairs, 0, EmptyForm)
<1>1. 1 .. 0 = {}
  OBVIOUS
<1>2. EmptyForm.err = "Ok" /\ EmptyForm.have = {} /\ \A f \in Fields : EmptyForm.val[f] = << >>
  BY DEF EmptyForm
<1> QED BY <1>1, <1>2, Zenon DEF Progress

LEMMA ProgressStep ==
    ASSUME NEW pairs \in Seq(Submitted), NEW all \in BOOLEAN, NEW k \in Nat, k + 1 <= Len(pairs),
           NEW form \in FormStates, Progress(pairs, k, form)
    PROVE  Progress(pairs, k + 1, FormStep(form, PieceText(pairs[k + 1], all)))
<1> DEFINE p == pairs[k + 1]
           next == FormStep(form, PieceText(p, all))
<1>0. p \in Submitted /\ p[1] \in Fields \cup {"submit"} /\ p[2] \in Seq(Byte)
  <2>1. p \in Submitted
    <3>1. k + 1 \in 1 .. Len(pairs)
      OBVIOUS
    <3> QED BY <3>1
  <2> QED BY <2>1 DEF Submitted
<1>1. /\ form.err # "Ok" => next = form
      /\ form.err = "Ok" => IF Len(p[2]) <= FieldCap /\ p[1] \notin form.have
                            THEN next = Taken(form, p[1], p[2]) ELSE next.err # "Ok"
  <2> HIDE DEF p
  <2> QED BY <1>0, StepTyped, Zenon
<1> HIDE DEF next
<1>2. 1 .. (k + 1) = (1 .. k) \cup {k + 1} /\ (k + 1) - 1 = k
  OBVIOUS
<1>3. (\A i \in 1 .. (k + 1) : Fresh(pairs, i)) <=> (\A i \in 1 .. k : Fresh(pairs, i)) /\ Fresh(pairs, k + 1)
  BY <1>2, Zenon
<1>4. CASE form.err # "Ok"
  <2>1. next = form /\ ~(\A i \in 1 .. k : Fresh(pairs, i))
    BY <1>1, <1>4, Zenon DEF Progress
  <2> QED BY <1>3, <1>4, <2>1, Zenon DEF Progress, next, p
<1>5. CASE form.err = "Ok"
  <2>0. "submit" \notin Fields /\ form.have \subseteq Fields /\ form.val \in [Fields -> Seq(Byte)]
    <3>1. "submit" \notin Fields
      BY FieldNames
    <3> QED BY <3>1 DEF FormStates
  <2>1. /\ \A i \in 1 .. k : Fresh(pairs, i)
        /\ \A f \in Fields : f \in form.have <=> \E i \in 1 .. k : pairs[i][1] = f
        /\ \A i \in 1 .. k : pairs[i][1] \in Fields => form.val[pairs[i][1]] = pairs[i][2]
        /\ \A f \in Fields : f \notin form.have => form.val[f] = << >>
    BY <1>5, Zenon DEF Progress
  <2>2. Fresh(pairs, k + 1) <=> Len(p[2]) <= FieldCap /\ \A j \in 1 .. k : pairs[j][1] = p[1] => p[1] = "submit"
    BY <1>2, Zenon DEF Fresh
  <2> HIDE DEF p
  <2>3. p[1] \notin form.have <=> \A j \in 1 .. k : pairs[j][1] = p[1] => p[1] = "submit"
    BY <1>0, <2>0, <2>1, Zenon
  <2>4. CASE Len(p[2]) <= FieldCap /\ p[1] \notin form.have
    <3>1. next = Taken(form, p[1], p[2]) /\ Fresh(pairs, k + 1)
      BY <1>1, <1>5, <2>2, <2>3, <2>4, Zenon
    <3>2. next.err = "Ok" /\ next.have = form.have \cup ({p[1]} \cap Fields)
          /\ \A g \in Fields : next.val[g] = IF g = p[1] THEN p[2] ELSE form.val[g]
      BY <3>1 DEF Taken
    <3>3. \A f \in Fields : f \in next.have <=> \E i \in 1 .. (k + 1) : pairs[i][1] = f
      <4>1. \A f \in Fields : f \in next.have <=> f \in form.have \/ f = p[1]
        BY <3>2, Zenon
      <4>2. \A f : (\E i \in 1 .. (k + 1) : pairs[i][1] = f) <=> (\E i \in 1 .. k : pairs[i][1] = f) \/ p[1] = f
        BY <1>2, Zenon DEF p
      <4> QED BY <2>1, <4>1, <4>2, Zenon
    <3>4. ASSUME NEW i \in 1 .. (k + 1), pairs[i][1] \in Fields PROVE next.val[pairs[i][1]] = pairs[i][2]
      <4>1. CASE i = k + 1
        BY <3>2, <3>4, <4>1, Zenon DEF p
      <4>2. CASE i \in 1 .. k
        <5>1. pairs[i][1] \in form.have
          BY <2>1, <3>4, <4>2, Zenon
        <5>2. pairs[i][1] # p[1]
          BY <2>4, <5>1, Zenon
        <5> QED BY <2>1, <3>2, <3>4, <4>2, <5>2, Zenon
      <4> QED BY <1>2, <4>1, <4>2, Zenon
    <3>5. \A f \in Fields : f \notin next.have => next.val[f] = << >>
      BY <2>1, <3>2, Zenon
    <3>6. \A i \in 1 .. (k + 1) : Fresh(pairs, i)
      BY <1>3, <2>1, <3>1, Zenon
    <3>7. Progress(pairs, k + 1, next)
      BY <3>2, <3>3, <3>4, <3>5, <3>6, Zenon DEF Progress
    <3> QED BY <3>7, Zenon DEF next, p
  <2>5. CASE ~(Len(p[2]) <= FieldCap /\ p[1] \notin form.have)
    <3>1. next.err # "Ok" /\ ~Fresh(pairs, k + 1)
      BY <1>1, <1>5, <2>2, <2>3, <2>5, Zenon
    <3>2. Progress(pairs, k + 1, next)
      BY <1>3, <3>1, Zenon DEF Progress
    <3> QED BY <3>2, Zenon DEF next, p
  <2> QED BY <2>4, <2>5, Zenon
<1> QED BY <1>4, <1>5, Zenon

\* parseWifiForm() on what a browser sends for these fields.
ReadAs(pairs, out) ==
    IF FormWhole(pairs)
    THEN out.err = "Ok" /\ \A f \in Fields : {out.val[f]} = Typed(pairs, f) \cup
                                (IF Typed(pairs, f) = {} THEN {<<>>} ELSE {})
    ELSE out.err # "Ok" /\ \A f \in Fields : out.val[f] = <<>>

LEMMA WholeIs ==
    ASSUME NEW pairs \in Seq(Submitted)
    PROVE  FormWhole(pairs) <=> /\ \A i \in 1 .. Len(pairs) : Fresh(pairs, i)
                                /\ \A f \in {"ssid", "password"} : \E i \in 1 .. Len(pairs) : pairs[i][1] = f
<1> DEFINE n == Len(pairs)
           who == [i \in 1 .. n |-> pairs[i][1]]
<1>0. n \in Nat /\ DOMAIN pairs = 1 .. n
  OBVIOUS
<1>1. \A i \in 1 .. n : who[i] = pairs[i][1]
  BY Zenon
<1> HIDE DEF n, who
<1>2. \A f : Typed(pairs, f) # {} <=> \E i \in 1 .. n : pairs[i][1] = f
  BY <1>0, Zenon DEF Typed
<1>3. (\A i, j \in 1 .. n : who[i] = who[j] /\ who[i] # "submit" => i = j)
        <=> \A i \in 1 .. n : \A j \in 1 .. i - 1 : who[j] = who[i] => who[i] = "submit"
  <2>1. ASSUME \A i, j \in 1 .. n : who[i] = who[j] /\ who[i] # "submit" => i = j,
               NEW i \in 1 .. n, NEW j \in 1 .. i - 1, who[j] = who[i]
        PROVE  who[i] = "submit"
    <3>1. j \in 1 .. n /\ j # i
      BY <1>0
    <3> QED BY <2>1, <3>1, Zenon
  <2>2. ASSUME \A i \in 1 .. n : \A j \in 1 .. i - 1 : who[j] = who[i] => who[i] = "submit",
               NEW i \in 1 .. n, NEW j \in 1 .. n, who[i] = who[j], who[i] # "submit"
        PROVE  i = j
    <3>1. i = j \/ j \in 1 .. i - 1 \/ i \in 1 .. j - 1
      BY <1>0
    <3> QED BY <2>2, <3>1, Zenon
  <2> QED BY <2>1, <2>2, Zenon
<1>4. \A i \in 1 .. n : \A j \in 1 .. i - 1 : j \in 1 .. n
  BY <1>0
<1>5. (\A i \in 1 .. n : Fresh(pairs, i))
        <=> /\ \A i \in 1 .. n : Len(pairs[i][2]) <= FieldCap
            /\ \A i \in 1 .. n : \A j \in 1 .. i - 1 : who[j] = who[i] => who[i] = "submit"
  BY <1>1, <1>4, Zenon DEF Fresh
<1>6. FormWhole(pairs)
        <=> /\ \A i, j \in 1 .. n : who[i] = who[j] /\ who[i] # "submit" => i = j
            /\ Typed(pairs, "ssid") # {} /\ Typed(pairs, "password") # {}
            /\ \A i \in 1 .. n : Len(pairs[i][2]) <= FieldCap
  BY <1>0, <1>1, Zenon DEF FormWhole
<1>7. FormWhole(pairs) <=> /\ \A i \in 1 .. n : Fresh(pairs, i)
                           /\ \E i \in 1 .. n : pairs[i][1] = "ssid"
                           /\ \E i \in 1 .. n : pairs[i][1] = "password"
  BY <1>2, <1>3, <1>5, <1>6, Zenon
<1> QED BY <1>7, Zenon DEF n

LEMMA FormRead ==
    ASSUME NEW pairs \in Seq(Submitted), NEW all \in BOOLEAN
    PROVE  ReadAs(pairs, parseWifiForm(Body(pairs, all)))
<1> DEFINE n == Len(pairs)
           body == Body(pairs, all)
<1>0. n \in Nat /\ DOMAIN pairs = 1 .. n
  OBVIOUS
<1> HIDE DEF body
<1>1. PICK h \in [0 .. n -> FormStates] :
        /\ h[0] = EmptyForm
        /\ \A k \in 1 .. n : h[k] = FormStep(h[k - 1], PieceText(pairs[k], all))
        /\ FoldLeft(FormStep, EmptyForm, Split(body, "&")) = h[n]
  BY FormFold, Zenon DEF body
<1> HIDE DEF n
<1> DEFINE S == {k \in Nat : k <= n => Progress(pairs, k, h[k])}
<1>2. 0 \in S
  <2>1. Progress(pairs, 0, h[0])
    BY <1>1, ProgressFirst, Zenon
  <2>2. 0 \in Nat
    OBVIOUS
  <2> QED BY <2>1, <2>2, Zenon
<1>3. ASSUME NEW k \in S PROVE k + 1 \in S
  <2>0. k \in Nat /\ (k <= n => Progress(pairs, k, h[k]))
    BY Zenon
  <2>1. k + 1 \in Nat
    BY <2>0
  <2> SUFFICES ASSUME k + 1 <= n PROVE Progress(pairs, k + 1, h[k + 1])
    BY <2>1, Zenon
  <2>2. k <= n /\ k \in 0 .. n /\ k + 1 \in 1 .. n /\ (k + 1) - 1 = k
    BY <1>0, <2>0
  <2>3. h[k] \in FormStates /\ h[k + 1] = FormStep(h[k], PieceText(pairs[k + 1], all))
    BY <1>1, <2>2, Zenon
  <2>4. k + 1 <= Len(pairs)
    BY DEF n
  <2> HIDE DEF S
  <2> QED BY <2>0, <2>2, <2>3, <2>4, ProgressStep, Zenon
<1>4. S = Nat
  <2>1. S \in SUBSET Nat
    OBVIOUS
  <2> HIDE DEF S
  <2> QED BY <1>2, <1>3, <2>1, Induction
<1>5. Progress(pairs, n, h[n]) /\ h[n] \in FormStates
  <2>1. n \in S /\ n <= n /\ n \in 0 .. n
    <3> HIDE DEF S
    <3> QED BY <1>0, <1>4
  <2> QED BY <1>1, <2>1, Zenon
<1> DEFINE form == h[n]
           err == IF form.err = "Ok" /\ ~({"ssid", "password"} \subseteq form.have) THEN "Missing" ELSE form.err
           out == parseWifiForm(body)
<1>6. out = IF err = "Ok" THEN form ELSE [EmptyForm EXCEPT !.err = err]
  BY <1>1, Zenon DEF parseWifiForm
<1> HIDE DEF form, out
<1>7. Progress(pairs, n, form)
  BY <1>5, Zenon DEF form
<1>8. FormWhole(pairs) <=> form.err = "Ok" /\ {"ssid", "password"} \subseteq form.have
  <2>1. FormWhole(pairs) <=> /\ \A i \in 1 .. n : Fresh(pairs, i)
                             /\ \A f \in {"ssid", "password"} : \E i \in 1 .. n : pairs[i][1] = f
    BY WholeIs, Zenon DEF n
  <2>2. {"ssid", "password"} \subseteq Fields
    BY FieldNames
  <2> QED BY <1>7, <2>1, <2>2, Zenon DEF Progress
<1>9. CASE FormWhole(pairs)
  <2>1. err = "Ok" /\ form.err = "Ok"
    BY <1>8, <1>9, Zenon
  <2>2. out = form
    BY <1>6, <2>1, Zenon
  <2>3. /\ \A f \in Fields : f \in form.have <=> \E i \in 1 .. n : pairs[i][1] = f
        /\ \A i \in 1 .. n : pairs[i][1] \in Fields => form.val[pairs[i][1]] = pairs[i][2]
        /\ \A f \in Fields : f \notin form.have => form.val[f] = << >>
    BY <1>7, <2>1, Zenon DEF Progress
  <2>4. ASSUME NEW f \in Fields
        PROVE  {form.val[f]} = Typed(pairs, f) \cup (IF Typed(pairs, f) = {} THEN {<<>>} ELSE {})
    <3>1. Typed(pairs, f) = {pairs[i][2] : i \in {j \in 1 .. n : pairs[j][1] = f}}
      BY <1>0, Zenon DEF Typed
    <3>2. CASE f \in form.have
      <4>1. PICK i \in 1 .. n : pairs[i][1] = f
        BY <2>3, <3>2, Zenon
      <4>2. \A j \in 1 .. n : pairs[j][1] = f => pairs[j][2] = form.val[f]
        BY <2>3, Zenon
      <4>3. Typed(pairs, f) = {form.val[f]}
        BY <3>1, <4>1, <4>2, Zenon
      <4> QED BY <4>3, Zenon
    <3>3. CASE f \notin form.have
      <4>1. Typed(pairs, f) = {}
        BY <2>3, <3>1, <3>3, Zenon
      <4>2. form.val[f] = << >>
        BY <2>3, <3>3, Zenon
      <4> QED BY <4>1, <4>2, Zenon
    <3> QED BY <3>2, <3>3, Zenon
  <2>5. ReadAs(pairs, out)
    BY <1>9, <2>1, <2>2, <2>4, Zenon DEF ReadAs
  <2> QED BY <2>5, Zenon DEF out, body
<1>10. CASE ~FormWhole(pairs)
  <2>1. err # "Ok"
    BY <1>8, <1>10
  <2>2. out = [EmptyForm EXCEPT !.err = err]
    BY <1>6, <2>1, Zenon
  <2> HIDE DEF err
  <2>3. out.err = err /\ out.val = EmptyForm.val
    BY <2>2 DEF EmptyForm
  <2>4. \A f \in Fields : out.val[f] = << >>
    BY <2>3 DEF EmptyForm
  <2>5. ReadAs(pairs, out)
    BY <1>10, <2>1, <2>3, <2>4, Zenon DEF ReadAs
  <2> QED BY <2>5, Zenon DEF out, body
<1> QED BY <1>9, <1>10, Zenon

\* Inductive: what the portal took from the body is what parseWifiForm() reads.
FormInv ==
    job.op = "form" =>
        /\ job.in.pairs \in Forms /\ job.in.all \in BOOLEAN
        /\ st.done => st.out = parseWifiForm(Body(job.in.pairs, job.in.all))

LEMMA FormInvInit == CodecInit => FormInv
<1> SUFFICES ASSUME CodecInit PROVE FormInv
  OBVIOUS
<1>1. CASE FormInit
  <2>1. PICK pairs \in Forms, all \in BOOLEAN :
           job = [op |-> "form", in |-> [pairs |-> pairs, all |-> all]] /\ st = [done |-> FALSE]
    BY <1>1, Zenon DEF FormInit, Start, Waiting
  <2>2. job.in.pairs = pairs /\ job.in.all = all /\ st.done = FALSE
    BY <2>1
  <2> QED BY <2>2, Zenon DEF FormInv
<1>2. CASE job.op # "form"
  BY <1>2 DEF FormInv
<1> QED BY <1>1, <1>2, JobStarts

LEMMA FormActions ==
    ASSUME CodecNext, job.op = "form"
    PROVE  DecodeForm
<1>1. ASSUME NEW n \in 1 .. Chunk, Read(n) PROVE FALSE
  BY <1>1 DEF Read, Pending
<1>2. ASSUME NEW n \in 0 .. Chunk, Feed(n) PROVE FALSE
  BY <1>2 DEF Feed, Pending
<1>3. ~(ReadTimeout \/ MakeCreds \/ MakeToken \/ MakeKey \/ DecodeJson \/ DecodeBase64
        \/ TakeIdentity \/ ReadVersion \/ CompareVersions \/ ReadManifest \/ Finish
        \/ FormatTime \/ FormatNumber \/ BuildEvent \/ OpenFile \/ UseFile \/ RebootFile)
  BY DEF Pending, ReadTimeout, MakeCreds, MakeToken, MakeKey, DecodeJson, DecodeBase64, TakeIdentity, ReadVersion,
         CompareVersions, ReadManifest, Finish, FormatTime, FormatNumber, BuildEvent, OpenFile, UseFile, RebootFile
<1> QED BY <1>1, <1>2, <1>3 DEF CodecNext

LEMMA FormInvStep ==
    ASSUME FormInv, [CodecNext]_codecVars
    PROVE  FormInv'
<1>1. CASE UNCHANGED codecVars
  BY <1>1 DEF codecVars, FormInv
<1>2. CASE CodecNext
  <2>1. job' = job
    BY <1>2, JobKept
  <2>2. CASE job.op # "form"
    BY <2>1, <2>2 DEF FormInv
  <2>3. CASE job.op = "form"
    <3> DEFINE out == parseWifiForm(Body(job.in.pairs, job.in.all))
    <3>1. DecodeForm
      BY <1>2, <2>3, FormActions
    <3>2. st' = [done |-> TRUE, out |-> out]
      BY <3>1, Zenon DEF DecodeForm, Out
    <3> HIDE DEF out
    <3>3. st'.out = out
      BY <3>2
    <3>4. st'.out = parseWifiForm(Body(job'.in.pairs, job'.in.all))
      BY <2>1, <3>3, Zenon DEF out
    <3>5. job'.in.pairs \in Forms /\ job'.in.all \in BOOLEAN
      BY <2>1, <2>3, Zenon DEF FormInv
    <3> QED BY <3>4, <3>5, Zenon DEF FormInv
  <2> QED BY <2>2, <2>3
<1> QED BY <1>1, <1>2

\* What an installer types is what the terminal has after its next boot:
\* parseWifiForm() reads the fields of every submission byte for byte from
\* whatever spelling the browser chose, refuses exactly the submissions with a
\* name twice, a value too long or no network, keeping nothing of them, and
\* what is then saved is usable.
THEOREM FormSavedAlways == CodecSpec => []FormSaved
<1>1. FormInv => FormExact
  <2> SUFFICES ASSUME FormInv, Done("form")
               PROVE  ReadAs(job.in.pairs, st.out)
    BY Zenon DEF FormExact, ReadAs
  <2>1. job.in.pairs \in Forms /\ job.in.all \in BOOLEAN /\ st.out = parseWifiForm(Body(job.in.pairs, job.in.all))
    BY Zenon DEF FormInv, Done
  <2>2. job.in.pairs \in Seq(Submitted)
    BY <2>1, CodecAssumption, Zenon DEF Submitted
  <2>3. ReadAs(job.in.pairs, parseWifiForm(Body(job.in.pairs, job.in.all)))
    BY <2>1, <2>2, FormRead, Zenon
  <2> QED BY <2>1, <2>3, Zenon
<1>2. FormExact /\ SavedIsUsable => FormSaved
  BY DEF FormSaved
<1> QED BY <1>1, <1>2, FormInvInit, FormInvStep, SavedIsUsableAlways, PTL DEF CodecSpec
=============================================================================
