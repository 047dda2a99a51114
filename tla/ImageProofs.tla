----------------------------- MODULE ImageProofs -----------------------------
(***************************************************************************)
(* The check an image passes before it may boot: SHA-512 fed in pieces,    *)
(* for any word size and any message, the spelling and the order of        *)
(* versions, for any largest part, and the verdict of ImageVerifier.       *)
(***************************************************************************)
EXTENDS CodecProofs

(***************************************************************************)
(* SHA-512 over a message fed in pieces                                    *)
(***************************************************************************)

LEMMA Divided ==
    ASSUME NEW x \in Nat, NEW w \in Nat \ {0}
    PROVE  /\ x \div w \in Nat /\ x % w \in Nat /\ x % w < w
           /\ (x \div w) * w \in Nat /\ x = ((x \div w) * w) + (x % w)
<1>1. x \div w \in Nat /\ x % w \in 0 .. w - 1 /\ x = w * (x \div w) + (x % w)
  OBVIOUS
<1> DEFINE q == x \div w
<1> HIDE DEF q
<1>2. q \in Nat => q * w \in Nat /\ w * q = q * w
  OBVIOUS
<1> QED BY <1>1, <1>2 DEF q

LEMMA Multiples ==
    ASSUME NEW a \in Nat, NEW b \in Nat, NEW w \in Nat
    PROVE  /\ a * w \in Nat /\ (a + 1) * w = (a * w) + w
           /\ a <= b => a * w <= b * w
           /\ a < b => (a * w) + w <= b * w
<1>1. a * w \in Nat /\ b * w \in Nat /\ (a + 1) * w = (a * w) + w
  OBVIOUS
<1>2. ASSUME NEW c \in Nat, NEW d \in Nat, c <= d PROVE c * w <= d * w
  <2>1. d * w = c * w + (d - c) * w /\ (d - c) \in Nat
    BY <1>2
  <2>2. (d - c) * w \in Nat
    BY <2>1
  <2> QED BY <2>1, <2>2
<1>3. a < b => (a + 1) * w <= b * w
  <2>1. a + 1 \in Nat /\ (a < b => a + 1 <= b)
    OBVIOUS
  <2> QED BY <1>2, <2>1
<1>4. a <= b => a * w <= b * w
  BY <1>2
<1> QED BY <1>1, <1>3, <1>4

\* The only multiple of w within w of x.
LEMMA QuotientIs ==
    ASSUME NEW x \in Nat, NEW w \in Nat \ {0}, NEW q \in Nat, q * w <= x, x < (q * w) + w
    PROVE  x \div w = q /\ x % w = x - (q * w)
<1> DEFINE e == x \div w
           r == x % w
<1>1. e \in Nat /\ r \in Nat /\ r < w /\ e * w \in Nat /\ x = (e * w) + r
  BY Divided
<1> HIDE DEF e, r
<1>2. q * w \in Nat /\ (e < q => (e * w) + w <= q * w) /\ (q < e => (q * w) + w <= e * w)
  BY <1>1, Multiples
<1>3. e = q
  BY <1>1, <1>2
<1> QED BY <1>1, <1>3 DEF e, r

\* What a message of the verifier is made of, and what a buffer may hold.
Symbols == {"tag", "version=", "LF", "size=", "i", ".", "R", "y1", "y5", "y7", "s", "none", Zero} \cup Numerals
Cells == Symbols \cup {"mixed", Marker}
BlockSet == [bytes : [1 .. BlockBytes -> Cells], bits : Int]
Ctxs == [input : [0 .. BlockBytes - 1 -> Cells], idx : Nat, bits : Nat, blocks : Seq(BlockSet)]

\* Where block q + 1 of a message begins.
Origin == [q \in Nat |-> q * BlockBytes]

LEMMA Sizes == WordBytes \in Nat \ {0} /\ BlockBytes \in Nat \ {0} /\ BlockBytes = 4 * WordBytes
BY ImageVerifyAssumption

LEMMA Origins ==
    ASSUME NEW q \in Nat
    PROVE  /\ q * BlockBytes = Origin[q] /\ Origin[q] \in Nat /\ Origin[0] = 0
           /\ Origin[q + 1] = Origin[q] + BlockBytes
<1>1. q * BlockBytes \in Nat /\ (q + 1) * BlockBytes = (q * BlockBytes) + BlockBytes /\ 0 * BlockBytes = 0
  BY Sizes, Multiples
<1> QED BY <1>1 DEF Origin

LEMMA OriginsOrdered ==
    ASSUME NEW q \in Nat, NEW p \in Nat
    PROVE  (q <= p => Origin[q] <= Origin[p]) /\ (q < p => Origin[q] + BlockBytes <= Origin[p])
<1>1. (q <= p => q * BlockBytes <= p * BlockBytes) /\ (q < p => (q * BlockBytes) + BlockBytes <= p * BlockBytes)
  BY Sizes, Multiples
<1>2. q * BlockBytes = Origin[q] /\ p * BlockBytes = Origin[p]
  BY Origins
<1> QED BY <1>1, <1>2, Zenon

\* Block j of a message.
BlockOf(T, j) == [bytes |-> [i \in 1 .. BlockBytes |-> T[Origin[j - 1] + i]], bits |-> NoLength]

\* Is the buffer that of a context with d bytes of block q + 1 of T in it?
Buffers(input, T, q, d) ==
    \A i \in 0 .. BlockBytes - 1 : input[i] = IF i < d THEN T[(Origin[q] + i) + 1] ELSE Zero
Compressed(blocks, T, q) == Len(blocks) = q /\ \A j \in 1 .. q : blocks[j] = BlockOf(T, j)
Within(T, q, d) == T \in Seq(Symbols) /\ q \in Nat /\ d \in 0 .. BlockBytes /\ Origin[q] + d <= Len(T)

\* The context has taken q whole blocks and d more bytes of T.
Absorbed(c, T, q, d) ==
    /\ c \in Ctxs /\ Within(T, q, d)
    /\ c.idx = d /\ c.bits = 8 * Origin[q] /\ Buffers(c.input, T, q, d) /\ Compressed(c.blocks, T, q)

LEMMA BlockTyped ==
    ASSUME NEW T \in Seq(Symbols), NEW q \in Nat, Origin[q] <= Len(T), NEW j \in 1 .. q
    PROVE  BlockOf(T, j) \in BlockSet
<1>0. Len(T) \in Nat /\ BlockBytes \in Nat /\ Symbols \subseteq Cells
  BY Sizes DEF Cells
<1>1. j - 1 \in Nat /\ j - 1 < q
  OBVIOUS
<1>2. Origin[j - 1] \in Nat /\ Origin[j - 1] + BlockBytes <= Origin[q] /\ Origin[q] \in Nat
  BY <1>1, Origins, OriginsOrdered
<1> DEFINE bytes == [i \in 1 .. BlockBytes |-> T[Origin[j - 1] + i]]
<1>3. ASSUME NEW i \in 1 .. BlockBytes PROVE T[Origin[j - 1] + i] \in Cells
  <2>1. Origin[j - 1] + i \in 1 .. Len(T)
    BY <1>0, <1>2
  <2>2. T[Origin[j - 1] + i] \in Symbols
    BY <2>1
  <2> QED BY <1>0, <2>2
<1>4. bytes \in [1 .. BlockBytes -> Cells]
  BY <1>3
<1> HIDE DEF bytes
<1>5. [bytes |-> bytes, bits |-> NoLength] \in BlockSet
  BY <1>4 DEF BlockSet, NoLength
<1> QED BY <1>5, Zenon DEF BlockOf, bytes

\* A byte put where the buffer is zero.
LEMMA SetTyped ==
    ASSUME NEW c \in Ctxs, c.idx \in 0 .. BlockBytes - 1, c.input[c.idx] = Zero, NEW b \in Cells
    PROVE  LET x == SetInput(c, b)
           IN /\ x \in Ctxs /\ x.idx = c.idx /\ x.bits = c.bits /\ x.blocks = c.blocks
              /\ \A i \in 0 .. BlockBytes - 1 : x.input[i] = IF i = c.idx THEN b ELSE c.input[i]
<1> DEFINE f == c.input
           k == c.idx
           D == 0 .. BlockBytes - 1
           in == [f EXCEPT ![k] = b]
           mid == [c EXCEPT !.input = in]
<1>1. f \in [D -> Cells] /\ k \in D /\ f[k] = Zero /\ D = 0 .. BlockBytes - 1
  BY DEF Ctxs
<1>2. in \in [D -> Cells] /\ \A i \in D : in[i] = IF i = k THEN b ELSE f[i]
  <2> HIDE DEF f, k, D
  <2> QED BY <1>1
<1>3. SetInput(c, b) = mid
  <2>1. SetInput(c, b) = [c EXCEPT !.input = [f EXCEPT ![k] = IF f[k] = Zero THEN b ELSE "mixed"]]
    BY Zenon DEF SetInput
  <2> QED BY <1>1, <2>1, Zenon
<1> HIDE DEF in
<1>4. mid \in Ctxs /\ mid.idx = c.idx /\ mid.bits = c.bits /\ mid.blocks = c.blocks /\ mid.input = in
  BY <1>2 DEF Ctxs
<1> HIDE DEF mid
<1> QED BY <1>2, <1>3, <1>4, Zenon

LEMMA PutTyped ==
    ASSUME NEW c \in Ctxs, c.idx \in 0 .. BlockBytes - 1, c.input[c.idx] = Zero, NEW b \in Cells
    PROVE  LET x == PutByte(c, b)
           IN /\ x \in Ctxs /\ x.idx = c.idx + 1 /\ x.bits = c.bits /\ x.blocks = c.blocks
              /\ \A i \in 0 .. BlockBytes - 1 : x.input[i] = IF i = c.idx THEN b ELSE c.input[i]
<1> DEFINE mid == SetInput(c, b)
           out == [mid EXCEPT !.idx = c.idx + 1]
<1>1. /\ mid \in Ctxs /\ mid.idx = c.idx /\ mid.bits = c.bits /\ mid.blocks = c.blocks
      /\ \A i \in 0 .. BlockBytes - 1 : mid.input[i] = IF i = c.idx THEN b ELSE c.input[i]
  BY SetTyped
<1>2. PutByte(c, b) = out
  BY <1>1, Zenon DEF PutByte
<1>3. c.idx + 1 \in Nat
  BY Sizes
<1> HIDE DEF mid
<1>4. out \in Ctxs /\ out.idx = c.idx + 1 /\ out.bits = mid.bits /\ out.blocks = mid.blocks /\ out.input = mid.input
  BY <1>1, <1>3 DEF Ctxs
<1> HIDE DEF out
<1> QED BY <1>1, <1>2, <1>4, Zenon

LEMMA PutAbsorbs ==
    ASSUME NEW c, NEW T, NEW q, NEW d, Absorbed(c, T, q, d), Within(T, q, d + 1)
    PROVE  Absorbed(PutByte(c, T[(Origin[q] + d) + 1]), T, q, d + 1)
<1>0. /\ T \in Seq(Symbols) /\ q \in Nat /\ d + 1 \in 0 .. BlockBytes /\ Origin[q] + (d + 1) <= Len(T)
      /\ Len(T) \in Nat /\ d \in 0 .. BlockBytes
  BY DEF Within, Absorbed
<1>1. Origin[q] \in Nat /\ BlockBytes \in Nat \ {0}
  BY <1>0, Origins, Sizes
<1> DEFINE b == T[(Origin[q] + d) + 1]
           x == PutByte(c, b)
<1>2. /\ c \in Ctxs /\ c.idx = d /\ c.bits = 8 * Origin[q] /\ Compressed(c.blocks, T, q)
      /\ \A i \in 0 .. BlockBytes - 1 : c.input[i] = IF i < d THEN T[(Origin[q] + i) + 1] ELSE Zero
  BY Zenon DEF Absorbed, Buffers
<1>3. b \in Cells
  <2>1. (Origin[q] + d) + 1 \in 1 .. Len(T)
    BY <1>0, <1>1
  <2> QED BY <1>0, <2>1 DEF Cells
<1>4. d \in 0 .. BlockBytes - 1 /\ ~(d < d)
  BY <1>0, <1>1
<1>5. c.input[d] = Zero
  BY <1>2, <1>4, Zenon
<1>6. /\ x \in Ctxs /\ x.idx = c.idx + 1 /\ x.bits = c.bits /\ x.blocks = c.blocks
      /\ \A i \in 0 .. BlockBytes - 1 : x.input[i] = IF i = c.idx THEN b ELSE c.input[i]
  <2> HIDE DEF b
  <2>1. c.idx \in 0 .. BlockBytes - 1 /\ c.input[c.idx] = Zero
    BY <1>2, <1>4, <1>5, Zenon
  <2> QED BY <1>2, <1>3, <2>1, PutTyped
<1> HIDE DEF x
<1>7. ASSUME NEW i \in 0 .. BlockBytes - 1
      PROVE  x.input[i] = IF i < d + 1 THEN T[(Origin[q] + i) + 1] ELSE Zero
  <2>1. CASE i = d
    <3>1. i < d + 1
      BY <2>1
    <3> QED BY <1>2, <1>6, <2>1, <3>1, Zenon DEF b
  <2>2. CASE i # d
    <3>1. i < d + 1 <=> i < d
      BY <1>0, <1>1, <2>2
    <3>2. x.input[i] = c.input[i]
      BY <1>2, <1>6, <2>2, Zenon
    <3> QED BY <1>2, <3>1, <3>2, Zenon
  <2> QED BY <2>1, <2>2
<1>8. Buffers(x.input, T, q, d + 1)
  BY <1>7, Zenon DEF Buffers
<1>9. Absorbed(x, T, q, d + 1)
  BY <1>2, <1>6, <1>8, Zenon DEF Absorbed
<1> QED BY <1>9, Zenon DEF x, b

\* The bytes of T after its first p.
Piece(T, p, w) == w \in Seq(Symbols) /\ p \in Nat /\ p + Len(w) <= Len(T) /\ \A i \in 1 .. Len(w) : w[i] = T[p + i]

\* x is c with w loaded at a position.
Loads(c, at, w, x) ==
    /\ x \in Ctxs /\ x.idx = c.idx + Len(w) /\ x.bits = c.bits /\ x.blocks = c.blocks
    /\ \A i \in 0 .. BlockBytes - 1 : x.input[i] = IF i \in at .. at + Len(w) - 1 THEN w[i - at + 1] ELSE c.input[i]

LEMMA LoadTyped ==
    ASSUME NEW c \in Ctxs, NEW at \in Nat, NEW w \in Seq(Symbols)
    PROVE  Loads(c, at, w, Load(c, at, w))
<1> DEFINE in == [i \in DOMAIN c.input |-> IF i \in at .. at + Len(w) - 1 THEN w[i - at + 1] ELSE c.input[i]]
           k == c.idx + Len(w)
           out == [c EXCEPT !.input = in, !.idx = k]
           D == 0 .. BlockBytes - 1
<1>1. c.input \in [0 .. BlockBytes - 1 -> Cells] /\ c.idx \in Nat /\ Len(w) \in Nat /\ k \in Nat
  BY DEF Ctxs
<1>2. DOMAIN c.input = D
  BY <1>1
<1>3. ASSUME NEW i \in D PROVE (IF i \in at .. at + Len(w) - 1 THEN w[i - at + 1] ELSE c.input[i]) \in Cells
  <2>1. CASE i \in at .. at + Len(w) - 1
    <3>1. i - at + 1 \in 1 .. Len(w)
      BY <1>1, <2>1
    <3>2. w[i - at + 1] \in Symbols
      BY <3>1
    <3> QED BY <2>1, <3>2 DEF Cells
  <2> QED BY <1>1, <2>1
<1>4. in \in [D -> Cells] /\ \A i \in D : in[i] = IF i \in at .. at + Len(w) - 1 THEN w[i - at + 1] ELSE c.input[i]
  <2>1. in = [i \in D |-> IF i \in at .. at + Len(w) - 1 THEN w[i - at + 1] ELSE c.input[i]]
    BY <1>2, Zenon
  <2> HIDE DEF in, D
  <2> QED BY <1>3, <2>1, Zenon
<1>5. Load(c, at, w) = out
  BY Zenon DEF Load
<1> HIDE DEF in, k
<1>6. out \in Ctxs /\ out.idx = k /\ out.bits = c.bits /\ out.blocks = c.blocks /\ out.input = in
  <2> DEFINE R == [0 .. BlockBytes - 1 -> Cells]
  <2>1. c \in [input : R, idx : Nat, bits : Nat, blocks : Seq(BlockSet)] /\ in \in R
    BY <1>4, Zenon DEF Ctxs
  <2> HIDE DEF R
  <2>2. out \in [input : R, idx : Nat, bits : Nat, blocks : Seq(BlockSet)]
    BY <1>1, <2>1
  <2>3. out.idx = k /\ out.bits = c.bits /\ out.blocks = c.blocks /\ out.input = in
    BY <2>1
  <2> QED BY <2>2, <2>3, Zenon DEF Ctxs, R
<1> HIDE DEF out
<1> QED BY <1>4, <1>5, <1>6, Zenon DEF k, Loads

LEMMA LoadAbsorbs ==
    ASSUME NEW c, NEW T, NEW q, NEW d, Absorbed(c, T, q, d),
           NEW w, Piece(T, Origin[q] + d, w), d + Len(w) <= BlockBytes
    PROVE  Absorbed(Load(c, d, w), T, q, d + Len(w))
<1>0. T \in Seq(Symbols) /\ q \in Nat /\ d \in 0 .. BlockBytes /\ Len(T) \in Nat /\ w \in Seq(Symbols) /\ Len(w) \in Nat
  BY DEF Within, Absorbed, Piece
<1>1. Origin[q] \in Nat /\ BlockBytes \in Nat \ {0} /\ d \in Nat
  BY <1>0, Origins, Sizes
<1>2. (Origin[q] + d) + Len(w) <= Len(T) /\ \A i \in 1 .. Len(w) : w[i] = T[(Origin[q] + d) + i]
  BY Zenon DEF Piece
<1> DEFINE x == Load(c, d, w)
           n == Len(w)
<1>3. /\ c \in Ctxs /\ c.idx = d /\ c.bits = 8 * Origin[q] /\ Compressed(c.blocks, T, q)
      /\ \A i \in 0 .. BlockBytes - 1 : c.input[i] = IF i < d THEN T[(Origin[q] + i) + 1] ELSE Zero
  BY Zenon DEF Absorbed, Buffers
<1>4. /\ x \in Ctxs /\ x.idx = c.idx + n /\ x.bits = c.bits /\ x.blocks = c.blocks
      /\ \A i \in 0 .. BlockBytes - 1 : x.input[i] = IF i \in d .. d + n - 1 THEN w[i - d + 1] ELSE c.input[i]
  <2>1. Loads(c, d, w, x)
    BY <1>0, <1>1, <1>3, LoadTyped, Zenon
  <2> HIDE DEF x
  <2> QED BY <2>1, Zenon DEF Loads
<1> HIDE DEF x
<1>5. ASSUME NEW i \in 0 .. BlockBytes - 1
      PROVE  x.input[i] = IF i < d + n THEN T[(Origin[q] + i) + 1] ELSE Zero
  <2>1. CASE i \in d .. d + n - 1
    <3>1. i - d + 1 \in 1 .. n /\ i < d + n /\ (Origin[q] + d) + (i - d + 1) = (Origin[q] + i) + 1
      BY <1>0, <1>1, <2>1
    <3>2. w[i - d + 1] = T[(Origin[q] + i) + 1]
      BY <1>2, <3>1
    <3> QED BY <1>4, <2>1, <3>1, <3>2, Zenon
  <2>2. CASE i \notin d .. d + n - 1
    <3>1. i < d + n <=> i < d
      BY <1>0, <1>1, <2>2
    <3> QED BY <1>3, <1>4, <2>2, <3>1, Zenon
  <2> QED BY <2>1, <2>2
<1>6. Buffers(x.input, T, q, d + n)
  BY <1>5, Zenon DEF Buffers
<1>7. Within(T, q, d + n)
  BY <1>0, <1>1, <1>2 DEF Within
<1>8. Absorbed(x, T, q, d + n)
  BY <1>3, <1>4, <1>6, <1>7, Zenon DEF Absorbed
<1> QED BY <1>8, Zenon DEF x

LEMMA BlankInput ==
    /\ ShaInit.input \in [0 .. BlockBytes - 1 -> Cells]
    /\ \A i \in 0 .. BlockBytes - 1 : ShaInit.input[i] = Zero
<1>1. Zero \in Cells
  BY DEF Cells, Symbols
<1>2. ShaInit.input = [i \in 0 .. BlockBytes - 1 |-> Zero]
  BY DEF ShaInit
<1> QED BY <1>1, <1>2

\* A context with room for nothing compresses into one with nothing in it.
LEMMA CompressTyped ==
    ASSUME NEW c \in Ctxs
    PROVE  LET x == Compress(c)
           IN /\ x \in Ctxs /\ x.idx = 0 /\ x.bits = c.bits + (8 * BlockBytes) /\ x.input = ShaInit.input
              /\ x.blocks = Append(c.blocks, [bytes |-> [i \in 1 .. BlockBytes |-> c.input[i - 1]], bits |-> NoLength])
<1> DEFINE bytes == [i \in 1 .. BlockBytes |-> c.input[i - 1]]
           block == [bytes |-> bytes, bits |-> NoLength]
           bs == Append(c.blocks, block)
           n == c.bits + (8 * BlockBytes)
           in == ShaInit.input
           D == [0 .. BlockBytes - 1 -> Cells]
           x == [c EXCEPT !.blocks = bs, !.bits = n, !.idx = 0, !.input = in]
<1>0. BlockBytes \in Nat
  BY Sizes
<1>1. c \in [input : D, idx : Nat, bits : Nat, blocks : Seq(BlockSet)] /\ in \in D
  BY BlankInput, Zenon DEF Ctxs
<1>2. n \in Nat /\ c.blocks \in Seq(BlockSet)
  <2> HIDE DEF D
  <2> QED BY <1>0, <1>1
<1>3. bytes \in [1 .. BlockBytes -> Cells]
  <2>1. \A i \in 1 .. BlockBytes : i - 1 \in 0 .. BlockBytes - 1
    BY <1>0
  <2>2. c.input \in [0 .. BlockBytes - 1 -> Cells]
    BY DEF Ctxs
  <2> QED BY <2>1, <2>2
<1>4. block \in BlockSet
  <2> HIDE DEF bytes
  <2> QED BY <1>3 DEF BlockSet, NoLength
<1>5. bs \in Seq(BlockSet)
  <2> HIDE DEF block
  <2> QED BY <1>2, <1>4
<1>6. Compress(c) = x
  BY Zenon DEF Compress, Digested
<1> HIDE DEF D, bs, n, in
<1>7. x \in [input : D, idx : Nat, bits : Nat, blocks : Seq(BlockSet)]
  BY <1>1, <1>2, <1>5
<1>8. x.input = in /\ x.idx = 0 /\ x.bits = n /\ x.blocks = bs
  BY <1>1
<1>9. x \in Ctxs
  BY <1>7, Zenon DEF Ctxs, D
<1> HIDE DEF x
<1> QED BY <1>6, <1>8, <1>9, Zenon DEF n, in, bs, block, bytes

LEMMA CompressAbsorbs ==
    ASSUME NEW c, NEW T, NEW q, Absorbed(c, T, q, BlockBytes)
    PROVE  Absorbed(Compress(c), T, q + 1, 0)
<1>0. T \in Seq(Symbols) /\ q \in Nat /\ Len(T) \in Nat /\ Origin[q] + BlockBytes <= Len(T)
  BY DEF Within, Absorbed
<1>1. Origin[q] \in Nat /\ BlockBytes \in Nat \ {0} /\ Origin[q + 1] = Origin[q] + BlockBytes /\ q + 1 \in Nat
  BY <1>0, Origins, Sizes
<1>2. /\ c \in Ctxs /\ c.bits = 8 * Origin[q] /\ Len(c.blocks) = q /\ c.blocks \in Seq(BlockSet)
      /\ \A j \in 1 .. q : c.blocks[j] = BlockOf(T, j)
      /\ \A i \in 0 .. BlockBytes - 1 : c.input[i] = IF i < BlockBytes THEN T[(Origin[q] + i) + 1] ELSE Zero
  <2>1. c \in Ctxs /\ c.bits = 8 * Origin[q] /\ Compressed(c.blocks, T, q) /\ Buffers(c.input, T, q, BlockBytes)
    BY Zenon DEF Absorbed
  <2>2. c.blocks \in Seq(BlockSet)
    BY <2>1 DEF Ctxs
  <2> QED BY <2>1, <2>2, Zenon DEF Compressed, Buffers
<1> DEFINE x == Compress(c)
           bytes == [i \in 1 .. BlockBytes |-> c.input[i - 1]]
           block == [bytes |-> bytes, bits |-> NoLength]
<1>3. /\ x \in Ctxs /\ x.idx = 0 /\ x.bits = c.bits + (8 * BlockBytes) /\ x.input = ShaInit.input
      /\ x.blocks = Append(c.blocks, block)
  BY <1>2, CompressTyped
<1> HIDE DEF x
<1>4. block = BlockOf(T, q + 1)
  <2> DEFINE other == [i \in 1 .. BlockBytes |-> T[Origin[(q + 1) - 1] + i]]
  <2>1. (q + 1) - 1 = q
    BY <1>0
  <2>2. ASSUME NEW i \in 1 .. BlockBytes PROVE c.input[i - 1] = T[Origin[(q + 1) - 1] + i]
    <3>1. i - 1 \in 0 .. BlockBytes - 1 /\ i - 1 < BlockBytes /\ (Origin[q] + (i - 1)) + 1 = Origin[q] + i
      BY <1>1
    <3>2. c.input[i - 1] = T[(Origin[q] + (i - 1)) + 1]
      BY <1>2, <3>1, Zenon
    <3> QED BY <2>1, <3>1, <3>2, Zenon
  <2>3. bytes = other
    BY <2>2, Zenon
  <2> QED BY <2>3, Zenon DEF BlockOf
<1>5. Compressed(x.blocks, T, q + 1)
  <2> DEFINE bs == c.blocks
             b == BlockOf(T, q + 1)
  <2>1. bs \in Seq(BlockSet) /\ Len(bs) = q /\ x.blocks = Append(bs, b) /\ \A j \in 1 .. q : bs[j] = BlockOf(T, j)
    BY <1>2, <1>3, <1>4, Zenon
  <2> HIDE DEF bs, b
  <2>2. Len(Append(bs, b)) = q + 1 /\ Append(bs, b)[q + 1] = b /\ \A j \in 1 .. q : Append(bs, b)[j] = bs[j]
    BY <1>0, <2>1
  <2>3. \A j \in 1 .. q + 1 : j \in 1 .. q \/ j = q + 1
    BY <1>0
  <2> QED BY <2>1, <2>2, <2>3, Zenon DEF Compressed, b
<1>6. Buffers(x.input, T, q + 1, 0)
  <2>1. \A i \in 0 .. BlockBytes - 1 : ~(i < 0)
    BY <1>1
  <2> QED BY <1>3, <2>1, BlankInput, Zenon DEF Buffers
<1>7. Within(T, q + 1, 0) /\ c.bits + (8 * BlockBytes) = 8 * Origin[q + 1]
  BY <1>0, <1>1, <1>2 DEF Within
<1>8. Absorbed(x, T, q + 1, 0)
  BY <1>3, <1>5, <1>6, <1>7, Zenon DEF Absorbed
<1> QED BY <1>8, Zenon DEF x

\* A piece cut in two.
CutAt(T, p, w, n) ==
    /\ Piece(T, p, SubSeq(w, 1, n)) /\ Len(SubSeq(w, 1, n)) = n
    /\ Piece(T, p + n, From(w, n)) /\ Len(From(w, n)) = Len(w) - n

LEMMA PieceSplit ==
    ASSUME NEW T \in Seq(Symbols), NEW p, NEW w, Piece(T, p, w), NEW n \in 0 .. Len(w)
    PROVE  CutAt(T, p, w, n)
<1>0. w \in Seq(Symbols) /\ p \in Nat /\ p + Len(w) <= Len(T) /\ Len(w) \in Nat /\ Len(T) \in Nat
      /\ \A i \in 1 .. Len(w) : w[i] = T[p + i]
  BY DEF Piece
<1> DEFINE a == SubSeq(w, 1, n)
           b == SubSeq(w, n + 1, Len(w))
<1>1. a \in Seq(Symbols) /\ Len(a) = n /\ \A i \in 1 .. n : a[i] = w[i]
  BY <1>0
<1>2. b \in Seq(Symbols) /\ Len(b) = Len(w) - n /\ \A i \in 1 .. Len(w) - n : b[i] = w[n + i]
  BY <1>0
<1> HIDE DEF a, b
<1>3. Piece(T, p, a)
  <2>1. p + Len(a) <= Len(T) /\ \A i \in 1 .. Len(a) : i \in 1 .. Len(w)
    BY <1>0, <1>1
  <2> QED BY <1>0, <1>1, <2>1, Zenon DEF Piece
<1>4. Piece(T, p + n, b)
  <2>1. p + n \in Nat /\ (p + n) + Len(b) <= Len(T)
    BY <1>0, <1>2
  <2>2. ASSUME NEW i \in 1 .. Len(b) PROVE b[i] = T[(p + n) + i]
    <3>1. n + i \in 1 .. Len(w) /\ p + (n + i) = (p + n) + i /\ i \in 1 .. Len(w) - n
      BY <1>0, <1>2
    <3>2. w[n + i] = T[p + (n + i)] /\ b[i] = w[n + i]
      BY <1>0, <1>2, <3>1
    <3> QED BY <3>1, <3>2
  <2> QED BY <1>2, <2>1, <2>2, Zenon DEF Piece
<1> QED BY <1>1, <1>2, <1>3, <1>4, Zenon DEF a, b, From, CutAt

\* The two loops of crypto_sha512_update().
PutBytes(c, w) == FoldLeft(PutByte, c, w)
TakeBlocks(c, pieces) == FoldLeft(LAMBDA a, b : Compress(Load(a, 0, b)), c, pieces)

LEMMA PutKeeps ==
    ASSUME NEW c \in Ctxs, NEW b \in Symbols
    PROVE  PutByte(c, b) \in Ctxs
<1> DEFINE cell == IF c.input[c.idx] = Zero THEN b ELSE "mixed"
           in == [c.input EXCEPT ![c.idx] = cell]
<1>1. cell \in Cells
  BY DEF Cells
<1>2. c.input \in [0 .. BlockBytes - 1 -> Cells] /\ c.idx \in Nat
  BY DEF Ctxs
<1>3. in \in [0 .. BlockBytes - 1 -> Cells]
  <2> DEFINE D == 0 .. BlockBytes - 1
             f == c.input
             k == c.idx
  <2> HIDE DEF D, cell, f, k
  <2>1. f \in [D -> Cells]
    BY <1>2 DEF D, f
  <2>2. [f EXCEPT ![k] = cell] \in [D -> Cells]
    BY <1>1, <2>1
  <2> QED BY <2>2, Zenon DEF D, f, k
<1> DEFINE mid == [c EXCEPT !.input = in]
           out == [mid EXCEPT !.idx = c.idx + 1]
<1>4. SetInput(c, b) = mid
  BY Zenon DEF SetInput
<1> HIDE DEF in
<1>5. mid \in Ctxs /\ mid.idx = c.idx
  BY <1>3 DEF Ctxs
<1>6. PutByte(c, b) = out
  <2>1. PutByte(c, b) = [mid EXCEPT !.idx = mid.idx + 1]
    BY <1>4, Zenon DEF PutByte
  <2> QED BY <1>5, <2>1, Zenon
<1> HIDE DEF mid
<1>7. out \in Ctxs
  BY <1>2, <1>5 DEF Ctxs
<1> QED BY <1>6, <1>7, Zenon

LEMMA BlockKeeps ==
    ASSUME NEW c \in Ctxs, NEW b \in Seq(Symbols)
    PROVE  Compress(Load(c, 0, b)) \in Ctxs
<1>1. 0 \in Nat
  OBVIOUS
<1>2. Load(c, 0, b) \in Ctxs
  BY <1>1, LoadTyped, Zenon DEF Loads
<1> QED BY <1>2, CompressTyped, Zenon

Elements(s, n, V) == DOMAIN s = 1 .. n /\ \A k \in 1 .. n : s[k] \in V
PutRun(h, c, w, n) ==
    /\ h \in [0 .. n -> Ctxs] /\ h[0] = c /\ \A k \in 1 .. n : h[k] = PutByte(h[k - 1], w[k])
    /\ PutBytes(c, w) = h[n]
BlockRun(h, c, pieces, n) ==
    /\ h \in [0 .. n -> Ctxs] /\ h[0] = c /\ \A k \in 1 .. n : h[k] = Compress(Load(h[k - 1], 0, pieces[k]))
    /\ TakeBlocks(c, pieces) = h[n]

\* The context after each byte of a piece.
LEMMA PutHistory ==
    ASSUME NEW acc \in Ctxs, NEW n \in Nat, NEW bytes, Elements(bytes, n, Symbols)
    PROVE  \E h : PutRun(h, acc, bytes, n)
<1>0. DOMAIN bytes = 1 .. n /\ \A k \in 1 .. n : bytes[k] \in Symbols
  BY Zenon DEF Elements
<1> DEFINE step == [p \in (1 .. n) \X Ctxs |-> PutByte(p[2], bytes[p[1]])]
           g == CHOOSE g : g = [s \in SUBSET DOMAIN bytes |->
                                  IF s = {} THEN acc ELSE PutByte(g[s \ {Max(s)}], bytes[Max(s)])]
<1>1. Folds(n, Ctxs, acc, step)
  BY <1>0, PutKeeps DEF Folds
<1>2. PICK f \in [SUBSET (1 .. n) -> Ctxs] : IsFold(f, n, acc, step)
  <2> HIDE DEF step
  <2> QED BY <1>1, FoldExists
<1>3. \A k \in 1 .. n, v \in Ctxs : step[<<k, v>>] = PutByte(v, bytes[k])
  OBVIOUS
<1>4. f = [s \in SUBSET DOMAIN bytes |-> IF s = {} THEN acc ELSE PutByte(f[s \ {Max(s)}], bytes[Max(s)])]
  <2> SUFFICES ASSUME NEW s \in SUBSET (1 .. n), s # {}
               PROVE  step[<<Max(s), f[s \ {Max(s)}]>>] = PutByte(f[s \ {Max(s)}], bytes[Max(s)])
    <3> HIDE DEF step
    <3> QED BY <1>0, <1>2 DEF IsFold
  <2>1. Max(s) \in 1 .. n /\ f[s \ {Max(s)}] \in Ctxs
    BY <1>0, MaxOf
  <2> HIDE DEF step
  <2> QED BY <1>0, <1>3, <2>1
<1>5. g = [s \in SUBSET DOMAIN bytes |-> IF s = {} THEN acc ELSE PutByte(g[s \ {Max(s)}], bytes[Max(s)])]
  BY <1>4, Zenon
<1>6. PutBytes(acc, bytes) = g[DOMAIN bytes]
  BY Zenon DEF PutBytes, FoldLeft, MapThenFoldSet
<1> HIDE DEF g, step
<1>7. g[{}] = acc
  BY <1>0, <1>5
<1>8. ASSUME NEW k \in 1 .. n, g[1 .. (k - 1)] \in Ctxs
      PROVE  g[1 .. k] = step[<<k, g[1 .. (k - 1)]>>]
  <2>1. 1 .. k \in SUBSET (1 .. n) /\ 1 .. k # {} /\ Max(1 .. k) = k /\ (1 .. k) \ {Max(1 .. k)} = 1 .. (k - 1)
    BY MaxInterval
  <2>2. g[1 .. k] = PutByte(g[(1 .. k) \ {Max(1 .. k)}], bytes[Max(1 .. k)])
    BY <1>0, <1>5, <2>1
  <2> QED BY <1>3, <1>8, <2>1, <2>2
<1>9. /\ \A k \in 0 .. n : g[1 .. k] \in Ctxs
      /\ \A k \in 1 .. n : g[1 .. k] = step[<<k, g[1 .. (k - 1)]>>]
  BY <1>1, <1>7, <1>8, FoldRuns
<1> DEFINE h == [k \in 0 .. n |-> g[1 .. k]]
<1>10. h \in [0 .. n -> Ctxs]
  BY <1>9
<1>11. h[0] = acc
  <2>1. 1 .. 0 = {} /\ 0 \in 0 .. n
    OBVIOUS
  <2> QED BY <1>7, <2>1
<1>12. ASSUME NEW k \in 1 .. n PROVE h[k] = PutByte(h[k - 1], bytes[k])
  <2>1. k \in 0 .. n /\ k - 1 \in 0 .. n
    OBVIOUS
  <2>2. g[1 .. k] = PutByte(g[1 .. (k - 1)], bytes[k])
    BY <1>3, <1>9, <2>1
  <2> QED BY <2>1, <2>2
<1>13. PutBytes(acc, bytes) = h[n]
  <2>1. n \in 0 .. n
    OBVIOUS
  <2> QED BY <1>0, <1>6, <2>1
<1> HIDE DEF h
<1>14. PutRun(h, acc, bytes, n)
  BY <1>10, <1>11, <1>12, <1>13, Zenon DEF PutRun
<1> QED BY <1>14, Zenon

\* The context after each whole block.
LEMMA BlockHistory ==
    ASSUME NEW acc \in Ctxs, NEW n \in Nat, NEW pieces, Elements(pieces, n, Seq(Symbols))
    PROVE  \E h : BlockRun(h, acc, pieces, n)
<1>0. DOMAIN pieces = 1 .. n /\ \A k \in 1 .. n : pieces[k] \in Seq(Symbols)
  BY Zenon DEF Elements
<1> DEFINE step == [p \in (1 .. n) \X Ctxs |-> Compress(Load(p[2], 0, pieces[p[1]]))]
           g == CHOOSE g : g = [s \in SUBSET DOMAIN pieces |->
                                  IF s = {} THEN acc ELSE Compress(Load(g[s \ {Max(s)}], 0, pieces[Max(s)]))]
<1>1. Folds(n, Ctxs, acc, step)
  BY <1>0, BlockKeeps DEF Folds
<1>2. PICK f \in [SUBSET (1 .. n) -> Ctxs] : IsFold(f, n, acc, step)
  <2> HIDE DEF step
  <2> QED BY <1>1, FoldExists
<1>3. \A k \in 1 .. n, v \in Ctxs : step[<<k, v>>] = Compress(Load(v, 0, pieces[k]))
  OBVIOUS
<1>4. f = [s \in SUBSET DOMAIN pieces |-> IF s = {} THEN acc ELSE Compress(Load(f[s \ {Max(s)}], 0, pieces[Max(s)]))]
  <2> SUFFICES ASSUME NEW s \in SUBSET (1 .. n), s # {}
               PROVE  step[<<Max(s), f[s \ {Max(s)}]>>] = Compress(Load(f[s \ {Max(s)}], 0, pieces[Max(s)]))
    <3> HIDE DEF step
    <3> QED BY <1>0, <1>2 DEF IsFold
  <2>1. Max(s) \in 1 .. n /\ f[s \ {Max(s)}] \in Ctxs
    BY <1>0, MaxOf
  <2> HIDE DEF step
  <2> QED BY <1>0, <1>3, <2>1
<1>5. g = [s \in SUBSET DOMAIN pieces |-> IF s = {} THEN acc ELSE Compress(Load(g[s \ {Max(s)}], 0, pieces[Max(s)]))]
  BY <1>4, Zenon
<1>6. TakeBlocks(acc, pieces) = g[DOMAIN pieces]
  BY Zenon DEF TakeBlocks, FoldLeft, MapThenFoldSet
<1> HIDE DEF g, step
<1>7. g[{}] = acc
  BY <1>0, <1>5
<1>8. ASSUME NEW k \in 1 .. n, g[1 .. (k - 1)] \in Ctxs
      PROVE  g[1 .. k] = step[<<k, g[1 .. (k - 1)]>>]
  <2>1. 1 .. k \in SUBSET (1 .. n) /\ 1 .. k # {} /\ Max(1 .. k) = k /\ (1 .. k) \ {Max(1 .. k)} = 1 .. (k - 1)
    BY MaxInterval
  <2>2. g[1 .. k] = Compress(Load(g[(1 .. k) \ {Max(1 .. k)}], 0, pieces[Max(1 .. k)]))
    BY <1>0, <1>5, <2>1
  <2> QED BY <1>3, <1>8, <2>1, <2>2
<1>9. /\ \A k \in 0 .. n : g[1 .. k] \in Ctxs
      /\ \A k \in 1 .. n : g[1 .. k] = step[<<k, g[1 .. (k - 1)]>>]
  <2>1. \A k \in 1 .. n : g[1 .. (k - 1)] \in Ctxs => g[1 .. k] = step[<<k, g[1 .. (k - 1)]>>]
    BY <1>8, Zenon
  <2>2. Folds(n, Ctxs, acc, step) /\ g[{}] = acc
    BY <1>1, <1>7, Zenon
  <2> DEFINE V == Ctxs
  <2>3. Folds(n, V, acc, step) /\ \A k \in 1 .. n : g[1 .. (k - 1)] \in V => g[1 .. k] = step[<<k, g[1 .. (k - 1)]>>]
    BY <2>1, <2>2, Zenon
  <2> HIDE DEF V
  <2>4. /\ \A k \in 0 .. n : g[1 .. k] \in V
        /\ \A k \in 1 .. n : g[1 .. k] = step[<<k, g[1 .. (k - 1)]>>]
    BY <2>2, <2>3, FoldRuns
  <2> QED BY <2>4, Zenon DEF V
<1> DEFINE h == [k \in 0 .. n |-> g[1 .. k]]
<1>10. h \in [0 .. n -> Ctxs]
  BY <1>9
<1>11. h[0] = acc
  <2>1. 1 .. 0 = {} /\ 0 \in 0 .. n
    OBVIOUS
  <2> QED BY <1>7, <2>1
<1>12. ASSUME NEW k \in 1 .. n PROVE h[k] = Compress(Load(h[k - 1], 0, pieces[k]))
  <2>1. k \in 0 .. n /\ k - 1 \in 0 .. n
    OBVIOUS
  <2>2. g[1 .. k] = Compress(Load(g[1 .. (k - 1)], 0, pieces[k]))
    BY <1>3, <1>9, <2>1
  <2> QED BY <2>1, <2>2
<1>13. TakeBlocks(acc, pieces) = h[n]
  <2>1. n \in 0 .. n
    OBVIOUS
  <2> QED BY <1>0, <1>6, <2>1
<1> HIDE DEF h
<1>14. BlockRun(h, acc, pieces, n)
  BY <1>10, <1>11, <1>12, <1>13, Zenon DEF BlockRun
<1> QED BY <1>14, Zenon

LEMMA PutsAbsorb ==
    ASSUME NEW c, NEW T, NEW q, NEW d, Absorbed(c, T, q, d),
           NEW w, Piece(T, Origin[q] + d, w), d + Len(w) <= BlockBytes
    PROVE  Absorbed(PutBytes(c, w), T, q, d + Len(w))
<1> DEFINE n == Len(w)
<1>0. /\ T \in Seq(Symbols) /\ q \in Nat /\ d \in 0 .. BlockBytes /\ Len(T) \in Nat /\ n \in Nat /\ c \in Ctxs
      /\ DOMAIN w = 1 .. n /\ \A k \in 1 .. n : w[k] \in Symbols
  BY DEF Within, Absorbed, Piece
<1>1. Origin[q] \in Nat /\ BlockBytes \in Nat \ {0} /\ d \in Nat
  BY <1>0, Origins, Sizes
<1>2. (Origin[q] + d) + n <= Len(T) /\ \A i \in 1 .. n : w[i] = T[(Origin[q] + d) + i]
  BY Zenon DEF Piece
<1>3. d + n <= BlockBytes
  OBVIOUS
<1> HIDE DEF n
<1>9. PICK h : PutRun(h, c, w, n)
  <2>1. Elements(w, n, Symbols)
    BY <1>0, Zenon DEF Elements
  <2> QED BY <1>0, <2>1, PutHistory, Zenon
<1>4. h[0] = c /\ (\A k \in 1 .. n : h[k] = PutByte(h[k - 1], w[k])) /\ PutBytes(c, w) = h[n]
  BY <1>9, Zenon DEF PutRun
<1> DEFINE S == {k \in Nat : k <= n => Absorbed(h[k], T, q, d + k)}
<1>5. 0 \in S
  <2>1. d + 0 = d
    BY <1>1
  <2> QED BY <1>4, <2>1
<1>6. ASSUME NEW k \in S PROVE k + 1 \in S
  <2> SUFFICES ASSUME k + 1 <= n PROVE Absorbed(h[k + 1], T, q, d + (k + 1))
    OBVIOUS
  <2>1. k \in Nat /\ k <= n /\ k + 1 \in 1 .. n /\ (k + 1) - 1 = k /\ d + (k + 1) = (d + k) + 1
    BY <1>0, <1>1
  <2>2. Absorbed(h[k], T, q, d + k)
    BY <2>1
  <2>3. h[k + 1] = PutByte(h[k], T[(Origin[q] + (d + k)) + 1])
    <3>1. w[k + 1] = T[(Origin[q] + d) + (k + 1)]
      BY <1>2, <2>1, Zenon
    <3>3. (Origin[q] + d) + (k + 1) = (Origin[q] + (d + k)) + 1
      BY <1>1, <2>1
    <3>2. h[k + 1] = PutByte(h[k], w[k + 1])
      BY <1>4, <2>1
    <3> QED BY <3>1, <3>2, <3>3, Zenon
  <2>4. Within(T, q, (d + k) + 1)
    BY <1>0, <1>1, <1>2, <1>3, <2>1 DEF Within
  <2> HIDE DEF S
  <2>5. Absorbed(h[k + 1], T, q, (d + k) + 1)
    BY <2>2, <2>3, <2>4, PutAbsorbs, Zenon
  <2> QED BY <2>1, <2>5, Zenon
<1>7. S = Nat
  <2>1. S \in SUBSET Nat
    OBVIOUS
  <2> HIDE DEF S
  <2> QED BY <1>5, <1>6, <2>1, Induction
<1>8. Absorbed(h[n], T, q, d + n)
  BY <1>0, <1>7
<1> QED BY <1>4, <1>8, Zenon DEF n

\* Whole blocks of a piece, one after the other.
BlockPieces(w, k) == [i \in 1 .. k |-> SubSeq(w, (i - 1) * BlockBytes + 1, i * BlockBytes)]

LEMMA BlockPiece ==
    ASSUME NEW T \in Seq(Symbols), NEW q \in Nat, NEW w, Piece(T, Origin[q], w),
           NEW k \in Nat, Origin[k] <= Len(w), NEW i \in 1 .. k
    PROVE  /\ Piece(T, Origin[q + (i - 1)], BlockPieces(w, k)[i]) /\ Len(BlockPieces(w, k)[i]) = BlockBytes
           /\ BlockPieces(w, k)[i] \in Seq(Symbols)
<1>0. /\ w \in Seq(Symbols) /\ Len(w) \in Nat /\ Len(T) \in Nat /\ Origin[q] + Len(w) <= Len(T)
      /\ \A j \in 1 .. Len(w) : w[j] = T[Origin[q] + j]
  BY DEF Piece
<1>1. BlockBytes \in Nat \ {0} /\ i - 1 \in Nat /\ i \in Nat /\ q + (i - 1) \in Nat /\ i <= k /\ (i - 1) + 1 = i
  BY Sizes
<1>2. /\ Origin[q] \in Nat /\ Origin[i - 1] \in Nat /\ Origin[i] = Origin[i - 1] + BlockBytes /\ Origin[i] <= Origin[k]
      /\ (i - 1) * BlockBytes = Origin[i - 1] /\ i * BlockBytes = Origin[i] /\ Origin[k] \in Nat
  BY <1>1, Origins, OriginsOrdered
<1>3. Origin[q + (i - 1)] = Origin[q] + Origin[i - 1]
  <2>1. (q + (i - 1)) * BlockBytes = (q * BlockBytes) + ((i - 1) * BlockBytes)
    BY <1>1
  <2> QED BY <1>1, <2>1, Origins
<1> DEFINE o == Origin[i - 1]
           b == SubSeq(w, o + 1, o + BlockBytes)
<1>4. BlockPieces(w, k)[i] = b
  BY <1>2, Zenon DEF BlockPieces
<1>5. o \in Nat /\ o + BlockBytes <= Len(w)
  <2> HIDE DEF o
  <2>1. o \in Nat /\ Origin[i] = o + BlockBytes
    BY <1>2, Zenon DEF o
  <2> QED BY <1>0, <1>1, <1>2, <2>1
<1> HIDE DEF o
<1>6. b \in Seq(Symbols) /\ Len(b) = BlockBytes /\ \A j \in 1 .. BlockBytes : b[j] = w[o + j]
  BY <1>0, <1>1, <1>5
<1> HIDE DEF b
<1>7. ASSUME NEW j \in 1 .. BlockBytes PROVE b[j] = T[(Origin[q] + o) + j]
  <2>1. o + j \in 1 .. Len(w) /\ Origin[q] + (o + j) = (Origin[q] + o) + j
    BY <1>0, <1>1, <1>2, <1>5
  <2>2. w[o + j] = T[Origin[q] + (o + j)] /\ b[j] = w[o + j]
    BY <1>0, <1>6, <2>1
  <2> QED BY <2>1, <2>2
<1>8. Piece(T, Origin[q] + o, b)
  <2>1. Origin[q] + o \in Nat /\ (Origin[q] + o) + Len(b) <= Len(T)
    <3> DEFINE p == Origin[q]
    <3>1. p \in Nat /\ p + Len(w) <= Len(T)
      BY <1>0, <1>2, Zenon
    <3> HIDE DEF p
    <3>2. p + o \in Nat /\ (p + o) + Len(b) <= Len(T)
      BY <1>0, <1>1, <1>5, <1>6, <3>1
    <3> QED BY <3>2, Zenon DEF p
  <2> QED BY <1>6, <1>7, <2>1, Zenon DEF Piece
<1> QED BY <1>3, <1>4, <1>6, <1>8, Zenon DEF o

LEMMA BlocksAbsorb ==
    ASSUME NEW c, NEW T, NEW q, Absorbed(c, T, q, 0),
           NEW w, Piece(T, Origin[q], w), NEW n \in Nat, Origin[n] <= Len(w)
    PROVE  Absorbed(TakeBlocks(c, BlockPieces(w, n)), T, q + n, 0)
<1>0. T \in Seq(Symbols) /\ q \in Nat /\ c \in Ctxs /\ BlockBytes \in Nat \ {0}
  BY Sizes DEF Within, Absorbed
<1> DEFINE bs == BlockPieces(w, n)
<1>1. DOMAIN bs = 1 .. n
  BY Zenon DEF BlockPieces
<1>2. \A k \in 1 .. n : bs[k] \in Seq(Symbols) /\ Len(bs[k]) = BlockBytes /\ Piece(T, Origin[q + (k - 1)], bs[k])
  BY <1>0, BlockPiece, Zenon
<1> HIDE DEF bs
<1>9. PICK h : BlockRun(h, c, bs, n)
  <2>1. Elements(bs, n, Seq(Symbols))
    BY <1>1, <1>2, Zenon DEF Elements
  <2> QED BY <1>0, <2>1, BlockHistory, Zenon
<1>4. h[0] = c /\ (\A k \in 1 .. n : h[k] = Compress(Load(h[k - 1], 0, bs[k]))) /\ TakeBlocks(c, bs) = h[n]
  BY <1>9, Zenon DEF BlockRun
<1> DEFINE S == {k \in Nat : k <= n => Absorbed(h[k], T, q + k, 0)}
<1>5. 0 \in S
  <2>1. q + 0 = q
    BY <1>0
  <2> QED BY <1>4, <2>1
<1>6. ASSUME NEW k \in S PROVE k + 1 \in S
  <2> SUFFICES ASSUME k + 1 <= n PROVE Absorbed(h[k + 1], T, q + (k + 1), 0)
    OBVIOUS
  <2>1. k \in Nat /\ k <= n /\ k + 1 \in 1 .. n /\ (k + 1) - 1 = k /\ q + (k + 1) = (q + k) + 1 /\ q + k \in Nat
    BY <1>0
  <2>2. Absorbed(h[k], T, q + k, 0)
    BY <2>1
  <2> HIDE DEF S
  <2>3. h[k + 1] = Compress(Load(h[k], 0, bs[k + 1]))
    BY <1>4, <2>1, Zenon
  <2>4. Len(bs[k + 1]) = BlockBytes /\ Piece(T, Origin[q + k], bs[k + 1])
    BY <1>2, <2>1, Zenon
  <2>5. Origin[q + k] + 0 = Origin[q + k] /\ 0 + BlockBytes = BlockBytes /\ BlockBytes <= BlockBytes
    <3>1. Origin[q + k] \in Nat
      BY <2>1, Origins, Zenon
    <3> QED BY <1>0, <3>1
  <2>6. Absorbed(Load(h[k], 0, bs[k + 1]), T, q + k, BlockBytes)
    BY <2>2, <2>4, <2>5, LoadAbsorbs, Zenon
  <2>7. Absorbed(h[k + 1], T, (q + k) + 1, 0)
    BY <2>3, <2>6, CompressAbsorbs, Zenon
  <2> QED BY <2>1, <2>7, Zenon
<1>7. S = Nat
  <2>1. S \in SUBSET Nat
    OBVIOUS
  <2> HIDE DEF S
  <2> QED BY <1>5, <1>6, <2>1, Induction
<1>8. Absorbed(h[n], T, q + n, 0)
  BY <1>7
<1> QED BY <1>4, <1>8, Zenon DEF bs

\* How many bytes of l bring the index d to a word boundary.
ToWord(d, l) == IF d % WordBytes = 0 THEN 0 ELSE AtMost(WordBytes - (d % WordBytes), l)

LEMMA WordStep ==
    ASSUME NEW d \in Nat, d < BlockBytes, NEW l \in Nat
    PROVE  /\ ToWord(d, l) \in 0 .. l /\ d + ToWord(d, l) \in 0 .. BlockBytes
           /\ ToWord(d, l) < l => (d + ToWord(d, l)) % WordBytes = 0
<1> DEFINE w == WordBytes
           e == d \div w
           r == d % w
           n == ToWord(d, l)
<1>0. w \in Nat \ {0} /\ BlockBytes = 4 * w /\ BlockBytes \in Nat
  BY Sizes
<1>1. e \in Nat /\ r \in Nat /\ r < w /\ e * w \in Nat /\ d = (e * w) + r
  BY <1>0, Divided
<1>2. n = IF r = 0 THEN 0 ELSE IF w - r <= l THEN w - r ELSE l
  BY Zenon DEF ToWord, AtMost
<1>3. e < 4 /\ (e * w) + w <= 4 * w
  <2> HIDE DEF e, r, w
  <2>1. (4 <= e => 4 * w <= e * w) /\ (e < 4 => (e * w) + w <= 4 * w)
    BY <1>0, <1>1, Multiples
  <2> QED BY <1>0, <1>1, <2>1
<1>4. n \in 0 .. l /\ d + n \in 0 .. BlockBytes
  <2> HIDE DEF e, r, w, n
  <2> DEFINE x == e * w
  <2> HIDE DEF x
  <2>1. x \in Nat /\ d = x + r /\ x + w <= 4 * w
    BY <1>1, <1>3 DEF x
  <2> QED BY <1>0, <1>1, <1>2, <2>1
<1>5. ASSUME n < l PROVE (d + n) % w = 0
  <2>1. CASE r = 0
    <3>1. n = 0
      BY <1>2, <2>1, Zenon
    <3>2. d + n = d
      BY <3>1
    <3> QED BY <2>1, <3>2, Zenon
  <2>2. CASE r # 0
    <3> HIDE DEF e, r, w, n
    <3>1. n = w - r
      BY <1>0, <1>1, <1>2, <1>5, <2>2
    <3>2. (e + 1) * w = (e * w) + w /\ e + 1 \in Nat
      BY <1>0, <1>1, Multiples
    <3> DEFINE x == e * w
    <3>3. x \in Nat /\ d = x + r /\ (e + 1) * w = x + w
      BY <1>1, <3>2
    <3> HIDE DEF x
    <3>4. d + n = (e + 1) * w /\ d + n \in Nat
      BY <1>0, <1>1, <3>1, <3>3
    <3>5. (e + 1) * w <= d + n /\ d + n < ((e + 1) * w) + w /\ (d + n) - ((e + 1) * w) = 0
      BY <1>0, <3>4
    <3> QED BY <1>0, <3>2, <3>4, <3>5, QuotientIs
  <2> QED BY <2>1, <2>2
<1> QED BY <1>4, <1>5

\* How many of l bytes, in whole words, bring the index d to a block boundary.
ToBlock(d, l) ==
    IF d % BlockBytes = 0 THEN 0 ELSE (AtMost(BlockBytes - (d % BlockBytes), l) \div WordBytes) * WordBytes

\* Nothing is in the block, the block is full, or less than a word is left.
LEMMA BlockStep ==
    ASSUME NEW d \in 0 .. BlockBytes, NEW l \in Nat, l # 0 => d % WordBytes = 0
    PROVE  /\ ToBlock(d, l) \in 0 .. l /\ d + ToBlock(d, l) \in 0 .. BlockBytes
           /\ \/ d + ToBlock(d, l) \in {0, BlockBytes}
              \/ l - ToBlock(d, l) < WordBytes /\ (d + ToBlock(d, l)) + (l - ToBlock(d, l)) < BlockBytes
<1> DEFINE w == WordBytes
           n == ToBlock(d, l)
<1>0. w \in Nat \ {0} /\ BlockBytes = 4 * w /\ BlockBytes \in Nat \ {0} /\ d \in Nat
  BY Sizes
<1>1. CASE d \in {0, BlockBytes}
  <2>1. d % BlockBytes = 0
    <3>1. 0 * BlockBytes = 0 /\ 1 * BlockBytes = BlockBytes
      BY <1>0
    <3>2. CASE d = 0
      <4>1. 0 * BlockBytes <= d /\ d < (0 * BlockBytes) + BlockBytes /\ d - (0 * BlockBytes) = 0
        BY <1>0, <3>1, <3>2
      <4> QED BY <1>0, <4>1, QuotientIs
    <3>3. CASE d = BlockBytes
      <4>1. 1 * BlockBytes <= d /\ d < (1 * BlockBytes) + BlockBytes /\ d - (1 * BlockBytes) = 0
        BY <1>0, <3>1, <3>3
      <4> QED BY <1>0, <4>1, QuotientIs
    <3> QED BY <1>1, <3>2, <3>3
  <2>2. n = 0
    BY <2>1, Zenon DEF ToBlock
  <2> HIDE DEF n
  <2> QED BY <1>0, <1>1, <2>2 DEF n
<1>2. CASE d \notin {0, BlockBytes}
  <2> DEFINE a == IF BlockBytes - d <= l THEN BlockBytes - d ELSE l
             u == a \div w
             r == a % w
  <2>1. d % BlockBytes = d
    <3>1. 0 * BlockBytes = 0
      BY <1>0
    <3>2. 0 * BlockBytes <= d /\ d < (0 * BlockBytes) + BlockBytes /\ d - (0 * BlockBytes) = d
      BY <1>0, <1>2, <3>1
    <3> QED BY <1>0, <3>2, QuotientIs
  <2>2. n = u * w
    <3>1. d % BlockBytes # 0
      BY <1>2, <2>1
    <3> QED BY <2>1, <3>1, Zenon DEF ToBlock, AtMost
  <2>3. a \in Nat /\ a <= l /\ a <= BlockBytes - d
    BY <1>0, <1>2
  <2> HIDE DEF a
  <2>4. u \in Nat /\ r \in Nat /\ r < w /\ u * w \in Nat /\ a = (u * w) + r
    BY <1>0, <2>3, Divided
  <2> HIDE DEF u, r, n, w
  <2>5. n \in Nat /\ a = n + r /\ n \in 0 .. l /\ d + n \in 0 .. BlockBytes
    <3>1. n \in Nat /\ a = n + r
      BY <2>2, <2>4
    <3> QED BY <1>0, <2>3, <2>4, <3>1
  <2>6. d + n \in {0, BlockBytes} \/ (l - n < w /\ (d + n) + (l - n) < BlockBytes)
    <3>1. CASE l = 0
      BY <1>0, <1>2, <2>5, <3>1
    <3>2. CASE l # 0
      <4> DEFINE e == d \div w
      <4>1. e \in Nat /\ e * w \in Nat /\ d = e * w
        <5>1. d % w = 0
          BY <3>2 DEF w
        <5>2. e \in Nat /\ d % w \in Nat /\ e * w \in Nat /\ d = (e * w) + (d % w)
          BY <1>0, Divided
        <5> HIDE DEF e
        <5> QED BY <5>1, <5>2
      <4> HIDE DEF e
      <4>2. e < 4 /\ e * w < 4 * w
        <5>1. 4 <= e => 4 * w <= e * w
          BY <1>0, <4>1, Multiples
        <5> QED BY <1>0, <1>2, <4>1, <5>1
      <4>3. CASE BlockBytes - d <= l
        <5>1. a = BlockBytes - d
          BY <4>3, Zenon DEF a
        <5>2. 4 - e \in Nat /\ (4 - e) * w = (4 * w) - (e * w)
          BY <1>0, <4>1, <4>2
        <5>3. (4 - e) * w = a
          BY <1>0, <4>1, <5>1, <5>2
        <5> DEFINE g == 4 - e
        <5>4. g \in Nat /\ g * w <= a /\ a < (g * w) + w
          BY <1>0, <2>3, <5>2, <5>3
        <5> HIDE DEF g
        <5>5. u = g
          BY <1>0, <2>3, <5>4, QuotientIs DEF u
        <5>6. n = a
          BY <2>2, <5>3, <5>5, Zenon DEF g
        <5> QED BY <1>0, <5>1, <5>6
      <4>4. CASE ~(BlockBytes - d <= l)
        <5>1. a = l
          BY <4>4, Zenon DEF a
        <5>2. l - n = r /\ d + n <= d + l /\ d + l < BlockBytes
          BY <1>0, <2>4, <2>5, <4>4, <5>1
        <5>3. (e + u) * w = (e * w) + (u * w) /\ e + u \in Nat
          BY <1>0, <2>4, <4>1
        <5>4. (e + u) * w = d + n
          BY <2>2, <4>1, <5>3
        <5>5. (4 <= e + u => 4 * w <= (e + u) * w) /\ (e + u < 4 => ((e + u) * w) + w <= 4 * w)
          BY <1>0, <5>3, Multiples
        <5>6. (d + n) + w <= BlockBytes
          BY <1>0, <2>5, <5>2, <5>3, <5>4, <5>5
        <5> QED BY <1>0, <2>4, <2>5, <5>2, <5>6
      <4> QED BY <4>3, <4>4
    <3> QED BY <3>1, <3>2
  <2> QED BY <2>5, <2>6 DEF n, w
<1> QED BY <1>1, <1>2

\* The context has taken the first p bytes of T and keeps less than a block.
Reaches(c, T, p) == \E q, d : Absorbed(c, T, q, d) /\ d < BlockBytes /\ Origin[q] + d = p

LEMMA AbsorbedTypes ==
    ASSUME NEW c, NEW T, NEW q, NEW d, Absorbed(c, T, q, d)
    PROVE  /\ c \in Ctxs /\ c.idx = d /\ T \in Seq(Symbols) /\ q \in Nat /\ d \in 0 .. BlockBytes /\ d \in Nat
           /\ Origin[q] \in Nat /\ Origin[q] + d <= Len(T) /\ Len(T) \in Nat
<1>1. c \in Ctxs /\ c.idx = d /\ T \in Seq(Symbols) /\ q \in Nat /\ d \in 0 .. BlockBytes /\ Origin[q] + d <= Len(T)
  BY Zenon DEF Absorbed, Within
<1>2. Origin[q] \in Nat /\ BlockBytes \in Nat
  BY <1>1, Origins, Sizes
<1> QED BY <1>1, <1>2

LEMMA PieceTypes ==
    ASSUME NEW T, NEW p, NEW w, Piece(T, p, w)
    PROVE  w \in Seq(Symbols) /\ Len(w) \in Nat /\ p \in Nat
BY DEF Piece

\* Up to a word boundary, then up to a block boundary: what is left goes into a
\* block with nothing in it, or is less than a word and fits.
FilledTo(c, T, q, d, m, p) ==
    /\ Absorbed(c, T, q, d) /\ d < BlockBytes /\ Origin[q] + d = p /\ Piece(T, p, m)
    /\ d = 0 \/ (Len(m) < WordBytes /\ d + Len(m) < BlockBytes)
Filled(c, T, m, p, n1, n2, l) ==
    ((p + n1) + n2) + Len(m) = p + l /\ \E q, d : FilledTo(c, T, q, d, m, (p + n1) + n2)
\* The first two loops of crypto_sha512_update(), and the block they fill.
Fills(c, m, n1, c1, m1, n2, c2, m2, c3) ==
    /\ n1 = ToWord(c.idx, Len(m)) /\ c1 = PutBytes(c, SubSeq(m, 1, n1)) /\ m1 = From(m, n1)
    /\ n2 = ToBlock(c1.idx, Len(m1)) /\ c2 = Load(c1, c1.idx, SubSeq(m1, 1, n2)) /\ m2 = From(m1, n2)
    /\ c3 = IF c2.idx = BlockBytes THEN Compress(c2) ELSE c2

LEMMA FillBlock ==
    ASSUME NEW c, NEW T, NEW q, NEW d, Absorbed(c, T, q, d), d < BlockBytes, NEW m, Piece(T, Origin[q] + d, m),
           NEW n1, NEW c1, NEW m1, NEW n2, NEW c2, NEW m2, NEW c3, Fills(c, m, n1, c1, m1, n2, c2, m2, c3)
    PROVE  Filled(c3, T, m2, Origin[q] + d, n1, n2, Len(m))
<1> USE DEF Fills
<1> DEFINE p == Origin[q] + d
           l == Len(m)
           d1 == d + n1
           d2 == d1 + n2
<1>0. /\ c.idx = d /\ T \in Seq(Symbols) /\ q \in Nat /\ d \in Nat /\ Origin[q] \in Nat /\ Len(T) \in Nat
      /\ l \in Nat /\ p \in Nat /\ BlockBytes \in Nat \ {0} /\ WordBytes \in Nat \ {0}
  BY AbsorbedTypes, PieceTypes, Sizes
<1>1. n1 \in 0 .. l /\ d1 \in 0 .. BlockBytes /\ (n1 < l => d1 % WordBytes = 0) /\ n1 \in Nat /\ d1 \in Nat
  <2>1. n1 = ToWord(d, l)
    BY <1>0, Zenon
  <2>2. ToWord(d, l) \in 0 .. l /\ d + ToWord(d, l) \in 0 .. BlockBytes
        /\ (ToWord(d, l) < l => (d + ToWord(d, l)) % WordBytes = 0)
    BY <1>0, WordStep
  <2>3. n1 \in 0 .. l /\ d1 \in 0 .. BlockBytes /\ (n1 < l => d1 % WordBytes = 0)
    BY <2>1, <2>2, Zenon
  <2> HIDE DEF l, d1
  <2> QED BY <1>0, <2>3
<1>2. /\ Piece(T, p, SubSeq(m, 1, n1)) /\ Len(SubSeq(m, 1, n1)) = n1
      /\ Piece(T, p + n1, m1) /\ Len(m1) = l - n1
  <2>1. CutAt(T, p, m, n1)
    BY <1>0, <1>1, PieceSplit, Zenon
  <2> QED BY <2>1, Zenon DEF CutAt
<1>3. Absorbed(c1, T, q, d1)
  <2>1. d + Len(SubSeq(m, 1, n1)) = d1 /\ d1 <= BlockBytes
    BY <1>1, <1>2
  <2> QED BY <1>2, <2>1, PutsAbsorb, Zenon
<1> DEFINE l1 == Len(m1)
<1>4. c1.idx = d1 /\ l1 \in Nat /\ l1 = l - n1 /\ (l1 # 0 => d1 % WordBytes = 0)
  <2>1. c1.idx = d1
    BY <1>3, AbsorbedTypes, Zenon
  <2>2. l - n1 \in Nat /\ (l - n1 # 0 => n1 < l)
    <3> HIDE DEF l
    <3> QED BY <1>0, <1>1
  <2> QED BY <1>1, <1>2, <2>1, <2>2, Zenon
<1>5. /\ n2 \in 0 .. l1 /\ d2 \in 0 .. BlockBytes /\ n2 \in Nat /\ d2 \in Nat
      /\ d2 \in {0, BlockBytes} \/ (l1 - n2 < WordBytes /\ d2 + (l1 - n2) < BlockBytes)
  <2>1. n2 = ToBlock(d1, l1)
    BY <1>4, Zenon
  <2> HIDE DEF d1, l1
  <2>2. /\ n2 \in 0 .. l1 /\ d2 \in 0 .. BlockBytes
        /\ d2 \in {0, BlockBytes} \/ (l1 - n2 < WordBytes /\ d2 + (l1 - n2) < BlockBytes)
    BY <1>1, <1>4, <2>1, BlockStep
  <2> HIDE DEF d2
  <2> QED BY <1>0, <1>4, <2>2
<1>6. /\ Piece(T, p + n1, SubSeq(m1, 1, n2)) /\ Len(SubSeq(m1, 1, n2)) = n2
      /\ Piece(T, (p + n1) + n2, m2) /\ Len(m2) = l1 - n2
  <2>1. CutAt(T, p + n1, m1, n2)
    <3> HIDE DEF p
    <3> QED BY <1>0, <1>2, <1>5, PieceSplit, Zenon
  <2> QED BY <2>1, Zenon DEF CutAt
<1>7. Absorbed(c2, T, q, d2)
  <2>1. d1 + Len(SubSeq(m1, 1, n2)) = d2 /\ d2 <= BlockBytes
    BY <1>5, <1>6
  <2>2. Origin[q] + d1 = p + n1
    BY <1>0, <1>1
  <2>3. Piece(T, Origin[q] + d1, SubSeq(m1, 1, n2))
    BY <1>6, <2>2, Zenon
  <2>4. c2 = Load(c1, d1, SubSeq(m1, 1, n2))
    BY <1>4, Zenon
  <2> HIDE DEF d1
  <2> QED BY <1>3, <2>1, <2>3, <2>4, LoadAbsorbs, Zenon
<1>8. c2.idx = d2
  BY <1>7, AbsorbedTypes, Zenon
<1>9. Origin[q] + d2 = (p + n1) + n2 /\ ((p + n1) + n2) + Len(m2) = p + l
  <2>1. Origin[q] + d2 = (p + n1) + n2
    <3> DEFINE o == Origin[q]
    <3>1. o \in Nat
      BY <1>0, Zenon
    <3> HIDE DEF o
    <3>2. o + ((d + n1) + n2) = ((o + d) + n1) + n2
      BY <1>0, <1>1, <1>5, <3>1
    <3> QED BY <3>2, Zenon DEF o
  <2>2. Len(m2) = (l - n1) - n2
    BY <1>4, <1>6, Zenon
  <2>3. ((p + n1) + n2) + ((l - n1) - n2) = p + l
    <3> HIDE DEF p, l, Fills
    <3> QED BY <1>0, <1>1, <1>5
  <2> QED BY <2>1, <2>2, <2>3, Zenon
<1>10. CASE d2 = BlockBytes
  <2>1. c3 = Compress(c2) /\ Absorbed(c2, T, q, BlockBytes)
    BY <1>7, <1>8, <1>10, Zenon
  <2>2. Absorbed(c3, T, q + 1, 0)
    BY <2>1, CompressAbsorbs, Zenon
  <2>3. Origin[q + 1] + 0 = (p + n1) + n2 /\ 0 < BlockBytes
    <3>1. Origin[q + 1] = Origin[q] + BlockBytes
      BY <1>0, Origins
    <3> DEFINE o == Origin[q]
    <3>2. o \in Nat /\ o + d2 = (p + n1) + n2 /\ Origin[q + 1] = o + BlockBytes
      BY <1>0, <1>9, <3>1, Zenon
    <3> HIDE DEF o, d2, p
    <3> QED BY <1>0, <1>10, <3>2
  <2>4. FilledTo(c3, T, q + 1, 0, m2, (p + n1) + n2)
    BY <1>6, <2>2, <2>3, Zenon DEF FilledTo
  <2> QED BY <1>9, <2>4, Zenon DEF Filled
<1>11. CASE d2 # BlockBytes
  <2>1. c3 = c2
    BY <1>8, <1>11, Zenon
  <2>2. d2 < BlockBytes
    <3> HIDE DEF d2
    <3> QED BY <1>0, <1>5, <1>11
  <2>3. d2 = 0 \/ (Len(m2) < WordBytes /\ d2 + Len(m2) < BlockBytes)
    BY <1>5, <1>6, <1>11, Zenon
  <2>4. FilledTo(c3, T, q, d2, m2, (p + n1) + n2)
    BY <1>6, <1>7, <1>9, <2>1, <2>2, <2>3, Zenon DEF FilledTo
  <2> QED BY <1>9, <2>4, Zenon DEF Filled
<1> QED BY <1>10, <1>11

\* Whole blocks, whole words and bytes of what is left.
LEMMA DrainRest ==
    ASSUME NEW c3, NEW T, NEW q, NEW d, NEW m2, NEW p, FilledTo(c3, T, q, d, m2, p),
           NEW k, k = Len(m2) \div BlockBytes,
           NEW c4, c4 = TakeBlocks(c3, BlockPieces(m2, k)), NEW m4, m4 = From(m2, k * BlockBytes),
           NEW n5, n5 = (Len(m4) \div WordBytes) * WordBytes,
           NEW c5, c5 = Load(c4, 0, SubSeq(m4, 1, n5))
    PROVE  Reaches(PutBytes(c5, From(m4, n5)), T, p + Len(m2))
<1> DEFINE l == Len(m2)
           l4 == Len(m4)
<1>0. /\ Absorbed(c3, T, q, d) /\ d < BlockBytes /\ Origin[q] + d = p /\ Piece(T, p, m2)
      /\ d = 0 \/ (l < WordBytes /\ d + l < BlockBytes)
  BY Zenon DEF FilledTo
<1>1. /\ T \in Seq(Symbols) /\ q \in Nat /\ d \in Nat /\ Origin[q] \in Nat /\ Len(T) \in Nat
      /\ l \in Nat /\ p \in Nat /\ BlockBytes \in Nat \ {0} /\ WordBytes \in Nat \ {0} /\ WordBytes < BlockBytes
  BY <1>0, AbsorbedTypes, PieceTypes, Sizes
<1>2. k \in Nat /\ k * BlockBytes = Origin[k] /\ Origin[k] \in Nat /\ Origin[k] <= l /\ l < Origin[k] + BlockBytes
  <2> HIDE DEF l
  <2>1. k = l \div BlockBytes
    BY DEF l
  <2>2. k \in Nat /\ l % BlockBytes \in Nat /\ l % BlockBytes < BlockBytes /\ k * BlockBytes \in Nat
        /\ l = (k * BlockBytes) + (l % BlockBytes)
    BY <1>1, <2>1, Divided
  <2>3. k * BlockBytes = Origin[k] /\ Origin[k] \in Nat
    BY <2>2, Origins
  <2> DEFINE r == l % BlockBytes
             o == Origin[k]
  <2>4. r \in Nat /\ r < BlockBytes /\ o \in Nat /\ l = o + r
    BY <2>2, <2>3, Zenon
  <2> HIDE DEF r, o
  <2>5. o <= l /\ l < o + BlockBytes
    BY <1>1, <2>4
  <2> QED BY <2>2, <2>3, <2>5, Zenon DEF o
<1> DEFINE o == Origin[k]
<1>3. o \in 0 .. l
  <2> HIDE DEF l, o
  <2>1. o \in Nat /\ o <= l
    BY <1>2, Zenon DEF o
  <2> QED BY <1>1, <2>1
<1>4. Piece(T, p + o, m4) /\ l4 = l - o
  <2>1. CutAt(T, p, m2, o)
    BY <1>0, <1>1, <1>3, PieceSplit, Zenon
  <2> QED BY <1>2, <2>1, Zenon DEF CutAt
<1>5. l4 \in Nat /\ l4 < BlockBytes
  <2>1. l - o \in Nat /\ l - o < BlockBytes
    <3>1. o \in Nat /\ o <= l /\ l < o + BlockBytes
      BY <1>2, Zenon
    <3> HIDE DEF l, o
    <3> QED BY <1>1, <3>1
  <2> QED BY <1>4, <2>1, Zenon
<1>6. n5 \in 0 .. l4 /\ (l4 < WordBytes => n5 = 0) /\ n5 \in Nat
  <2> HIDE DEF l4
  <2> DEFINE u == l4 \div WordBytes
             r == l4 % WordBytes
  <2>1. u \in Nat /\ r \in Nat /\ r < WordBytes /\ u * WordBytes \in Nat /\ l4 = (u * WordBytes) + r
    BY <1>1, <1>5, Divided
  <2>2. n5 = u * WordBytes
    BY Zenon DEF l4
  <2>3. 0 < u => 0 * WordBytes + WordBytes <= u * WordBytes
    <3>1. 0 \in Nat
      OBVIOUS
    <3> HIDE DEF u
    <3> QED BY <1>1, <2>1, <3>1, Multiples
  <2> HIDE DEF r
  <2>4. u = 0 => n5 = 0
    <3> HIDE DEF u
    <3> QED BY <1>1, <2>1, <2>2
  <2> DEFINE x == u * WordBytes
  <2> HIDE DEF u
  <2>5. x \in Nat /\ l4 = x + r /\ n5 = x /\ (0 < u => WordBytes <= x) /\ (u = 0 => x = 0)
    BY <1>1, <2>1, <2>2, <2>3, <2>4
  <2> HIDE DEF x
  <2> QED BY <1>1, <1>5, <2>1, <2>5
<1> DEFINE a == SubSeq(m4, 1, n5)
           b == From(m4, n5)
<1>7. Piece(T, p + o, a) /\ Len(a) = n5 /\ Piece(T, (p + o) + n5, b) /\ Len(b) = l4 - n5
  <2>1. CutAt(T, p + o, m4, n5)
    <3> HIDE DEF o
    <3> QED BY <1>1, <1>4, <1>6, PieceSplit, Zenon
  <2> QED BY <2>1, Zenon DEF CutAt
\* In which block, and where in it, the rest begins.
<1> DEFINE s == q + k
<1>8. /\ Absorbed(c4, T, s, d) /\ Origin[s] + d = p + o /\ s \in Nat /\ Origin[s] \in Nat
      /\ d = 0 \/ (n5 = 0 /\ d + l4 < BlockBytes)
  <2>1. CASE d = 0
    <3>1. Origin[q] = p
      BY <1>0, <1>1, <2>1
    <3>2. Absorbed(c4, T, q + k, 0)
      BY <1>0, <1>2, <2>1, <3>1, BlocksAbsorb, Zenon
    <3>3. q + k \in Nat /\ (q + k) * BlockBytes = (q * BlockBytes) + (k * BlockBytes)
      BY <1>1, <1>2
    <3>4. Origin[q + k] = Origin[q] + Origin[k] /\ Origin[q + k] \in Nat
      BY <1>1, <1>2, <3>3, Origins
    <3>5. Origin[q + k] + d = p + o
      BY <2>1, <3>1, <3>4
    <3> QED BY <2>1, <3>2, <3>3, <3>4, <3>5, Zenon
  <2>2. CASE d # 0
    <3>1. l < WordBytes /\ d + l < BlockBytes
      BY <1>0, <2>2, Zenon
    <3>2. k = 0
      <4>1. 0 < k => Origin[0] + BlockBytes <= Origin[k]
        BY <1>2, OriginsOrdered
      <4>2. Origin[0] = 0
        BY <1>2, Origins
      <4> HIDE DEF l
      <4> QED BY <1>1, <1>2, <3>1, <4>1, <4>2
    <3>3. o = 0 /\ l4 = l /\ q + k = q
      <4>1. o = 0
        BY <1>2, <3>2, Origins
      <4>2. l - 0 = l /\ q + 0 = q
        <5> HIDE DEF l
        <5> QED BY <1>1
      <4> QED BY <1>4, <3>2, <4>1, <4>2, Zenon
    <3>4. n5 = 0
      BY <1>6, <3>1, <3>3, Zenon
    <3>5. Absorbed(c4, T, q, d)
      <4>1. DOMAIN BlockPieces(m2, k) = 1 .. 0
        BY <3>2, Zenon DEF BlockPieces
      <4>2. c3 \in Ctxs /\ 0 \in Nat
        BY <1>0, AbsorbedTypes, Zenon
      <4>3. Elements(BlockPieces(m2, k), 0, Seq(Symbols))
        <5>1. \A j \in 1 .. 0 : FALSE
          OBVIOUS
        <5> QED BY <4>1, <5>1, Zenon DEF Elements
      <4>4. PICK h : BlockRun(h, c3, BlockPieces(m2, k), 0)
        BY <4>2, <4>3, BlockHistory, Zenon
      <4>5. c4 = c3
        BY <4>4, Zenon DEF BlockRun
      <4> QED BY <1>0, <4>5, Zenon
    <3>6. Origin[q] + d = p + o
      BY <1>0, <1>1, <3>3
    <3> QED BY <1>1, <3>1, <3>3, <3>4, <3>5, <3>6, Zenon
  <2> QED BY <2>1, <2>2
<1> HIDE DEF a, b, s, o, l4, l
<1>9. Absorbed(c5, T, s, d + n5)
  <2>1. CASE d = 0
    <3>1. Piece(T, Origin[s] + d, a) /\ Len(a) = n5
      BY <1>7, <1>8, Zenon
    <3>2. d + Len(a) <= BlockBytes
      BY <1>1, <1>5, <1>6, <2>1, <3>1
    <3>3. Absorbed(Load(c4, d, a), T, s, d + Len(a))
      BY <1>8, <3>1, <3>2, LoadAbsorbs, Zenon
    <3> QED BY <2>1, <3>1, <3>3, Zenon DEF a
  <2>2. CASE d # 0
    <3>1. n5 = 0 /\ c4 \in Ctxs
      BY <1>8, <2>2, AbsorbedTypes, Zenon
    <3>2. a \in Seq(Symbols) /\ Len(a) = 0 /\ 0 \in Nat
      BY <1>7, <3>1, PieceTypes
    <3>3. Loads(c4, 0, a, c5)
      BY <3>1, <3>2, LoadTyped, Zenon DEF a
    <3>4. /\ c5 \in Ctxs /\ c5.idx = c4.idx + 0 /\ c5.bits = c4.bits /\ c5.blocks = c4.blocks
          /\ \A i \in 0 .. BlockBytes - 1 : c5.input[i] = IF i \in 0 .. 0 + 0 - 1 THEN a[i - 0 + 1] ELSE c4.input[i]
      BY <3>2, <3>3, Zenon DEF Loads
    <3>5. \A i \in 0 .. BlockBytes - 1 : i \notin 0 .. 0 + 0 - 1
      OBVIOUS
    <3>6. Buffers(c4.input, T, s, d) /\ c4.idx = d /\ Within(T, s, d) /\ Compressed(c4.blocks, T, s) /\ c4.bits = 8 * Origin[s]
      BY <1>8, Zenon DEF Absorbed
    <3>7. Buffers(c5.input, T, s, d)
      BY <3>4, <3>5, <3>6, Zenon DEF Buffers
    <3>8. d + n5 = d /\ d + 0 = d
      BY <1>1, <3>1
    <3> QED BY <3>4, <3>6, <3>7, <3>8, Zenon DEF Absorbed
  <2> QED BY <2>1, <2>2
<1>10. Absorbed(PutBytes(c5, b), T, s, d + l4) /\ d + l4 < BlockBytes
  <2>1. Origin[s] + (d + n5) = (p + o) + n5 /\ (d + n5) + Len(b) = d + l4 /\ d + l4 < BlockBytes /\ d + l4 <= BlockBytes
    <3> DEFINE z == Origin[s]
    <3>1. z \in Nat /\ z + d = p + o
      BY <1>8, Zenon
    <3>2. o \in Nat
      BY <1>2, Zenon DEF o
    <3> HIDE DEF z
    <3>3. z + (d + n5) = (p + o) + n5
      BY <1>1, <1>6, <3>1, <3>2
    <3>4. (d + n5) + Len(b) = d + l4 /\ d + l4 < BlockBytes /\ d + l4 <= BlockBytes
      BY <1>1, <1>5, <1>6, <1>7, <1>8
    <3> QED BY <3>3, <3>4, Zenon DEF z
  <2>2. Piece(T, Origin[s] + (d + n5), b)
    BY <1>7, <2>1, Zenon
  <2> QED BY <1>9, <2>1, <2>2, PutsAbsorb, Zenon
<1>11. Origin[s] + (d + l4) = p + l
  <2> DEFINE z == Origin[s]
  <2>1. z \in Nat /\ z + d = p + o /\ o \in 0 .. l /\ l4 = l - o
    BY <1>3, <1>4, <1>8, Zenon
  <2> HIDE DEF z
  <2>2. z + (d + l4) = p + l
    BY <1>1, <1>5, <2>1
  <2> QED BY <2>2, Zenon DEF z
<1>12. Reaches(PutBytes(c5, b), T, p + l)
  BY <1>10, <1>11, Zenon DEF Reaches
<1> QED BY <1>12, Zenon DEF b, l

\* However a message is cut, crypto_sha512_update() takes the next piece of it.
LEMMA UpdateReaches ==
    ASSUME NEW c, NEW T, NEW p, Reaches(c, T, p), NEW m, Piece(T, p, m)
    PROVE  Reaches(crypto_sha512_update(c, m), T, p + Len(m))
<1> DEFINE n1 == IF c.idx % WordBytes = 0 THEN 0 ELSE AtMost(WordBytes - (c.idx % WordBytes), Len(m))
           c1 == FoldLeft(PutByte, c, SubSeq(m, 1, n1))
           m1 == From(m, n1)
           n2 == IF c1.idx % BlockBytes = 0 THEN 0
                 ELSE (AtMost(BlockBytes - (c1.idx % BlockBytes), Len(m1)) \div WordBytes) * WordBytes
           c2 == Load(c1, c1.idx, SubSeq(m1, 1, n2))
           m2 == From(m1, n2)
           c3 == IF c2.idx = BlockBytes THEN Compress(c2) ELSE c2
           k == Len(m2) \div BlockBytes
           c4 == FoldLeft(LAMBDA a, b : Compress(Load(a, 0, b)), c3,
                          [i \in 1 .. k |-> SubSeq(m2, (i - 1) * BlockBytes + 1, i * BlockBytes)])
           m4 == From(m2, k * BlockBytes)
           n5 == (Len(m4) \div WordBytes) * WordBytes
           c5 == Load(c4, 0, SubSeq(m4, 1, n5))
           out == FoldLeft(PutByte, c5, From(m4, n5))
<1>0. PICK q, d : Absorbed(c, T, q, d) /\ d < BlockBytes /\ Origin[q] + d = p
  BY Zenon DEF Reaches
<1>1. CASE m = << >>
  <2>1. crypto_sha512_update(c, m) = c
    BY <1>1, Zenon DEF crypto_sha512_update
  <2>2. p + Len(m) = p
    <3>1. p \in Nat
      BY PieceTypes, Zenon
    <3> QED BY <1>1, <3>1
  <2> QED BY <2>1, <2>2, Zenon
<1>2. CASE m # << >>
  <2>1. crypto_sha512_update(c, m) = out
    BY <1>2, Zenon DEF crypto_sha512_update
  <2>2. n1 = ToWord(c.idx, Len(m)) /\ c1 = PutBytes(c, SubSeq(m, 1, n1)) /\ m1 = From(m, n1)
    BY Zenon DEF ToWord, PutBytes
  <2>3. out = PutBytes(c5, From(m4, n5))
    BY Zenon DEF PutBytes
  <2> HIDE DEF n1, c1, m1, out
  <2>4. n2 = ToBlock(c1.idx, Len(m1)) /\ c2 = Load(c1, c1.idx, SubSeq(m1, 1, n2)) /\ m2 = From(m1, n2)
        /\ c3 = IF c2.idx = BlockBytes THEN Compress(c2) ELSE c2
    BY Zenon DEF ToBlock
  <2> HIDE DEF n2, c2, m2, c3
  <2>5. k = Len(m2) \div BlockBytes /\ c4 = TakeBlocks(c3, BlockPieces(m2, k)) /\ m4 = From(m2, k * BlockBytes)
    BY Zenon DEF TakeBlocks, BlockPieces
  <2> HIDE DEF k, c4, m4
  <2>6. n5 = (Len(m4) \div WordBytes) * WordBytes /\ c5 = Load(c4, 0, SubSeq(m4, 1, n5))
    BY Zenon
  <2> HIDE DEF n5, c5
  <2>7. Piece(T, Origin[q] + d, m)
    BY <1>0, Zenon
  <2>8. Filled(c3, T, m2, Origin[q] + d, n1, n2, Len(m))
    <3>1. Fills(c, m, n1, c1, m1, n2, c2, m2, c3)
      BY <2>2, <2>4, Zenon DEF Fills
    <3> QED BY <1>0, <2>7, <3>1, FillBlock, Zenon
  <2> DEFINE z == (p + n1) + n2
  <2>9. PICK s, e : FilledTo(c3, T, s, e, m2, z)
    BY <1>0, <2>8, Zenon DEF Filled
  <2>11. z + Len(m2) = p + Len(m)
    BY <1>0, <2>8, Zenon DEF Filled
  <2> HIDE DEF z
  <2>10. Reaches(PutBytes(c5, From(m4, n5)), T, z + Len(m2))
    BY <2>5, <2>6, <2>9, DrainRest, Zenon
  <2> QED BY <2>1, <2>3, <2>10, <2>11, Zenon
<1> QED BY <1>1, <1>2

\* The byte of a padded message at x, its blocks, and how many there are.
PadCell(T, x) == IF x <= Len(T) THEN T[x] ELSE IF x = Len(T) + 1 THEN Marker ELSE Zero
PadBlock(T, j, n) ==
    [bytes |-> [i \in 1 .. BlockBytes |-> PadCell(T, Origin[j - 1] + i)], bits |-> IF j = n THEN 8 * Len(T) ELSE NoLength]
Pads(T, n) == [j \in 1 .. n |-> PadBlock(T, j, n)]
Blocks(q, d) == IF d < 2 * WordBytes THEN q + 1 ELSE q + 2
Whole(T, q, d) == T \in Seq(Symbols) /\ q \in Nat /\ d \in Nat /\ d < BlockBytes /\ Len(T) = Origin[q] + d

LEMMA PadsTyped ==
    ASSUME NEW T \in Seq(Symbols), NEW n \in Nat
    PROVE  /\ Pads(T, n) \in Seq(BlockSet) /\ Len(Pads(T, n)) = n
           /\ \A j \in 1 .. n : /\ Pads(T, n)[j] = PadBlock(T, j, n)
                                /\ \A i \in 1 .. BlockBytes : Pads(T, n)[j].bytes[i] = PadCell(T, Origin[j - 1] + i)
                                /\ Pads(T, n)[j].bits = IF j = n THEN 8 * Len(T) ELSE NoLength
<1>0. Len(T) \in Nat /\ BlockBytes \in Nat
  BY Sizes
<1>1. ASSUME NEW x \in Nat, x # 0 PROVE PadCell(T, x) \in Cells
  <2>1. CASE x <= Len(T)
    <3>1. x \in 1 .. Len(T)
      BY <1>0, <1>1, <2>1
    <3>2. T[x] \in Symbols
      BY <3>1
    <3> QED BY <2>1, <3>2 DEF PadCell, Cells
  <2>2. CASE ~(x <= Len(T))
    BY <2>2 DEF PadCell, Cells, Symbols
  <2> QED BY <2>1, <2>2
<1>2. ASSUME NEW j \in 1 .. n
      PROVE  /\ PadBlock(T, j, n) \in BlockSet
             /\ \A i \in 1 .. BlockBytes : PadBlock(T, j, n).bytes[i] = PadCell(T, Origin[j - 1] + i)
             /\ PadBlock(T, j, n).bits = IF j = n THEN 8 * Len(T) ELSE NoLength
  <2> DEFINE o == Origin[j - 1]
             bytes == [i \in 1 .. BlockBytes |-> PadCell(T, o + i)]
             bits == IF j = n THEN 8 * Len(T) ELSE NoLength
  <2>1. o \in Nat
    BY Origins
  <2> HIDE DEF o
  <2>2. ASSUME NEW i \in 1 .. BlockBytes PROVE PadCell(T, o + i) \in Cells
    <3>1. o + i \in Nat /\ o + i # 0
      BY <1>0, <2>1
    <3> QED BY <1>1, <3>1, Zenon
  <2>3. bytes \in [1 .. BlockBytes -> Cells] /\ \A i \in 1 .. BlockBytes : bytes[i] = PadCell(T, o + i)
    BY <2>2, Zenon
  <2>4. bits \in Int
    BY <1>0 DEF NoLength
  <2>5. PadBlock(T, j, n) = [bytes |-> bytes, bits |-> bits]
    BY Zenon DEF PadBlock, o
  <2> HIDE DEF bytes, bits
  <2>6. [bytes |-> bytes, bits |-> bits] \in BlockSet
    BY <2>3, <2>4 DEF BlockSet
  <2>7. [bytes |-> bytes, bits |-> bits].bytes = bytes /\ [bytes |-> bytes, bits |-> bits].bits = bits
    OBVIOUS
  <2> QED BY <2>3, <2>5, <2>6, <2>7, Zenon DEF o, bits
<1> DEFINE P == Pads(T, n)
<1>3. P \in [1 .. n -> BlockSet] /\ \A j \in 1 .. n : P[j] = PadBlock(T, j, n)
  BY <1>2, Zenon DEF Pads
<1> HIDE DEF P
<1>4. P \in Seq(BlockSet) /\ Len(P) = n
  BY <1>3
<1> QED BY <1>2, <1>3, <1>4, Zenon DEF P

\* How many zeros make the marker and the length end a block.
PadZeros(d) == IF d < 2 * WordBytes THEN 2 * WordBytes - 1 - d ELSE 6 * WordBytes - 1 - d

LEMMA ZerosAre ==
    ASSUME NEW q \in Nat, NEW d \in Nat, d < BlockBytes, NEW z \in 0 .. BlockBytes - 1
    PROVE  (((Origin[q] + d) + 1) + z) % BlockBytes = (BlockBytes - 2 * WordBytes) % BlockBytes <=> z = PadZeros(d)
<1> DEFINE w == WordBytes
           room == BlockBytes - 2 * WordBytes
           o == Origin[q]
           x == ((o + d) + 1) + z
<1>0. w \in Nat \ {0} /\ BlockBytes = 4 * w /\ BlockBytes \in Nat \ {0} /\ o \in Nat /\ o = q * BlockBytes
      /\ Origin[q + 1] = o + BlockBytes /\ q + 1 \in Nat /\ (q + 1) * BlockBytes = Origin[q + 1]
  BY Sizes, Origins
<1>1. room = 2 * w /\ room \in Nat
  BY <1>0
<1>2. room % BlockBytes = 2 * w
  <2>1. 0 * BlockBytes = 0
    BY <1>0
  <2>2. 0 * BlockBytes <= room /\ room < (0 * BlockBytes) + BlockBytes /\ room - (0 * BlockBytes) = 2 * w
    <3> HIDE DEF room
    <3> QED BY <1>0, <1>1, <2>1
  <2> HIDE DEF room
  <2> QED BY <1>0, <1>1, <2>2, QuotientIs
<1>3. x \in Nat
  <2> HIDE DEF o
  <2> QED BY <1>0
<1>4. ASSUME z = PadZeros(d) PROVE x % BlockBytes = 2 * w
  <2>1. CASE d < 2 * w
    <3>1. z = 2 * w - 1 - d
      BY <1>4, <2>1, Zenon DEF PadZeros
    <3>2. q * BlockBytes <= x /\ x < (q * BlockBytes) + BlockBytes /\ x - (q * BlockBytes) = 2 * w
      <4>1. o <= x /\ x < o + BlockBytes /\ x - o = 2 * w
        <5> HIDE DEF o
        <5> QED BY <1>0, <3>1
      <4> QED BY <1>0, <4>1, Zenon
    <3> HIDE DEF x
    <3> QED BY <1>0, <1>3, <3>2, QuotientIs
  <2>2. CASE ~(d < 2 * w)
    <3>1. z = 6 * w - 1 - d
      BY <1>4, <2>2, Zenon DEF PadZeros
    <3> DEFINE y == Origin[q + 1]
    <3>2. y \in Nat /\ y <= x /\ x < y + BlockBytes /\ x - y = 2 * w
      <4>1. y = o + BlockBytes
        BY <1>0, Zenon
      <4> HIDE DEF o, y
      <4> QED BY <1>0, <3>1, <4>1
    <3>3. (q + 1) * BlockBytes <= x /\ x < ((q + 1) * BlockBytes) + BlockBytes /\ x - ((q + 1) * BlockBytes) = 2 * w
      BY <1>0, <3>2, Zenon
    <3> HIDE DEF x
    <3> QED BY <1>0, <1>3, <3>3, QuotientIs
  <2> QED BY <2>1, <2>2
<1>5. ASSUME x % BlockBytes = 2 * w PROVE z = PadZeros(d)
  <2> DEFINE e == x \div BlockBytes
             y == Origin[e]
  <2>1. e \in Nat /\ e * BlockBytes \in Nat /\ x = (e * BlockBytes) + (2 * w)
    <3>1. e \in Nat /\ e * BlockBytes \in Nat /\ x = (e * BlockBytes) + (x % BlockBytes)
      <4> HIDE DEF x
      <4> QED BY <1>0, <1>3, Divided
    <3> QED BY <1>5, <3>1, Zenon
  <2>2. y \in Nat /\ x = y + (2 * w)
    <3> HIDE DEF e, x
    <3> QED BY <2>1, Origins
  <2>3. (e < q => y + BlockBytes <= o) /\ (q + 1 < e => Origin[q + 1] + BlockBytes <= y)
    <3> HIDE DEF e
    <3> QED BY <1>0, <2>1, OriginsOrdered
  <2>4. (e = q => y = o) /\ (e = q + 1 => y = o + BlockBytes)
    BY <1>0, Zenon
  <2> HIDE DEF e, y, o
  <2>5. e \in {q, q + 1}
    BY <1>0, <2>1, <2>2, <2>3
  <2>6. CASE e = q
    <3>1. z = 2 * w - 1 - d /\ d < 2 * w
      BY <1>0, <2>2, <2>4, <2>6
    <3> QED BY <3>1, Zenon DEF PadZeros
  <2>7. CASE e = q + 1
    <3>1. z = 6 * w - 1 - d /\ ~(d < 2 * w)
      BY <1>0, <2>2, <2>4, <2>7
    <3> QED BY <3>1, Zenon DEF PadZeros
  <2> QED BY <2>5, <2>6, <2>7
<1> QED BY <1>2, <1>4, <1>5

\* The standard's padding, block by block.
LEMMA PaddedIs ==
    ASSUME NEW T, NEW q, NEW d, Whole(T, q, d)
    PROVE  Padded(T) = Pads(T, Blocks(q, d))
<1> DEFINE w == WordBytes
           room == BlockBytes - 2 * WordBytes
           n == Len(T) + 1
           zeros == CHOOSE z \in 0 .. BlockBytes - 1 : (n + z) % BlockBytes = room % BlockBytes
           k == zeros + 2 * WordBytes
           fill == [i \in 1 .. k |-> Zero]
           text == (T \o <<Marker>>) \o fill
           count == Len(text) \div BlockBytes
<1>0. T \in Seq(Symbols) /\ q \in Nat /\ d \in Nat /\ d < BlockBytes /\ Len(T) = Origin[q] + d /\ Len(T) \in Nat
  BY DEF Whole
<1>1. w \in Nat \ {0} /\ BlockBytes = 4 * w /\ BlockBytes \in Nat \ {0} /\ Origin[q] \in Nat
  BY <1>0, Sizes, Origins
<1>2. zeros = PadZeros(d) /\ zeros \in 0 .. BlockBytes - 1
  <2>1. PadZeros(d) \in 0 .. BlockBytes - 1
    BY <1>0, <1>1 DEF PadZeros
  <2>2. n = (Origin[q] + d) + 1
    BY <1>0
  <2>3. \A z \in 0 .. BlockBytes - 1 : (n + z) % BlockBytes = room % BlockBytes <=> z = PadZeros(d)
    <3> HIDE DEF n
    <3> QED BY <1>0, <2>2, ZerosAre, Zenon
  <2> HIDE DEF n, room
  <2>4. zeros \in 0 .. BlockBytes - 1 /\ (n + zeros) % BlockBytes = room % BlockBytes
    BY <2>1, <2>3, Zenon
  <2> HIDE DEF zeros
  <2> QED BY <2>3, <2>4, Zenon
<1> HIDE DEF zeros
<1>3. k \in Nat /\ (Len(T) + 1) + k = Origin[Blocks(q, d)] /\ Blocks(q, d) \in Nat
  <2>1. k = PadZeros(d) + 2 * w
    BY <1>2, Zenon
  <2>2. Origin[q + 1] = Origin[q] + BlockBytes /\ Origin[(q + 1) + 1] = Origin[q + 1] + BlockBytes /\ (q + 1) + 1 = q + 2
        /\ q + 1 \in Nat /\ q + 2 \in Nat
    <3>1. q + 1 \in Nat /\ (q + 1) + 1 = q + 2
      BY <1>0
    <3> QED BY <1>0, <3>1, Origins
  <2> DEFINE o == Origin[q]
  <2>3. o \in Nat /\ Len(T) = o + d
    BY <1>0, <1>1, Zenon
  <2>4. Origin[q + 1] = o + BlockBytes /\ Origin[q + 2] = (o + BlockBytes) + BlockBytes
    BY <2>2, Zenon
  <2> HIDE DEF o, k
  <2>5. CASE d < 2 * w
    <3>1. Blocks(q, d) = q + 1 /\ PadZeros(d) = 2 * w - 1 - d
      BY <2>5, Zenon DEF Blocks, PadZeros
    <3>2. k = (2 * w - 1 - d) + 2 * w
      BY <2>1, <3>1, Zenon
    <3> HIDE DEF w
    <3>3. k \in Nat /\ (Len(T) + 1) + k = o + BlockBytes
      BY <1>0, <1>1, <2>3, <2>5, <3>2
    <3> QED BY <2>2, <2>4, <3>1, <3>3, Zenon
  <2>6. CASE ~(d < 2 * w)
    <3>1. Blocks(q, d) = q + 2 /\ PadZeros(d) = 6 * w - 1 - d
      BY <2>6, Zenon DEF Blocks, PadZeros
    <3>2. k = (6 * w - 1 - d) + 2 * w
      BY <2>1, <3>1, Zenon
    <3> HIDE DEF w
    <3> DEFINE l == Len(T)
    <3>4. l \in Nat /\ l = o + d /\ d \in Nat /\ d < BlockBytes /\ o \in Nat
      BY <1>0, <2>3, Zenon
    <3> HIDE DEF l
    <3>3. k \in Nat /\ (l + 1) + k = (o + BlockBytes) + BlockBytes
      BY <1>1, <3>2, <3>4
    <3> QED BY <2>2, <2>4, <3>1, <3>3, Zenon DEF l
  <2> QED BY <2>5, <2>6
<1> HIDE DEF k
<1>4. Len(text) = Origin[Blocks(q, d)] /\ \A x \in 1 .. Len(text) : text[x] = PadCell(T, x)
  <2> DEFINE l == Len(T)
             a == T \o <<Marker>>
  <2>1. fill \in Seq(Cells) /\ Len(fill) = k /\ \A i \in 1 .. k : fill[i] = Zero
    <3>1. Zero \in Cells
      BY DEF Cells, Symbols
    <3>2. fill \in [1 .. k -> Cells] /\ \A i \in 1 .. k : fill[i] = Zero
      BY <3>1, Zenon
    <3> HIDE DEF fill
    <3> QED BY <1>3, <3>2
  <2>2. T \in Seq(Cells) /\ Marker \in Cells
    BY <1>0 DEF Cells
  <2> HIDE DEF fill
  <2>3. a \in Seq(Cells) /\ Len(a) = l + 1 /\ (\A x \in 1 .. l : a[x] = T[x]) /\ a[l + 1] = Marker
    BY <2>2, <1>0
  <2> HIDE DEF a
  <2>4. Len(a \o fill) = (l + 1) + k /\ (\A x \in 1 .. l + 1 : (a \o fill)[x] = a[x])
        /\ \A i \in 1 .. k : (a \o fill)[(l + 1) + i] = fill[i]
    <3> DEFINE V == Cells
    <3>1. a \in Seq(V) /\ fill \in Seq(V)
      BY <2>1, <2>3, Zenon
    <3> HIDE DEF V
    <3>2. /\ Len(a \o fill) = Len(a) + Len(fill) /\ \A i \in 1 .. Len(a) : (a \o fill)[i] = a[i]
          /\ \A i \in 1 .. Len(fill) : (a \o fill)[Len(a) + i] = fill[i]
      BY <3>1, ConcatElements
    <3> QED BY <2>1, <2>3, <3>2, Zenon
  <2> DEFINE t == a \o fill
  <2> HIDE DEF t
  <2>5. ASSUME NEW x \in 1 .. (l + 1) + k PROVE t[x] = PadCell(T, x)
    <3>1. CASE x <= l
      <4>1. x \in 1 .. l /\ x \in 1 .. l + 1
        BY <1>0, <3>1
      <4>2. t[x] = T[x]
        BY <2>3, <2>4, <4>1, Zenon DEF t
      <4> QED BY <3>1, <4>2, Zenon DEF PadCell
    <3>2. CASE x = l + 1
      <4>1. x \in 1 .. l + 1 /\ ~(x <= l)
        BY <1>0, <3>2
      <4>2. t[x] = Marker
        BY <2>3, <2>4, <3>2, <4>1, Zenon DEF t
      <4> QED BY <3>2, <4>1, <4>2, Zenon DEF PadCell
    <3>3. CASE x > l + 1
      <4>1. x - (l + 1) \in 1 .. k /\ (l + 1) + (x - (l + 1)) = x /\ ~(x <= l) /\ x # l + 1
        BY <1>0, <1>3, <3>3
      <4>2. t[x] = Zero
        BY <2>1, <2>4, <4>1, Zenon DEF t
      <4> QED BY <4>1, <4>2, Zenon DEF PadCell
    <3> QED BY <1>0, <3>1, <3>2, <3>3
  <2>6. text = t
    BY Zenon DEF t, a
  <2>7. Len(t) = (l + 1) + k
    BY <2>4, Zenon DEF t
  <2> QED BY <1>3, <2>5, <2>6, <2>7, Zenon
<1>9. text \in Seq(Cells)
  <2>1. fill \in Seq(Cells)
    <3>1. Zero \in Cells
      BY DEF Cells, Symbols
    <3>2. fill \in [1 .. k -> Cells]
      BY <3>1, Zenon
    <3> HIDE DEF fill
    <3> QED BY <1>3, <3>2
  <2>2. T \in Seq(Cells) /\ Marker \in Cells
    BY <1>0 DEF Cells
  <2> HIDE DEF fill
  <2> QED BY <2>1, <2>2
<1> DEFINE N == Blocks(q, d)
<1>5. count = N
  <2> DEFINE x == Len(text)
  <2>1. x = Origin[N] /\ N \in Nat /\ N * BlockBytes = Origin[N] /\ Origin[N] \in Nat
    BY <1>3, <1>4, Origins
  <2> HIDE DEF x, N
  <2>2. x \in Nat /\ N * BlockBytes <= x /\ x < (N * BlockBytes) + BlockBytes
    BY <1>1, <2>1
  <2>3. x \div BlockBytes = N
    BY <1>1, <2>1, <2>2, QuotientIs
  <2> QED BY <2>3, Zenon DEF x
<1>6. Padded(T) = [i \in 1 .. count |-> [bytes |-> SubSeq(text, (i - 1) * BlockBytes + 1, i * BlockBytes),
                                         bits |-> IF i = count THEN 8 * Len(T) ELSE NoLength]]
  BY Zenon DEF Padded, zeros, k
<1> HIDE DEF text, count, N
<1>7. ASSUME NEW j \in 1 .. N
      PROVE  SubSeq(text, (j - 1) * BlockBytes + 1, j * BlockBytes) = [i \in 1 .. BlockBytes |-> PadCell(T, Origin[j - 1] + i)]
  <2> DEFINE o == Origin[j - 1]
             a == SubSeq(text, o + 1, o + BlockBytes)
             b == [i \in 1 .. BlockBytes |-> PadCell(T, o + i)]
  <2>0. N \in Nat
    BY <1>3 DEF N
  <2>1. j - 1 \in Nat /\ j \in Nat /\ j <= N /\ (j - 1) + 1 = j
    BY <2>0
  <2>2. /\ o \in Nat /\ Origin[j] = o + BlockBytes /\ Origin[j] <= Origin[N] /\ Origin[N] \in Nat
        /\ (j - 1) * BlockBytes = o /\ j * BlockBytes = Origin[j]
    BY <2>0, <2>1, Origins, OriginsOrdered
  <2>3. Len(text) = Origin[N]
    BY <1>4, Zenon DEF N
  <2> HIDE DEF o
  <2>4. o + BlockBytes <= Len(text) /\ Len(text) \in Nat
    BY <1>1, <2>2, <2>3
  <2>5. Len(a) = BlockBytes /\ a \in Seq(Cells) /\ \A i \in 1 .. BlockBytes : a[i] = text[o + i]
    BY <1>1, <1>9, <2>2, <2>4
  <2> HIDE DEF a
  <2>6. ASSUME NEW i \in 1 .. BlockBytes PROVE a[i] = PadCell(T, o + i) /\ PadCell(T, o + i) \in Cells
    <3>1. o + i \in 1 .. Len(text)
      BY <1>1, <2>2, <2>4
    <3>2. text[o + i] = PadCell(T, o + i) /\ text[o + i] \in Cells
      <4>1. text[o + i] = PadCell(T, o + i)
        BY <1>4, <3>1, Zenon
      <4>2. text[o + i] \in Cells
        BY <1>9, <3>1
      <4> QED BY <4>1, <4>2
    <3> QED BY <2>5, <3>2, Zenon
  <2>7. b \in [1 .. BlockBytes -> Cells] /\ \A i \in 1 .. BlockBytes : b[i] = PadCell(T, o + i)
    BY <2>6, Zenon
  <2> HIDE DEF b
  <2>8. a \in [1 .. BlockBytes -> Cells]
    BY <1>1, <2>5
  <2>9. a = b
    <3> DEFINE D == 1 .. BlockBytes
    <3>1. a \in [D -> Cells] /\ b \in [D -> Cells] /\ \A i \in D : a[i] = b[i]
      BY <2>6, <2>7, <2>8, Zenon
    <3> HIDE DEF D
    <3> QED BY <3>1
  <2> QED BY <2>2, <2>9, Zenon DEF a, b, o
<1>8. Padded(T) = [j \in 1 .. N |-> PadBlock(T, j, N)]
  <2>1. \A j \in 1 .. N : [bytes |-> SubSeq(text, (j - 1) * BlockBytes + 1, j * BlockBytes),
                           bits |-> IF j = count THEN 8 * Len(T) ELSE NoLength] = PadBlock(T, j, N)
    BY <1>5, <1>7, Zenon DEF PadBlock
  <2> QED BY <1>5, <1>6, <2>1, Zenon
<1> QED BY <1>8, Zenon DEF Pads, N

LEMMA BlocksTyped ==
    ASSUME NEW q \in Nat, NEW d
    PROVE  Blocks(q, d) \in Nat /\ q + 1 <= Blocks(q, d) /\ Blocks(q, d) \in {q + 1, q + 2}
BY DEF Blocks

\* A block of a whole message is a block of the padded one.
LEMMA BlockIsPadded ==
    ASSUME NEW T \in Seq(Symbols), NEW q \in Nat, Origin[q] <= Len(T), NEW j \in 1 .. q, NEW n \in Nat, q < n
    PROVE  BlockOf(T, j) = PadBlock(T, j, n)
<1>0. BlockBytes \in Nat /\ Len(T) \in Nat /\ j - 1 \in Nat /\ j - 1 < q /\ j # n
  BY Sizes
<1>1. Origin[j - 1] \in Nat /\ Origin[j - 1] + BlockBytes <= Origin[q] /\ Origin[q] \in Nat
  BY <1>0, Origins, OriginsOrdered
<1> DEFINE o == Origin[j - 1]
<1>2. o \in Nat /\ o + BlockBytes <= Len(T)
  BY <1>0, <1>1
<1>3. ASSUME NEW i \in 1 .. BlockBytes PROVE T[o + i] = PadCell(T, o + i)
  <2> HIDE DEF o
  <2>1. o + i <= Len(T)
    BY <1>0, <1>2
  <2> QED BY <2>1, Zenon DEF PadCell
<1>4. [i \in 1 .. BlockBytes |-> T[o + i]] = [i \in 1 .. BlockBytes |-> PadCell(T, o + i)]
  BY <1>3, Zenon
<1> QED BY <1>0, <1>4, Zenon DEF BlockOf, PadBlock

\* A block put together from a buffer.
PadBuffer(input, T, j) == \A i \in 0 .. BlockBytes - 1 : input[i] = PadCell(T, (Origin[j] + i) + 1)
BufferBlock(input, bits) == [bytes |-> [i \in 1 .. BlockBytes |-> input[i - 1]], bits |-> bits]

LengthAt(bits, T, j, n) == bits = IF j + 1 = n THEN 8 * Len(T) ELSE NoLength
BlockAt(b, T, j, n) == b = PadBlock(T, j + 1, n)

LEMMA BufferBlockIs ==
    ASSUME NEW T, NEW j \in Nat, NEW n, NEW input, NEW bits,
           PadBuffer(input, T, j), LengthAt(bits, T, j, n)
    PROVE  BlockAt(BufferBlock(input, bits), T, j, n)
<1>0. BlockBytes \in Nat /\ Origin[j] \in Nat /\ (j + 1) - 1 = j
  BY Sizes, Origins
<1>1. ASSUME NEW i \in 1 .. BlockBytes PROVE input[i - 1] = PadCell(T, Origin[(j + 1) - 1] + i)
  <2>1. i - 1 \in 0 .. BlockBytes - 1 /\ (Origin[j] + (i - 1)) + 1 = Origin[j] + i
    BY <1>0
  <2>2. input[i - 1] = PadCell(T, (Origin[j] + (i - 1)) + 1)
    BY <2>1, Zenon DEF PadBuffer
  <2> QED BY <1>0, <2>1, <2>2, Zenon
<1>2. [i \in 1 .. BlockBytes |-> input[i - 1]] = [i \in 1 .. BlockBytes |-> PadCell(T, Origin[(j + 1) - 1] + i)]
  BY <1>1, Zenon
<1> QED BY <1>2, Zenon DEF BufferBlock, PadBlock, LengthAt, BlockAt

\* crypto_sha512_final() compresses the message as the standard pads it.
LEMMA FinalIs ==
    ASSUME NEW c, NEW T, NEW q, NEW d, Absorbed(c, T, q, d), Whole(T, q, d)
    PROVE  crypto_sha512_final(c) = Pads(T, Blocks(q, d))
<1> DEFINE room == BlockBytes - 2 * WordBytes
           blank == ShaInit.input
           fresh == IF c.idx = 0 THEN [c EXCEPT !.input = blank] ELSE c
           marked == SetInput(fresh, Marker)
           bits == c.bits + 8 * c.idx
           last == IF c.idx > room - 1
                   THEN [marked EXCEPT !.blocks = Digested(marked, NoLength), !.input = blank]
                   ELSE marked
           bytes == [i \in DOMAIN last.input |-> IF i < room THEN last.input[i] ELSE Zero]
           n == Blocks(q, d)
           D == 0 .. BlockBytes - 1
<1>0. T \in Seq(Symbols) /\ q \in Nat /\ d \in Nat /\ d < BlockBytes /\ Len(T) = Origin[q] + d /\ Len(T) \in Nat
  BY DEF Whole
<1>1. WordBytes \in Nat \ {0} /\ BlockBytes = 4 * WordBytes /\ BlockBytes \in Nat \ {0} /\ Origin[q] \in Nat
      /\ room = 2 * WordBytes /\ Origin[q + 1] = Origin[q] + BlockBytes
  BY <1>0, Sizes, Origins
<1>2. /\ c \in Ctxs /\ c.idx = d /\ c.bits = 8 * Origin[q] /\ c.input \in [D -> Cells]
      /\ c.blocks \in Seq(BlockSet) /\ Len(c.blocks) = q /\ \A j \in 1 .. q : c.blocks[j] = BlockOf(T, j)
      /\ \A i \in D : c.input[i] = IF i < d THEN T[(Origin[q] + i) + 1] ELSE Zero
  <2>1. c \in Ctxs /\ c.idx = d /\ c.bits = 8 * Origin[q] /\ Buffers(c.input, T, q, d) /\ Compressed(c.blocks, T, q)
    BY Zenon DEF Absorbed
  <2>2. c.input \in [D -> Cells] /\ c.blocks \in Seq(BlockSet)
    BY <2>1 DEF Ctxs
  <2> QED BY <2>1, <2>2, Zenon DEF Buffers, Compressed
<1>3. /\ fresh \in Ctxs /\ fresh.idx = d /\ fresh.blocks = c.blocks
      /\ \A i \in D : fresh.input[i] = IF i < d THEN T[(Origin[q] + i) + 1] ELSE Zero
  <2>1. CASE d = 0
    <3> DEFINE f == [c EXCEPT !.input = blank]
    <3>1. fresh = f
      BY <1>2, <2>1, Zenon
    <3>2. blank \in [D -> Cells] /\ \A i \in D : blank[i] = Zero
      BY BlankInput, Zenon
    <3> DEFINE R == [D -> Cells]
    <3>3. c \in [input : R, idx : Nat, bits : Nat, blocks : Seq(BlockSet)] /\ blank \in R
      BY <1>2, <3>2, Zenon DEF Ctxs
    <3> HIDE DEF R, blank
    <3>4. f \in [input : R, idx : Nat, bits : Nat, blocks : Seq(BlockSet)]
      BY <3>3
    <3>5. f.idx = c.idx /\ f.blocks = c.blocks /\ f.input = blank
      BY <3>3
    <3>6. f \in Ctxs
      BY <3>4, Zenon DEF Ctxs, R
    <3> HIDE DEF f
    <3>7. \A i \in D : ~(i < d)
      BY <2>1
    <3> QED BY <1>2, <3>1, <3>2, <3>5, <3>6, <3>7, Zenon
  <2>2. CASE d # 0
    <3>1. fresh = c
      BY <1>2, <2>2, Zenon
    <3> HIDE DEF fresh
    <3> QED BY <1>2, <3>1, Zenon
  <2> QED BY <2>1, <2>2
<1> HIDE DEF fresh
<1>4. /\ marked \in Ctxs /\ marked.idx = d /\ marked.blocks = c.blocks
      /\ \A i \in D : marked.input[i] = PadCell(T, (Origin[q] + i) + 1)
  <2>1. d \in D /\ ~(d < d) /\ Marker \in Cells
    BY <1>0, <1>1 DEF Cells
  <2>2. fresh.input[fresh.idx] = Zero /\ fresh.idx \in 0 .. BlockBytes - 1
    BY <1>3, <2>1, Zenon
  <2>3. /\ marked \in Ctxs /\ marked.idx = fresh.idx /\ marked.blocks = fresh.blocks
        /\ \A i \in D : marked.input[i] = IF i = fresh.idx THEN Marker ELSE fresh.input[i]
    <3>1. fresh \in Ctxs
      BY <1>3, Zenon
    <3> QED BY <2>1, <2>2, <3>1, SetTyped
  <2> HIDE DEF marked
  <2>4. ASSUME NEW i \in D PROVE marked.input[i] = PadCell(T, (Origin[q] + i) + 1)
    <3> DEFINE x == (Origin[q] + i) + 1
    <3>1. CASE i < d
      <4>1. i # d /\ x <= Len(T)
        BY <1>0, <1>1, <3>1
      <4> QED BY <1>3, <2>3, <3>1, <4>1, Zenon DEF PadCell
    <3>2. CASE i = d
      <4>1. ~(x <= Len(T)) /\ x = Len(T) + 1
        BY <1>0, <1>1, <3>2
      <4> QED BY <1>3, <2>3, <3>2, <4>1, Zenon DEF PadCell
    <3>3. CASE i > d
      <4>1. ~(x <= Len(T)) /\ x # Len(T) + 1 /\ i # d /\ ~(i < d)
        BY <1>0, <1>1, <3>3
      <4> QED BY <1>3, <2>3, <4>1, Zenon DEF PadCell
    <3> QED BY <1>0, <1>1, <3>1, <3>2, <3>3
  <2> QED BY <1>3, <2>3, <2>4, Zenon
<1>5. bits = 8 * Len(T)
  <2> DEFINE o == Origin[q]
  <2>1. c.bits = 8 * o /\ c.idx = d /\ o \in Nat /\ Len(T) = o + d
    BY <1>0, <1>1, <1>2, Zenon
  <2> HIDE DEF o
  <2> QED BY <1>0, <2>1
<1>6. crypto_sha512_final(c) = Digested([last EXCEPT !.input = bytes], bits)
  BY Zenon DEF crypto_sha512_final, fresh
<1> HIDE DEF marked, bits, room
<1> DEFINE P == Pads(T, n)
<1>7. P \in Seq(BlockSet) /\ Len(P) = n /\ n \in Nat /\ n \in {q + 1, q + 2} /\ \A j \in 1 .. n : P[j] = PadBlock(T, j, n)
  <2>1. n \in Nat /\ n \in {q + 1, q + 2}
    BY <1>0, BlocksTyped
  <2> HIDE DEF n
  <2> QED BY <1>0, <2>1, PadsTyped, Zenon
<1>8. n \in Nat /\ q < n
  <2> HIDE DEF n
  <2> QED BY <1>0, <1>7
<1>9. \A j \in 1 .. q : c.blocks[j] = PadBlock(T, j, n)
  <2>1. Origin[q] <= Len(T)
    BY <1>0, <1>1
  <2> HIDE DEF n
  <2> QED BY <1>0, <1>2, <1>8, <2>1, BlockIsPadded, Zenon
\* The last block, from what the context holds before it is compressed.
<1>10. ASSUME NEW k \in Ctxs, last = k
       PROVE  crypto_sha512_final(c)
                = Append(k.blocks, BufferBlock([i \in D |-> IF i < room THEN k.input[i] ELSE Zero], bits))
  <2> DEFINE in == [i \in D |-> IF i < room THEN k.input[i] ELSE Zero]
             f == [k EXCEPT !.input = in]
  <2>1. DOMAIN k.input = D
    BY DEF Ctxs
  <2>2. bytes = in
    <3> HIDE DEF last
    <3> QED BY <1>10, <2>1, Zenon
  <2>3. crypto_sha512_final(c) = Digested(f, bits)
    BY <1>6, <1>10, <2>2, Zenon
  <2> HIDE DEF in
  <2>4. f.blocks = k.blocks /\ f.input = in
    BY DEF Ctxs
  <2> HIDE DEF f
  <2> QED BY <2>3, <2>4, Zenon DEF Digested, BufferBlock, in
<1>11. CASE d < 2 * WordBytes
  <2>1. n = q + 1 /\ ~(c.idx > room - 1) /\ d < room
    BY <1>0, <1>1, <1>2, <1>11 DEF Blocks
  <2>2. last = marked
    BY <2>1, Zenon
  <2> DEFINE in == [i \in D |-> IF i < room THEN marked.input[i] ELSE Zero]
             b == BufferBlock(in, bits)
  <2>3. crypto_sha512_final(c) = Append(c.blocks, b)
    BY <1>4, <1>10, <2>2, Zenon
  <2>4. ASSUME NEW i \in D PROVE in[i] = PadCell(T, (Origin[q] + i) + 1)
    <3>1. in[i] = IF i < room THEN marked.input[i] ELSE Zero
      BY Zenon
    <3>2. CASE i < room
      BY <1>4, <3>1, <3>2, Zenon
    <3>3. CASE ~(i < room)
      <4>1. ~((Origin[q] + i) + 1 <= Len(T)) /\ (Origin[q] + i) + 1 # Len(T) + 1
        BY <1>0, <1>1, <2>1, <3>3
      <4> QED BY <3>1, <3>3, <4>1, Zenon DEF PadCell
    <3> QED BY <3>2, <3>3
  <2> HIDE DEF in, n
  <2>5. b = PadBlock(T, q + 1, n)
    <3>1. bits = IF q + 1 = n THEN 8 * Len(T) ELSE NoLength
      BY <1>5, <2>1, Zenon
    <3>2. PadBuffer(in, T, q)
      BY <2>4, Zenon DEF PadBuffer
    <3>3. LengthAt(bits, T, q, n)
      BY <3>1, Zenon DEF LengthAt
    <3>4. BlockAt(b, T, q, n)
      BY <1>0, <3>2, <3>3, BufferBlockIs, Zenon
    <3> QED BY <3>4, Zenon DEF BlockAt
  <2>6. Append(c.blocks, b) = P
    <3> DEFINE bs == c.blocks
    <3>1. bs \in Seq(BlockSet) /\ Len(bs) = q /\ \A j \in 1 .. q : bs[j] = P[j]
      <4>1. \A j \in 1 .. q : j \in 1 .. n
        BY <1>0, <2>1
      <4> QED BY <1>2, <1>7, <1>9, <4>1, Zenon
    <3>2. b = P[q + 1] /\ Len(P) = q + 1 /\ P \in Seq(BlockSet)
      <4>1. q + 1 \in 1 .. n
        BY <1>0, <2>1
      <4> QED BY <1>7, <2>1, <2>5, <4>1, Zenon
    <3> HIDE DEF bs, b, P
    <3>3. b \in BlockSet
      BY <1>0, <3>2
    <3> DEFINE a == Append(bs, b)
    <3>4. a \in Seq(BlockSet) /\ Len(a) = q + 1 /\ (\A j \in 1 .. q : a[j] = bs[j]) /\ a[q + 1] = b
      BY <1>0, <3>1, <3>3
    <3> HIDE DEF a
    <3>5. \A j \in 1 .. q + 1 : a[j] = P[j]
      <4>1. \A j \in 1 .. q + 1 : j \in 1 .. q \/ j = q + 1
        BY <1>0
      <4> QED BY <3>1, <3>2, <3>4, <4>1, Zenon
    <3>6. a = P
      BY <1>0, <3>2, <3>4, <3>5
    <3> QED BY <3>6, Zenon DEF a, bs
  <2> QED BY <2>3, <2>6, Zenon DEF n
<1>12. CASE ~(d < 2 * WordBytes)
  <2>1. n = (q + 1) + 1 /\ c.idx > room - 1 /\ q + 1 \in Nat
    BY <1>0, <1>1, <1>2, <1>12 DEF Blocks
  <2> DEFINE b1 == BufferBlock(marked.input, NoLength)
             bs1 == Append(c.blocks, b1)
             full == [marked EXCEPT !.blocks = bs1, !.input = blank]
  <2>2. last = full
    BY <1>4, <2>1, Zenon DEF Digested, BufferBlock
  <2> HIDE DEF n
  <2>3. b1 = PadBlock(T, q + 1, n)
    <3>1. NoLength = IF q + 1 = n THEN 8 * Len(T) ELSE NoLength
      BY <1>0, <2>1
    <3>2. PadBuffer(marked.input, T, q)
      BY <1>4, Zenon DEF PadBuffer
    <3>3. LengthAt(NoLength, T, q, n)
      BY <3>1, Zenon DEF LengthAt
    <3>4. BlockAt(b1, T, q, n)
      BY <1>0, <3>2, <3>3, BufferBlockIs, Zenon
    <3> QED BY <3>4, Zenon DEF BlockAt
  <2>4. b1 \in BlockSet /\ b1 = P[q + 1]
    <3>1. q + 1 \in 1 .. n
      BY <1>0, <2>1
    <3>2. b1 = P[q + 1]
      BY <1>7, <2>3, <3>1, Zenon
    <3> HIDE DEF P, b1
    <3>3. P[q + 1] \in BlockSet
      BY <1>7, <3>1
    <3> QED BY <3>2, <3>3, Zenon
  <2>5. bs1 \in Seq(BlockSet) /\ Len(bs1) = q + 1 /\ \A j \in 1 .. q + 1 : bs1[j] = P[j]
    <3> DEFINE bs == c.blocks
    <3>1. bs \in Seq(BlockSet) /\ Len(bs) = q /\ \A j \in 1 .. q : bs[j] = P[j]
      <4>1. \A j \in 1 .. q : j \in 1 .. n
        BY <1>0, <2>1
      <4> QED BY <1>2, <1>7, <1>9, <4>1, Zenon
    <3> HIDE DEF bs, b1, P
    <3> DEFINE a == Append(bs, b1)
    <3>4. a \in Seq(BlockSet) /\ Len(a) = q + 1 /\ (\A j \in 1 .. q : a[j] = bs[j]) /\ a[q + 1] = b1
      BY <1>0, <2>4, <3>1
    <3> HIDE DEF a
    <3>5. \A j \in 1 .. q + 1 : j \in 1 .. q \/ j = q + 1
      BY <1>0
    <3>6. bs1 = a
      BY Zenon DEF a, bs
    <3> HIDE DEF bs1
    <3> QED BY <2>4, <3>1, <3>4, <3>5, <3>6, Zenon
  <2>6. full \in Ctxs /\ full.blocks = bs1 /\ full.input = blank
    <3> DEFINE R == [D -> Cells]
    <3>1. marked \in [input : R, idx : Nat, bits : Nat, blocks : Seq(BlockSet)] /\ blank \in R
      BY <1>4, BlankInput, Zenon DEF Ctxs
    <3> HIDE DEF R, blank, bs1
    <3>2. full \in [input : R, idx : Nat, bits : Nat, blocks : Seq(BlockSet)]
      BY <2>5, <3>1
    <3>3. full.blocks = bs1 /\ full.input = blank
      BY <3>1
    <3> QED BY <3>2, <3>3, Zenon DEF Ctxs, R
  <2> HIDE DEF full
  <2> DEFINE in == [i \in D |-> IF i < room THEN full.input[i] ELSE Zero]
             b2 == BufferBlock(in, bits)
  <2>7. crypto_sha512_final(c) = Append(bs1, b2)
    BY <1>10, <2>2, <2>6, Zenon
  <2>8. ASSUME NEW i \in D PROVE in[i] = PadCell(T, (Origin[q + 1] + i) + 1)
    <3>1. in[i] = Zero
      <4>1. full.input[i] = Zero
        BY <2>6, BlankInput, Zenon
      <4> QED BY <4>1, Zenon
    <3>2. ~((Origin[q + 1] + i) + 1 <= Len(T)) /\ (Origin[q + 1] + i) + 1 # Len(T) + 1
      <4> DEFINE o == Origin[q]
                 o1 == Origin[q + 1]
      <4>1. o \in Nat /\ o1 = o + BlockBytes /\ Len(T) = o + d
        BY <1>0, <1>1, Zenon
      <4> HIDE DEF o, o1
      <4>2. ~((o1 + i) + 1 <= Len(T)) /\ (o1 + i) + 1 # Len(T) + 1
        BY <1>0, <1>1, <4>1
      <4> QED BY <4>2, Zenon DEF o1
    <3> QED BY <3>1, <3>2, Zenon DEF PadCell
  <2> HIDE DEF in
  <2>9. b2 = PadBlock(T, (q + 1) + 1, n)
    <3>1. bits = IF (q + 1) + 1 = n THEN 8 * Len(T) ELSE NoLength
      BY <1>5, <2>1, Zenon
    <3>2. PadBuffer(in, T, q + 1)
      BY <2>8, Zenon DEF PadBuffer
    <3>3. LengthAt(bits, T, q + 1, n)
      BY <3>1, Zenon DEF LengthAt
    <3>4. BlockAt(b2, T, q + 1, n)
      BY <2>1, <3>2, <3>3, BufferBlockIs, Zenon
    <3> QED BY <3>4, Zenon DEF BlockAt
  <2>10. Append(bs1, b2) = P
    <3> DEFINE k == q + 1
    <3>1. k \in Nat /\ n = k + 1
      BY <1>0, <2>1
    <3>2. b2 = P[k + 1] /\ Len(P) = k + 1 /\ P \in Seq(BlockSet)
      <4>1. k + 1 \in 1 .. n
        BY <3>1
      <4> QED BY <1>7, <2>9, <3>1, <4>1, Zenon
    <3>3. bs1 \in Seq(BlockSet) /\ Len(bs1) = k /\ \A j \in 1 .. k : bs1[j] = P[j]
      BY <2>5, Zenon
    <3> HIDE DEF k, bs1, b2, P
    <3>4. b2 \in BlockSet
      BY <3>1, <3>2
    <3> DEFINE a == Append(bs1, b2)
    <3>5. a \in Seq(BlockSet) /\ Len(a) = k + 1 /\ (\A j \in 1 .. k : a[j] = bs1[j]) /\ a[k + 1] = b2
      BY <3>1, <3>3, <3>4
    <3> HIDE DEF a
    <3>6. \A j \in 1 .. k + 1 : a[j] = P[j]
      <4>1. \A j \in 1 .. k + 1 : j \in 1 .. k \/ j = k + 1
        BY <3>1
      <4> QED BY <3>2, <3>3, <3>5, <4>1, Zenon
    <3>7. a = P
      BY <3>1, <3>2, <3>5, <3>6
    <3> QED BY <3>7, Zenon DEF a
  <2> QED BY <2>7, <2>10, Zenon DEF n
<1> QED BY <1>11, <1>12

\* Where the block a message ends in begins.
LEMMA EndsInBlock ==
    ASSUME NEW T \in Seq(Symbols)
    PROVE  \E q, d : Whole(T, q, d)
<1> DEFINE q == Len(T) \div BlockBytes
           d == Len(T) % BlockBytes
<1>1. Len(T) \in Nat /\ BlockBytes \in Nat \ {0}
  BY Sizes
<1>2. q \in Nat /\ d \in Nat /\ d < BlockBytes /\ Len(T) = (q * BlockBytes) + d
  BY <1>1, Divided
<1>3. q * BlockBytes = Origin[q]
  BY <1>2, Origins
<1>4. Whole(T, q, d)
  BY <1>2, <1>3, Zenon DEF Whole
<1> QED BY <1>4, Zenon

\* A context nothing was put into.
LEMMA StartReaches ==
    ASSUME NEW T \in Seq(Symbols)
    PROVE  Reaches(ShaInit, T, 0)
<1> DEFINE R == [0 .. BlockBytes - 1 -> Cells]
           blank == ShaInit.input
<1>0. Len(T) \in Nat /\ BlockBytes \in Nat \ {0} /\ Origin[0] = 0 /\ Origin[0] + 0 = 0
  <2>1. 0 \in Nat /\ 0 + 0 = 0
    OBVIOUS
  <2>2. Origin[0] = 0
    BY <2>1, Origins, Zenon
  <2> QED BY <2>1, <2>2, Sizes
<1>1. blank \in R /\ \A i \in 0 .. BlockBytes - 1 : blank[i] = Zero
  BY BlankInput, Zenon
<1>2. /\ ShaInit = [input |-> blank, idx |-> 0, bits |-> 0, blocks |-> <<>>]
      /\ ShaInit.idx = 0 /\ ShaInit.bits = 0 /\ ShaInit.blocks = <<>>
  BY DEF ShaInit
<1>3. ShaInit \in Ctxs
  <2> HIDE DEF R, blank
  <2>1. [input |-> blank, idx |-> 0, bits |-> 0, blocks |-> <<>>]
          \in [input : R, idx : Nat, bits : Nat, blocks : Seq(BlockSet)]
    BY <1>1
  <2> QED BY <1>2, <2>1, Zenon DEF Ctxs, R
<1>4. Within(T, 0, 0)
  BY <1>0 DEF Within
<1>5. Buffers(ShaInit.input, T, 0, 0)
  <2>1. \A i \in 0 .. BlockBytes - 1 : ~(i < 0)
    BY <1>0
  <2> QED BY <1>1, <2>1, Zenon DEF Buffers
<1>6. Compressed(ShaInit.blocks, T, 0)
  <2>1. Len(<<>>) = 0 /\ 1 .. 0 = {}
    OBVIOUS
  <2> QED BY <1>2, <2>1, Zenon DEF Compressed
<1>7. 8 * Origin[0] = 0 /\ 0 < BlockBytes
  BY <1>0
<1>8. Absorbed(ShaInit, T, 0, 0)
  BY <1>2, <1>3, <1>4, <1>5, <1>6, <1>7, Zenon DEF Absorbed
<1> QED BY <1>0, <1>7, <1>8, Zenon DEF Reaches

\* What a context has taken of a message it has taken of what came so far.
UpTo(p, q, d) == p = Origin[q] + d
SoFar(c, T, p, q, d) == Absorbed(c, SubSeq(T, 1, p), q, d) /\ Len(SubSeq(T, 1, p)) = p

LEMMA ReachedSoFar ==
    ASSUME NEW c, NEW T, NEW q, NEW d, Absorbed(c, T, q, d), NEW p, UpTo(p, q, d)
    PROVE  SoFar(c, T, p, q, d)
<1> DEFINE S == SubSeq(T, 1, p)
           o == Origin[q]
<1>0. /\ T \in Seq(Symbols) /\ q \in Nat /\ d \in Nat /\ d \in 0 .. BlockBytes /\ o \in Nat /\ o + d <= Len(T)
      /\ Len(T) \in Nat /\ p = o + d /\ BlockBytes \in Nat
  BY AbsorbedTypes, Sizes DEF UpTo
<1>1. S \in Seq(Symbols) /\ Len(S) = p /\ \A x \in 1 .. p : S[x] = T[x]
  <2> HIDE DEF o
  <2> QED BY <1>0
<1> HIDE DEF S
<1>2. c \in Ctxs /\ c.idx = d /\ c.bits = 8 * Origin[q] /\ Buffers(c.input, T, q, d) /\ Compressed(c.blocks, T, q)
  BY Zenon DEF Absorbed
<1>3. Within(S, q, d)
  <2>1. o + d <= Len(S)
    <3> HIDE DEF o
    <3> QED BY <1>0, <1>1
  <2> QED BY <1>0, <1>1, <2>1, Zenon DEF Within
<1>4. Buffers(c.input, S, q, d)
  <2>1. ASSUME NEW i \in 0 .. BlockBytes - 1, i < d PROVE S[(o + i) + 1] = T[(o + i) + 1]
    <3>1. (o + i) + 1 \in 1 .. p
      <4> HIDE DEF o
      <4> QED BY <1>0, <2>1
    <3> QED BY <1>1, <3>1, Zenon
  <2>2. ASSUME NEW i \in 0 .. BlockBytes - 1
        PROVE  c.input[i] = IF i < d THEN S[(Origin[q] + i) + 1] ELSE Zero
    <3>1. c.input[i] = IF i < d THEN T[(Origin[q] + i) + 1] ELSE Zero
      BY <1>2, Zenon DEF Buffers
    <3>2. CASE i < d
      BY <2>1, <3>1, <3>2, Zenon
    <3>3. CASE ~(i < d)
      BY <3>1, <3>3, Zenon
    <3> QED BY <3>2, <3>3
  <2> QED BY <2>2, Zenon DEF Buffers
<1>5. Compressed(c.blocks, S, q)
  <2>1. ASSUME NEW j \in 1 .. q PROVE BlockOf(T, j) = BlockOf(S, j)
    <3> DEFINE a == Origin[j - 1]
    <3>1. j - 1 \in Nat /\ j - 1 < q
      BY <1>0
    <3>2. a \in Nat /\ a + BlockBytes <= o
      BY <1>0, <3>1, Origins, OriginsOrdered
    <3>3. ASSUME NEW i \in 1 .. BlockBytes PROVE T[a + i] = S[a + i]
      <4>1. a + i \in 1 .. p
        <5> HIDE DEF o, a
        <5> QED BY <1>0, <3>2
      <4> QED BY <1>1, <4>1, Zenon
    <3>4. [i \in 1 .. BlockBytes |-> T[a + i]] = [i \in 1 .. BlockBytes |-> S[a + i]]
      BY <3>3, Zenon
    <3> QED BY <3>4, Zenon DEF BlockOf
  <2> QED BY <1>2, <2>1, Zenon DEF Compressed
<1>6. Absorbed(c, S, q, d)
  BY <1>2, <1>3, <1>4, <1>5, Zenon DEF Absorbed
<1> QED BY <1>1, <1>6, Zenon DEF S, SoFar

\* crypto_sha512_final(), after any pieces that make up the first p bytes of T,
\* compresses what the standard says of those bytes.
LEMMA FinalOfPieces ==
    ASSUME NEW c, NEW T, NEW p, Reaches(c, T, p)
    PROVE  crypto_sha512_final(c) = Padded(SubSeq(T, 1, p))
<1> DEFINE S == SubSeq(T, 1, p)
<1>1. PICK q, d : Absorbed(c, T, q, d) /\ d < BlockBytes /\ Origin[q] + d = p
  BY Zenon DEF Reaches
<1>2. Absorbed(c, S, q, d) /\ Len(S) = p
  <2>1. UpTo(p, q, d)
    BY <1>1, Zenon DEF UpTo
  <2>2. SoFar(c, T, p, q, d)
    BY <1>1, <2>1, ReachedSoFar, Zenon
  <2> QED BY <2>2, Zenon DEF SoFar
<1> HIDE DEF S
<1>3. Whole(S, q, d)
  <2>1. S \in Seq(Symbols) /\ q \in Nat /\ d \in Nat
    BY <1>2, AbsorbedTypes, Zenon
  <2> QED BY <1>1, <1>2, <2>1, Zenon DEF Whole
<1>4. crypto_sha512_final(c) = Pads(S, Blocks(q, d))
  BY <1>2, <1>3, FinalIs, Zenon
<1>5. Padded(S) = Pads(S, Blocks(q, d))
  BY <1>3, PaddedIs, Zenon
<1> QED BY <1>4, <1>5, Zenon DEF S

\* The byte at x is in the block the padding has it in.
InBlock(x, n) == \E j \in 1 .. n, i \in 1 .. BlockBytes : x = Origin[j - 1] + i

LEMMA CellOf ==
    ASSUME NEW T, NEW q, NEW d, Whole(T, q, d), NEW x \in 1 .. Len(T)
    PROVE  InBlock(x, Blocks(q, d))
<1> DEFINE k == (x - 1) \div BlockBytes
           r == (x - 1) % BlockBytes
<1>0. T \in Seq(Symbols) /\ q \in Nat /\ d \in Nat /\ d < BlockBytes /\ Len(T) = Origin[q] + d /\ Len(T) \in Nat
  BY DEF Whole
<1>1. x - 1 \in Nat /\ BlockBytes \in Nat \ {0} /\ Origin[q] \in Nat
  BY <1>0, Sizes, Origins
<1>2. k \in Nat /\ r \in Nat /\ r < BlockBytes /\ x - 1 = (k * BlockBytes) + r
  BY <1>1, Divided
<1> HIDE DEF k, r
<1>3. k * BlockBytes = Origin[k] /\ Origin[k] \in Nat /\ Origin[q + 1] = Origin[q] + BlockBytes
      /\ (q + 1 <= k => Origin[q + 1] <= Origin[k])
  BY <1>0, <1>2, Origins, OriginsOrdered
<1>4. k <= q
  <2> DEFINE a == Origin[k]
             b == Origin[q + 1]
             o == Origin[q]
  <2>1. a \in Nat /\ o \in Nat /\ b = o + BlockBytes /\ (q + 1 <= k => b <= a) /\ x - 1 = a + r /\ Len(T) = o + d
    BY <1>0, <1>1, <1>2, <1>3, Zenon
  <2> HIDE DEF a, b, o
  <2> QED BY <1>0, <1>1, <1>2, <2>1
<1>5. k + 1 \in 1 .. Blocks(q, d)
  <2>1. Blocks(q, d) \in Nat /\ q + 1 <= Blocks(q, d)
    BY <1>0, BlocksTyped
  <2> QED BY <1>0, <1>2, <1>4, <2>1
<1>6. r + 1 \in 1 .. BlockBytes /\ (k + 1) - 1 = k
  BY <1>1, <1>2
<1>7. x = Origin[k] + (r + 1)
  <2> DEFINE a == Origin[k]
  <2>1. a \in Nat /\ x - 1 = a + r
    BY <1>2, <1>3, Zenon
  <2> HIDE DEF a
  <2>2. x = a + (r + 1)
    BY <1>2, <2>1
  <2> QED BY <2>2, Zenon DEF a
<1> QED BY <1>5, <1>6, <1>7, Zenon DEF InBlock

\* Two messages with the same padding are the same: the digest, ideal as it is,
\* tells all messages apart.
LEMMA PaddedInjective ==
    ASSUME NEW S \in Seq(Symbols), NEW T \in Seq(Symbols), Padded(S) = Padded(T)
    PROVE  S = T
<1>1. PICK q, d : Whole(S, q, d)
  BY EndsInBlock, Zenon
<1>2. PICK e, f : Whole(T, e, f)
  BY EndsInBlock, Zenon
<1> DEFINE n == Blocks(q, d)
           m == Blocks(e, f)
           P == Pads(S, n)
<1>3. n \in Nat /\ n # 0 /\ m \in Nat /\ m # 0
  <2>1. q \in Nat /\ e \in Nat
    BY <1>1, <1>2, Zenon DEF Whole
  <2>2. n \in Nat /\ q + 1 <= n /\ m \in Nat /\ e + 1 <= m
    BY <2>1, BlocksTyped
  <2> HIDE DEF n, m
  <2> QED BY <2>1, <2>2
<1>4. P = Pads(T, m)
  BY <1>1, <1>2, PaddedIs, Zenon
<1>5. Len(P) = n /\ Len(P) = m /\ P[n].bits = 8 * Len(S) /\ P[m].bits = 8 * Len(T)
  <2>1. n \in 1 .. n /\ m \in 1 .. m
    BY <1>3
  <2> HIDE DEF n, m
  <2> QED BY <1>3, <1>4, <2>1, PadsTyped, Zenon
<1>6. n = m /\ Len(S) = Len(T)
  <2>1. n = m
    BY <1>5, Zenon
  <2>2. 8 * Len(S) = 8 * Len(T)
    BY <1>5, <2>1, Zenon
  <2> QED BY <2>1, <2>2
<1>7. ASSUME NEW x \in 1 .. Len(S) PROVE S[x] = T[x]
  <2>1. PICK j \in 1 .. n, i \in 1 .. BlockBytes : x = Origin[j - 1] + i
    <3>1. InBlock(x, n)
      BY <1>1, CellOf, Zenon
    <3> QED BY <3>1, Zenon DEF InBlock
  <2>2. x <= Len(S) /\ x <= Len(T)
    BY <1>6
  <2> HIDE DEF n, m
  <2>3. P[j].bytes[i] = PadCell(S, x) /\ P[j].bytes[i] = PadCell(T, x)
    <3>1. \A k \in 1 .. n : \A l \in 1 .. BlockBytes : P[k].bytes[l] = PadCell(S, Origin[k - 1] + l)
      BY <1>3, PadsTyped, Zenon
    <3>2. \A k \in 1 .. n : \A l \in 1 .. BlockBytes : P[k].bytes[l] = PadCell(T, Origin[k - 1] + l)
      <4> DEFINE Q == Pads(T, m)
      <4>1. \A k \in 1 .. m : \A l \in 1 .. BlockBytes : Q[k].bytes[l] = PadCell(T, Origin[k - 1] + l)
        BY <1>3, PadsTyped, Zenon
      <4>2. P = Q
        BY <1>4, Zenon
      <4> HIDE DEF P, Q
      <4> QED BY <1>6, <4>1, <4>2, Zenon
    <3> HIDE DEF P
    <3> QED BY <2>1, <3>1, <3>2, Zenon
  <2> QED BY <2>2, <2>3, Zenon DEF PadCell
<1> QED BY <1>6, <1>7

(***************************************************************************)
(* Versions                                                                *)
(***************************************************************************)

\* A part of a version, read from the left.
LEMMA PartRead ==
    ASSUME NEW s \in Seq(Numerals)
    PROVE  \E h \in [0 .. Len(s) -> Nat] :
              /\ h[0] = 0 /\ \A k \in 1 .. Len(s) : h[k] = h[k - 1] * 10 + NumeralValue[s[k]]
              /\ Part(s) = h[Len(s)]
<1> DEFINE n == Len(s)
           step == [p \in (1 .. n) \X Nat |-> p[2] * 10 + NumeralValue[s[p[1]]]]
           g == CHOOSE g : g = [x \in SUBSET DOMAIN s |->
                                  IF x = {} THEN 0 ELSE g[x \ {Max(x)}] * 10 + NumeralValue[s[Max(x)]]]
<1>0. n \in Nat /\ DOMAIN s = 1 .. n /\ \A k \in 1 .. n : NumeralValue[s[k]] \in Nat
  <2>1. n \in Nat /\ DOMAIN s = 1 .. n /\ \A k \in 1 .. n : s[k] \in Numerals
    OBVIOUS
  <2> HIDE DEF n
  <2> QED BY <2>1, Digits
<1> HIDE DEF n
<1>1. Folds(n, Nat, 0, step)
  BY <1>0 DEF Folds
<1>2. PICK f \in [SUBSET (1 .. n) -> Nat] : IsFold(f, n, 0, step)
  <2> HIDE DEF step
  <2> QED BY <1>1, FoldExists
<1>3. \A k \in 1 .. n, v \in Nat : step[<<k, v>>] = v * 10 + NumeralValue[s[k]]
  OBVIOUS
<1>4. f = [x \in SUBSET DOMAIN s |-> IF x = {} THEN 0 ELSE f[x \ {Max(x)}] * 10 + NumeralValue[s[Max(x)]]]
  <2> SUFFICES ASSUME NEW x \in SUBSET (1 .. n), x # {}
               PROVE  step[<<Max(x), f[x \ {Max(x)}]>>] = f[x \ {Max(x)}] * 10 + NumeralValue[s[Max(x)]]
    <3> HIDE DEF step
    <3> QED BY <1>0, <1>2 DEF IsFold
  <2>1. Max(x) \in 1 .. n /\ f[x \ {Max(x)}] \in Nat
    BY <1>0, MaxOf
  <2> HIDE DEF step
  <2> QED BY <1>3, <2>1
<1>5. g = [x \in SUBSET DOMAIN s |-> IF x = {} THEN 0 ELSE g[x \ {Max(x)}] * 10 + NumeralValue[s[Max(x)]]]
  BY <1>4, Zenon
<1>6. Part(s) = g[DOMAIN s]
  BY Zenon DEF Part, FoldLeft, MapThenFoldSet
<1> HIDE DEF g, step
<1>7. g[{}] = 0
  BY <1>5
<1>8. ASSUME NEW k \in 1 .. n, g[1 .. (k - 1)] \in Nat
      PROVE  g[1 .. k] = step[<<k, g[1 .. (k - 1)]>>]
  <2>1. 1 .. k \in SUBSET (1 .. n) /\ 1 .. k # {} /\ Max(1 .. k) = k /\ (1 .. k) \ {Max(1 .. k)} = 1 .. (k - 1)
    BY <1>0, MaxInterval
  <2>2. g[1 .. k] = g[(1 .. k) \ {Max(1 .. k)}] * 10 + NumeralValue[s[Max(1 .. k)]]
    BY <1>0, <1>5, <2>1
  <2> QED BY <1>3, <1>8, <2>1, <2>2
<1>9. /\ \A k \in 0 .. n : g[1 .. k] \in Nat
      /\ \A k \in 1 .. n : g[1 .. k] = step[<<k, g[1 .. (k - 1)]>>]
  BY <1>1, <1>7, <1>8, FoldRuns
<1> DEFINE h == [k \in 0 .. n |-> g[1 .. k]]
<1>10. h \in [0 .. n -> Nat]
  BY <1>9
<1>11. h[0] = 0
  <2>1. 1 .. 0 = {} /\ 0 \in 0 .. n
    BY <1>0
  <2> QED BY <1>7, <2>1
<1>12. ASSUME NEW k \in 1 .. n PROVE h[k] = h[k - 1] * 10 + NumeralValue[s[k]]
  <2>1. k \in 0 .. n /\ k - 1 \in 0 .. n
    BY <1>0
  <2>2. g[1 .. k] = g[1 .. (k - 1)] * 10 + NumeralValue[s[k]]
    BY <1>3, <1>9, <2>1
  <2> QED BY <2>1, <2>2
<1>13. Part(s) = h[n]
  <2>1. n \in 0 .. n
    BY <1>0
  <2> QED BY <1>0, <1>6, <2>1
<1> HIDE DEF h
<1>14. \E hh \in [0 .. n -> Nat] :
          /\ hh[0] = 0 /\ \A k \in 1 .. n : hh[k] = hh[k - 1] * 10 + NumeralValue[s[k]]
          /\ Part(s) = hh[n]
  BY <1>10, <1>11, <1>12, <1>13
<1> QED BY <1>14 DEF n

LEMMA PartAppend ==
    ASSUME NEW s \in Seq(Numerals), NEW c \in Numerals
    PROVE  /\ s \o <<c>> \in Seq(Numerals) /\ s \o <<c>> # << >>
           /\ Part(s) \in Nat /\ Part(s \o <<c>>) = Part(s) * 10 + NumeralValue[c]
<1> DEFINE t == s \o <<c>>
           n == Len(s)
<1>1. /\ t \in Seq(Numerals) /\ Len(t) = n + 1 /\ n \in Nat /\ t[n + 1] = c
      /\ \A k \in 1 .. n : t[k] = s[k]
  OBVIOUS
<1>2. t # << >>
  BY <1>1
<1> HIDE DEF t
<1>3. PICK h \in [0 .. n -> Nat] : /\ h[0] = 0 /\ \A k \in 1 .. n : h[k] = h[k - 1] * 10 + NumeralValue[s[k]]
                                   /\ Part(s) = h[n]
  BY PartRead
<1>4. PICK b \in [0 .. n + 1 -> Nat] : /\ b[0] = 0 /\ \A k \in 1 .. n + 1 : b[k] = b[k - 1] * 10 + NumeralValue[t[k]]
                                       /\ Part(t) = b[n + 1]
  <2> HIDE DEF n
  <2>1. \E b \in [0 .. Len(t) -> Nat] : /\ b[0] = 0 /\ \A k \in 1 .. Len(t) : b[k] = b[k - 1] * 10 + NumeralValue[t[k]]
                                        /\ Part(t) = b[Len(t)]
    BY <1>1, PartRead
  <2> QED BY <1>1, <2>1
<1> HIDE DEF n
<1> DEFINE S == {k \in Nat : k <= n => h[k] = b[k]}
<1>5. 0 \in S
  BY <1>3, <1>4
<1>6. ASSUME NEW k \in S PROVE k + 1 \in S
  <2> SUFFICES ASSUME k + 1 <= n PROVE h[k + 1] = b[k + 1]
    OBVIOUS
  <2>1. k \in Nat /\ k <= n /\ h[k] = b[k] /\ k + 1 \in 1 .. n /\ k + 1 \in 1 .. n + 1 /\ (k + 1) - 1 = k
    BY <1>1
  <2>2. h[k + 1] = h[(k + 1) - 1] * 10 + NumeralValue[s[k + 1]]
    BY <1>3, <2>1, Zenon
  <2>3. b[k + 1] = b[(k + 1) - 1] * 10 + NumeralValue[t[k + 1]]
    BY <1>4, <2>1, Zenon
  <2> QED BY <1>1, <2>1, <2>2, <2>3, Zenon
<1>7. S = Nat
  <2>1. S \in SUBSET Nat
    OBVIOUS
  <2> HIDE DEF S
  <2> QED BY <1>5, <1>6, <2>1, Induction
<1>8. h[n] = b[n]
  <2>1. n \in S
    <3> HIDE DEF S
    <3> QED BY <1>1, <1>7
  <2> QED BY <1>1, <2>1
<1>9. b[n + 1] = b[n] * 10 + NumeralValue[c]
  <2>1. n + 1 \in 1 .. n + 1 /\ (n + 1) - 1 = n
    BY <1>1
  <2> QED BY <1>1, <1>4, <2>1
<1>10. h[n] \in Nat
  BY <1>1, <1>3
<1>11. Part(t) = Part(s) * 10 + NumeralValue[c] /\ Part(s) \in Nat
  BY <1>3, <1>4, <1>8, <1>9, <1>10
<1> QED BY <1>1, <1>2, <1>11, Zenon DEF t

\* The digits of a number, most significant first.
Written == CHOOSE D : D = [k \in Nat |-> IF k < 10 THEN <<NumeralAt[k + 1]>>
                                         ELSE D[k \div 10] \o <<NumeralAt[(k % 10) + 1]>>]

LEMMA WrittenMeaning ==
    \A x \in Nat : Written[x] = IF x < 10 THEN <<NumeralAt[x + 1]>>
                                ELSE Written[x \div 10] \o <<NumeralAt[(x % 10) + 1]>>
<1> DEFINE D == Nat
           V == Seq(Numerals)
           base == <<NumeralAt[1]>>
           rank == [x \in D |-> x]
           back == [x \in D |-> x \div 10]
           step == [p \in D \X V |-> IF p[1] < 10 THEN <<NumeralAt[p[1] + 1]>> ELSE p[2] \o <<NumeralAt[(p[1] % 10) + 1]>>]
<1>1. ASSUME NEW x \in D
      PROVE  x \div 10 \in D /\ (x # 0 => x \div 10 < x) /\ (x % 10) + 1 \in 1 .. 10 /\ (x < 10 => x + 1 \in 1 .. 10)
  OBVIOUS
<1>2. rank \in [D -> Nat] /\ back \in [D -> D] /\ {0} \subseteq D
  BY <1>1
<1>3. base \in V
  <2>1. NumeralAt[1] \in Numerals
    BY Digits
  <2> QED BY <2>1
<1>4. step \in [D \X V -> V]
  <2> SUFFICES ASSUME NEW x \in D, NEW v \in V
               PROVE  (IF x < 10 THEN <<NumeralAt[x + 1]>> ELSE v \o <<NumeralAt[(x % 10) + 1]>>) \in V
    OBVIOUS
  <2>1. NumeralAt[(x % 10) + 1] \in Numerals /\ (x < 10 => NumeralAt[x + 1] \in Numerals)
    BY <1>1, Digits
  <2> QED BY <2>1
<1>5. ASSUME NEW x \in D \ {0} PROVE rank[back[x]] < rank[x]
  BY <1>1
<1>6. Recurs(D, V, base, {0}, rank, back, step)
  <2> HIDE DEF D, V, base, rank, back, step
  <2> QED BY <1>2, <1>3, <1>4, <1>5 DEF Recurs
<1>7. PICK f \in [D -> V] : f = [x \in D |-> IF x \in {0} THEN base ELSE step[<<x, f[back[x]]>>]]
  <2> HIDE DEF D, V, base, rank, back, step
  <2> QED BY <1>6, Recursion
<1>8. ASSUME NEW x \in D
      PROVE  f[x] = IF x < 10 THEN <<NumeralAt[x + 1]>> ELSE f[x \div 10] \o <<NumeralAt[(x % 10) + 1]>>
  <2>1. f[x] = IF x = 0 THEN base ELSE step[<<x, f[back[x]]>>]
    <3> HIDE DEF D, V, base, back, step
    <3> QED BY <1>7
  <2>2. back[x] = x \div 10 /\ f[x \div 10] \in V
    BY <1>1
  <2>3. step[<<x, f[x \div 10]>>] = IF x < 10 THEN <<NumeralAt[x + 1]>> ELSE f[x \div 10] \o <<NumeralAt[(x % 10) + 1]>>
    <3>1. <<x, f[x \div 10]>> \in D \X V
      BY <2>2
    <3> HIDE DEF D, V
    <3> QED BY <3>1
  <2>4. CASE x = 0
    <3>1. x < 10 /\ x + 1 = 1
      BY <2>4
    <3> QED BY <2>1, <2>4, <3>1, Zenon
  <2>5. CASE x # 0
    <3> HIDE DEF D, V, base, back, step
    <3> QED BY <2>1, <2>2, <2>3, <2>5, Zenon
  <2> QED BY <2>4, <2>5
<1>9. f = [x \in D |-> IF x < 10 THEN <<NumeralAt[x + 1]>> ELSE f[x \div 10] \o <<NumeralAt[(x % 10) + 1]>>]
  <2> HIDE DEF D, V
  <2> QED BY <1>8
<1>10. Written = [x \in D |-> IF x < 10 THEN <<NumeralAt[x + 1]>> ELSE Written[x \div 10] \o <<NumeralAt[(x % 10) + 1]>>]
  BY <1>9, Zenon DEF Written
<1> QED BY <1>10, Zenon

LEMMA NumeralTextIs ==
    ASSUME NEW n \in Nat
    PROVE  NumeralText(n) = Written[n]
<1>1. ~(n < 0)
  OBVIOUS
<1> QED BY <1>1, Zenon DEF NumeralText, Written

\* A text a number is written as.
Reads(t, n) == t \in Seq(Numerals) /\ Len(t) # 0 /\ Part(t) = n /\ (n # 0 => t[1] # "0") /\ (n < 10 => Len(t) = 1)

LEMMA PartEmpty == Part(<< >>) = 0
<1>1. << >> \in Seq(Numerals) /\ Len(<< >>) = 0
  OBVIOUS
<1> QED BY <1>1, PartRead

LEMMA NumeralOf ==
    ASSUME NEW d \in 0 .. 9
    PROVE  /\ NumeralAt[d + 1] \in Numerals /\ NumeralValue[NumeralAt[d + 1]] = d
           /\ (NumeralAt[d + 1] = "0" <=> d = 0)
<1>1. d + 1 \in 1 .. 10 /\ (d + 1) - 1 = d /\ 1 \in 1 .. 10 /\ 1 - 1 = 0
  OBVIOUS
<1>2. NumeralAt[d + 1] \in Numerals /\ NumeralValue[NumeralAt[d + 1]] = d /\ NumeralValue[NumeralAt[1]] = 0
  <2>1. NumeralAt[d + 1] \in Numerals /\ NumeralValue[NumeralAt[d + 1]] = (d + 1) - 1 /\ NumeralValue[NumeralAt[1]] = 1 - 1
    BY <1>1, Digits, Zenon
  <2> QED BY <1>1, <2>1, Zenon
<1>3. NumeralAt[1] = "0"
  BY DEF NumeralAt
<1>4. d = 0 => d + 1 = 1
  OBVIOUS
<1> QED BY <1>2, <1>3, <1>4, Zenon

\* A digit is the one its value picks.
LEMMA NumeralIs ==
    ASSUME NEW c \in Numerals
    PROVE  NumeralValue[c] \in 0 .. 9 /\ NumeralAt[NumeralValue[c] + 1] = c
<1>1. DOMAIN NumeralAt = 1 .. 10 /\ Numerals = ToSet(NumeralAt)
  BY DEF NumeralAt, Numerals, NumeralValue
<1>2. PICK i \in 1 .. 10 : NumeralAt[i] = c
  BY <1>1 DEF ToSet
<1>3. NumeralValue[NumeralAt[i]] = i - 1
  BY Digits, Zenon
<1>4. NumeralValue[c] = i - 1
  BY <1>2, <1>3, Zenon
<1>5. (i - 1) + 1 = i /\ i - 1 \in 0 .. 9
  OBVIOUS
<1> QED BY <1>2, <1>4, <1>5, Zenon

\* One digit more.
LEMMA ReadsMore ==
    ASSUME NEW n \in Nat, 10 <= n, NEW t, Reads(t, n \div 10)
    PROVE  Reads(t \o <<NumeralAt[(n % 10) + 1]>>, n) /\ Len(t \o <<NumeralAt[(n % 10) + 1]>>) = Len(t) + 1
<1> DEFINE q == n \div 10
           d == n % 10
           c == NumeralAt[d + 1]
           s == t \o <<c>>
<1>1. q \in Nat /\ q # 0 /\ d \in 0 .. 9 /\ q * 10 + d = n /\ ~(n < 10)
  OBVIOUS
<1>2. t \in Seq(Numerals) /\ Len(t) # 0 /\ Part(t) = q /\ t[1] # "0"
  BY <1>1 DEF Reads
<1> HIDE DEF q, d
<1>3. c \in Numerals /\ NumeralValue[c] = d
  BY <1>1, NumeralOf
<1> HIDE DEF c
<1>4. s \in Seq(Numerals) /\ Len(s) # 0 /\ Len(s) = Len(t) + 1 /\ s[1] = t[1]
  BY <1>2, <1>3
<1>5. Part(s) = Part(t) * 10 + NumeralValue[c]
  BY <1>2, <1>3, PartAppend, Zenon
<1>6. Part(s) = n
  BY <1>1, <1>2, <1>3, <1>5, Zenon
<1> HIDE DEF s
<1>7. Reads(s, n)
  BY <1>1, <1>2, <1>4, <1>6, Zenon DEF Reads
<1> QED BY <1>4, <1>7, Zenon DEF s, c, d

LEMMA ReadsOne ==
    ASSUME NEW n \in 0 .. 9
    PROVE  Reads(<<NumeralAt[n + 1]>>, n)
<1> DEFINE c == NumeralAt[n + 1]
           s == <<c>>
<1>1. c \in Numerals /\ NumeralValue[c] = n /\ (c = "0" <=> n = 0)
  BY NumeralOf
<1> HIDE DEF c
<1>2. s \in Seq(Numerals) /\ Len(s) = 1 /\ s[1] = c /\ << >> \in Seq(Numerals) /\ s = << >> \o <<c>> /\ Len(s) # 0
  BY <1>1
<1>3. Part(<< >> \o <<c>>) = Part(<< >>) * 10 + NumeralValue[c]
  BY <1>1, <1>2, PartAppend, Zenon
<1>4. 0 * 10 + n = n
  OBVIOUS
<1>5. Part(s) = n
  BY <1>1, <1>2, <1>3, <1>4, PartEmpty, Zenon
<1> HIDE DEF s
<1>6. Reads(s, n)
  BY <1>1, <1>2, <1>5, Zenon DEF Reads
<1> QED BY <1>6, Zenon DEF s, c

\* The text of a number reads as that number, without a leading zero.
LEMMA NumeralTextReads ==
    ASSUME NEW n \in Nat
    PROVE  Reads(NumeralText(n), n)
<1> DEFINE T == {k \in Nat : ~Reads(Written[k], k)}
<1>1. T = {}
  <2> SUFFICES ASSUME T # {} PROVE FALSE
    OBVIOUS
  <2>1. PICK k \in T : \A m \in T : k <= m
    <3>1. T \in SUBSET Nat
      OBVIOUS
    <3> HIDE DEF T
    <3> QED BY <3>1, LeastOf
  <2>2. k \in Nat /\ ~Reads(Written[k], k)
    OBVIOUS
  <2>3. CASE k < 10
    <3>1. k \in 0 .. 9
      BY <2>2, <2>3
    <3>2. Written[k] = <<NumeralAt[k + 1]>>
      BY <2>2, <2>3, WrittenMeaning, Zenon
    <3> QED BY <2>2, <3>1, <3>2, ReadsOne, Zenon
  <2>4. CASE ~(k < 10)
    <3>1. 10 <= k /\ k \div 10 \in Nat /\ ~(k <= k \div 10)
      BY <2>2, <2>4
    <3>2. Reads(Written[k \div 10], k \div 10)
      <4>1. k \div 10 \notin T
        <5> HIDE DEF T
        <5> QED BY <2>1, <3>1, Zenon
      <4> QED BY <3>1, <4>1, Zenon
    <3>3. Written[k] = Written[k \div 10] \o <<NumeralAt[(k % 10) + 1]>>
      BY <2>2, <2>4, WrittenMeaning, Zenon
    <3> QED BY <2>2, <3>1, <3>2, <3>3, ReadsMore, Zenon
  <2> QED BY <2>3, <2>4
<1>2. Reads(Written[n], n)
  BY <1>1, Zenon
<1> QED BY <1>2, NumeralTextIs, Zenon

\* A greater number is not shorter.
LEMMA LongerText ==
    ASSUME NEW n \in Nat, NEW m \in Nat, n <= m
    PROVE  Len(NumeralText(n)) <= Len(NumeralText(m))
<1> DEFINE L(k) == Len(Written[k])
           T == {j \in Nat : \E i \in 0 .. j : ~(L(i) <= L(j))}
<1>1. \A k \in Nat : /\ L(k) \in Nat /\ 1 <= L(k) /\ (k < 10 => L(k) = 1)
                     /\ (~(k < 10) => L(k) = L(k \div 10) + 1)
  <2> SUFFICES ASSUME NEW k \in Nat
               PROVE  L(k) \in Nat /\ 1 <= L(k) /\ (k < 10 => L(k) = 1) /\ (~(k < 10) => L(k) = L(k \div 10) + 1)
    OBVIOUS
  <2>1. Reads(Written[k], k) /\ Reads(Written[k \div 10], k \div 10) /\ k \div 10 \in Nat
    <3>1. k \div 10 \in Nat
      OBVIOUS
    <3> QED BY <3>1, NumeralTextReads, NumeralTextIs, Zenon
  <2>2. L(k) \in Nat /\ 1 <= L(k) /\ (k < 10 => L(k) = 1)
    <3> DEFINE t == Written[k]
    <3>1. t \in Seq(Numerals) /\ Len(t) # 0 /\ (k < 10 => Len(t) = 1)
      BY <2>1, Zenon DEF Reads
    <3> HIDE DEF t
    <3>2. Len(t) \in Nat /\ 1 <= Len(t)
      BY <3>1
    <3> QED BY <3>1, <3>2, Zenon DEF t
  <2>3. ASSUME ~(k < 10) PROVE L(k) = L(k \div 10) + 1
    <3>1. 10 <= k
      BY <2>3
    <3>2. Written[k] = Written[k \div 10] \o <<NumeralAt[(k % 10) + 1]>>
      BY <2>3, WrittenMeaning, Zenon
    <3> QED BY <2>1, <3>1, <3>2, ReadsMore, Zenon
  <2> QED BY <2>2, <2>3, Zenon
<1> HIDE DEF L
<1>2. T = {}
  <2> SUFFICES ASSUME T # {} PROVE FALSE
    OBVIOUS
  <2>1. PICK j \in T : \A k \in T : j <= k
    <3>1. T \in SUBSET Nat
      OBVIOUS
    <3> HIDE DEF T
    <3> QED BY <3>1, LeastOf
  <2>2. PICK i \in 0 .. j : ~(L(i) <= L(j))
    OBVIOUS
  <2>3. j \in Nat /\ i \in Nat /\ i <= j
    OBVIOUS
  <2>4. CASE i < 10
    BY <1>1, <2>2, <2>3, <2>4
  <2>5. CASE ~(i < 10)
    <3> DEFINE a == i \div 10
               b == j \div 10
    <3>1. a \in Nat /\ b \in Nat /\ a <= b /\ ~(j <= b) /\ ~(j < 10) /\ a \in 0 .. b
      BY <2>3, <2>5
    <3>2. L(i) = L(a) + 1 /\ L(j) = L(b) + 1
      BY <1>1, <2>3, <2>5, <3>1, Zenon
    <3> HIDE DEF a, b
    <3>3. L(a) <= L(b)
      <4>1. b \notin T
        <5> HIDE DEF T
        <5> QED BY <2>1, <3>1, Zenon
      <4> QED BY <3>1, <4>1, Zenon
    <3>4. L(a) \in Nat /\ L(b) \in Nat
      BY <1>1, <3>1
    <3> QED BY <2>2, <3>2, <3>3, <3>4
  <2> QED BY <2>4, <2>5
<1>3. L(n) <= L(m)
  <2>1. m \notin T /\ n \in 0 .. m
    BY <1>2
  <2> QED BY <2>1
<1> QED BY <1>3, NumeralTextIs, Zenon DEF L

\* A part without a leading zero.
NoLeadingZero(s) == s \in Seq(Numerals) /\ Len(s) # 0 /\ (s[1] = "0" => Len(s) = 1)
Respelled(s) == Part(s) \in Nat /\ NumeralText(Part(s)) = s /\ (s[1] # "0" => Part(s) # 0)

\* Such a part is what its number is written as: it has one spelling.
LEMMA OneSpelling ==
    ASSUME NEW s, NoLeadingZero(s)
    PROVE  Respelled(s)
<1> DEFINE S == {k \in Nat : \A t \in Seq(Numerals) : Len(t) = k + 1 /\ NoLeadingZero(t) => Respelled(t)}
<1>1. 0 \in S
  <2> SUFFICES ASSUME NEW t \in Seq(Numerals), Len(t) = 0 + 1, NoLeadingZero(t) PROVE Respelled(t)
    OBVIOUS
  <2> DEFINE c == t[1]
             d == NumeralValue[c]
  <2>1. t = <<c>> /\ c \in Numerals
    OBVIOUS
  <2>2. d \in 0 .. 9 /\ NumeralAt[d + 1] = c
    BY <2>1, NumeralIs
  <2>3. Reads(<<NumeralAt[d + 1]>>, d) /\ (NumeralAt[d + 1] = "0" <=> d = 0)
    BY <2>2, ReadsOne, NumeralOf
  <2>4. Part(t) = d
    BY <2>1, <2>2, <2>3, Zenon DEF Reads
  <2>5. d \in Nat /\ d < 10
    BY <2>2
  <2>6. NumeralText(d) = <<NumeralAt[d + 1]>>
    BY <2>5, NumeralTextIs, WrittenMeaning, Zenon
  <2> HIDE DEF c, d
  <2>7. Part(t) \in Nat /\ NumeralText(Part(t)) = t /\ (c # "0" => Part(t) # 0)
    BY <2>1, <2>2, <2>3, <2>4, <2>5, <2>6, Zenon
  <2> QED BY <2>7, Zenon DEF Respelled, c
<1>2. ASSUME NEW k \in S PROVE k + 1 \in S
  <2> SUFFICES ASSUME NEW t \in Seq(Numerals), Len(t) = (k + 1) + 1, NoLeadingZero(t) PROVE Respelled(t)
    OBVIOUS
  <2> DEFINE r == SubSeq(t, 1, k + 1)
             c == t[(k + 1) + 1]
             v == NumeralValue[c]
             n == Part(r)
  <2>1. k \in Nat
    OBVIOUS
  <2>2. r \in Seq(Numerals) /\ Len(r) = k + 1 /\ c \in Numerals /\ t = r \o <<c>> /\ r[1] = t[1] /\ Len(r) # 0
    BY <2>1
  <2>3. t[1] # "0"
    <3>1. Len(t) # 1
      BY <2>1
    <3> QED BY <3>1, Zenon DEF NoLeadingZero
  <2>4. Respelled(r)
    <3>1. NoLeadingZero(r)
      BY <2>2, <2>3, Zenon DEF NoLeadingZero
    <3> HIDE DEF r
    <3> QED BY <2>2, <3>1
  <2>5. n \in Nat /\ NumeralText(n) = r /\ n # 0
    BY <2>2, <2>3, <2>4, Zenon DEF Respelled
  <2>6. v \in 0 .. 9 /\ NumeralAt[v + 1] = c
    BY <2>2, NumeralIs
  <2> DEFINE m == n * 10 + v
  <2>7. Part(t) = m
    <3>1. Part(r \o <<c>>) = Part(r) * 10 + NumeralValue[c]
      BY <2>2, PartAppend, Zenon
    <3> QED BY <2>2, <3>1, Zenon
  <2> HIDE DEF n, v
  <2>8. m \in Nat /\ ~(m < 10) /\ m \div 10 = n /\ m % 10 = v /\ m # 0
    BY <2>5, <2>6
  <2> HIDE DEF m
  <2>9. NumeralText(m) = Written[m \div 10] \o <<NumeralAt[(m % 10) + 1]>>
    BY <2>8, NumeralTextIs, WrittenMeaning, Zenon
  <2>10. NumeralText(m) = r \o <<c>>
    BY <2>5, <2>6, <2>8, <2>9, NumeralTextIs, Zenon
  <2> QED BY <2>2, <2>7, <2>8, <2>10, Zenon DEF Respelled
<1>3. S = Nat
  <2>1. S \in SUBSET Nat
    OBVIOUS
  <2> HIDE DEF S
  <2> QED BY <1>1, <1>2, <2>1, Induction
<1>4. s \in Seq(Numerals) /\ Len(s) - 1 \in S /\ Len(s) = (Len(s) - 1) + 1
  <2>1. s \in Seq(Numerals) /\ Len(s) # 0
    BY DEF NoLeadingZero
  <2>2. Len(s) - 1 \in Nat /\ Len(s) = (Len(s) - 1) + 1
    BY <2>1
  <2> HIDE DEF S
  <2> QED BY <1>3, <2>1, <2>2
<1> QED BY <1>4, Zenon

\* A text split at its dots: the parts read so far, one more byte.
DotSplits(A) == {p \in Seq(Seq(A)) : Len(p) # 0}
DotStep(p, c) == IF c = "." THEN Append(p, <<>>) ELSE [p EXCEPT ![Len(p)] = Append(@, c)]

LEMMA DotTyped ==
    ASSUME NEW A, NEW p \in DotSplits(A), NEW c \in A
    PROVE  DotStep(p, c) \in DotSplits(A)
<1>1. p \in Seq(Seq(A)) /\ Len(p) \in Nat /\ Len(p) # 0 /\ Len(p) \in 1 .. Len(p) /\ p[Len(p)] \in Seq(A)
  BY DEF DotSplits
<1>2. CASE c = "."
  <2> DEFINE q == Append(p, <<>>)
  <2>1. << >> \in Seq(A)
    OBVIOUS
  <2>2. q \in Seq(Seq(A)) /\ Len(q) = Len(p) + 1
    BY <1>1, <2>1
  <2>3. Len(q) # 0
    BY <1>1, <2>2
  <2> QED BY <1>2, <2>2, <2>3, Zenon DEF DotStep, DotSplits
<1>3. CASE c # "."
  <2> DEFINE l == Len(p)
             e == Append(p[l], c)
             q == [p EXCEPT ![l] = e]
  <2>1. e \in Seq(A)
    BY <1>1
  <2> HIDE DEF e
  <2>2. q \in Seq(Seq(A)) /\ Len(q) = l
    BY <1>1, <2>1
  <2>3. DotStep(p, c) = q
    BY <1>3, Zenon DEF DotStep, e
  <2> QED BY <1>1, <2>2, <2>3, Zenon DEF DotSplits
<1> QED BY <1>2, <1>3, Zenon

DotRun(h, text, A, n) ==
    /\ h \in [0 .. n -> DotSplits(A)] /\ h[0] = << <<>> >> /\ \A k \in 1 .. n : h[k] = DotStep(h[k - 1], text[k])
    /\ DotSplit(text) = h[n]

\* The parts after each byte of a text.
LEMMA DotHistory ==
    ASSUME NEW A, NEW n \in Nat, NEW text, Elements(text, n, A)
    PROVE  \E h : DotRun(h, text, A, n)
<1> DEFINE V == DotSplits(A)
           base == << <<>> >>
<1>0. DOMAIN text = 1 .. n /\ (\A k \in 1 .. n : text[k] \in A) /\ base \in V
  <2>1. << >> \in Seq(A)
    OBVIOUS
  <2>2. base \in Seq(Seq(A)) /\ Len(base) # 0
    BY <2>1
  <2> QED BY <2>2, Zenon DEF Elements, DotSplits
<1>a. \A p \in V, c \in A : DotStep(p, c) \in V
  BY DotTyped, Zenon
<1> HIDE DEF V, base
<1> DEFINE step == [p \in (1 .. n) \X V |-> DotStep(p[2], text[p[1]])]
           g == CHOOSE g : g = [s \in SUBSET DOMAIN text |->
                                  IF s = {} THEN base ELSE DotStep(g[s \ {Max(s)}], text[Max(s)])]
<1>1. Folds(n, V, base, step)
  BY <1>0, <1>a DEF Folds
<1>2. PICK f \in [SUBSET (1 .. n) -> V] : IsFold(f, n, base, step)
  <2> HIDE DEF step
  <2> QED BY <1>1, FoldExists
<1>3. \A k \in 1 .. n, v \in V : step[<<k, v>>] = DotStep(v, text[k])
  OBVIOUS
<1>4. f = [s \in SUBSET DOMAIN text |-> IF s = {} THEN base ELSE DotStep(f[s \ {Max(s)}], text[Max(s)])]
  <2> SUFFICES ASSUME NEW s \in SUBSET (1 .. n), s # {}
               PROVE  step[<<Max(s), f[s \ {Max(s)}]>>] = DotStep(f[s \ {Max(s)}], text[Max(s)])
    <3> HIDE DEF step
    <3> QED BY <1>0, <1>2 DEF IsFold
  <2>1. Max(s) \in 1 .. n /\ f[s \ {Max(s)}] \in V
    BY <1>0, MaxOf
  <2> HIDE DEF step
  <2> QED BY <1>0, <1>3, <2>1
<1>5. g = [s \in SUBSET DOMAIN text |-> IF s = {} THEN base ELSE DotStep(g[s \ {Max(s)}], text[Max(s)])]
  BY <1>4, Zenon
<1>6. DotSplit(text) = g[DOMAIN text]
  BY Zenon DEF DotSplit, FoldLeft, MapThenFoldSet, DotStep, base
<1> HIDE DEF g, step
<1>7. g[{}] = base
  BY <1>0, <1>5
<1>8. ASSUME NEW k \in 1 .. n, g[1 .. (k - 1)] \in V
      PROVE  g[1 .. k] = step[<<k, g[1 .. (k - 1)]>>]
  <2>1. 1 .. k \in SUBSET (1 .. n) /\ 1 .. k # {} /\ Max(1 .. k) = k /\ (1 .. k) \ {Max(1 .. k)} = 1 .. (k - 1)
    BY MaxInterval
  <2>2. g[1 .. k] = DotStep(g[(1 .. k) \ {Max(1 .. k)}], text[Max(1 .. k)])
    BY <1>0, <1>5, <2>1
  <2> QED BY <1>3, <1>8, <2>1, <2>2
<1>9. /\ \A k \in 0 .. n : g[1 .. k] \in V
      /\ \A k \in 1 .. n : g[1 .. k] = step[<<k, g[1 .. (k - 1)]>>]
  <2>1. \A k \in 1 .. n : g[1 .. (k - 1)] \in V => g[1 .. k] = step[<<k, g[1 .. (k - 1)]>>]
    BY <1>8, Zenon
  <2>2. Folds(n, V, base, step) /\ g[{}] = base
    BY <1>1, <1>7, Zenon
  <2> QED BY <2>1, <2>2, FoldRuns
<1> DEFINE h == [k \in 0 .. n |-> g[1 .. k]]
<1>10. h \in [0 .. n -> V]
  BY <1>9
<1>11. h[0] = base
  <2>1. 1 .. 0 = {} /\ 0 \in 0 .. n
    OBVIOUS
  <2> QED BY <1>7, <2>1
<1>12. ASSUME NEW k \in 1 .. n PROVE h[k] = DotStep(h[k - 1], text[k])
  <2>1. k \in 0 .. n /\ k - 1 \in 0 .. n
    OBVIOUS
  <2>2. g[1 .. k] = DotStep(g[1 .. (k - 1)], text[k])
    BY <1>3, <1>9, <2>1
  <2> QED BY <2>1, <2>2
<1>13. DotSplit(text) = h[n]
  <2>1. n \in 0 .. n
    OBVIOUS
  <2> QED BY <1>0, <1>6, <2>1
<1> HIDE DEF h
<1>14. DotRun(h, text, A, n)
  BY <1>10, <1>11, <1>12, <1>13, Zenon DEF DotRun, V, base
<1> QED BY <1>14, Zenon

LEMMA DotAppend ==
    ASSUME NEW A, NEW s \in Seq(A), NEW c \in A
    PROVE  /\ s \o <<c>> \in Seq(A) /\ DotSplit(s) \in DotSplits(A)
           /\ DotSplit(s \o <<c>>) = DotStep(DotSplit(s), c)
<1> DEFINE t == s \o <<c>>
           n == Len(s)
<1>1. /\ t \in Seq(A) /\ Len(t) = n + 1 /\ n \in Nat /\ t[n + 1] = c
      /\ (\A k \in 1 .. n : t[k] = s[k]) /\ DOMAIN s = 1 .. n /\ DOMAIN t = 1 .. n + 1
      /\ (\A k \in 1 .. n : s[k] \in A) /\ \A k \in 1 .. n + 1 : t[k] \in A
  OBVIOUS
<1> HIDE DEF t, n
<1>2. n + 1 \in Nat
  BY <1>1
<1>3. PICK h : DotRun(h, s, A, n)
  <2>1. Elements(s, n, A)
    BY <1>1, Zenon DEF Elements
  <2> QED BY <1>1, <2>1, DotHistory, Zenon
<1>4. PICK b : DotRun(b, t, A, n + 1)
  <2>1. Elements(t, n + 1, A)
    BY <1>1, Zenon DEF Elements
  <2> QED BY <1>2, <2>1, DotHistory, Zenon
<1>5. h[0] = b[0] /\ (\A k \in 1 .. n : h[k] = DotStep(h[k - 1], s[k])) /\ DotSplit(s) = h[n] /\ h \in [0 .. n -> DotSplits(A)]
      /\ (\A k \in 1 .. n + 1 : b[k] = DotStep(b[k - 1], t[k])) /\ DotSplit(t) = b[n + 1]
  BY <1>3, <1>4, Zenon DEF DotRun
<1> DEFINE S == {k \in Nat : k <= n => h[k] = b[k]}
<1>6. 0 \in S
  BY <1>5
<1>7. ASSUME NEW k \in S PROVE k + 1 \in S
  <2> SUFFICES ASSUME k + 1 <= n PROVE h[k + 1] = b[k + 1]
    OBVIOUS
  <2>1. k \in Nat /\ k <= n /\ h[k] = b[k] /\ k + 1 \in 1 .. n /\ k + 1 \in 1 .. n + 1 /\ (k + 1) - 1 = k
    BY <1>1
  <2>2. h[k + 1] = DotStep(h[(k + 1) - 1], s[k + 1]) /\ b[k + 1] = DotStep(b[(k + 1) - 1], t[k + 1])
    BY <1>5, <2>1, Zenon
  <2> QED BY <1>1, <2>1, <2>2, Zenon
<1>8. S = Nat
  <2>1. S \in SUBSET Nat
    OBVIOUS
  <2> HIDE DEF S
  <2> QED BY <1>6, <1>7, <2>1, Induction
<1>9. h[n] = b[n]
  <2>1. n \in S
    <3> HIDE DEF S
    <3> QED BY <1>1, <1>8
  <2> QED BY <1>1, <2>1
<1>10. b[n + 1] = DotStep(b[n], c)
  <2>1. n + 1 \in 1 .. n + 1 /\ (n + 1) - 1 = n
    BY <1>1
  <2>2. b[n + 1] = DotStep(b[(n + 1) - 1], t[n + 1])
    BY <1>5, <2>1, Zenon
  <2> QED BY <1>1, <2>1, <2>2, Zenon
<1>11. h[n] \in DotSplits(A)
  <2>1. n \in 0 .. n
    BY <1>1
  <2> QED BY <1>5, <2>1, Zenon
<1> QED BY <1>1, <1>5, <1>9, <1>10, <1>11, Zenon DEF t

LEMMA DotEmpty == DotSplit(<< >>) = << <<>> >>
<1>1. Elements(<< >>, 0, {}) /\ 0 \in Nat
  BY DEF Elements
<1>2. PICK h : DotRun(h, << >>, {}, 0)
  BY <1>1, DotHistory, Zenon
<1> QED BY <1>2, Zenon DEF DotRun

JoinsOne(u, v, c) == (u \o v) \o <<c>> = u \o Append(v, c)

LEMMA JoinOne ==
    ASSUME NEW A, NEW u \in Seq(A), NEW v \in Seq(A), NEW c \in A
    PROVE  JoinsOne(u, v, c)
BY DEF JoinsOne

\* The last part grows by a byte that is not a dot.
LEMMA DotGrows ==
    ASSUME NEW A, NEW r \in Seq(Seq(A)), NEW u \in Seq(A), NEW c \in A, c # "."
    PROVE  DotStep(Append(r, u), c) = Append(r, Append(u, c))
<1> DEFINE p == Append(r, u)
           l == Len(p)
           e == Append(p[l], c)
           q == [p EXCEPT ![l] = e]
<1>1. p \in Seq(Seq(A)) /\ l = Len(r) + 1 /\ p[l] = u /\ l \in Nat /\ \A i \in 1 .. Len(r) : p[i] = r[i]
  OBVIOUS
<1>2. DotStep(p, c) = q
  BY Zenon DEF DotStep
<1>3. e = Append(u, c) /\ e \in Seq(A)
  BY <1>1
<1> HIDE DEF p, e, l
<1>4. l \in 1 .. Len(p) /\ Len(p) = l /\ Len(r) \in Nat
  <2>1. Len(p) = l
    BY Zenon DEF l
  <2>2. Len(r) \in Nat
    OBVIOUS
  <2> QED BY <1>1, <2>1, <2>2
<1>5. q = Append(r, e)
  <2> DEFINE b == Append(r, e)
  <2>1. b \in Seq(Seq(A)) /\ Len(b) = l /\ b[l] = e /\ \A i \in 1 .. Len(r) : b[i] = r[i]
    BY <1>1, <1>3
  <2>2. q \in Seq(Seq(A)) /\ Len(q) = l /\ q[l] = e /\ \A i \in 1 .. Len(r) : q[i] = p[i]
    BY <1>1, <1>3, <1>4
  <2> HIDE DEF b, q
  <2>3. \A i \in 1 .. l : i \in 1 .. Len(r) \/ i = l
    BY <1>1
  <2>4. \A i \in 1 .. l : q[i] = b[i]
    BY <1>1, <2>1, <2>2, <2>3, Zenon
  <2> QED BY <1>1, <2>1, <2>2, <2>4
<1> QED BY <1>2, <1>3, <1>5, Zenon DEF p

\* A part without a dot is read whole.
LastPart(s, r, x) == DotSplit(s) = Append(r, x)
DotFree(A, x) == x \in Seq(A) /\ \A i \in 1 .. Len(x) : x[i] # "."

LEMMA DotWhole ==
    ASSUME NEW A, NEW s \in Seq(A), NEW r \in Seq(Seq(A)), LastPart(s, r, << >>), NEW x, DotFree(A, x)
    PROVE  s \o x \in Seq(A) /\ LastPart(s \o x, r, x)
<1> DEFINE n == Len(x)
           X(k) == SubSeq(x, 1, k)
           S == {k \in Nat : k <= n => s \o X(k) \in Seq(A) /\ LastPart(s \o X(k), r, X(k))}
<1>0. x \in Seq(A) /\ n \in Nat /\ X(n) = x /\ X(0) = << >> /\ s \o << >> = s
  BY DEF DotFree
<1>1. 0 \in S
  BY <1>0
<1>2. ASSUME NEW k \in S PROVE k + 1 \in S
  <2> SUFFICES ASSUME k + 1 <= n PROVE s \o X(k + 1) \in Seq(A) /\ LastPart(s \o X(k + 1), r, X(k + 1))
    OBVIOUS
  <2> DEFINE c == x[k + 1]
  <2>1. k \in Nat /\ k <= n
    BY <1>0
  <2>2. s \o X(k) \in Seq(A) /\ LastPart(s \o X(k), r, X(k))
    BY <2>1
  <2>3. c \in A /\ X(k) \in Seq(A) /\ X(k + 1) = Append(X(k), c) /\ k + 1 \in 1 .. n
    BY <1>0, <2>1
  <2>4. c # "."
    BY <2>3, Zenon DEF DotFree
  <2> HIDE DEF X, c
  <2>5. s \o X(k + 1) = (s \o X(k)) \o <<c>>
    <3> DEFINE w == X(k)
    <3>1. w \in Seq(A)
      BY <2>3, Zenon
    <3> HIDE DEF w
    <3>2. (s \o w) \o <<c>> = s \o Append(w, c)
      <4>1. c \in A
        BY <2>3, Zenon
      <4>2. JoinsOne(s, w, c)
        BY <3>1, <4>1, JoinOne, Zenon
      <4> QED BY <4>2, Zenon DEF JoinsOne
    <3> QED BY <2>3, <3>2, Zenon DEF w
  <2>6. s \o X(k + 1) \in Seq(A) /\ DotSplit(s \o X(k + 1)) = DotStep(DotSplit(s \o X(k)), c)
    BY <2>2, <2>3, <2>5, DotAppend, Zenon
  <2>7. DotStep(Append(r, X(k)), c) = Append(r, Append(X(k), c))
    <3> DEFINE w == X(k)
    <3>1. w \in Seq(A)
      BY <2>3, Zenon
    <3> HIDE DEF w
    <3>2. DotStep(Append(r, w), c) = Append(r, Append(w, c))
      BY <2>3, <2>4, <3>1, DotGrows
    <3> QED BY <3>2, Zenon DEF w
  <2> QED BY <2>2, <2>3, <2>6, <2>7, Zenon DEF LastPart
<1>3. S = Nat
  <2>1. S \in SUBSET Nat
    OBVIOUS
  <2> HIDE DEF S
  <2> QED BY <1>1, <1>2, <2>1, Induction
<1>4. n \in S
  <2> HIDE DEF S
  <2> QED BY <1>0, <1>3, Zenon
<1>5. n <= n
  BY <1>0
<1>6. s \o X(n) \in Seq(A) /\ LastPart(s \o X(n), r, X(n))
  BY <1>4, <1>5, Zenon
<1> QED BY <1>0, <1>6, Zenon

LEMMA DotNext ==
    ASSUME NEW A, "." \in A, NEW s \in Seq(A), NEW p \in Seq(Seq(A)), DotSplit(s) = p
    PROVE  s \o <<".">> \in Seq(A) /\ LastPart(s \o <<".">>, p, << >>)
<1>1. s \o <<".">> \in Seq(A) /\ DotSplit(s \o <<".">>) = DotStep(DotSplit(s), ".")
  BY DotAppend, Zenon
<1>2. DotStep(p, ".") = Append(p, << >>)
  BY Zenon DEF DotStep
<1> QED BY <1>1, <1>2, Zenon DEF LastPart

LEMMA ThreeParts ==
    ASSUME NEW B, NEW x \in B, NEW y \in B, NEW z \in B
    PROVE  /\ Append(<< >>, x) \in Seq(B) /\ Append(Append(<< >>, x), y) \in Seq(B)
           /\ Append(Append(Append(<< >>, x), y), z) = <<x, y, z>>
<1>1. Append(<< >>, x) = <<x>> /\ <<x>> \in Seq(B)
  OBVIOUS
<1>2. Append(<<x>>, y) = <<x, y>> /\ <<x, y>> \in Seq(B)
  <2> DEFINE a == Append(<<x>>, y)
             b == <<x, y>>
  <2>1. a \in Seq(B) /\ Len(a) = 2 /\ a[1] = x /\ a[2] = y
    BY <1>1
  <2>2. b \in Seq(B) /\ Len(b) = 2 /\ b[1] = x /\ b[2] = y
    OBVIOUS
  <2> HIDE DEF a, b
  <2>3. a = b
    BY <2>1, <2>2
  <2> QED BY <2>2, <2>3, Zenon DEF a, b
<1>3. Append(<<x, y>>, z) = <<x, y, z>>
  <2> DEFINE a == Append(<<x, y>>, z)
             b == <<x, y, z>>
  <2>1. a \in Seq(B) /\ Len(a) = 3 /\ a[1] = x /\ a[2] = y /\ a[3] = z
    BY <1>2
  <2>2. b \in Seq(B) /\ Len(b) = 3 /\ b[1] = x /\ b[2] = y /\ b[3] = z
    OBVIOUS
  <2> HIDE DEF a, b
  <2>3. a = b
    BY <2>1, <2>2
  <2> QED BY <2>3, Zenon DEF a, b
<1> QED BY <1>1, <1>2, <1>3, Zenon

\* A version splits into the parts it is written from.
Dotted(x, y, z) == x \o <<".">> \o y \o <<".">> \o z

LEMMA DottedSplits ==
    ASSUME NEW A, "." \in A, NEW x, NEW y, NEW z, DotFree(A, x), DotFree(A, y), DotFree(A, z)
    PROVE  DotSplit(Dotted(x, y, z)) = <<x, y, z>> /\ Dotted(x, y, z) \in Seq(A)
<1>0. x \in Seq(A) /\ y \in Seq(A) /\ z \in Seq(A) /\ << >> \in Seq(A) /\ << >> \in Seq(Seq(A)) /\ << >> \o x = x
      /\ << <<>> >> = Append(<< >>, << >>)
  BY DEF DotFree
<1>1. LastPart(<< >>, << >>, << >>)
  BY <1>0, DotEmpty, Zenon DEF LastPart
<1>2. LastPart(x, << >>, x)
  BY <1>0, <1>1, DotWhole, Zenon
<1> DEFINE p1 == Append(<< >>, x)
           s1 == x \o <<".">>
           p2 == Append(p1, y)
           s2 == s1 \o y
           s3 == s2 \o <<".">>
           p3 == Append(p2, z)
           s4 == s3 \o z
<1>3. p1 \in Seq(Seq(A)) /\ p2 \in Seq(Seq(A)) /\ p3 = <<x, y, z>>
  BY <1>0, ThreeParts, Zenon
<1>4. Dotted(x, y, z) = s4
  BY Zenon DEF Dotted
<1> HIDE DEF p1, p2, p3
<1>5. s1 \in Seq(A) /\ LastPart(s1, p1, << >>)
  BY <1>0, <1>2, <1>3, DotNext, Zenon DEF LastPart, p1
<1>6. s2 \in Seq(A) /\ LastPart(s2, p1, y)
  BY <1>3, <1>5, DotWhole, Zenon
<1>7. s3 \in Seq(A) /\ LastPart(s3, p2, << >>)
  <2>1. DotSplit(s2) = p2
    BY <1>6, Zenon DEF LastPart, p2
  <2> HIDE DEF s2
  <2> QED BY <1>3, <1>6, <2>1, DotNext, Zenon
<1>8. s4 \in Seq(A) /\ LastPart(s4, p2, z)
  BY <1>3, <1>7, DotWhole, Zenon
<1> HIDE DEF s4
<1> QED BY <1>3, <1>4, <1>8, Zenon DEF LastPart, p3

\* A text and the parts it was split into.
Spelled(t, p) ==
    /\ Len(p) = 1 => t = p[1]
    /\ Len(p) = 2 => t = p[1] \o <<".">> \o p[2]
    /\ Len(p) = 3 => t = Dotted(p[1], p[2], p[3])

LEMMA SpelledStep ==
    ASSUME NEW A, "." \in A, NEW t \in Seq(A), NEW p \in DotSplits(A), Spelled(t, p), NEW c \in A
    PROVE  Spelled(t \o <<c>>, DotStep(p, c))
<1> DEFINE l == Len(p)
           q == DotStep(p, c)
           u == t \o <<c>>
<1>0. p \in Seq(Seq(A)) /\ l \in Nat /\ l # 0 /\ \A i \in 1 .. l : p[i] \in Seq(A)
  BY DEF DotSplits
<1>1. CASE c = "."
  <2>1. q = Append(p, << >>) /\ << >> \in Seq(A)
    <3>1. << >> \in Seq(A)
      OBVIOUS
    <3> QED BY <1>1, <3>1, Zenon DEF DotStep
  <2> HIDE DEF q
  <2>2. Len(q) = l + 1 /\ q[l + 1] = << >> /\ \A i \in 1 .. l : q[i] = p[i]
    BY <1>0, <2>1
  <2>3. Len(q) # 1
    BY <1>0, <2>2
  <2>4. ASSUME Len(q) = 2 PROVE u = q[1] \o <<".">> \o q[2]
    <3>1. l = 1 /\ 1 \in 1 .. l /\ l + 1 = 2
      <4>1. l \in Nat /\ Len(q) = l + 1
        BY <1>0, <2>2, Zenon
      <4>2. l + 1 = 2
        BY <2>4, <4>1, Zenon
      <4> HIDE DEF l
      <4> QED BY <4>1, <4>2
    <3>2. t = p[1] /\ q[1] = p[1] /\ q[2] = << >>
      BY <2>2, <3>1, Zenon DEF Spelled
    <3>3. t \o <<".">> = (t \o <<".">>) \o << >>
      OBVIOUS
    <3> QED BY <1>1, <3>2, <3>3, Zenon
  <2>5. ASSUME Len(q) = 3 PROVE u = Dotted(q[1], q[2], q[3])
    <3>1. l = 2 /\ 1 \in 1 .. l /\ 2 \in 1 .. l /\ l + 1 = 3
      <4>1. l \in Nat /\ Len(q) = l + 1
        BY <1>0, <2>2, Zenon
      <4>2. l + 1 = 3
        BY <2>5, <4>1, Zenon
      <4> HIDE DEF l
      <4> QED BY <4>1, <4>2
    <3>2. t = p[1] \o <<".">> \o p[2] /\ q[1] = p[1] /\ q[2] = p[2] /\ q[3] = << >>
      BY <2>2, <3>1, Zenon DEF Spelled
    <3>3. t \o <<".">> = (t \o <<".">>) \o << >>
      OBVIOUS
    <3> QED BY <1>1, <3>2, <3>3, Zenon DEF Dotted
  <2>6. Spelled(u, q)
    BY <2>3, <2>4, <2>5, Zenon DEF Spelled
  <2> QED BY <2>6, Zenon DEF q
<1>2. CASE c # "."
  <2> DEFINE e == Append(p[l], c)
  <2>1. q = [p EXCEPT ![l] = e]
    BY <1>2, Zenon DEF DotStep
  <2>2. e \in Seq(A)
    <3>1. l \in 1 .. l
      BY <1>0
    <3>2. p[l] \in Seq(A)
      BY <1>0, <3>1
    <3> QED BY <3>2
  <2> HIDE DEF e, q
  <2>3. Len(q) = l /\ q[l] = e /\ \A i \in 1 .. l : i # l => q[i] = p[i]
    BY <1>0, <2>1, <2>2
  <2>4. ASSUME Len(q) = 1 PROVE u = q[1]
    <3>1. l = 1
      BY <2>3, <2>4
    <3>2. t = p[1] /\ q[1] = Append(p[1], c)
      BY <2>3, <3>1, Zenon DEF Spelled, e
    <3>3. t \o <<c>> = Append(t, c)
      OBVIOUS
    <3> QED BY <3>2, <3>3, Zenon
  <2>5. ASSUME Len(q) = 2 PROVE u = q[1] \o <<".">> \o q[2]
    <3>1. l = 2 /\ 1 \in 1 .. l /\ 2 \in 1 .. l /\ 1 # l
      BY <2>3, <2>5
    <3>2. t = p[1] \o <<".">> \o p[2] /\ q[1] = p[1] /\ q[2] = Append(p[2], c)
      BY <2>3, <3>1, Zenon DEF Spelled, e
    <3> DEFINE a == p[1] \o <<".">>
               b == p[2]
    <3>3. a \in Seq(A) /\ b \in Seq(A)
      <4>1. p[1] \in Seq(A) /\ p[2] \in Seq(A)
        BY <1>0, <3>1, Zenon
      <4> QED BY <4>1
    <3> HIDE DEF a, b
    <3>4. JoinsOne(a, b, c)
      BY <3>3, JoinOne, Zenon
    <3> QED BY <3>2, <3>4, Zenon DEF JoinsOne, a, b
  <2>6. ASSUME Len(q) = 3 PROVE u = Dotted(q[1], q[2], q[3])
    <3>1. l = 3 /\ 1 \in 1 .. l /\ 2 \in 1 .. l /\ 3 \in 1 .. l /\ 1 # l /\ 2 # l
      BY <2>3, <2>6
    <3>2. t = Dotted(p[1], p[2], p[3]) /\ q[1] = p[1] /\ q[2] = p[2] /\ q[3] = Append(p[3], c)
      BY <2>3, <3>1, Zenon DEF Spelled, e
    <3> DEFINE a == p[1] \o <<".">> \o p[2] \o <<".">>
               b == p[3]
    <3>3. a \in Seq(A) /\ b \in Seq(A)
      <4>1. p[1] \in Seq(A) /\ p[2] \in Seq(A) /\ p[3] \in Seq(A)
        BY <1>0, <3>1, Zenon
      <4> QED BY <4>1
    <3> HIDE DEF a, b
    <3>4. JoinsOne(a, b, c)
      BY <3>3, JoinOne, Zenon
    <3> QED BY <3>2, <3>4, Zenon DEF JoinsOne, Dotted, a, b
  <2>7. Spelled(u, q)
    BY <2>4, <2>5, <2>6, Zenon DEF Spelled
  <2> QED BY <2>7, Zenon DEF q
<1> QED BY <1>1, <1>2, Zenon

\* Joined again, the parts are the text.
LEMMA DotSpelled ==
    ASSUME NEW A, "." \in A, NEW s \in Seq(A)
    PROVE  DotSplit(s) \in DotSplits(A) /\ Spelled(s, DotSplit(s))
<1> DEFINE n == Len(s)
           X(k) == SubSeq(s, 1, k)
           Good(t) == DotSplit(t) \in DotSplits(A) /\ Spelled(t, DotSplit(t))
           S == {k \in Nat : k <= n => Good(X(k))}
<1>0. n \in Nat /\ X(n) = s /\ X(0) = << >>
  OBVIOUS
<1>1. Good(<< >>)
  <2>1. << <<>> >> \in DotSplits(A)
    <3>1. << >> \in Seq(A)
      OBVIOUS
    <3> QED BY <3>1 DEF DotSplits
  <2>2. Spelled(<< >>, << <<>> >>)
    BY DEF Spelled
  <2> QED BY <2>1, <2>2, DotEmpty, Zenon
<1>2. 0 \in S
  <2>1. Good(X(0))
    BY <1>0, <1>1, Zenon
  <2> HIDE DEF Good, X
  <2> QED BY <2>1
<1>3. ASSUME NEW k \in S PROVE k + 1 \in S
  <2> SUFFICES ASSUME k + 1 <= n PROVE Good(X(k + 1))
    <3> HIDE DEF Good, X
    <3> QED OBVIOUS
  <2> DEFINE c == s[k + 1]
             t == X(k)
  <2>1. k \in Nat /\ k <= n
    BY <1>0
  <2>2. Good(t)
    <3> HIDE DEF Good, X
    <3> QED BY <2>1
  <2>3. c \in A /\ t \in Seq(A) /\ X(k + 1) = t \o <<c>>
    BY <1>0, <2>1
  <2> HIDE DEF X, c, t
  <2>4. DotSplit(t \o <<c>>) = DotStep(DotSplit(t), c)
    BY <2>3, DotAppend, Zenon
  <2>5. DotStep(DotSplit(t), c) \in DotSplits(A)
    BY <2>2, <2>3, DotTyped, Zenon
  <2>6. Spelled(t \o <<c>>, DotStep(DotSplit(t), c))
    BY <2>2, <2>3, SpelledStep, Zenon
  <2> QED BY <2>3, <2>4, <2>5, <2>6, Zenon
<1>4. S = Nat
  <2>1. S \in SUBSET Nat
    OBVIOUS
  <2> HIDE DEF S
  <2> QED BY <1>2, <1>3, <2>1, Induction
<1>5. n \in S /\ n <= n
  <2> HIDE DEF S
  <2> QED BY <1>0, <1>4
<1>6. Good(X(n))
  BY <1>5, Zenon
<1> QED BY <1>0, <1>6, Zenon

\* Numbers of two digits to the base w are ordered as pairs are.
LEMMA PairOrder ==
    ASSUME NEW w \in Nat \ {0}, NEW x \in Nat, NEW y \in Nat, NEW c \in 0 .. w - 1, NEW d \in 0 .. w - 1
    PROVE  x * w + c < y * w + d <=> x < y \/ (x = y /\ c < d)
<1> DEFINE a == x * w
           b == y * w
<1>1. a \in Nat /\ b \in Nat /\ (x < y => a + w <= b) /\ (y < x => b + w <= a) /\ (x = y => a = b)
  BY Multiples
<1> HIDE DEF a, b
<1>2. a + c < b + d <=> x < y \/ (x = y /\ c < d)
  BY <1>1
<1> QED BY <1>2 DEF a, b

\* A packed code orders as its parts do, and gives them back.
PacksInOrder(a, b, c, d, e, f) ==
    Pack(a, b, c) < Pack(d, e, f) <=> a < d \/ (a = d /\ (b < e \/ (b = e /\ c < f)))
Unpacks(a, b, c) ==
    LET w == PartMax + 1
    IN  /\ Pack(a, b, c) \div (w * w) = a /\ (Pack(a, b, c) \div w) % w = b /\ Pack(a, b, c) % w = c
        /\ Pack(a, b, c) \in Nat

LEMMA PackOrder ==
    ASSUME NEW a \in 0 .. PartMax, NEW b \in 0 .. PartMax, NEW c \in 0 .. PartMax,
           NEW d \in 0 .. PartMax, NEW e \in 0 .. PartMax, NEW f \in 0 .. PartMax
    PROVE  PacksInOrder(a, b, c, d, e, f)
<1> DEFINE w == PartMax + 1
           x == a * w + b
           y == d * w + e
<1>1. w \in Nat \ {0} /\ w - 1 = PartMax /\ a \in Nat /\ b \in Nat /\ d \in Nat /\ e \in Nat
  BY ImageVerifyAssumption
<1>2. Pack(a, b, c) = x * w + c /\ Pack(d, e, f) = y * w + f
  BY Zenon DEF Pack
<1> HIDE DEF w
<1>3. x \in Nat /\ y \in Nat
  BY <1>1
<1>4. x < y <=> a < d \/ (a = d /\ b < e)
  BY <1>1, PairOrder
<1>5. x = y => a = d /\ b = e
  <2>1. ~(x < y) /\ ~(y < x) => ~(a < d \/ (a = d /\ b < e)) /\ ~(d < a \/ (d = a /\ e < b))
    BY <1>1, <1>4, PairOrder
  <2>2. x = y => ~(x < y) /\ ~(y < x)
    BY <1>3
  <2> HIDE DEF x, y
  <2> QED BY <1>1, <2>1, <2>2
<1>6. a = d /\ b = e => x = y
  OBVIOUS
<1> HIDE DEF x, y
<1>7. x * w + c < y * w + f <=> x < y \/ (x = y /\ c < f)
  BY <1>1, <1>3, PairOrder
<1> QED BY <1>2, <1>4, <1>5, <1>6, <1>7, Zenon DEF PacksInOrder

LEMMA Unpacked ==
    ASSUME NEW a \in 0 .. PartMax, NEW b \in 0 .. PartMax, NEW c \in 0 .. PartMax
    PROVE  Unpacks(a, b, c)
<1> DEFINE w == PartMax + 1
           y == a * w + b
           x == y * w + c
<1>1. w \in Nat \ {0} /\ a \in Nat /\ b \in Nat /\ c \in Nat /\ b < w /\ c < w /\ w * w \in Nat \ {0}
  <2>1. PartMax \in Nat
    BY ImageVerifyAssumption
  <2>2. w \in Nat \ {0} /\ a \in Nat /\ b \in Nat /\ c \in Nat /\ b < w /\ c < w
    BY <2>1
  <2> HIDE DEF w
  <2>3. w * w \in Nat \ {0}
    BY <2>2
  <2> QED BY <2>2, <2>3
<1>2. Pack(a, b, c) = x
  BY Zenon DEF Pack
<1> HIDE DEF w
<1>3. y \div w = a /\ y % w = b /\ y \in Nat
  <2> DEFINE p == a * w
  <2>1. p \in Nat
    BY <1>1
  <2>2. y = p + b
    OBVIOUS
  <2> HIDE DEF y, p
  <2>3. y \in Nat /\ p <= y /\ y < p + w /\ y - p = b
    BY <1>1, <2>1, <2>2
  <2> QED BY <1>1, <2>3, QuotientIs DEF p
<1>4. x \div w = y /\ x % w = c /\ x \in Nat
  <2> HIDE DEF y
  <2> DEFINE p == y * w
  <2>1. p \in Nat
    BY <1>1, <1>3
  <2>2. x = p + c
    OBVIOUS
  <2> HIDE DEF x, p
  <2>3. x \in Nat /\ p <= x /\ x < p + w /\ x - p = c
    BY <1>1, <2>1, <2>2
  <2> QED BY <1>1, <1>3, <2>3, QuotientIs DEF p
<1>5. x \div (w * w) = a
  <2> DEFINE v == w * w
             p == a * v
             r == b * w
  <2>1. p \in Nat /\ r \in Nat /\ r + w <= v
    BY <1>1, Multiples
  <2>2. x = (p + r) + c
    <3>1. (a * w + b) * w = (a * w) * w + b * w /\ (a * w) * w = a * (w * w)
      BY <1>1
    <3> QED BY <1>1, <3>1
  <2>3. v \in Nat \ {0}
    BY <1>1
  <2> HIDE DEF x, p, r, v
  <2>4. x \in Nat /\ p <= x /\ x < p + v
    BY <1>1, <2>1, <2>2, <2>3
  <2>5. x \div v = a
    BY <1>1, <2>3, <2>4, QuotientIs DEF p
  <2> QED BY <2>5 DEF v
<1> QED BY <1>2, <1>3, <1>4, <1>5, Zenon DEF Unpacks, w

LEMMA PartOkIs ==
    ASSUME NEW A, NEW s \in Seq(A), PartOk(s)
    PROVE  NoLeadingZero(s) /\ Respelled(s) /\ Part(s) \in 0 .. PartMax /\ Len(s) \in 1 .. PartDigits
           /\ s \in Seq(Numerals)
<1>1. Len(s) \in 1 .. PartDigits /\ ToSet(s) \subseteq Numerals /\ (s[1] = "0" => Len(s) = 1) /\ Part(s) <= PartMax
  BY DEF PartOk
<1>2. s \in Seq(Numerals)
  <2>1. \A i \in 1 .. Len(s) : s[i] \in Numerals
    BY <1>1 DEF ToSet
  <2> QED BY <2>1
<1>3. Len(s) # 0
  BY <1>1, ImageVerifyAssumption
<1>4. NoLeadingZero(s)
  BY <1>1, <1>2, <1>3, Zenon DEF NoLeadingZero
<1>5. Respelled(s)
  BY <1>4, OneSpelling, Zenon
<1>6. Part(s) \in Nat /\ PartMax \in Nat
  BY <1>5, ImageVerifyAssumption DEF Respelled
<1>7. Part(s) \in 0 .. PartMax
  BY <1>1, <1>6
<1> QED BY <1>1, <1>2, <1>4, <1>5, <1>7, Zenon

LEMMA NumeralPartOk ==
    ASSUME NEW n \in 0 .. PartMax
    PROVE  PartOk(NumeralText(n)) /\ NumeralText(n) \in Seq(Numerals) /\ Part(NumeralText(n)) = n
<1> DEFINE t == NumeralText(n)
           l == Len(t)
<1>0. PartMax \in Nat /\ n \in Nat /\ n <= PartMax /\ PartDigits \in Nat /\ PartDigits = Len(NumeralText(PartMax))
  BY ImageVerifyAssumption
<1>1. Reads(t, n)
  BY <1>0, NumeralTextReads, Zenon
<1>2. l <= PartDigits
  BY <1>0, LongerText, Zenon
<1> HIDE DEF t
<1>3. t \in Seq(Numerals) /\ l # 0 /\ Part(t) = n /\ (n # 0 => t[1] # "0") /\ (n < 10 => l = 1)
  BY <1>1, Zenon DEF Reads
<1>4. l \in 1 .. PartDigits
  BY <1>0, <1>2, <1>3
<1>5. ToSet(t) \subseteq Numerals
  BY <1>3 DEF ToSet
<1>6. t[1] = "0" => l = 1
  <2>1. n = 0 => n < 10
    BY <1>0
  <2> QED BY <1>3, <2>1, Zenon
<1>7. PartOk(t)
  BY <1>0, <1>3, <1>4, <1>5, <1>6, Zenon DEF PartOk
<1> QED BY <1>3, <1>7, Zenon DEF t

VersionSymbols == Numerals \cup {".", "x", "-"}

LEMMA NumeralsAre ==
    /\ Numerals = {"0", "1", "2", "3", "4", "5", "6", "7", "8", "9"}
    /\ "." \notin Numerals
<1>1. DOMAIN NumeralAt = 1 .. 10 /\ Numerals = ToSet(NumeralAt)
  BY DEF NumeralAt, Numerals, NumeralValue
<1>2. Numerals = {NumeralAt[1], NumeralAt[2], NumeralAt[3], NumeralAt[4], NumeralAt[5],
                  NumeralAt[6], NumeralAt[7], NumeralAt[8], NumeralAt[9], NumeralAt[10]}
  <2>1. Numerals = {NumeralAt[i] : i \in 1 .. 10}
    BY <1>1, Zenon DEF ToSet
  <2>2. 1 .. 10 = {1, 2, 3, 4, 5, 6, 7, 8, 9, 10}
    OBVIOUS
  <2> QED BY <2>1, <2>2
<1>3. Numerals = {"0", "1", "2", "3", "4", "5", "6", "7", "8", "9"}
  BY <1>2 DEF NumeralAt
<1>4. "." \notin Numerals
  BY <1>3
<1> QED BY <1>3, <1>4

LEMMA PartDotFree ==
    ASSUME NEW x \in Seq(Numerals)
    PROVE  DotFree(VersionSymbols, x) /\ x \in Seq(VersionSymbols)
<1>1. \A i \in 1 .. Len(x) : x[i] \in Numerals
  OBVIOUS
<1>2. \A i \in 1 .. Len(x) : x[i] # "."
  BY <1>1, NumeralsAre, Zenon
<1>3. x \in Seq(VersionSymbols)
  BY <1>1 DEF VersionSymbols
<1> QED BY <1>2, <1>3, Zenon DEF DotFree

\* A version written from three good parts has the code of those parts.
LEMMA DottedCode ==
    ASSUME NEW x \in Seq(Numerals), NEW y \in Seq(Numerals), NEW z \in Seq(Numerals), PartOk(x), PartOk(y), PartOk(z)
    PROVE  otaVersionCode(Dotted(x, y, z)) = {Pack(Part(x), Part(y), Part(z))}
<1> DEFINE s == Dotted(x, y, z)
           p == <<x, y, z>>
<1>1. DotSplit(s) = p
  <2>1. "." \in VersionSymbols
    BY DEF VersionSymbols
  <2>2. DotFree(VersionSymbols, x) /\ DotFree(VersionSymbols, y) /\ DotFree(VersionSymbols, z)
    BY PartDotFree, Zenon
  <2> QED BY <2>1, <2>2, DottedSplits, Zenon
<1>2. Len(s) <= VersionMaxLen
  <2>1. Len(x) \in 1 .. PartDigits /\ Len(y) \in 1 .. PartDigits /\ Len(z) \in 1 .. PartDigits
    BY DEF PartOk
  <2>2. Len(s) = (((Len(x) + 1) + Len(y)) + 1) + Len(z)
    <3> DEFINE B == VersionSymbols
    <3>1. x \in Seq(B) /\ y \in Seq(B) /\ z \in Seq(B) /\ "." \in B
      BY PartDotFree DEF VersionSymbols
    <3> HIDE DEF B
    <3>2. Len(x \o <<".">> \o y \o <<".">> \o z) = (((Len(x) + 1) + Len(y)) + 1) + Len(z)
      BY <3>1
    <3> QED BY <3>2, Zenon DEF Dotted
  <2>3. PartDigits \in Nat /\ VersionMaxLen = 3 * PartDigits + 2
    BY ImageVerifyAssumption
  <2> HIDE DEF s
  <2> QED BY <2>1, <2>2, <2>3
<1>3. Len(p) = 3 /\ p[1] = x /\ p[2] = y /\ p[3] = z
  OBVIOUS
<1>4. \A i \in 1 .. 3 : i = 1 \/ i = 2 \/ i = 3
  OBVIOUS
<1> HIDE DEF s, p
<1>5. \A i \in 1 .. 3 : PartOk(p[i])
  BY <1>3, <1>4, Zenon
<1>6. otaVersionCode(s) = {Pack(Part(x), Part(y), Part(z))}
  BY <1>1, <1>2, <1>3, <1>5, Zenon DEF otaVersionCode
<1> QED BY <1>6, Zenon DEF s

\* A version has one spelling: the one its code is formatted as.
LEMMA SpellingExact ==
    ASSUME NEW s \in Seq(VersionSymbols), NEW code \in otaVersionCode(s)
    PROVE  formatOtaVersion(code) = s
<1> DEFINE p == DotSplit(s)
           w == PartMax + 1
           a == Part(p[1])
           b == Part(p[2])
           c == Part(p[3])
<1>1. Len(p) = 3 /\ (\A i \in 1 .. 3 : PartOk(p[i])) /\ code = Pack(a, b, c)
  BY Zenon DEF otaVersionCode
<1>2. p \in DotSplits(VersionSymbols) /\ Spelled(s, p)
  <2>1. "." \in VersionSymbols
    BY DEF VersionSymbols
  <2> QED BY <2>1, DotSpelled, Zenon
<1> HIDE DEF p
<1>3. s = Dotted(p[1], p[2], p[3])
  BY <1>1, <1>2, Zenon DEF Spelled
<1>4. 1 \in 1 .. 3 /\ 2 \in 1 .. 3 /\ 3 \in 1 .. 3 /\ \A i \in 1 .. 3 : p[i] \in Seq(VersionSymbols)
  <2> DEFINE B == Seq(VersionSymbols)
  <2>1. p \in Seq(B) /\ Len(p) = 3
    BY <1>1, <1>2, Zenon DEF DotSplits
  <2> HIDE DEF B
  <2>2. \A i \in 1 .. Len(p) : p[i] \in B
    BY <2>1, ElementOfSeq, Zenon
  <2>3. 1 \in 1 .. 3 /\ 2 \in 1 .. 3 /\ 3 \in 1 .. 3
    OBVIOUS
  <2> QED BY <2>1, <2>2, <2>3, Zenon DEF B
<1>5. /\ a \in 0 .. PartMax /\ b \in 0 .. PartMax /\ c \in 0 .. PartMax
      /\ Respelled(p[1]) /\ Respelled(p[2]) /\ Respelled(p[3])
  BY <1>1, <1>4, PartOkIs, Zenon
<1>6. NumeralText(a) = p[1] /\ NumeralText(b) = p[2] /\ NumeralText(c) = p[3]
  BY <1>5, Zenon DEF Respelled
<1> HIDE DEF a, b, c, w
<1>7. code \div (w * w) = a /\ (code \div w) % w = b /\ code % w = c
  <2>1. Unpacks(a, b, c)
    BY <1>5, Unpacked, Zenon
  <2> QED BY <1>1, <2>1, Zenon DEF Unpacks, w
<1>8. formatOtaVersion(code) = Dotted(NumeralText(code \div (w * w)), NumeralText((code \div w) % w), NumeralText(code % w))
  BY Zenon DEF formatOtaVersion, Dotted, w
<1> QED BY <1>3, <1>6, <1>7, <1>8, Zenon

\* Two versions compare as their codes do.
OlderThan(a, b) == a[1] < b[1] \/ (a[1] = b[1] /\ (a[2] < b[2] \/ (a[2] = b[2] /\ a[3] < b[3])))

LEMMA OlderIs ==
    ASSUME NEW a \in [1 .. 3 -> Nat], NEW b \in [1 .. 3 -> Nat]
    PROVE  Older(a, b) <=> OlderThan(a, b)
<1>1. 1 .. 3 = {1, 2, 3} /\ 1 .. 1 - 1 = {} /\ 1 .. 2 - 1 = {1} /\ 1 .. 3 - 1 = {1, 2}
  OBVIOUS
<1>2. Older(a, b) <=> \/ a[1] < b[1] /\ \A j \in 1 .. 1 - 1 : a[j] = b[j]
                      \/ a[2] < b[2] /\ \A j \in 1 .. 2 - 1 : a[j] = b[j]
                      \/ a[3] < b[3] /\ \A j \in 1 .. 3 - 1 : a[j] = b[j]
  BY <1>1, Zenon DEF Older
<1>3. Older(a, b) <=> \/ a[1] < b[1] \/ (a[2] < b[2] /\ a[1] = b[1])
                      \/ (a[3] < b[3] /\ a[1] = b[1] /\ a[2] = b[2])
  BY <1>1, <1>2, Zenon
<1> QED BY <1>3, Zenon DEF OlderThan

LEMMA TripleCode ==
    ASSUME NEW t \in Triples
    PROVE  /\ t[1] \in 0 .. PartMax /\ t[2] \in 0 .. PartMax /\ t[3] \in 0 .. PartMax /\ t \in [1 .. 3 -> Nat]
           /\ otaVersionCode(TripleText(t)) = {Pack(t[1], t[2], t[3])}
<1>1. PartMax \in Nat /\ PartMax >= 10
  BY ImageVerifyAssumption, CodecAssumption
<1>2. {0, 1, 9, 10, PartMax} \subseteq 0 .. PartMax /\ 0 .. PartMax \subseteq Nat
  BY <1>1
<1>3. t \in [1 .. 3 -> {0, 1, 9, 10, PartMax}] /\ 1 \in 1 .. 3 /\ 2 \in 1 .. 3 /\ 3 \in 1 .. 3
  BY DEF Triples
<1>4. t[1] \in 0 .. PartMax /\ t[2] \in 0 .. PartMax /\ t[3] \in 0 .. PartMax /\ t \in [1 .. 3 -> Nat]
  BY <1>2, <1>3
<1> DEFINE x == NumeralText(t[1])
           y == NumeralText(t[2])
           z == NumeralText(t[3])
<1>5. /\ PartOk(x) /\ PartOk(y) /\ PartOk(z) /\ x \in Seq(Numerals) /\ y \in Seq(Numerals) /\ z \in Seq(Numerals)
      /\ Part(x) = t[1] /\ Part(y) = t[2] /\ Part(z) = t[3]
  BY <1>4, NumeralPartOk, Zenon
<1>6. TripleText(t) = Dotted(x, y, z)
  BY Zenon DEF TripleText, Dotted
<1> HIDE DEF x, y, z
<1>7. otaVersionCode(Dotted(x, y, z)) = {Pack(Part(x), Part(y), Part(z))}
  BY <1>5, DottedCode, Zenon
<1> QED BY <1>4, <1>5, <1>6, <1>7, Zenon

LEMMA OrderExact ==
    ASSUME NEW a \in Triples, NEW b \in Triples
    PROVE  \E c \in otaVersionCode(TripleText(a)), d \in otaVersionCode(TripleText(b)) : (c < d) = Older(a, b)
<1> DEFINE c == Pack(a[1], a[2], a[3])
           d == Pack(b[1], b[2], b[3])
<1>1. otaVersionCode(TripleText(a)) = {c} /\ otaVersionCode(TripleText(b)) = {d}
  BY TripleCode, Zenon
<1>2. Older(a, b) <=> OlderThan(a, b)
  <2>1. a \in [1 .. 3 -> Nat] /\ b \in [1 .. 3 -> Nat]
    BY TripleCode, Zenon
  <2> QED BY <2>1, OlderIs, Zenon
<1>3. c < d <=> OlderThan(a, b)
  <2>1. /\ a[1] \in 0 .. PartMax /\ a[2] \in 0 .. PartMax /\ a[3] \in 0 .. PartMax
        /\ b[1] \in 0 .. PartMax /\ b[2] \in 0 .. PartMax /\ b[3] \in 0 .. PartMax
    BY TripleCode, Zenon
  <2>2. PacksInOrder(a[1], a[2], a[3], b[1], b[2], b[3])
    BY <2>1, PackOrder, Zenon
  <2> QED BY <2>2, Zenon DEF OlderThan, PacksInOrder
<1>4. Older(a, b) \in BOOLEAN /\ (c < d) \in BOOLEAN
  BY DEF Older
<1> HIDE DEF c, d
<1>5. (c < d) = Older(a, b)
  BY <1>2, <1>3, <1>4
<1> QED BY <1>1, <1>5, Zenon

LEMMA VersionsTyped == Versions \subseteq Seq(VersionSymbols)
<1> DEFINE B == VersionSymbols
<1>1. {"0", "1", "9", "x", ".", "-"} \subseteq B
  BY NumeralsAre DEF VersionSymbols
<1>2. NumeralText(PartMax) \in Seq(B) /\ NumeralText(PartMax + 1) \in Seq(B)
  <2>1. PartMax \in Nat /\ PartMax + 1 \in Nat
    BY ImageVerifyAssumption
  <2>2. Reads(NumeralText(PartMax), PartMax) /\ Reads(NumeralText(PartMax + 1), PartMax + 1)
    BY <2>1, NumeralTextReads, Zenon
  <2> QED BY <2>2, PartDotFree, Zenon DEF Reads
<1> HIDE DEF B
<1>3. PartTexts \subseteq Seq(B)
  <2>1. {<<"0">>, <<"0", "1">>, <<"1">>, <<"9">>, <<"1", "0">>, <<"1", "0", "0">>, <<>>, <<"x">>} \subseteq Seq(B)
    BY <1>1
  <2> QED BY <1>2, <2>1, Zenon DEF PartTexts
<1>4. ASSUME NEW p \in [1 .. 3 -> PartTexts]
      PROVE  p[1] \o <<".">> \o p[2] \o <<".">> \o p[3] \in Seq(B)
  <2> DEFINE a == p[1]
             b == p[2]
             c == p[3]
  <2>1. a \in Seq(B) /\ b \in Seq(B) /\ c \in Seq(B) /\ "." \in B
    BY <1>1, <1>3
  <2> HIDE DEF a, b, c
  <2>2. a \o <<".">> \o b \o <<".">> \o c \in Seq(B)
    BY <2>1
  <2> QED BY <2>2, Zenon DEF a, b, c
<1>5. ASSUME NEW s \in SeqOf({"0", "1", "9", ".", "-"}, 5) PROVE s \in Seq(B)
  <2>1. PICK m \in 0 .. 5 : s \in [1 .. m -> {"0", "1", "9", ".", "-"}]
    BY DEF SeqOf
  <2>2. m \in Nat /\ \A i \in 1 .. m : s[i] \in B
    BY <1>1, <2>1
  <2> QED BY <2>1, <2>2
<1>6. ASSUME NEW s \in Versions PROVE s \in Seq(B)
  <2>1. \/ s \in SeqOf({"0", "1", "9", ".", "-"}, 5)
        \/ \E p \in [1 .. 3 -> PartTexts] : s = p[1] \o <<".">> \o p[2] \o <<".">> \o p[3]
    BY Zenon DEF Versions
  <2> QED BY <1>4, <1>5, <2>1, Zenon
<1> QED BY <1>6, Zenon DEF B

\* Inductive: what otaVersionCode() made of the versions read.
VersionInv ==
    /\ job.op = "spelling" => job.in \in Versions /\ (st.done => st.out = otaVersionCode(job.in))
    /\ job.op = "order" =>
         /\ job.in \in Triples \X Triples
         /\ st.done => st.out = <<otaVersionCode(TripleText(job.in[1])), otaVersionCode(TripleText(job.in[2]))>>

LEMMA VersionInvInit == CodecInit => VersionInv
<1> SUFFICES ASSUME CodecInit PROVE VersionInv
  OBVIOUS
<1>1. CASE SpellingInit
  <2>1. PICK s \in Versions : job = [op |-> "spelling", in |-> s] /\ st = [done |-> FALSE]
    BY <1>1, Zenon DEF SpellingInit, Start, Waiting
  <2>2. job.op = "spelling" /\ job.in = s /\ st.done = FALSE
    BY <2>1
  <2> QED BY <2>2, Zenon DEF VersionInv
<1>2. CASE OrderInit
  <2>1. PICK a \in Triples, b \in Triples : job = [op |-> "order", in |-> <<a, b>>] /\ st = [done |-> FALSE]
    BY <1>2, Zenon DEF OrderInit, Start, Waiting
  <2>2. job.op = "order" /\ job.in = <<a, b>> /\ st.done = FALSE /\ <<a, b>> \in Triples \X Triples
    BY <2>1
  <2> QED BY <2>2, Zenon DEF VersionInv
<1>3. CASE job.op \notin {"spelling", "order"}
  BY <1>3 DEF VersionInv
<1> QED BY <1>1, <1>2, <1>3, JobStarts

LEMMA VersionActions ==
    ASSUME CodecNext, job.op \in {"spelling", "order"}
    PROVE  \/ job.op = "spelling" /\ ReadVersion
           \/ job.op = "order" /\ CompareVersions
<1>1. ASSUME NEW n \in 1 .. Chunk, Read(n) PROVE FALSE
  BY <1>1 DEF Read, Pending
<1>2. ASSUME NEW n \in 0 .. Chunk, Feed(n) PROVE FALSE
  BY <1>2 DEF Feed, Pending
<1>3. ~(ReadTimeout \/ DecodeForm \/ MakeCreds \/ MakeToken \/ MakeKey \/ DecodeJson \/ DecodeBase64
        \/ TakeIdentity \/ ReadManifest \/ Finish
        \/ FormatTime \/ FormatNumber \/ BuildEvent \/ OpenFile \/ UseFile \/ RebootFile)
  BY DEF Pending, ReadTimeout, DecodeForm, MakeCreds, MakeToken, MakeKey, DecodeJson, DecodeBase64, TakeIdentity,
         ReadManifest, Finish, FormatTime, FormatNumber, BuildEvent, OpenFile, UseFile, RebootFile
<1>4. ReadVersion \/ CompareVersions
  BY <1>1, <1>2, <1>3 DEF CodecNext
<1>5. ReadVersion => job.op = "spelling"
  BY Zenon DEF ReadVersion, Pending
<1>6. CompareVersions => job.op = "order"
  BY Zenon DEF CompareVersions, Pending
<1> QED BY <1>4, <1>5, <1>6, Zenon

LEMMA VersionInvStep ==
    ASSUME VersionInv, [CodecNext]_codecVars
    PROVE  VersionInv'
<1>1. CASE UNCHANGED codecVars
  BY <1>1 DEF codecVars, VersionInv
<1>2. CASE CodecNext
  <2>1. job' = job
    BY <1>2, JobKept
  <2>2. CASE job.op \notin {"spelling", "order"}
    BY <2>1, <2>2 DEF VersionInv
  <2>3. CASE job.op = "spelling" /\ ReadVersion
    <3>1. st' = [done |-> TRUE, out |-> otaVersionCode(job.in)]
      BY <2>3, Zenon DEF ReadVersion, Out
    <3>2. st'.out = otaVersionCode(job.in)
      BY <3>1
    <3> QED BY <2>1, <2>3, <3>2 DEF VersionInv
  <2>4. CASE job.op = "order" /\ CompareVersions
    <3> DEFINE a == otaVersionCode(TripleText(job.in[1]))
               b == otaVersionCode(TripleText(job.in[2]))
    <3>1. st' = [done |-> TRUE, out |-> <<a, b>>]
      BY <2>4, Zenon DEF CompareVersions, Out
    <3> HIDE DEF a, b
    <3>2. st'.out = <<a, b>>
      BY <3>1
    <3> QED BY <2>1, <2>4, <3>2, Zenon DEF VersionInv, a, b
  <2> QED BY <1>2, <2>2, <2>3, <2>4, VersionActions
<1> QED BY <1>1, <1>2

\* Signer and terminal agree which image is newer: a text otaVersionCode()
\* accepts is the one formatOtaVersion() writes for its code, so a version has
\* one spelling, and the codes of two versions are ordered as their parts are.
LEMMA VersionsExactAlways == CodecSpec => []VersionsExact
<1>1. VersionInv => VersionsExact
  <2> SUFFICES ASSUME VersionInv PROVE VersionsExact
    OBVIOUS
  <2>1. ASSUME Done("spelling"), NEW c \in st.out PROVE formatOtaVersion(c) = job.in
    <3>1. job.in \in Versions /\ c \in otaVersionCode(job.in)
      BY <2>1, Zenon DEF VersionInv, Done
    <3> QED BY <3>1, VersionsTyped, SpellingExact, Zenon
  <2>2. ASSUME Done("order") PROVE \E a \in st.out[1], b \in st.out[2] : (a < b) = Older(job.in[1], job.in[2])
    <3> DEFINE x == job.in[1]
               y == job.in[2]
               a == otaVersionCode(TripleText(x))
               b == otaVersionCode(TripleText(y))
    <3>1. job.in \in Triples \X Triples /\ st.out = <<a, b>>
      BY <2>2, Zenon DEF VersionInv, Done
    <3> HIDE DEF a, b
    <3>2. st.out[1] = a /\ st.out[2] = b
      BY <3>1
    <3>3. x \in Triples /\ y \in Triples
      BY <3>1
    <3> HIDE DEF x, y
    <3>4. \E c \in a, d \in b : (c < d) = Older(x, y)
      BY <3>3, OrderExact, Zenon DEF a, b
    <3> QED BY <3>2, <3>4, Zenon DEF x, y
  <2> QED BY <2>1, <2>2, Zenon DEF VersionsExact
<1> QED BY <1>1, VersionInvInit, VersionInvStep, PTL DEF CodecSpec

\* The bytes the signature of an offered image is checked over, and how many
\* of them stand before the image.
Message(i) == i.sig.r \o i.key \o otaSignedPreamble(i.version, i.size) \o i.flash
HeadLen(i) == Len(i.sig.r) + Len(i.key) + Len(otaSignedPreamble(i.version, i.size))

\* What ImageInit offers.
OfferedKeys == {ReleaseKey, <<Zero, Zero>>, <<"y1", "s">>, <<"y7", "s">>}
OfferedVersions == {<<"1", ".", "0", ".", "0">>, <<"1", ".", "0", ".", "1">>, <<"1", ".", "0">>}
OfferedFlash == {<<"i", "LF">>, <<"i", "1", "i">>, <<>>, <<"i", "i">>, <<"LF", "i", "LF">>}
Offered(i) ==
    /\ i.key \in OfferedKeys /\ i.sig \in {SignatureOf(r) : r \in Released} \cup {Identity0}
    /\ i.version \in OfferedVersions /\ i.size \in 0 .. 3 /\ i.flash \in OfferedFlash

LEMMA ReleasedIs ==
    ASSUME NEW r \in Released
    PROVE  \/ r.version = <<"1", ".", "0", ".", "0">> /\ r.image = <<"i", "LF">>
           \/ r.version = <<"1", ".", "0", ".", "1">> /\ r.image = <<"i", "1", "i">>
BY DEF Released

\* A one-digit number is written as its digit.
LEMMA OneDigit ==
    ASSUME NEW n \in 0 .. 9
    PROVE  NumeralText(n) = <<NumeralAt[n + 1]>>
<1>1. n \in Nat /\ n < 10
  OBVIOUS
<1>2. NumeralText(n) = Written[n]
  BY <1>1, NumeralTextIs, Zenon
<1>3. Written[n] = <<NumeralAt[n + 1]>>
  BY <1>1, WrittenMeaning
<1> QED BY <1>2, <1>3

\* S is a message: nonce and key, version, digit of the size, image.
Layout(S, r, k, v, d, m) ==
    /\ Len(S) = 10 + Len(v) + Len(m)
    /\ S[1] = r[1] /\ S[2] = r[2] /\ S[3] = k[1] /\ S[4] = k[2]
    /\ S[5] = "tag" /\ S[6] = "version="
    /\ \A j \in 1 .. Len(v) : S[6 + j] = v[j]
    /\ S[7 + Len(v)] = "LF" /\ S[8 + Len(v)] = "size=" /\ S[9 + Len(v)] = d /\ S[10 + Len(v)] = "LF"
    /\ \A j \in 1 .. Len(m) : S[10 + Len(v) + j] = m[j]

LEMMA PreambleTyped ==
    ASSUME NEW v \in Seq(Symbols), NEW n \in 0 .. 9
    PROVE  LET p == otaSignedPreamble(v, n)
           IN /\ p \in Seq(Symbols) /\ Len(p) = 6 + Len(v)
              /\ p[1] = "tag" /\ p[2] = "version="
              /\ \A j \in 1 .. Len(v) : p[2 + j] = v[j]
              /\ p[3 + Len(v)] = "LF" /\ p[4 + Len(v)] = "size=" /\ p[5 + Len(v)] = NumeralAt[n + 1] /\ p[6 + Len(v)] = "LF"
<1> DEFINE d == NumeralAt[n + 1]
<1>1. d \in Symbols /\ "tag" \in Symbols /\ "version=" \in Symbols /\ "LF" \in Symbols /\ "size=" \in Symbols
  <2>1. d \in Numerals
    <3>1. DOMAIN NumeralAt = 1 .. 10 /\ Numerals = ToSet(NumeralAt)
      BY DEF NumeralAt, Numerals, NumeralValue
    <3> QED BY <3>1 DEF ToSet
  <2> QED BY <2>1 DEF Symbols
<1>2. otaSignedPreamble(v, n) = <<"tag", "version=">> \o v \o <<"LF", "size=">> \o <<d>> \o <<"LF">>
  BY OneDigit, Zenon DEF otaSignedPreamble
<1> HIDE DEF d
<1> DEFINE a == <<"tag", "version=">> \o v
           b == a \o <<"LF", "size=">>
           c == b \o <<d>>
           p == c \o <<"LF">>
           l == Len(v)
<1>3. a \in Seq(Symbols) /\ Len(a) = 2 + l /\ a[1] = "tag" /\ a[2] = "version=" /\ l \in Nat
      /\ \A j \in 1 .. l : a[2 + j] = v[j]
  BY <1>1
<1> HIDE DEF a
<1>4. b \in Seq(Symbols) /\ Len(b) = 4 + l /\ b[3 + l] = "LF" /\ b[4 + l] = "size=" /\ \A j \in 1 .. 2 + l : b[j] = a[j]
  BY <1>1, <1>3
<1> HIDE DEF b
<1>5. c \in Seq(Symbols) /\ Len(c) = 5 + l /\ c[5 + l] = d /\ \A j \in 1 .. 4 + l : c[j] = b[j]
  BY <1>1, <1>3, <1>4
<1> HIDE DEF c
<1>6. p \in Seq(Symbols) /\ Len(p) = 6 + l /\ p[6 + l] = "LF" /\ \A j \in 1 .. 5 + l : p[j] = c[j]
  BY <1>1, <1>3, <1>5
<1>7. p = otaSignedPreamble(v, n)
  BY <1>2, Zenon DEF a, b, c
<1> HIDE DEF p, l
<1>8. p[1] = "tag" /\ p[2] = "version=" /\ p[3 + l] = "LF" /\ p[4 + l] = "size=" /\ p[5 + l] = d
  BY <1>3, <1>4, <1>5, <1>6
<1>9. \A j \in 1 .. l : p[2 + j] = v[j]
  BY <1>3, <1>4, <1>5, <1>6
<1> QED BY <1>6, <1>7, <1>8, <1>9, Zenon DEF l, d

\* z is x, of length l, followed by y, of length m.
Joined(z, x, y, l, m) ==
    /\ z \in Seq(Symbols) /\ Len(z) = l + m /\ l \in Nat /\ m \in Nat
    /\ \A i \in 1 .. l : z[i] = x[i]
    /\ \A i \in 1 .. m : z[l + i] = y[i]

LEMMA JoinedIs ==
    ASSUME NEW x \in Seq(Symbols), NEW y \in Seq(Symbols)
    PROVE  Joined(x \o y, x, y, Len(x), Len(y))
BY DEF Joined

\* The four parts of a message are pieces of it.
Pieces(T, a, b, c, d) ==
    /\ T \in Seq(Symbols) /\ Len(T) = Len(a) + Len(b) + Len(c) + Len(d)
    /\ Piece(T, 0, a) /\ Piece(T, Len(a), b) /\ Piece(T, Len(a) + Len(b), c)
    /\ \A i \in 1 .. Len(d) : T[Len(a) + Len(b) + Len(c) + i] = d[i]

LEMMA FourPieces ==
    ASSUME NEW a \in Seq(Symbols), NEW b \in Seq(Symbols), NEW c \in Seq(Symbols), NEW d \in Seq(Symbols)
    PROVE  Pieces(a \o b \o c \o d, a, b, c, d)
<1> DEFINE x == a \o b
           y == x \o c
           T == y \o d
           la == Len(a)
           lb == Len(b)
           lc == Len(c)
           ld == Len(d)
           h == la + lb + lc
<1>1. x \in Seq(Symbols) /\ Len(x) = la + lb /\ la \in Nat /\ lb \in Nat /\ (\A i \in 1 .. la : x[i] = a[i])
      /\ \A i \in 1 .. lb : x[la + i] = b[i]
  BY JoinedIs, Zenon DEF Joined
<1> HIDE DEF x, la, lb
<1>2. y \in Seq(Symbols) /\ Len(y) = h /\ lc \in Nat /\ (\A i \in 1 .. la + lb : y[i] = x[i])
      /\ \A i \in 1 .. lc : y[la + lb + i] = c[i]
  <2>1. Joined(y, x, c, Len(x), lc)
    BY <1>1, JoinedIs, Zenon
  <2> QED BY <1>1, <2>1, Zenon DEF Joined
<1> HIDE DEF y, lc
<1>3. T \in Seq(Symbols) /\ Len(T) = h + ld /\ ld \in Nat /\ (\A i \in 1 .. h : T[i] = y[i])
      /\ \A i \in 1 .. ld : T[h + i] = d[i]
  <2>1. Joined(T, y, d, Len(y), ld)
    BY <1>2, JoinedIs, Zenon
  <2> QED BY <1>2, <2>1, Zenon DEF Joined
<1> HIDE DEF T, ld
<1>4. T = a \o b \o c \o d
  BY Zenon DEF x, y, T
<1>5. Piece(T, 0, a)
  <2>1. ASSUME NEW i \in 1 .. la PROVE a[i] = T[0 + i]
    <3>1. i \in 1 .. la + lb /\ i \in 1 .. h /\ 0 + i = i
      BY <1>1, <1>2
    <3> QED BY <1>1, <1>2, <1>3, <3>1, Zenon
  <2>2. 0 + la <= Len(T)
    BY <1>1, <1>2, <1>3
  <2> QED BY <2>1, <2>2 DEF Piece, la
<1>6. Piece(T, la, b)
  <2>1. ASSUME NEW i \in 1 .. lb PROVE b[i] = T[la + i]
    <3>1. la + i \in 1 .. la + lb /\ la + i \in 1 .. h
      BY <1>1, <1>2
    <3> QED BY <1>1, <1>2, <1>3, <3>1, Zenon
  <2>2. la + lb <= Len(T)
    BY <1>1, <1>2, <1>3
  <2> QED BY <1>1, <2>1, <2>2 DEF Piece, lb
<1>7. Piece(T, la + lb, c)
  <2>1. ASSUME NEW i \in 1 .. lc PROVE c[i] = T[la + lb + i]
    <3>1. la + lb + i \in 1 .. h
      BY <1>1, <1>2
    <3> QED BY <1>2, <1>3, <3>1, Zenon
  <2>2. (la + lb) + lc <= Len(T) /\ la + lb \in Nat
    BY <1>1, <1>2, <1>3
  <2> QED BY <2>1, <2>2 DEF Piece, lc
<1> QED BY <1>3, <1>4, <1>5, <1>6, <1>7, Zenon DEF Pieces, la, lb, lc, ld

LEMMA OfferedTyped ==
    ASSUME NEW i, Offered(i)
    PROVE  /\ i.key \in Seq(Symbols) /\ Len(i.key) = 2 /\ i.sig.r \in Seq(Symbols) /\ Len(i.sig.r) = 2
           /\ i.version \in Seq(Symbols) /\ Len(i.version) \in {3, 5} /\ i.size \in 0 .. 3 /\ i.flash \in Seq(Symbols)
           /\ otaSignedPreamble(i.version, i.size) \in Seq(Symbols)
           /\ Len(otaSignedPreamble(i.version, i.size)) = 6 + Len(i.version)
           /\ HeadLen(i) = 10 + Len(i.version)
<1>1. {"tag", "version=", "LF", "size=", "i", ".", "R", "y1", "y5", "y7", "s", "none", Zero, "0", "1"} \subseteq Symbols
  BY NumeralsAre DEF Symbols
<1>2. i.key \in Seq(Symbols) /\ Len(i.key) = 2
  <2>1. /\ <<"y5", "s">> \in Seq(Symbols) /\ <<Zero, Zero>> \in Seq(Symbols) /\ <<"y1", "s">> \in Seq(Symbols)
        /\ <<"y7", "s">> \in Seq(Symbols)
        /\ Len(<<"y5", "s">>) = 2 /\ Len(<<Zero, Zero>>) = 2 /\ Len(<<"y1", "s">>) = 2 /\ Len(<<"y7", "s">>) = 2
    BY <1>1
  <2> QED BY <2>1, Zenon DEF Offered, OfferedKeys, ReleaseKey
<1>3. i.sig.r \in Seq(Symbols) /\ Len(i.sig.r) = 2
  <2>1. i.sig.r = <<"R", "R">> \/ i.sig.r = <<"y1", Zero>>
    <3>1. CASE i.sig = Identity0
      BY <3>1 DEF Identity0
    <3>2. CASE \E r \in Released : i.sig = SignatureOf(r)
      BY <3>2 DEF SignatureOf
    <3>3. i.sig = Identity0 \/ \E r \in Released : i.sig = SignatureOf(r)
      BY Zenon DEF Offered
    <3> QED BY <3>1, <3>2, <3>3, Zenon
  <2>2. <<"R", "R">> \in Seq(Symbols) /\ <<"y1", Zero>> \in Seq(Symbols) /\ Len(<<"R", "R">>) = 2 /\ Len(<<"y1", Zero>>) = 2
    BY <1>1
  <2> QED BY <2>1, <2>2, Zenon
<1>4. i.version \in Seq(Symbols) /\ Len(i.version) \in {3, 5} /\ i.size \in 0 .. 3 /\ i.size \in 0 .. 9
  <2> DEFINE a == <<"1", ".", "0", ".", "0">>
             b == <<"1", ".", "0", ".", "1">>
             c == <<"1", ".", "0">>
  <2>0. a \in Seq(Symbols) /\ b \in Seq(Symbols) /\ c \in Seq(Symbols) /\ Len(a) = 5 /\ Len(b) = 5 /\ Len(c) = 3
    BY <1>1
  <2>1. \A v \in OfferedVersions : v \in Seq(Symbols) /\ Len(v) \in {3, 5}
    BY <2>0, Zenon DEF OfferedVersions
  <2>2. i.version \in OfferedVersions /\ i.size \in 0 .. 3
    BY Zenon DEF Offered
  <2>3. \A n \in 0 .. 3 : n \in 0 .. 9
    OBVIOUS
  <2> QED BY <2>1, <2>2, <2>3, Zenon
<1>5. i.flash \in Seq(Symbols)
  <2> DEFINE a == <<"i", "LF">>
             b == <<"i", "1", "i">>
             c == <<"i", "i">>
             d == <<"LF", "i", "LF">>
  <2>1. a \in Seq(Symbols) /\ b \in Seq(Symbols) /\ c \in Seq(Symbols) /\ d \in Seq(Symbols) /\ << >> \in Seq(Symbols)
    BY <1>1
  <2> QED BY <2>1, Zenon DEF Offered, OfferedFlash
<1>6. otaSignedPreamble(i.version, i.size) \in Seq(Symbols) /\ Len(otaSignedPreamble(i.version, i.size)) = 6 + Len(i.version)
  BY <1>4, PreambleTyped, Zenon
<1>7. HeadLen(i) = 10 + Len(i.version)
  <2> DEFINE a == Len(i.sig.r)
             b == Len(i.key)
             p == Len(otaSignedPreamble(i.version, i.size))
             l == Len(i.version)
  <2>1. HeadLen(i) = a + b + p
    BY Zenon DEF HeadLen
  <2>2. a = 2 /\ b = 2 /\ p = 6 + l /\ l \in Nat
    BY <1>2, <1>3, <1>4, <1>6
  <2> HIDE DEF a, b, p, l
  <2>3. HeadLen(i) = 10 + l
    BY <2>1, <2>2
  <2> QED BY <2>3, Zenon DEF l
<1> QED BY <1>2, <1>3, <1>4, <1>5, <1>6, <1>7, Zenon

\* What is hashed before the image, and each chunk of it, is a piece.
LEMMA MessagePieces ==
    ASSUME NEW i, Offered(i)
    PROVE  /\ Message(i) \in Seq(Symbols) /\ Len(Message(i)) = HeadLen(i) + Len(i.flash)
           /\ Piece(Message(i), 0, i.sig.r) /\ Piece(Message(i), Len(i.sig.r), i.key)
           /\ Piece(Message(i), Len(i.sig.r) + Len(i.key), otaSignedPreamble(i.version, i.size))
           /\ \A j \in 1 .. Len(i.flash) : Message(i)[HeadLen(i) + j] = i.flash[j]
<1> DEFINE a == i.sig.r
           b == i.key
           c == otaSignedPreamble(i.version, i.size)
           d == i.flash
<1>1. a \in Seq(Symbols) /\ b \in Seq(Symbols) /\ c \in Seq(Symbols) /\ d \in Seq(Symbols)
  BY OfferedTyped, Zenon
<1>2. Message(i) = a \o b \o c \o d /\ HeadLen(i) = Len(a) + Len(b) + Len(c)
  BY Zenon DEF Message, HeadLen
<1> HIDE DEF a, b, c, d
<1>3. Pieces(a \o b \o c \o d, a, b, c, d)
  BY <1>1, FourPieces, Zenon
<1> QED BY <1>2, <1>3, Zenon DEF a, b, c, d, Pieces

LEMMA ChunkPiece ==
    ASSUME NEW i, Offered(i), NEW f \in Nat, NEW n \in Nat, f + n <= Len(i.flash)
    PROVE  /\ Piece(Message(i), HeadLen(i) + f, SubSeq(i.flash, f + 1, f + n))
           /\ Len(SubSeq(i.flash, f + 1, f + n)) = n
<1> DEFINE T == Message(i)
           h == HeadLen(i)
           d == i.flash
           w == SubSeq(d, f + 1, f + n)
<1>1. T \in Seq(Symbols) /\ Len(T) = h + Len(d) /\ \A j \in 1 .. Len(d) : T[h + j] = d[j]
  BY MessagePieces, Zenon
<1>2. h \in Nat /\ d \in Seq(Symbols)
  <2>1. h = 10 + Len(i.version) /\ Len(i.version) \in {3, 5} /\ d \in Seq(Symbols)
    BY OfferedTyped, Zenon
  <2> QED BY <2>1
<1> HIDE DEF T, h, d
<1>3. Len(d) \in Nat /\ f + n <= Len(d)
  BY <1>2 DEF d
<1>4. w \in Seq(Symbols) /\ Len(w) = n /\ \A j \in 1 .. n : w[j] = d[f + j]
  BY <1>2, <1>3
<1> HIDE DEF w
<1>5. \A j \in 1 .. n : w[j] = T[(h + f) + j]
  <2> TAKE j \in 1 .. n
  <2>1. f + j \in 1 .. Len(d) /\ (h + f) + j = h + (f + j)
    BY <1>2, <1>3
  <2> QED BY <1>1, <1>4, <2>1
<1>6. h + f \in Nat /\ (h + f) + n <= Len(T)
  BY <1>1, <1>2, <1>3
<1>7. Piece(T, h + f, w)
  BY <1>4, <1>5, <1>6 DEF Piece
<1> QED BY <1>4, <1>7, Zenon DEF T, h, d, w

\* The parts of a layout.
Laid(r, k, v, m) ==
    /\ r \in Seq(Symbols) /\ Len(r) = 2 /\ k \in Seq(Symbols) /\ Len(k) = 2
    /\ v \in Seq(Symbols) /\ m \in Seq(Symbols)

LEMMA LayoutOf ==
    ASSUME NEW r, NEW k, NEW v, NEW m, Laid(r, k, v, m), NEW n \in 0 .. 9
    PROVE  Layout(r \o k \o otaSignedPreamble(v, n) \o m, r, k, v, NumeralAt[n + 1], m)
<1> DEFINE p == otaSignedPreamble(v, n)
           l == Len(v)
           lm == Len(m)
           x == r \o k
           y == x \o p
           T == y \o m
           d == NumeralAt[n + 1]
<1>0. r \in Seq(Symbols) /\ Len(r) = 2 /\ k \in Seq(Symbols) /\ Len(k) = 2 /\ v \in Seq(Symbols) /\ m \in Seq(Symbols)
  BY Zenon DEF Laid
<1>1. /\ p \in Seq(Symbols) /\ Len(p) = 6 + l /\ p[1] = "tag" /\ p[2] = "version="
      /\ \A j \in 1 .. l : p[2 + j] = v[j]
      /\ p[3 + l] = "LF" /\ p[4 + l] = "size=" /\ p[5 + l] = d /\ p[6 + l] = "LF"
  BY <1>0, PreambleTyped, Zenon
<1>2. l \in Nat
  BY <1>0
<1> HIDE DEF p, l, d
<1>3. /\ x \in Seq(Symbols) /\ Len(x) = 2 + 2
      /\ \A i \in 1 .. 2 : x[i] = r[i]
      /\ \A i \in 1 .. 2 : x[2 + i] = k[i]
  <2>1. Joined(x, r, k, 2, 2)
    BY <1>0, JoinedIs, Zenon
  <2> QED BY <2>1, Zenon DEF Joined
<1> HIDE DEF x
<1>4. /\ y \in Seq(Symbols) /\ Len(y) = 4 + (6 + l)
      /\ \A i \in 1 .. 4 : y[i] = x[i]
      /\ \A i \in 1 .. 6 + l : y[4 + i] = p[i]
  <2>0. 4 = 2 + 2
    OBVIOUS
  <2>1. Joined(y, x, p, 4, 6 + l)
    BY <1>1, <1>3, <2>0, JoinedIs, Zenon
  <2> QED BY <2>1, Zenon DEF Joined
<1> HIDE DEF y
<1>5. /\ T \in Seq(Symbols) /\ Len(T) = (10 + l) + lm /\ lm \in Nat
      /\ \A i \in 1 .. 10 + l : T[i] = y[i]
      /\ \A i \in 1 .. lm : T[(10 + l) + i] = m[i]
  <2>0. 10 + l = 4 + (6 + l)
    BY <1>2
  <2>1. Joined(T, y, m, 10 + l, lm)
    BY <1>0, <1>4, <2>0, JoinedIs, Zenon
  <2> QED BY <2>1, Zenon DEF Joined
<1> HIDE DEF T, lm
<1>6. T[1] = r[1] /\ T[2] = r[2] /\ T[3] = k[1] /\ T[4] = k[2]
  <2>1. x[1] = r[1] /\ x[2] = r[2] /\ x[2 + 1] = k[1] /\ x[2 + 2] = k[2]
    BY <1>3
  <2> QED BY <1>2, <1>4, <1>5, <2>1
<1>7. ASSUME NEW j \in 1 .. 6 + l PROVE T[4 + j] = p[j]
  BY <1>2, <1>4, <1>5
<1>8. T[5] = "tag" /\ T[6] = "version="
  <2>1. T[4 + 1] = p[1] /\ T[4 + 2] = p[2]
    BY <1>2, <1>7
  <2> QED BY <1>1, <2>1
<1>9. ASSUME NEW j \in 1 .. l PROVE T[6 + j] = v[j]
  <2>1. 2 + j \in 1 .. 6 + l /\ 4 + (2 + j) = 6 + j
    BY <1>2
  <2> QED BY <1>1, <1>7, <2>1, Zenon
<1>10. T[7 + l] = "LF" /\ T[8 + l] = "size=" /\ T[9 + l] = d /\ T[10 + l] = "LF"
  <2>1. /\ 3 + l \in 1 .. 6 + l /\ 4 + l \in 1 .. 6 + l /\ 5 + l \in 1 .. 6 + l /\ 6 + l \in 1 .. 6 + l
        /\ 4 + (3 + l) = 7 + l /\ 4 + (4 + l) = 8 + l /\ 4 + (5 + l) = 9 + l /\ 4 + (6 + l) = 10 + l
    BY <1>2
  <2> QED BY <1>1, <1>7, <2>1, Zenon
<1>11. T = r \o k \o otaSignedPreamble(v, n) \o m
  BY Zenon DEF x, y, p, T
<1>12. Layout(T, r, k, v, d, m)
  BY <1>5, <1>6, <1>8, <1>9, <1>10, Zenon DEF Layout, l, lm
<1> QED BY <1>11, <1>12, Zenon DEF d

\* The message up to some byte of the image.
LEMMA LayoutUpTo ==
    ASSUME NEW T \in Seq(Symbols), NEW r, NEW k, NEW v, NEW d, NEW m, Laid(r, k, v, m), Layout(T, r, k, v, d, m),
           NEW f \in 0 .. Len(m)
    PROVE  /\ SubSeq(T, 1, 10 + Len(v) + f) \in Seq(Symbols)
           /\ Layout(SubSeq(T, 1, 10 + Len(v) + f), r, k, v, d, SubSeq(m, 1, f))
<1> DEFINE l == Len(v)
           lm == Len(m)
           w == SubSeq(m, 1, f)
           S == SubSeq(T, 1, 10 + l + f)
<1>0. l \in Nat /\ lm \in Nat /\ m \in Seq(Symbols) /\ f \in Nat /\ f <= lm
  BY DEF Laid
<1>1. w \in Seq(Symbols) /\ Len(w) = f /\ \A j \in 1 .. f : w[j] = m[j]
  BY <1>0
<1>2. Len(T) = 10 + l + lm
  BY Zenon DEF Layout
<1> HIDE DEF l, lm, w
<1>3. S \in Seq(Symbols) /\ Len(S) = 10 + l + f /\ \A j \in 1 .. 10 + l + f : S[j] = T[j]
  BY <1>0, <1>2
<1> HIDE DEF S
<1>4. /\ T[1] = r[1] /\ T[2] = r[2] /\ T[3] = k[1] /\ T[4] = k[2]
      /\ T[5] = "tag" /\ T[6] = "version="
      /\ \A j \in 1 .. l : T[6 + j] = v[j]
      /\ T[7 + l] = "LF" /\ T[8 + l] = "size=" /\ T[9 + l] = d /\ T[10 + l] = "LF"
      /\ \A j \in 1 .. lm : T[10 + l + j] = m[j]
  BY Zenon DEF Layout, l, lm
<1>5. /\ S[1] = T[1] /\ S[2] = T[2] /\ S[3] = T[3] /\ S[4] = T[4] /\ S[5] = T[5] /\ S[6] = T[6]
      /\ \A j \in 1 .. l : S[6 + j] = T[6 + j]
      /\ S[7 + l] = T[7 + l] /\ S[8 + l] = T[8 + l] /\ S[9 + l] = T[9 + l] /\ S[10 + l] = T[10 + l]
  BY <1>0, <1>3
<1>6. ASSUME NEW j \in 1 .. f PROVE S[10 + l + j] = w[j]
  <2>1. j \in 1 .. lm /\ 10 + l + j \in 1 .. 10 + l + f
    BY <1>0
  <2> QED BY <1>1, <1>3, <1>4, <2>1, Zenon
<1>7. Layout(S, r, k, v, d, w)
  BY <1>1, <1>3, <1>4, <1>5, <1>6, Zenon DEF Layout, l
<1> QED BY <1>3, <1>7, Zenon DEF S, w, l

\* A layout is read back in one way: the release never has a version of three
\* bytes, so its fourth is the dot.
SaysThat(S, v, d, m) == \E r, k : Layout(S, r, k, v, d, m) /\ Laid(r, k, v, m)

LEMMA LayoutExact ==
    ASSUME NEW S, NEW v, NEW d, NEW m, SaysThat(S, v, d, m), Len(v) \in {3, 5},
           NEW u, NEW w, NEW x, SaysThat(S, u, w, x), Len(u) = 5, u[4] = "."
    PROVE  v = u /\ d = w /\ m = x
<1>0. PICK r, k : Layout(S, r, k, v, d, m) /\ Laid(r, k, v, m)
  BY Zenon DEF SaysThat
<1>10. PICK q, e : Layout(S, q, e, u, w, x) /\ Laid(q, e, u, x)
  BY Zenon DEF SaysThat
<1> DEFINE l == Len(v)
           lm == Len(m)
           lx == Len(x)
<1>1. v \in Seq(Symbols) /\ m \in Seq(Symbols) /\ u \in Seq(Symbols) /\ x \in Seq(Symbols) /\ lm \in Nat /\ lx \in Nat
  BY <1>0, <1>10 DEF Laid
<1>2. /\ Len(S) = 10 + l + lm
      /\ \A j \in 1 .. l : S[6 + j] = v[j]
      /\ S[7 + l] = "LF" /\ S[9 + l] = d
      /\ \A j \in 1 .. lm : S[10 + l + j] = m[j]
  BY <1>0, Zenon DEF Layout
<1>3. /\ Len(S) = 10 + 5 + lx
      /\ \A j \in 1 .. 5 : S[6 + j] = u[j]
      /\ S[9 + 5] = w
      /\ \A j \in 1 .. lx : S[10 + 5 + j] = x[j]
  BY <1>10, Zenon DEF Layout
<1> HIDE DEF lm, lx
<1>4. l = 5
  <2>1. S[10] = "."
    BY <1>3
  <2>2. l = 3 => S[10] = "LF"
    BY <1>2
  <2> QED BY <2>1, <2>2
<1>5. \A j \in 1 .. 5 : v[j] = u[j]
  BY <1>2, <1>3, <1>4, Zenon
<1>6. lm = lx /\ d = w
  BY <1>1, <1>2, <1>3, <1>4
<1>7. \A j \in 1 .. lm : m[j] = x[j]
  BY <1>2, <1>3, <1>4, <1>6, Zenon
<1>8. v = u
  BY <1>1, <1>4, <1>5
<1>9. m = x
  BY <1>1, <1>6, <1>7 DEF lm, lx
<1> QED BY <1>6, <1>8, <1>9

\* The bytes of a released image, signed and offered for what they are.
Genuine(i) ==
    \E r \in Released : /\ r.version = i.version /\ r.image = i.flash
                        /\ i.size = Len(r.image) /\ i.sig = SignatureOf(r)

LEMMA ReleaseTyped ==
    ASSUME NEW r \in Released
    PROVE  /\ r.version \in Seq(Symbols) /\ Len(r.version) = 5 /\ r.version[4] = "."
           /\ r.image \in Seq(Symbols) /\ Len(r.image) \in 0 .. 9
           /\ otaSignedPreamble(r.version, Len(r.image)) \in Seq(Symbols)
<1>1. {"LF", "i", ".", "0", "1"} \subseteq Symbols
  BY NumeralsAre DEF Symbols
<1> DEFINE a == <<"1", ".", "0", ".", "0">>
           b == <<"1", ".", "0", ".", "1">>
           x == <<"i", "LF">>
           y == <<"i", "1", "i">>
<1>2. /\ a \in Seq(Symbols) /\ Len(a) = 5 /\ a[4] = "." /\ b \in Seq(Symbols) /\ Len(b) = 5 /\ b[4] = "."
      /\ x \in Seq(Symbols) /\ Len(x) \in 0 .. 9 /\ y \in Seq(Symbols) /\ Len(y) \in 0 .. 9
  BY <1>1
<1>3. \/ r.version = a /\ r.image = x
      \/ r.version = b /\ r.image = y
  BY ReleasedIs
<1> HIDE DEF a, b, x, y
<1>4. /\ r.version \in Seq(Symbols) /\ Len(r.version) = 5 /\ r.version[4] = "."
      /\ r.image \in Seq(Symbols) /\ Len(r.image) \in 0 .. 9
  BY <1>2, <1>3, Zenon
<1> QED BY <1>4, PreambleTyped, Zenon

LEMMA SignedText ==
    ASSUME NEW r \in Released, NEW k \in Seq(Symbols), Len(k) = 2
    PROVE  LET g == SignatureOf(r)
               t == g.r \o k \o g.msg
           IN /\ g.by = ReleaseKey /\ g.r \in Seq(Symbols) /\ Len(g.r) = 2
              /\ t = g.r \o k \o otaSignedPreamble(r.version, Len(r.image)) \o r.image
              /\ t \in Seq(Symbols)
              /\ Layout(t, g.r, k, r.version, NumeralAt[Len(r.image) + 1], r.image)
<1> DEFINE q == <<"R", "R">>
           p == otaSignedPreamble(r.version, Len(r.image))
           m == r.image
           g == SignatureOf(r)
           x == q \o k
           n == Len(r.image)
           v == r.version
<1>1. p \in Seq(Symbols) /\ m \in Seq(Symbols) /\ n \in 0 .. 9 /\ v \in Seq(Symbols)
  BY ReleaseTyped, Zenon
<1>2. g.by = ReleaseKey /\ g.r = q /\ g.msg = p \o m
  BY DEF SignatureOf
<1>3. q \in Seq(Symbols) /\ Len(q) = 2
  BY DEF Symbols
<1>4. Laid(q, k, v, m)
  BY <1>1, <1>3, Zenon DEF Laid
<1>5. Layout(q \o k \o p \o m, q, k, v, NumeralAt[n + 1], m)
  BY <1>1, <1>4, LayoutOf, Zenon
<1> HIDE DEF q, p, m, g, n, v
<1>6. x \in Seq(Symbols)
  BY <1>3
<1> HIDE DEF x
<1>7. x \o (p \o m) = (x \o p) \o m /\ x \o (p \o m) \in Seq(Symbols)
  BY <1>1, <1>6
<1>8. g.r \o k \o g.msg = q \o k \o p \o m /\ g.r \o k \o g.msg \in Seq(Symbols)
  BY <1>2, <1>7, Zenon DEF x
<1> QED BY <1>2, <1>3, <1>5, <1>8, Zenon DEF g, p, m, n, v

\* What has been hashed when f bytes of the image have.
LEMMA HashedLayout ==
    ASSUME NEW i, Offered(i), NEW f \in 0 .. Len(i.flash)
    PROVE  LET S == SubSeq(Message(i), 1, HeadLen(i) + f)
           IN /\ S \in Seq(Symbols)
              /\ Layout(S, i.sig.r, i.key, i.version, NumeralAt[i.size + 1], SubSeq(i.flash, 1, f))
<1> DEFINE r == i.sig.r
           k == i.key
           v == i.version
           m == i.flash
           n == i.size
           d == NumeralAt[n + 1]
<1>1. /\ Laid(r, k, v, m) /\ n \in 0 .. 3 /\ HeadLen(i) = 10 + Len(v)
  BY OfferedTyped, Zenon DEF Laid
<1>2. n \in 0 .. 9
  BY <1>1
<1>3. Message(i) \in Seq(Symbols) /\ Message(i) = r \o k \o otaSignedPreamble(v, n) \o m
  BY MessagePieces, Zenon DEF Message
<1> HIDE DEF r, k, v, m, n
<1>4. Layout(Message(i), r, k, v, d, m)
  BY <1>1, <1>2, <1>3, LayoutOf, Zenon
<1>5. f \in 0 .. Len(m)
  BY DEF m
<1> HIDE DEF d
<1>6. /\ SubSeq(Message(i), 1, 10 + Len(v) + f) \in Seq(Symbols)
      /\ Layout(SubSeq(Message(i), 1, 10 + Len(v) + f), r, k, v, d, SubSeq(m, 1, f))
  BY <1>1, <1>3, <1>4, <1>5, LayoutUpTo, Zenon
<1> QED BY <1>1, <1>6, Zenon DEF r, k, v, m, n, d

\* No image offered continues a released one.
LEMMA WholeImage ==
    ASSUME NEW r \in Released, NEW m \in OfferedFlash, NEW f \in 0 .. Len(m), SubSeq(m, 1, f) = r.image
    PROVE  m = r.image /\ f = Len(r.image)
<1> DEFINE w == SubSeq(m, 1, f)
           B == {"i", "1", "LF"}
<1>1. m \in Seq(B) /\ w \in Seq(B) /\ Len(w) = f /\ \A j \in 1 .. f : w[j] = m[j]
  <2>1. m \in Seq(B)
    <3>1. {<<"i", "LF">>, <<"i", "1", "i">>, <<>>, <<"i", "i">>, <<"LF", "i", "LF">>} \subseteq Seq(B)
      OBVIOUS
    <3> QED BY <3>1, Zenon DEF OfferedFlash
  <2> QED BY <2>1
<1> HIDE DEF w
<1>2. w = r.image
  BY DEF w
<1>3. CASE r.image = <<"i", "LF">>
  <2>0. Len(r.image) = 2 /\ r.image[1] = "i" /\ r.image[2] = "LF"
    BY <1>3
  <2>1. f = 2 /\ m[1] = "i" /\ m[2] = "LF" /\ Len(m) >= 2
    BY <1>1, <1>2, <2>0
  <2> QED BY <1>3, <2>1 DEF OfferedFlash
<1>4. CASE r.image = <<"i", "1", "i">>
  <2>0. Len(r.image) = 3 /\ r.image[1] = "i" /\ r.image[2] = "1" /\ r.image[3] = "i"
    BY <1>4
  <2>1. f = 3 /\ m[1] = "i" /\ m[2] = "1" /\ m[3] = "i" /\ Len(m) >= 3
    BY <1>1, <1>2, <2>0
  <2> QED BY <1>4, <2>1 DEF OfferedFlash
<1> QED BY <1>3, <1>4, ReleasedIs, Zenon

\* The equation holds over what was hashed only for a released image.
LEMMA EquationSound ==
    ASSUME NEW i, Offered(i), NEW f \in 0 .. Len(i.flash), ~isUnusableKey(i.key),
           CheckEquation(i.sig, i.key, Padded(SubSeq(Message(i), 1, HeadLen(i) + f)))
    PROVE  Genuine(i) /\ i.key = ReleaseKey
<1> DEFINE S == SubSeq(Message(i), 1, HeadLen(i) + f)
           g == i.sig
           k == i.key
           w == SubSeq(i.flash, 1, f)
<1>1. g.by = k /\ Padded(S) = Padded(g.r \o k \o g.msg)
  BY Zenon DEF CheckEquation, isUnusableKey, isSmallOrderKey
<1>2. k # <<"none", Zero>>
  <2>1. /\ <<"y5", "s">> # <<"none", Zero>> /\ <<Zero, Zero>> # <<"none", Zero>> /\ <<"y1", "s">> # <<"none", Zero>>
        /\ <<"y7", "s">> # <<"none", Zero>>
    BY DEF Zero
  <2> QED BY <2>1, Zenon DEF Offered, OfferedKeys, ReleaseKey
<1>3. g # Identity0
  <2>1. Identity0.by = <<"none", Zero>>
    BY DEF Identity0
  <2> QED BY <1>1, <1>2, <2>1, Zenon
<1>4. PICK r \in Released : g = SignatureOf(r)
  BY <1>3, Zenon DEF Offered
<1> DEFINE v == r.version
           m == r.image
           d == NumeralAt[i.size + 1]
           e == NumeralAt[Len(m) + 1]
           t == g.r \o k \o g.msg
<1>5. k \in Seq(Symbols) /\ Len(k) = 2 /\ i.version \in Seq(Symbols) /\ Len(i.version) \in {3, 5} /\ i.size \in 0 .. 3
      /\ i.flash \in Seq(Symbols)
  BY OfferedTyped, Zenon
<1>6. g.by = ReleaseKey /\ g.r \in Seq(Symbols) /\ Len(g.r) = 2 /\ t \in Seq(Symbols) /\ Layout(t, g.r, k, v, e, m)
  BY <1>4, <1>5, SignedText, Zenon
<1>7. S \in Seq(Symbols) /\ Layout(S, g.r, k, i.version, d, w)
  BY HashedLayout, Zenon
<1>8. w \in Seq(Symbols)
  BY <1>5
<1>9. v \in Seq(Symbols) /\ Len(v) = 5 /\ v[4] = "." /\ m \in Seq(Symbols) /\ Len(m) \in 0 .. 9
  BY ReleaseTyped, Zenon
<1> HIDE DEF S, w, v, m, d, e, t
<1>10. S = t
  BY <1>1, <1>6, <1>7, PaddedInjective, Zenon DEF t
<1>11. Laid(g.r, k, i.version, w) /\ Laid(g.r, k, v, m)
  BY <1>5, <1>6, <1>8, <1>9, Zenon DEF Laid
<1>12. i.version = v /\ d = e /\ w = m
  <2>1. Layout(S, g.r, k, v, e, m)
    BY <1>6, <1>10, Zenon
  <2>2. SaysThat(S, i.version, d, w) /\ SaysThat(S, v, e, m)
    BY <1>7, <1>11, <2>1, Zenon DEF SaysThat
  <2> QED BY <1>5, <1>9, <2>2, LayoutExact, Zenon
<1>13. i.size = Len(m)
  <2>1. i.size \in 0 .. 9 /\ Len(m) \in 0 .. 9
    BY <1>5, <1>9
  <2>2. NumeralValue[d] = i.size /\ NumeralValue[e] = Len(m)
    BY <2>1, NumeralOf, Zenon DEF d, e
  <2> QED BY <1>12, <2>2, Zenon
<1>14. i.flash = m
  <2>1. i.flash \in OfferedFlash
    BY Zenon DEF Offered
  <2>2. SubSeq(i.flash, 1, f) = r.image
    BY <1>12, Zenon DEF w, m
  <2> QED BY <2>1, <2>2, WholeImage, Zenon DEF m
<1> QED BY <1>1, <1>4, <1>6, <1>12, <1>13, <1>14, Zenon DEF Genuine, v, m

\* And it holds over a released image hashed to its end.
LEMMA EquationComplete ==
    ASSUME NEW i, Offered(i), Genuine(i), i.key = ReleaseKey
    PROVE  CheckEquation(i.sig, i.key, Padded(SubSeq(Message(i), 1, HeadLen(i) + i.size)))
<1>1. PICK r \in Released : r.version = i.version /\ r.image = i.flash /\ i.size = Len(r.image) /\ i.sig = SignatureOf(r)
  BY Zenon DEF Genuine
<1> DEFINE g == i.sig
           k == i.key
           T == Message(i)
           p == otaSignedPreamble(i.version, i.size)
<1>2. k \in Seq(Symbols) /\ Len(k) = 2
  BY OfferedTyped, Zenon
<1>3. g.by = ReleaseKey /\ g.r \o k \o g.msg = g.r \o k \o p \o i.flash
  BY <1>1, <1>2, SignedText, Zenon
<1>4. T = g.r \o k \o p \o i.flash
  BY Zenon DEF Message
<1>5. T \in Seq(Symbols) /\ Len(T) = HeadLen(i) + i.size
  BY <1>1, MessagePieces, Zenon
<1> DEFINE l == HeadLen(i) + i.size
<1> HIDE DEF T, l
<1>6. SubSeq(T, 1, l) = T
  <2>1. Len(T) = l
    BY <1>5, Zenon DEF l
  <2> QED BY <1>5, <2>1
<1>7. Padded(SubSeq(T, 1, l)) = Padded(g.r \o k \o g.msg)
  BY <1>3, <1>4, <1>6, Zenon
<1> QED BY <1>3, <1>7, Zenon DEF CheckEquation, T, l

\* u is t and one byte more.
Grows(t, c, u) ==
    /\ t \in Seq({"0", "1", "."}) /\ u \in Seq({"0", "1", "."}) /\ c \in {"0", "1", "."} /\ Len(u) = Len(t) + 1
    /\ (\A j \in 1 .. Len(t) : u[j] = t[j]) /\ u[Len(t) + 1] = c

LEMMA GrowsIs ==
    ASSUME NEW t, NEW c, NEW u, Grows(t, c, u)
    PROVE  t \o <<c>> = u
<1> DEFINE B == {"0", "1", "."}
           z == t \o <<c>>
           l == Len(t)
<1>1. /\ t \in Seq(B) /\ u \in Seq(B) /\ c \in B /\ Len(u) = l + 1
      /\ (\A j \in 1 .. l : u[j] = t[j]) /\ u[l + 1] = c
  BY Zenon DEF Grows
<1> HIDE DEF B
<1>2. z \in Seq(B) /\ Len(z) = l + 1 /\ (\A j \in 1 .. l : z[j] = t[j]) /\ z[l + 1] = c /\ l \in Nat
  BY <1>1
<1> HIDE DEF z, l
<1>3. \A j \in 1 .. l + 1 : z[j] = u[j]
  BY <1>1, <1>2
<1>4. z = u
  BY <1>1, <1>2, <1>3
<1> QED BY <1>4 DEF z

\* The version of a released image is one the terminal reads.
LEMMA ReleaseVersion ==
    ASSUME NEW r \in Released
    PROVE  otaVersionCode(r.version) # {}
<1>1. 0 \in 0 .. PartMax /\ 1 \in 0 .. PartMax /\ 0 \in 0 .. 9 /\ 1 \in 0 .. 9
  BY ImageVerifyAssumption, CodecAssumption
<1>2. NumeralText(0) = <<"0">> /\ NumeralText(1) = <<"1">>
  <2>1. NumeralText(0) = <<NumeralAt[0 + 1]>> /\ NumeralText(1) = <<NumeralAt[1 + 1]>>
    BY <1>1, OneDigit, Zenon
  <2>2. NumeralAt[0 + 1] = "0" /\ NumeralAt[1 + 1] = "1"
    BY DEF NumeralAt
  <2> QED BY <2>1, <2>2, Zenon
<1> DEFINE x == <<"0">>
           y == <<"1">>
<1>3. PartOk(x) /\ x \in Seq(Numerals) /\ PartOk(y) /\ y \in Seq(Numerals)
  BY <1>1, <1>2, NumeralPartOk, Zenon
<1>4. Dotted(y, x, x) = <<"1", ".", "0", ".", "0">> /\ Dotted(y, x, y) = <<"1", ".", "0", ".", "1">>
  <2> DEFINE a == <<"1">>
             b == <<"1", ".">>
             c == <<"1", ".", "0">>
             d == <<"1", ".", "0", ".">>
             e == <<"1", ".", "0", ".", "0">>
             f == <<"1", ".", "0", ".", "1">>
  <2>1. Grows(a, ".", b)
    BY DEF Grows
  <2>2. Grows(b, "0", c)
    BY DEF Grows
  <2>3. Grows(c, ".", d)
    BY DEF Grows
  <2>4. Grows(d, "0", e)
    BY DEF Grows
  <2>5. Grows(d, "1", f)
    BY DEF Grows
  <2> HIDE DEF b, c, d, e, f
  <2>6. y \o <<".">> = b /\ b \o x = c /\ c \o <<".">> = d /\ d \o x = e /\ d \o y = f
    BY <2>1, <2>2, <2>3, <2>4, <2>5, GrowsIs, Zenon
  <2> HIDE DEF x, y
  <2> QED BY <2>6, Zenon DEF Dotted, e, f
<1> HIDE DEF x, y
<1>5. otaVersionCode(Dotted(y, x, x)) # {} /\ otaVersionCode(Dotted(y, x, y)) # {}
  <2>1. /\ otaVersionCode(Dotted(y, x, x)) = {Pack(Part(y), Part(x), Part(x))}
        /\ otaVersionCode(Dotted(y, x, y)) = {Pack(Part(y), Part(x), Part(y))}
    BY <1>3, DottedCode, Zenon
  <2>2. \A c : {c} # {}
    OBVIOUS
  <2> QED BY <2>1, <2>2, Zenon
<1> QED BY <1>4, <1>5, ReleasedIs, Zenon

\* The verifier of an image: what it was made for, its hash context, whether
\* its stream and itself are finished, and the bytes it has seen.
Streaming(i, c, b) == [key |-> i.key, sig |-> i.sig, finished |-> b, ctx |-> c]
Verifying(i, c, b, n, f) ==
    [stream |-> Streaming(i, c, b), expected |-> i.size, noKey |-> isUnusableKey(i.key),
     versionOk |-> (otaVersionCode(i.version) # {}), seen |-> n, finished |-> f]
Readback(d, f, v, s) ==
    DOMAIN st = {"done", "fed", "v", "said"} /\ st.done = d /\ st.fed = f /\ st.v = v /\ st.said = s

\* The verdict x after n bytes is the right one.
Judged(i, n, x) ==
    /\ x = "Ok" => Genuine(i) /\ i.key = ReleaseKey
    /\ Genuine(i) /\ i.key = ReleaseKey /\ n = i.size => x = "Ok"

HashedSo(i, c, f) ==
    /\ f \in 0 .. Len(i.flash)
    /\ otaVersionCode(i.version) # {} => Reaches(c, Message(i), HeadLen(i) + f)

LEMMA VerdictJudged ==
    ASSUME NEW i, Offered(i), NEW c, NEW f, HashedSo(i, c, f)
    PROVE  Judged(i, f, Verdict(Verifying(i, c, FALSE, f, FALSE)))
<1> DEFINE v == Verifying(i, c, FALSE, f, FALSE)
           s == Streaming(i, c, FALSE)
           ok == (otaVersionCode(i.version) # {})
           bad == isUnusableKey(i.key)
           S == SubSeq(Message(i), 1, HeadLen(i) + f)
<1>1. /\ v.stream = s /\ v.expected = i.size /\ v.noKey = bad /\ v.versionOk = ok /\ v.seen = f /\ v.finished = FALSE
  <2> HIDE DEF s, ok, bad
  <2>1. v = [stream |-> s, expected |-> i.size, noKey |-> bad, versionOk |-> ok, seen |-> f, finished |-> FALSE]
    BY Zenon DEF Verifying, s, ok, bad
  <2> HIDE DEF v
  <2> QED BY <2>1
<1>2. s.key = i.key /\ s.sig = i.sig /\ s.finished = FALSE /\ s.ctx = c
  BY DEF Streaming
<1>3. ok => crypto_sha512_final(c) = Padded(S)
  BY FinalOfPieces, Zenon DEF HashedSo
<1>4. ok => (StreamVerifies(s) <=> ~bad /\ CheckEquation(i.sig, i.key, Padded(S)))
  <2> HIDE DEF s, S
  <2> QED BY <1>2, <1>3, Zenon DEF StreamVerifies
<1>5. f \in 0 .. Len(i.flash)
  BY Zenon DEF HashedSo
<1>6. ASSUME Verdict(v) = "Ok" PROVE Genuine(i) /\ i.key = ReleaseKey
  <2>0. "NoKey" # "Ok" /\ "BadVersion" # "Ok" /\ "EmptyImage" # "Ok" /\ "SizeMismatch" # "Ok" /\ "BadSignature" # "Ok"
    OBVIOUS
  <2> HIDE DEF v, s, ok, bad, S
  <2>1. ~bad /\ ok /\ StreamVerifies(s)
    BY <1>1, <1>6, <2>0, Zenon DEF Verdict
  <2>2. CheckEquation(i.sig, i.key, Padded(S))
    BY <1>4, <2>1, Zenon
  <2> QED BY <1>5, <2>1, <2>2, EquationSound, Zenon DEF S, bad
<1>7. ASSUME Genuine(i), i.key = ReleaseKey, f = i.size PROVE Verdict(v) = "Ok"
  <2>1. PICK r \in Released : r.version = i.version /\ i.size = Len(r.image)
    BY <1>7, Zenon DEF Genuine
  <2>2. ok
    BY <2>1, ReleaseVersion, Zenon
  <2>3. i.size # 0
    <3>1. Len(r.image) # 0
      BY ReleasedIs
    <3> QED BY <2>1, <3>1
  <2>4. ~bad
    <3>1. ReleaseKey[1] = "y5" /\ "y5" \notin SmallOrderY /\ ReleaseKey # <<Zero, Zero>>
      BY DEF ReleaseKey, SmallOrderY, Zero
    <3> QED BY <1>7, <3>1, Zenon DEF isUnusableKey, isSentinelKey, isSmallOrderKey
  <2>5. CheckEquation(i.sig, i.key, Padded(S))
    BY <1>7, EquationComplete, Zenon
  <2> HIDE DEF v, s, ok, bad, S
  <2>6. StreamVerifies(s)
    BY <1>4, <2>2, <2>4, <2>5, Zenon
  <2> QED BY <1>1, <1>7, <2>2, <2>3, <2>4, <2>6, Zenon DEF Verdict
<1> HIDE DEF v
<1> QED BY <1>6, <1>7, Zenon DEF Judged, v

\* Feeding a chunk hashes it; a finished verifier ignores it.
LEMMA FedSo ==
    ASSUME NEW i, Offered(i), NEW c, NEW f, HashedSo(i, c, f), NEW n \in 0 .. Len(i.flash) - f
    PROVE  \E e : /\ VerifierUpdate(Verifying(i, c, FALSE, f, FALSE), SubSeq(i.flash, f + 1, f + n))
                       = Verifying(i, e, FALSE, f + n, FALSE)
                  /\ HashedSo(i, e, f + n)
<1> DEFINE v == Verifying(i, c, FALSE, f, FALSE)
           s == Streaming(i, c, FALSE)
           w == SubSeq(i.flash, f + 1, f + n)
           d == crypto_sha512_update(c, w)
           ok == (otaVersionCode(i.version) # {})
           bad == isUnusableKey(i.key)
           h == HeadLen(i)
<1>1. /\ f \in 0 .. Len(i.flash) /\ (ok => Reaches(c, Message(i), h + f))
      /\ i.flash \in Seq(Symbols) /\ h = 10 + Len(i.version) /\ Len(i.version) \in {3, 5}
  BY OfferedTyped, Zenon DEF HashedSo
<1>2. Len(i.flash) \in Nat /\ h \in Nat /\ f \in Nat /\ n \in Nat /\ f + n <= Len(i.flash) /\ f + n \in 0 .. Len(i.flash)
  BY <1>1
<1>3. Piece(Message(i), h + f, w) /\ Len(w) = n
  BY <1>2, ChunkPiece, Zenon
<1>4. (h + f) + n = h + (f + n)
  BY <1>2
<1>5. v = [stream |-> s, expected |-> i.size, noKey |-> bad, versionOk |-> ok, seen |-> f, finished |-> FALSE]
  BY Zenon DEF Verifying
<1>6. s = [key |-> i.key, sig |-> i.sig, finished |-> FALSE, ctx |-> c]
  BY Zenon DEF Streaming
<1>7. CASE w = << >>
  <2>1. n = 0 /\ f + n = f
    BY <1>2, <1>3, <1>7
  <2>2. VerifierUpdate(v, w) = v
    BY <1>7, Zenon DEF VerifierUpdate
  <2> QED BY <2>1, <2>2, Zenon
<1>8. CASE w # << >>
  <2> DEFINE t == Streaming(i, d, FALSE)
             u == Verifying(i, d, FALSE, f + n, FALSE)
  <2>1. StreamUpdate(s, w) = t
    <3> HIDE DEF w, d, s
    <3>1. s.finished = FALSE /\ s.ctx = c
      BY <1>6
    <3>2. StreamUpdate(s, w) = [s EXCEPT !.ctx = crypto_sha512_update(s.ctx, w)]
      BY <1>8, <3>1, Zenon DEF StreamUpdate
    <3>3. StreamUpdate(s, w) = [s EXCEPT !.ctx = d]
      BY <3>1, <3>2, Zenon DEF d
    <3>4. t = [key |-> i.key, sig |-> i.sig, finished |-> FALSE, ctx |-> d]
      BY Zenon DEF Streaming
    <3> HIDE DEF t
    <3> QED BY <1>6, <3>3, <3>4
  <2>2. u = [stream |-> t, expected |-> i.size, noKey |-> bad, versionOk |-> ok, seen |-> f + n, finished |-> FALSE]
    BY Zenon DEF Verifying
  <2>3. VerifierUpdate(v, w) = u
    <3> HIDE DEF w, d, s, v, t, u, bad, ok
    <3>1. v.finished = FALSE /\ v.seen = f /\ v.stream = s
      BY <1>5
    <3>2. VerifierUpdate(v, w) = [v EXCEPT !.seen = v.seen + Len(w), !.stream = StreamUpdate(v.stream, w)]
      BY <1>8, <3>1, Zenon DEF VerifierUpdate
    <3>3. VerifierUpdate(v, w) = [v EXCEPT !.seen = f + n, !.stream = t]
      BY <1>3, <2>1, <3>1, <3>2, Zenon
    <3> QED BY <1>5, <2>2, <3>3
  <2>4. HashedSo(i, d, f + n)
    <3>1. ok => Reaches(d, Message(i), (h + f) + Len(w))
      BY <1>1, <1>3, UpdateReaches, Zenon
    <3> HIDE DEF d, w
    <3> QED BY <1>2, <1>3, <1>4, <3>1, Zenon DEF HashedSo
  <2> QED BY <2>3, <2>4, Zenon
<1> QED BY <1>7, <1>8

\* A new verifier has hashed what stands before the image.
LEMMA NewSo ==
    ASSUME NEW i, Offered(i)
    PROVE  \E c : /\ NewVerifier(i.key, i.sig, i.version, i.size) = Verifying(i, c, FALSE, 0, FALSE)
                  /\ HashedSo(i, c, 0)
<1> DEFINE T == Message(i)
           r == i.sig.r
           k == i.key
           p == otaSignedPreamble(i.version, i.size)
           c1 == crypto_sha512_update(ShaInit, r)
           c2 == crypto_sha512_update(c1, k)
           c3 == crypto_sha512_update(c2, p)
           s2 == Streaming(i, c2, FALSE)
           s3 == Streaming(i, c3, FALSE)
           ok == (otaVersionCode(i.version) # {})
           bad == isUnusableKey(i.key)
<1>1. /\ T \in Seq(Symbols) /\ Piece(T, 0, r) /\ Piece(T, Len(r), k) /\ Piece(T, Len(r) + Len(k), p)
  BY MessagePieces, Zenon
<1>2. Len(r) = 2 /\ Len(k) = 2 /\ Len(p) = 6 + Len(i.version) /\ Len(i.version) \in {3, 5} /\ i.flash \in Seq(Symbols)
      /\ HeadLen(i) = Len(r) + Len(k) + Len(p)
  BY OfferedTyped, Zenon DEF HeadLen
<1>3. 0 + Len(r) = Len(r) /\ HeadLen(i) + 0 = Len(r) + Len(k) + Len(p) /\ 0 \in 0 .. Len(i.flash) /\ p # << >>
  <2>1. Len(i.flash) \in Nat /\ Len(p) # 0
    BY <1>2
  <2> HIDE DEF p, r, k
  <2>2. p # << >>
    BY <2>1
  <2> DEFINE a == Len(r)
             b == Len(k)
             l == Len(p)
             m == Len(i.version)
  <2>3. a = 2 /\ b = 2 /\ l = 6 + m /\ m \in {3, 5} /\ HeadLen(i) = a + b + l
    BY <1>2
  <2> HIDE DEF a, b, l, m
  <2>4. 0 + a = a /\ HeadLen(i) + 0 = a + b + l
    BY <2>3
  <2> QED BY <2>1, <2>2, <2>4 DEF a, b, l
<1>4. Reaches(c3, T, HeadLen(i) + 0)
  <2>1. Reaches(ShaInit, T, 0)
    BY <1>1, StartReaches, Zenon
  <2>2. Reaches(c1, T, 0 + Len(r))
    BY <1>1, <2>1, UpdateReaches, Zenon
  <2>3. Reaches(c1, T, Len(r))
    BY <1>3, <2>2, Zenon
  <2> HIDE DEF c1, T
  <2>4. Reaches(c2, T, Len(r) + Len(k))
    BY <1>1, <2>3, UpdateReaches, Zenon
  <2> HIDE DEF c2
  <2>5. Reaches(c3, T, Len(r) + Len(k) + Len(p))
    BY <1>1, <2>4, UpdateReaches, Zenon
  <2> QED BY <1>3, <2>5, Zenon
<1>5. NewStream(k, i.sig) = s2
  BY Zenon DEF NewStream, Streaming
<1>6. StreamUpdate(s2, p) = s3
  <2> HIDE DEF p, c2, c3, s2, s3
  <2>1. s2 = [key |-> i.key, sig |-> i.sig, finished |-> FALSE, ctx |-> c2]
    BY Zenon DEF Streaming, s2
  <2>2. s2.finished = FALSE /\ s2.ctx = c2
    BY <2>1
  <2>3. StreamUpdate(s2, p) = [s2 EXCEPT !.ctx = crypto_sha512_update(s2.ctx, p)]
    BY <1>3, <2>2, Zenon DEF StreamUpdate
  <2>4. StreamUpdate(s2, p) = [s2 EXCEPT !.ctx = c3]
    BY <2>2, <2>3, Zenon DEF c3
  <2>5. s3 = [key |-> i.key, sig |-> i.sig, finished |-> FALSE, ctx |-> c3]
    BY Zenon DEF Streaming, s3
  <2> QED BY <2>1, <2>4, <2>5
<1>7. NewVerifier(k, i.sig, i.version, i.size)
        = [stream |-> IF ok THEN s3 ELSE s2, expected |-> i.size, noKey |-> bad, versionOk |-> ok,
           seen |-> 0, finished |-> FALSE]
  <2> HIDE DEF p, k, s2, s3
  <2>1. NewVerifier(k, i.sig, i.version, i.size)
        = [stream |-> IF ok THEN StreamUpdate(NewStream(k, i.sig), p) ELSE NewStream(k, i.sig),
           expected |-> i.size, noKey |-> isUnusableKey(k), versionOk |-> ok, seen |-> 0, finished |-> FALSE]
    BY Zenon DEF NewVerifier, p
  <2> QED BY <1>5, <1>6, <2>1, Zenon DEF k
<1>8. CASE ok
  <2>1. NewVerifier(k, i.sig, i.version, i.size) = Verifying(i, c3, FALSE, 0, FALSE)
    <3> HIDE DEF s2, s3
    <3> QED BY <1>7, <1>8, Zenon DEF Verifying, s3
  <2>2. HashedSo(i, c3, 0)
    <3> HIDE DEF c3
    <3> QED BY <1>3, <1>4, Zenon DEF HashedSo, T
  <2> QED BY <2>1, <2>2, Zenon
<1>9. CASE ~ok
  <2>1. NewVerifier(k, i.sig, i.version, i.size) = Verifying(i, c2, FALSE, 0, FALSE)
    <3> HIDE DEF s2, s3
    <3> QED BY <1>7, <1>9, Zenon DEF Verifying, s2
  <2>2. HashedSo(i, c2, 0)
    <3> HIDE DEF c2
    <3> QED BY <1>3, <1>9, Zenon DEF HashedSo
  <2> QED BY <2>1, <2>2, Zenon
<1> QED BY <1>8, <1>9

\* finish() once called stays called, and keeps the count of bytes.
Stopped(v, e) == [v EXCEPT !.finished = TRUE, !.stream.finished = e]
IsVerifier(v, n) ==
    \E s, a, b, c, f : v = [stream |-> s, expected |-> a, noKey |-> b, versionOk |-> c, seen |-> n, finished |-> f]

LEMMA StoppedIs ==
    ASSUME NEW v, NEW n, NEW e, IsVerifier(v, n)
    PROVE  Stopped(v, e).finished = TRUE /\ Stopped(v, e).seen = n
<1>1. PICK s, a, b, c, f : v = [stream |-> s, expected |-> a, noKey |-> b, versionOk |-> c, seen |-> n, finished |-> f]
  BY Zenon DEF IsVerifier
<1> QED BY <1>1 DEF Stopped

LEMMA FinishedSo ==
    ASSUME NEW i, NEW c, NEW n
    PROVE  LET v == VerifierFinish(Verifying(i, c, FALSE, n, FALSE))
           IN v.finished = TRUE /\ v.seen = n
<1> DEFINE v == Verifying(i, c, FALSE, n, FALSE)
<1>1. IsVerifier(v, n)
  BY Zenon DEF Verifying, IsVerifier
<1> HIDE DEF v
<1>2. PICK e : VerifierFinish(v) = Stopped(v, e)
  BY Zenon DEF VerifierFinish, Stopped
<1>3. VerifierFinish(v).finished = TRUE /\ VerifierFinish(v).seen = n
  BY <1>1, <1>2, StoppedIs, Zenon
<1> QED BY <1>3, Zenon DEF v

\* Inductive: the image is still read back, its bytes so far hashed; or
\* finish() was called once, with the right verdict, or twice.
Reading(i) == \E c, f : HashedSo(i, c, f) /\ Readback(FALSE, f, Verifying(i, c, FALSE, f, FALSE), << >>)
Answered(i) ==
    \E f, v, x : v.finished = TRUE /\ Judged(i, v.seen, x) /\ Readback(FALSE, f, v, <<x>>)
AnsweredTwice(i) ==
    \E f, v, x : (x = "Ok" => Genuine(i) /\ i.key = ReleaseKey) /\ Readback(TRUE, f, v, <<x, "BadSignature">>)
VerifyInv ==
    job.op = "image" => Offered(job.in) /\ (Reading(job.in) \/ Answered(job.in) \/ AnsweredTwice(job.in))

LEMMA VerifyInvInit == CodecInit => VerifyInv
<1> SUFFICES ASSUME CodecInit, job.op = "image" PROVE VerifyInv
  BY DEF VerifyInv
<1>1. ImageInit
  BY JobStarts
<1>2. PICK key \in {ReleaseKey, <<Zero, Zero>>, <<"y1", "s">>, <<"y7", "s">>},
           sig \in {SignatureOf(r) : r \in Released} \cup {Identity0},
           version \in {r.version : r \in Released} \cup {<<"1", ".", "0">>},
           size \in 0 .. 3,
           flash \in {r.image : r \in Released} \cup {<<>>, <<"i", "i">>, <<"LF", "i", "LF">>} :
             /\ job = [op |-> "image", in |-> [key |-> key, sig |-> sig, version |-> version,
                                               size |-> size, flash |-> flash]]
             /\ st = [done |-> FALSE, fed |-> 0, v |-> NewVerifier(key, sig, version, size), said |-> <<>>]
  BY <1>1, Zenon DEF ImageInit
<1> DEFINE i == job.in
<1>3. i.key = key /\ i.sig = sig /\ i.version = version /\ i.size = size /\ i.flash = flash
  BY <1>2
<1>4. version \in OfferedVersions
  <2>1. \A r \in Released : r.version \in OfferedVersions
    BY ReleasedIs, Zenon DEF OfferedVersions
  <2>2. <<"1", ".", "0">> \in OfferedVersions
    BY Zenon DEF OfferedVersions
  <2> QED BY <2>1, <2>2, Zenon
<1>5. flash \in OfferedFlash
  <2>1. \A r \in Released : r.image \in OfferedFlash
    BY ReleasedIs, Zenon DEF OfferedFlash
  <2>2. <<>> \in OfferedFlash /\ <<"i", "i">> \in OfferedFlash /\ <<"LF", "i", "LF">> \in OfferedFlash
    BY Zenon DEF OfferedFlash
  <2> QED BY <2>1, <2>2, Zenon
<1>6. Offered(i)
  <2>1. key \in OfferedKeys
    BY Zenon DEF OfferedKeys
  <2> HIDE DEF i
  <2> QED BY <1>3, <1>4, <1>5, <2>1, Zenon DEF Offered
<1>7. PICK c : NewVerifier(i.key, i.sig, i.version, i.size) = Verifying(i, c, FALSE, 0, FALSE) /\ HashedSo(i, c, 0)
  BY <1>6, NewSo, Zenon
<1>8. Reading(i)
  <2> HIDE DEF i
  <2>1. Readback(FALSE, 0, Verifying(i, c, FALSE, 0, FALSE), << >>)
    <3> DEFINE v == NewVerifier(key, sig, version, size)
  <3>1. v = Verifying(i, c, FALSE, 0, FALSE)
    BY <1>3, <1>7, Zenon
  <3>2. st = [done |-> FALSE, fed |-> 0, v |-> v, said |-> <<>>]
    BY <1>2
  <3> HIDE DEF v
  <3>3. Readback(FALSE, 0, v, << >>)
    BY <3>2 DEF Readback
  <3> QED BY <3>1, <3>3, Zenon
  <2> QED BY <1>7, <2>1, Zenon DEF Reading
<1> QED BY <1>6, <1>8, Zenon DEF VerifyInv

LEMMA ImageActions ==
    ASSUME CodecNext, job.op = "image"
    PROVE  (\E n \in 0 .. Chunk : Feed(n)) \/ Finish
<1>1. ASSUME NEW n \in 1 .. Chunk, Read(n) PROVE FALSE
  BY <1>1 DEF Read, Pending
<1>2. ~(ReadTimeout \/ DecodeForm \/ MakeCreds \/ MakeToken \/ MakeKey \/ DecodeJson \/ DecodeBase64
        \/ TakeIdentity \/ ReadVersion \/ CompareVersions \/ ReadManifest
        \/ FormatTime \/ FormatNumber \/ BuildEvent \/ OpenFile \/ UseFile \/ RebootFile)
  BY DEF Pending, ReadTimeout, DecodeForm, MakeCreds, MakeToken, MakeKey, DecodeJson, DecodeBase64, TakeIdentity,
         ReadVersion, CompareVersions, ReadManifest, FormatTime, FormatNumber, BuildEvent, OpenFile, UseFile, RebootFile
<1> QED BY <1>1, <1>2 DEF CodecNext

LEMMA FedIs ==
    ASSUME NEW d, NEW f, NEW v, NEW x, Readback(d, f, v, x), NEW g, NEW w, st' = [st EXCEPT !.fed = g, !.v = w]
    PROVE  Readback(d, g, w, x)'
BY DEF Readback

LEMMA SpokenIs ==
    ASSUME NEW d, NEW f, NEW v, NEW x, Readback(d, f, v, x), NEW y, NEW w, NEW e,
           st' = [st EXCEPT !.said = y, !.v = w, !.done = e]
    PROVE  Readback(e, f, w, y)'
BY DEF Readback

LEMMA AppendTwo ==
    ASSUME NEW x, NEW y
    PROVE  Append(<<x>>, y) = <<x, y>> /\ <<x>> # << >>
<1> DEFINE B == {x, y}
           a == Append(<<x>>, y)
           b == <<x, y>>
<1>1. <<x>> \in Seq(B) /\ b \in Seq(B) /\ Len(<<x>>) = 1 /\ <<x>>[1] = x /\ Len(b) = 2 /\ b[1] = x /\ b[2] = y
  OBVIOUS
<1>2. a \in Seq(B) /\ Len(a) = 2 /\ a[1] = x /\ a[2] = y
  BY <1>1
<1>3. <<x>> # << >>
  OBVIOUS
<1> HIDE DEF a, b, B
<1>4. a = b
  BY <1>1, <1>2
<1> QED BY <1>3, <1>4 DEF a, b

LEMMA VerifyInvStep ==
    ASSUME VerifyInv, [CodecNext]_codecVars
    PROVE  VerifyInv'
<1>1. CASE UNCHANGED codecVars
  BY <1>1 DEF codecVars, VerifyInv, Reading, Answered, AnsweredTwice, Readback
<1>2. CASE CodecNext /\ job.op # "image"
  <2>1. job' = job
    BY <1>2, JobKept
  <2> QED BY <1>2, <2>1 DEF VerifyInv
<1>3. CASE CodecNext /\ job.op = "image"
  <2>1. job' = job
    BY <1>3, JobKept
  <2>2. PICK i : i = job.in
    OBVIOUS
  <2>3. Offered(i) /\ (Reading(i) \/ Answered(i) \/ AnsweredTwice(i))
    BY <1>3, <2>2, Zenon DEF VerifyInv
  <2> SUFFICES (Reading(i) \/ Answered(i) \/ AnsweredTwice(i))'
    BY <2>1, <2>2, <2>3 DEF VerifyInv
  <2>4. ~st.done
    BY <1>3, ImageActions, Zenon DEF Feed, Finish, Pending
  <2>5. ~AnsweredTwice(i)
    BY <2>4, Zenon DEF AnsweredTwice, Readback
  <2>6. CASE \E n \in 0 .. Chunk : Feed(n)
    <3>1. PICK n \in 0 .. Len(i.flash) - st.fed :
             st' = [st EXCEPT !.fed = st.fed + n, !.v = VerifierUpdate(st.v, SubSeq(i.flash, st.fed + 1, st.fed + n))]
      BY <2>2, <2>6, Zenon DEF Feed
    <3>2. CASE Reading(i)
      <4>1. PICK c, f : HashedSo(i, c, f) /\ Readback(FALSE, f, Verifying(i, c, FALSE, f, FALSE), << >>)
        BY <3>2, Zenon DEF Reading
      <4>2. st.fed = f /\ st.v = Verifying(i, c, FALSE, f, FALSE)
        BY <4>1, Zenon DEF Readback
      <4>3. n \in 0 .. Len(i.flash) - f
        BY <4>2
      <4>4. PICK e : /\ VerifierUpdate(Verifying(i, c, FALSE, f, FALSE), SubSeq(i.flash, f + 1, f + n))
                          = Verifying(i, e, FALSE, f + n, FALSE)
                     /\ HashedSo(i, e, f + n)
        BY <2>3, <4>1, <4>3, FedSo, Zenon
      <4> DEFINE w == Verifying(i, e, FALSE, f + n, FALSE)
      <4>5. st' = [st EXCEPT !.fed = f + n, !.v = w]
        BY <3>1, <4>2, <4>4, Zenon
      <4> HIDE DEF w
      <4>6. Readback(FALSE, f + n, w, << >>)'
        BY <4>1, <4>5, FedIs, Zenon
      <4>7. Reading(i)'
        BY <4>4, <4>6, Zenon DEF Reading, w
      <4> QED BY <4>7
    <3>3. CASE Answered(i)
      <4>1. PICK f, v, x : v.finished = TRUE /\ Judged(i, v.seen, x) /\ Readback(FALSE, f, v, <<x>>)
        BY <3>3, Zenon DEF Answered
      <4>2. st.v = v /\ VerifierUpdate(st.v, SubSeq(i.flash, st.fed + 1, st.fed + n)) = v
        BY <4>1, Zenon DEF Readback, VerifierUpdate
      <4>3. PICK g : g = st.fed + n
        OBVIOUS
      <4>4. st' = [st EXCEPT !.fed = g, !.v = v]
        BY <3>1, <4>2, <4>3, Zenon
      <4>5. Readback(FALSE, g, v, <<x>>)'
        BY <4>1, <4>4, FedIs, Zenon
      <4>6. Answered(i)'
        BY <4>1, <4>5, Zenon DEF Answered
      <4> QED BY <4>6
    <3> QED BY <2>3, <2>5, <3>2, <3>3
  <2>7. CASE Finish
    <3>1. st' = [st EXCEPT !.said = Append(st.said, Verdict(st.v)), !.v = VerifierFinish(st.v), !.done = (st.said # << >>)]
      BY <2>7, Zenon DEF Finish
    <3>2. CASE Reading(i)
      <4>1. PICK c, f : HashedSo(i, c, f) /\ Readback(FALSE, f, Verifying(i, c, FALSE, f, FALSE), << >>)
        BY <3>2, Zenon DEF Reading
      <4> DEFINE u == Verifying(i, c, FALSE, f, FALSE)
                 v == VerifierFinish(u)
                 x == Verdict(u)
      <4>2. st.v = u /\ st.said = << >>
        BY <4>1, Zenon DEF Readback
      <4>3. v.finished = TRUE /\ v.seen = f
        BY FinishedSo, Zenon
      <4>4. Judged(i, f, x)
        BY <2>3, <4>1, VerdictJudged, Zenon
      <4> HIDE DEF u, v, x
      <4>5. Append(<< >>, x) = <<x>>
        OBVIOUS
      <4>6. (st.said # << >>) = FALSE
        BY <4>2, Zenon
      <4>7. st' = [st EXCEPT !.said = <<x>>, !.v = v, !.done = FALSE]
        BY <3>1, <4>2, <4>5, <4>6, Zenon DEF v, x
      <4>8. Readback(FALSE, f, v, <<x>>)'
        BY <4>1, <4>7, SpokenIs, Zenon
      <4>9. Answered(i)'
        BY <4>3, <4>4, <4>8, Zenon DEF Answered
      <4> QED BY <4>9
    <3>3. CASE Answered(i)
      <4>1. PICK f, v, x : v.finished = TRUE /\ Judged(i, v.seen, x) /\ Readback(FALSE, f, v, <<x>>)
        BY <3>3, Zenon DEF Answered
      <4>2. st.v = v /\ st.said = <<x>>
        BY <4>1, Zenon DEF Readback
      <4>3. Verdict(v) = "BadSignature"
        BY <4>1, Zenon DEF Verdict
      <4> DEFINE w == VerifierFinish(v)
      <4> HIDE DEF w
      <4>4. Append(<<x>>, "BadSignature") = <<x, "BadSignature">> /\ <<x>> # << >>
        BY AppendTwo, Zenon
      <4>5. (st.said # << >>) = TRUE
        BY <4>2, <4>4, Zenon
      <4>6. st' = [st EXCEPT !.said = <<x, "BadSignature">>, !.v = w, !.done = TRUE]
        BY <3>1, <4>2, <4>3, <4>4, <4>5, Zenon DEF w
      <4>7. Readback(TRUE, f, w, <<x, "BadSignature">>)'
        BY <4>1, <4>6, SpokenIs, Zenon
      <4>8. AnsweredTwice(i)'
        BY <4>1, <4>7, Zenon DEF AnsweredTwice, Judged
      <4> QED BY <4>8
    <3> QED BY <2>3, <2>5, <3>2, <3>3
  <2> QED BY <1>3, <2>6, <2>7, ImageActions
<1> QED BY <1>1, <1>2, <1>3

\* The verifier admits released images and no others: however the image is
\* chunked, finish() says Ok exactly for the bytes released under that version
\* and size, with the release key compiled in, and says it once.
LEMMA VerdictExactAlways == CodecSpec => []VerdictExact
<1>1. VerifyInv => VerdictExact
  <2> SUFFICES ASSUME VerifyInv, job.op = "image", st.said # << >>
               PROVE  /\ st.said[1] = "Ok" => Genuine(job.in) /\ job.in.key = ReleaseKey
                      /\ ~st.done /\ Genuine(job.in) /\ job.in.key = ReleaseKey /\ st.v.seen = job.in.size => st.said[1] = "Ok"
                      /\ Len(st.said) = 2 => st.said[2] # "Ok"
    BY Zenon DEF VerdictExact, Genuine
  <2>1. ~Reading(job.in)
    BY Zenon DEF Reading, Readback
  <2>2. CASE Answered(job.in)
    <3>1. PICK f, v, x : v.finished = TRUE /\ Judged(job.in, v.seen, x) /\ Readback(FALSE, f, v, <<x>>)
      BY <2>2, Zenon DEF Answered
    <3>2. st.said = <<x>> /\ st.v = v
      BY <3>1, Zenon DEF Readback
    <3>3. st.said[1] = x /\ Len(st.said) # 2
      BY <3>2
    <3> QED BY <3>1, <3>2, <3>3, Zenon DEF Judged
  <2>3. CASE AnsweredTwice(job.in)
    <3>1. PICK f, v, x : (x = "Ok" => Genuine(job.in) /\ job.in.key = ReleaseKey) /\ Readback(TRUE, f, v, <<x, "BadSignature">>)
      BY <2>3, Zenon DEF AnsweredTwice
    <3>2. st.said = <<x, "BadSignature">> /\ st.done = TRUE
      BY <3>1, Zenon DEF Readback
    <3>3. st.said[1] = x /\ st.said[2] # "Ok"
      BY <3>2
    <3> QED BY <3>1, <3>2, <3>3, Zenon
  <2> QED BY <2>1, <2>2, <2>3, Zenon DEF VerifyInv
<1> QED BY <1>1, VerifyInvInit, VerifyInvStep, PTL DEF CodecSpec

\* No image boots on the gateway's word alone: signer and terminal agree which
\* version is newer, and ImageVerifier says Ok exactly for the bytes released
\* under the version and size offered, however they were chunked.
THEOREM ImageAdmittedAlways == CodecSpec => []ImageAdmitted
<1>1. VersionsExact /\ VerdictExact => ImageAdmitted
  BY DEF ImageAdmitted
<1> QED BY <1>1, VersionsExactAlways, VerdictExactAlways, PTL
=============================================================================
