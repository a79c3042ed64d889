-------------------------- MODULE ProtoDecodeProofs --------------------------
(***************************************************************************)
(* Proofs that the generated decoder stays inside its buffer: for any      *)
(* bytes, any message types, any depth of nesting and integers of any      *)
(* width from four bits, lengths that overflow included.                   *)
(***************************************************************************)
EXTENDS ProtoDecode, SequenceTheorems, WellFoundedInduction, TLAPS

-----------------------------------------------------------------------------
(* Least elements and recursive functions *)

\* The least element that a proof by induction looks at.
LEMMA LeastNat ==
    ASSUME NEW S, S \subseteq Nat, S # {}
    PROVE  \E n \in S : \A m \in S : n <= m
<1>1. PICK n \in S : \A m \in S : ~(<<m, n>> \in OpToRel(<, Nat))
  BY WFMin, NatLessThanWellFounded, Zenon
<1>2. \A m \in S : ~(m < n)
  BY <1>1, Zenon DEF OpToRel
<1>. QED
  BY <1>2

\* The values of a recursive function: the first, and each from the one before.
Recursion(f, k, a, g) == f[0] = a /\ \A i \in 1..k : f[i] = g[<<i, f[i - 1]>>]

\* A recursive function on 0..k exists: one on 0..(k - 1) is extended by a value.
LEMMA RecursionExists ==
    ASSUME NEW V, NEW a \in V, NEW g \in [Nat \X V -> V], NEW k \in Nat
    PROVE  \E f \in [0..k -> V] : Recursion(f, k, a, g)
<1>. DEFINE P(n) == \E f \in [0..n -> V] : Recursion(f, n, a, g)
            S == {n \in Nat : ~P(n)}
<1>. SUFFICES ASSUME ~P(k) PROVE FALSE
  BY Zenon
<1>1. PICK n \in S : \A m \in S : n <= m
  <2>1. S \subseteq Nat /\ k \in S
    BY Zenon
  <2>. HIDE DEF S
  <2>. QED
    BY <2>1, LeastNat, Zenon
<1>2. n # 0
  <2>1. P(0)
    <3>. DEFINE f == [i \in 0..0 |-> a]
    <3>1. f \in [0..0 -> V] /\ Recursion(f, 0, a, g)
      BY DEF Recursion
    <3>. HIDE DEF f
    <3>. QED
      BY <3>1, Zenon
  <2>. QED
    BY <2>1, Zenon
<1>3. n - 1 \in Nat /\ n \in Nat
  BY <1>2
<1>4. P(n - 1)
  BY <1>1, <1>3
<1>5. PICK h \in [0..(n - 1) -> V] : h[0] = a /\ \A i \in 1..(n - 1) : h[i] = g[<<i, h[i - 1]>>]
  BY <1>4, Zenon DEF Recursion
<1>. DEFINE f == [i \in 0..n |-> IF i < n THEN h[i] ELSE g[<<n, h[n - 1]>>]]
<1>6. h[n - 1] \in V
  BY <1>3, <1>5
<1>7. g[<<n, h[n - 1]>>] \in V
  BY <1>3, <1>6, Zenon
<1>8. f \in [0..n -> V]
  BY <1>3, <1>5, <1>7
<1>9. f[0] = a
  BY <1>3, <1>5
<1>10. ASSUME NEW i \in 1..n PROVE f[i] = g[<<i, f[i - 1]>>]
  <2>1. f[i - 1] = h[i - 1]
    BY <1>3
  <2>2. CASE i < n
    <3>1. f[i] = h[i] /\ i \in 1..(n - 1)
      BY <1>3, <2>2
    <3>2. h[i] = g[<<i, h[i - 1]>>]
      BY <1>5, <3>1, Zenon
    <3>. QED
      BY <2>1, <3>1, <3>2, Zenon
  <2>3. CASE i = n
    <3>1. f[n] = g[<<n, h[n - 1]>>]
      BY <1>3
    <3>. QED
      BY <2>1, <2>3, <3>1, Zenon
  <2>. QED
    BY <1>3, <2>2, <2>3
<1>11. P(n)
  <2>1. Recursion(f, n, a, g)
    BY <1>9, <1>10, Zenon DEF Recursion
  <2>. HIDE DEF f
  <2>. QED
    BY <1>8, <2>1, Zenon
<1>. QED
  BY <1>1, <1>11, Zenon

\* 1 << n is what doubling one n times gives.
LEMMA Pow2Function ==
    ASSUME NEW n \in Nat
    PROVE  \E f \in [0..n -> Nat \ {0}] : /\ f[0] = 1 /\ \A i \in 1..n : f[i] = 2 * f[i - 1]
                                          /\ \A i \in 0..n : Pow2(i) = f[i]
<1>. DEFINE V == Nat \ {0}
            g == [p \in Nat \X V |-> 2 * p[2]]
<1>1. 1 \in V /\ g \in [Nat \X V -> V] /\ \A i \in Nat, v \in V : g[<<i, v>>] = 2 * v
  OBVIOUS
<1>. HIDE DEF g
<1>2. PICK f \in [0..n -> V] : Recursion(f, n, 1, g)
  <2>. HIDE DEF V
  <2>. QED
    BY <1>1, RecursionExists, Zenon
<1>3. ASSUME NEW i \in 1..n PROVE f[i] = 2 * f[i - 1]
  <2>1. f[i - 1] \in V /\ i \in Nat
    OBVIOUS
  <2>. QED
    BY <1>1, <1>2, <2>1, Zenon DEF Recursion
<1>4. ASSUME NEW k \in 0..n PROVE Pow2(k) = f[k]
  <2>. USE DEF Recursion
  <2>. DEFINE h == [i \in 0..k |-> f[i]]
              power == CHOOSE p : p = [i \in 0..k |-> IF i = 0 THEN 1 ELSE 2 * p[i - 1]]
  <2>1. h = [i \in 0..k |-> IF i = 0 THEN 1 ELSE 2 * h[i - 1]]
    BY <1>2, <1>3
  <2>2. \E p : p = [i \in 0..k |-> IF i = 0 THEN 1 ELSE 2 * p[i - 1]]
    <3>. HIDE DEF h
    <3>. QED
      BY <2>1, Zenon
  <2>3. power = [i \in 0..k |-> IF i = 0 THEN 1 ELSE 2 * power[i - 1]]
    BY <2>2, Zenon
  <2>4. Pow2(k) = power[k]
    BY Zenon DEF Pow2
  <2>. HIDE DEF power
  <2>. DEFINE S == {i \in 0..k : power[i] # f[i]}
  <2>5. ASSUME S # {} PROVE FALSE
    <3>1. S \subseteq Nat
      OBVIOUS
    <3>2. PICK i \in S : \A j \in S : i <= j
      <4>. HIDE DEF S
      <4>. QED
        BY <2>5, <3>1, LeastNat, Zenon
    <3>3. i # 0
      BY <1>2, <2>3, Zenon
    <3>4. power[i - 1] = f[i - 1]
      BY <3>2, <3>3
    <3>5. i \in 1..k /\ i \in 1..n
      BY <3>3
    <3>6. power[i] = 2 * power[i - 1]
      BY <2>3, <3>5
    <3>7. f[i] = 2 * f[i - 1]
      BY <1>3, <3>5, Zenon
    <3>. QED
      BY <3>4, <3>6, <3>7, Zenon
  <2>. QED
    BY <2>4, <2>5
<1>5. /\ f[0] = 1 /\ \A i \in 1..n : f[i] = 2 * f[i - 1]
      /\ \A i \in 0..n : Pow2(i) = f[i]
  BY <1>2, <1>3, <1>4, Zenon DEF Recursion
<1>. QED
  BY <1>5, Zenon

\* 1 << n is positive, and twice as large for one more bit.
LEMMA Pow2Facts ==
    ASSUME NEW n \in Nat
    PROVE  Pow2(n) \in Nat \ {0} /\ Pow2(n + 1) = 2 * Pow2(n)
<1>. DEFINE m == n + 1
<1>0. m \in Nat
  OBVIOUS
<1>. HIDE DEF m
<1>1. PICK f \in [0..m -> Nat \ {0}] :
          /\ f[0] = 1 /\ \A i \in 1..m : f[i] = 2 * f[i - 1]
          /\ \A i \in 0..m : Pow2(i) = f[i]
  BY <1>0, Pow2Function, Zenon
<1>2. Pow2(n) = f[n] /\ Pow2(n + 1) = f[n + 1] /\ f[n + 1] = 2 * f[n]
  BY <1>1 DEF m
<1>. QED
  BY <1>1, <1>2 DEF m

-----------------------------------------------------------------------------
(* Integers of IntBits bits and varints *)

\* The bytes of a varint make a number.
LEMMA BitsType ==
    ASSUME wire \in Seq(0..255), NEW at \in Nat, NEW n \in Nat, at + n < Len(wire)
    PROVE  Bits(at, n) \in Int
<1>. DEFINE term(i) == (wire[at + i + 1] % 128) * Pow2(7 * i)
            w == [i \in 0..n |-> term(i)]
            g == [p \in Nat \X Int |-> (IF p[1] \in 0..n THEN w[p[1]] ELSE 0) + p[2]]
            sum == CHOOSE f : f = [i \in 0..n |-> term(i) + (IF i = 0 THEN 0 ELSE f[i - 1])]
<1>1. ASSUME NEW i \in 0..n PROVE term(i) \in Int
  <2>1. wire[at + i + 1] \in 0..255
    <3>1. at + i + 1 \in 1..Len(wire)
      OBVIOUS
    <3>. QED
      BY <3>1, ElementOfSeq, Zenon
  <2>2. wire[at + i + 1] % 128 \in Int
    <3>1. \A v \in 0..255 : v % 128 \in Int
      OBVIOUS
    <3>. QED
      BY <2>1, <3>1, Zenon
  <2>3. 7 * i \in Nat
    OBVIOUS
  <2>4. Pow2(7 * i) \in Int
    BY <2>3, Pow2Facts
  <2>. QED
    BY <2>2, <2>4
<1>. HIDE DEF term
<1>2. w \in [0..n -> Int] /\ w[0] \in Int
  BY <1>1
<1>3. g \in [Nat \X Int -> Int] /\ \A i \in 1..n, v \in Int : g[<<i, v>>] = w[i] + v
  BY <1>2, SMTT(30)
<1>. HIDE DEF g
<1>4. PICK f \in [0..n -> Int] : Recursion(f, n, w[0], g)
  <2>. HIDE DEF w
  <2>. QED
    BY <1>2, <1>3, RecursionExists, Zenon
<1>5. f[0] = term(0) /\ \A i \in 1..n : f[i] = term(i) + f[i - 1]
  <2>1. f[0] = term(0)
    BY <1>4 DEF Recursion
  <2>2. ASSUME NEW i \in 1..n PROVE f[i] = term(i) + f[i - 1]
    <3>1. f[i] = g[<<i, f[i - 1]>>]
      BY <1>4, Zenon DEF Recursion
    <3>2. f[i - 1] \in Int
      OBVIOUS
    <3>3. f[i] = w[i] + f[i - 1]
      BY <1>3, <3>1, <3>2, Zenon
    <3>. QED
      BY <3>3
  <2>. QED
    BY <2>1, <2>2, Zenon
<1>6. f = [i \in 0..n |-> term(i) + (IF i = 0 THEN 0 ELSE f[i - 1])]
  <2>1. ASSUME NEW i \in 0..n PROVE f[i] = term(i) + (IF i = 0 THEN 0 ELSE f[i - 1])
    <3>1. CASE i = 0
      BY <1>1, <1>5, <3>1
    <3>2. CASE i # 0
      <4>1. i \in 1..n
        BY <3>2
      <4>. QED
        BY <1>5, <3>2, <4>1, Zenon
    <3>. QED
      BY <3>1, <3>2, Zenon
  <2>. QED
    BY <2>1, Zenon
<1>7. sum = [i \in 0..n |-> term(i) + (IF i = 0 THEN 0 ELSE sum[i - 1])]
  BY <1>6, Zenon
<1>8. Bits(at, n) = sum[n]
  BY Zenon DEF Bits, term
<1>. HIDE DEF sum
<1>. DEFINE S == {i \in 0..n : sum[i] \notin Int}
<1>9. ASSUME S # {} PROVE FALSE
  <2>1. S \subseteq Nat
    OBVIOUS
  <2>2. PICK i \in S : \A j \in S : i <= j
    <3>. HIDE DEF S
    <3>. QED
      BY <1>9, <2>1, LeastNat, Zenon
  <2>3. sum[i] = term(i) + (IF i = 0 THEN 0 ELSE sum[i - 1]) /\ term(i) \in Int
    BY <1>1, <1>7, Zenon
  <2>4. i # 0
    BY <2>3
  <2>5. sum[i - 1] \in Int
    BY <2>2, <2>4
  <2>. QED
    BY <2>3, <2>4, <2>5
<1>. QED
  BY <1>8, <1>9

\* Go's conversion to an int: a number that fits is itself, one that needs the
\* sign bit comes out negative.
LEMMA SignedFacts ==
    ASSUME NEW b \in Nat \ {0}, NEW x \in Int
    PROVE  /\ Signed(x, b) \in Int
           /\ Signed(x, b) < Pow2(b - 1)
           /\ 0 <= x /\ x < Pow2(b - 1) => Signed(x, b) = x
           /\ Pow2(b - 1) <= x /\ x < 2 * Pow2(b - 1) => Signed(x, b) < 0
<1>. DEFINE h == Pow2(b - 1)
            m == Pow2(b)
            low == x % m
<1>1. h \in Nat \ {0} /\ m = 2 * h
  <2>1. b - 1 \in Nat /\ (b - 1) + 1 = b
    OBVIOUS
  <2>. QED
    BY <2>1, Pow2Facts, Zenon
<1>2. Signed(x, b) = IF low >= h THEN low - m ELSE low
  BY Zenon DEF Signed
<1>. HIDE DEF h, m
<1>3. low \in 0..(m - 1)
  BY <1>1
<1>4. 0 <= x /\ x < m => low = x
  BY <1>1
<1>. HIDE DEF low
<1>5. /\ Signed(x, b) \in Int
      /\ Signed(x, b) < h
      /\ 0 <= x /\ x < h => Signed(x, b) = x
      /\ h <= x /\ x < 2 * h => Signed(x, b) < 0
  BY <1>1, <1>2, <1>3, <1>4
<1>. QED
  BY <1>5, Zenon DEF h

\* The loop over shift stops inside the buffer or reports why not.
LEMMA VarintFacts ==
    ASSUME wire \in Seq(0..255), NEW at \in Nat, NEW limit \in Nat
    PROVE  Varint(at, limit).end = "nil" =>
              /\ Varint(at, limit).next \in (at + 1)..limit
              /\ Varint(at, limit).val \in 0..(Pow2(IntBits) - 1)
<1>. DEFINE full == (IntBits + 6) \div 7
            stops(i) == i = full \/ at + i >= limit \/ at + i >= Len(wire) \/ wire[at + i + 1] < 128
            n == CHOOSE i \in 0..full : stops(i) /\ \A j \in 0..(i - 1) : ~stops(j)
            S == {i \in 0..full : stops(i)}
<1>1. full \in Nat /\ IntBits \in Nat
  BY WireAssumption
<1>2. Varint(at, limit) =
        CASE n = full -> [end |-> "ErrIntOverflow", val |-> 0, next |-> at + n]
          [] at + n >= limit -> [end |-> "ErrUnexpectedEOF", val |-> 0, next |-> at + n]
          [] at + n >= Len(wire) -> [end |-> "supply", val |-> 0, next |-> at + n]
          [] OTHER -> [end |-> "nil", val |-> Bits(at, n) % Pow2(IntBits), next |-> at + n + 1]
  BY Zenon DEF Varint
<1>3. S \subseteq Nat /\ full \in S
  BY <1>1
<1>4. PICK i \in S : \A j \in S : i <= j
  <2>. HIDE DEF S
  <2>. QED
    BY <1>3, LeastNat, Zenon
<1>. HIDE DEF full
<1>5. i \in 0..full /\ stops(i) /\ \A j \in 0..(i - 1) : ~stops(j)
  <2>1. i \in 0..full /\ stops(i)
    BY Zenon
  <2>2. ASSUME NEW j \in 0..(i - 1), stops(j) PROVE FALSE
    <3>1. j \in 0..full /\ j < i
      BY <1>1, <2>1
    <3>. QED
      BY <1>4, <2>2, <3>1
  <2>. QED
    BY <2>1, <2>2, Zenon
<1>. HIDE DEF stops
<1>6. n \in 0..full
  BY <1>5, Zenon
<1>. HIDE DEF n
<1>. SUFFICES ASSUME Varint(at, limit).end = "nil"
              PROVE  /\ Varint(at, limit).next \in (at + 1)..limit
                     /\ Varint(at, limit).val \in 0..(Pow2(IntBits) - 1)
  BY Zenon
<1>7. /\ ~(at + n >= limit) /\ ~(at + n >= Len(wire))
      /\ Varint(at, limit).val = Bits(at, n) % Pow2(IntBits)
      /\ Varint(at, limit).next = at + n + 1
  BY <1>2
<1>8. n \in Nat /\ at + n < limit /\ at + n < Len(wire) /\ Len(wire) \in Nat
  BY <1>1, <1>6, <1>7, LenProperties
<1>9. Bits(at, n) \in Int
  BY <1>8, BitsType, Zenon
<1>10. Pow2(IntBits) \in Nat \ {0}
  BY <1>1, Pow2Facts, Zenon
<1>11. Bits(at, n) % Pow2(IntBits) \in 0..(Pow2(IntBits) - 1)
  BY <1>9, <1>10
<1>. QED
  BY <1>7, <1>8, <1>11

-----------------------------------------------------------------------------
(* The inductive invariant *)

\* The stack of calls: never empty, and frames that have bounds.
IsStack(s) ==
    /\ \E F : s \in Seq(F)
    /\ Len(s) > 0
    /\ \A i \in 1..Len(s) : {"msg", "base", "limit"} \subseteq DOMAIN s[i]

\* Every frame lies inside the one that called it.
Nested(s, n) ==
    \A i \in 1..Len(s) :
       /\ s[i].base \in 0..n /\ s[i].limit \in s[i].base..n
       /\ i > 1 => s[i - 1].base <= s[i].base /\ s[i].limit <= s[i - 1].limit

\* The bounds, the length that an int can hold, and where skip started.
DInv ==
    /\ wire \in Seq(0..255)
    /\ length \in 0..(Pow2(IntBits - 1) - 1)
    /\ IsStack(stack) /\ Nested(stack, length)
    /\ index \in top.base..top.limit
    /\ skip \in [from : Int, depth : Int]
    /\ skip # NotSkipping => skip.from \in top.base..index

\* The innermost frame and the width of an int.
LEMMA TopFacts ==
    ASSUME DInv
    PROVE  /\ Len(stack) \in Nat \ {0}
           /\ top.base \in Nat /\ top.limit \in Nat /\ index \in Nat
           /\ top.base <= index /\ index <= top.limit /\ top.limit <= length
           /\ length < Pow2(IntBits - 1)
           /\ Pow2(IntBits - 1) \in Nat /\ Pow2(IntBits - 1) >= 8
           /\ Pow2(IntBits) = 2 * Pow2(IntBits - 1)
<1>1. Len(stack) \in Nat \ {0}
  BY LenProperties DEF DInv, IsStack
<1>2. Len(stack) \in 1..Len(stack)
  BY <1>1
<1>3. top.base \in 0..length /\ top.limit \in top.base..length
  BY <1>2, Zenon DEF DInv, Nested, top
<1>4. /\ IntBits - 4 \in Nat /\ IntBits - 3 \in Nat /\ IntBits - 2 \in Nat /\ IntBits - 1 \in Nat
      /\ (IntBits - 4) + 1 = IntBits - 3 /\ (IntBits - 3) + 1 = IntBits - 2
      /\ (IntBits - 2) + 1 = IntBits - 1 /\ (IntBits - 1) + 1 = IntBits
  BY WireAssumption
<1>5. /\ Pow2(IntBits - 4) \in Nat \ {0} /\ Pow2(IntBits - 3) = 2 * Pow2(IntBits - 4)
      /\ Pow2(IntBits - 2) = 2 * Pow2(IntBits - 3) /\ Pow2(IntBits - 1) = 2 * Pow2(IntBits - 2)
      /\ Pow2(IntBits) = 2 * Pow2(IntBits - 1)
  BY <1>4, Pow2Facts, Zenon
<1>6. Pow2(IntBits - 1) \in Nat /\ Pow2(IntBits - 1) >= 8
  BY <1>5
<1>7. length \in 0..(Pow2(IntBits - 1) - 1) /\ index \in top.base..top.limit
  BY Zenon DEF DInv
<1>8. /\ top.base \in Nat /\ top.limit \in Nat /\ index \in Nat
      /\ top.base <= index /\ index <= top.limit /\ top.limit <= length
      /\ length < Pow2(IntBits - 1)
  BY <1>3, <1>6, <1>7
<1>. QED
  BY <1>1, <1>5, <1>6, <1>8, Zenon

-----------------------------------------------------------------------------
(* What a turn of the loop reads *)

\* What a turn of the loop has read lies inside the innermost frame.
LEMMA TurnFacts ==
    ASSUME DInv, NEW t, t = Turn, t.end = "nil"
    PROVE  /\ t.next \in (index + 1)..top.limit
           /\ t.payload.end = "nil" =>
                 /\ t.payload.next \in (t.next + 1)..top.limit
                 /\ t.payload.val \in 0..(Pow2(IntBits) - 1)
<1>1. PICK tag : tag = Varint(index, top.limit)
  BY Zenon
<1>2. t.end = tag.end /\ t.next = tag.next /\ t.payload = Varint(tag.next, top.limit)
  BY <1>1, Zenon DEF Turn
<1>3. wire \in Seq(0..255) /\ index \in Nat /\ top.limit \in Nat
  BY TopFacts, Zenon DEF DInv
<1>4. tag.next \in (index + 1)..top.limit
  BY <1>1, <1>2, <1>3, VarintFacts, Zenon
<1>5. tag.next \in Nat
  BY <1>3, <1>4
<1>6. t.payload.end = "nil" =>
        /\ t.payload.next \in (tag.next + 1)..top.limit
        /\ t.payload.val \in 0..(Pow2(IntBits) - 1)
  BY <1>2, <1>3, <1>5, VarintFacts, Zenon
<1>. QED
  BY <1>2, <1>4, <1>6, Zenon

\* A length that passed the checks ends a slice inside the frame: a sum that
\* leaves the int is negative, and refused.
LEMMA SliceFacts ==
    ASSUME DInv, NEW t, t = Turn, t.end = "nil", LengthError(t) = "nil"
    PROVE  /\ t.payload.next \in (index + 2)..top.limit
           /\ SliceEnd(t) \in t.payload.next..top.limit
<1>. DEFINE half == Pow2(IntBits - 1)
            n == Signed(t.payload.val, IntBits)
            sum == t.payload.next - top.base + n
<1>1. t.payload.end = "nil"
  BY Zenon DEF LengthError
<1>2. /\ t.next \in (index + 1)..top.limit
      /\ t.payload.next \in (t.next + 1)..top.limit
      /\ t.payload.val \in 0..(Pow2(IntBits) - 1)
  BY <1>1, TurnFacts, Zenon
<1>3. /\ top.base \in Nat /\ top.limit \in Nat /\ index \in Nat
      /\ top.base <= index /\ index <= top.limit /\ top.limit < half
      /\ half \in Nat
  BY TopFacts DEF DInv
<1>4. ~(n < 0) /\ ~(postIndex(t) < 0) /\ ~(postIndex(t) > top.limit - top.base)
  BY <1>1, Zenon DEF LengthError
<1>5. IntBits \in Nat \ {0}
  BY WireAssumption
<1>6. n \in Int /\ n < half
  <2>1. t.payload.val \in Int
    BY <1>2, TopFacts
  <2>. QED
    BY <1>5, <2>1, SignedFacts, Zenon
<1>. HIDE DEF n
<1>7. sum \in Int /\ 0 <= sum /\ sum < 2 * half
  <2>. HIDE DEF half
  <2>. QED
    BY <1>2, <1>3, <1>4, <1>6
<1>8. postIndex(t) = Signed(sum, IntBits)
  BY Zenon DEF postIndex, n
<1>. HIDE DEF sum
<1>9. /\ Signed(sum, IntBits) \in Int
      /\ sum < half => Signed(sum, IntBits) = sum
      /\ half <= sum => Signed(sum, IntBits) < 0
  BY <1>5, <1>7, SignedFacts, Zenon
<1>. HIDE DEF half
<1>10. postIndex(t) = sum
  BY <1>3, <1>4, <1>7, <1>8, <1>9
<1>11. SliceEnd(t) = top.base + sum
  BY <1>10, Zenon DEF SliceEnd
<1>. QED
  BY <1>2, <1>3, <1>4, <1>6, <1>10, <1>11 DEF sum

\* A record that skip passes over ends inside the frame, and after its tag.
LEMMA SkipFacts ==
    ASSUME DInv, skip # NotSkipping, NEW t, t = Turn, SkipError(t) = "nil"
    PROVE  skip.from + skippy(t) \in (index + 1)..top.limit
<1>. DEFINE half == Pow2(IntBits - 1)
            n == SkipBytes(t)
            after == SkipAfter(t)
            sum == after - skip.from + n
<1>1. /\ t.end = "nil"
      /\ t.wireType \in {0, 2} => t.payload.end = "nil"
      /\ t.wireType = 2 => ~(n < 0)
      /\ ~(skippy(t) < 0) /\ ~(skip.from + skippy(t) > top.limit)
  BY Zenon DEF SkipError
<1>2. /\ top.base \in Nat /\ top.limit \in Nat /\ index \in Nat
      /\ top.base <= index /\ index <= top.limit /\ top.limit < half
      /\ half \in Nat /\ half >= 8 /\ skip.from \in top.base..index
  BY TopFacts DEF DInv
<1>3. IntBits \in Nat \ {0}
  BY WireAssumption
<1>4. after \in (index + 1)..top.limit
  <2>1. t.next \in (index + 1)..top.limit
    BY <1>1, TurnFacts, Zenon
  <2>2. CASE t.wireType \in {0, 2}
    <3>1. t.payload.next \in (t.next + 1)..top.limit
      BY <1>1, <2>2, TurnFacts, Zenon
    <3>. QED
      BY <1>2, <2>1, <2>2, <3>1 DEF SkipAfter
  <2>3. CASE t.wireType \notin {0, 2}
    BY <2>1, <2>3, Zenon DEF SkipAfter
  <2>. QED
    BY <2>2, <2>3, Zenon
<1>5. n \in Int /\ 0 <= n /\ n <= half
  <2>1. CASE t.wireType = 2
    <3>1. t.payload.val \in Int
      BY <1>1, <2>1, TurnFacts, TopFacts
    <3>2. n = Signed(t.payload.val, IntBits)
      BY <2>1 DEF SkipBytes
    <3>3. Signed(t.payload.val, IntBits) \in Int /\ Signed(t.payload.val, IntBits) < half
      BY <1>3, <3>1, SignedFacts, Zenon
    <3>. QED
      BY <1>1, <1>2, <2>1, <3>2, <3>3
  <2>2. CASE t.wireType # 2
    <3>1. n \in {0, 4, 8}
      BY <2>2, Zenon DEF SkipBytes
    <3>. QED
      BY <1>2, <3>1
  <2>. QED
    BY <2>1, <2>2, Zenon
<1>6. skippy(t) = Signed(sum, IntBits)
  BY Zenon DEF skippy
<1>. HIDE DEF n, after
<1>7. sum \in Int /\ 0 <= sum /\ sum < 2 * half
  <2>. HIDE DEF half
  <2>. QED
    BY <1>2, <1>4, <1>5
<1>. HIDE DEF sum
<1>8. /\ Signed(sum, IntBits) \in Int
      /\ sum < half => Signed(sum, IntBits) = sum
      /\ half <= sum => Signed(sum, IntBits) < 0
  BY <1>3, <1>7, SignedFacts, Zenon
<1>. HIDE DEF half
<1>9. skippy(t) = sum
  BY <1>1, <1>2, <1>6, <1>7, <1>8
<1>. QED
  BY <1>1, <1>2, <1>4, <1>5, <1>9 DEF sum

\* Two stacks with the same bounds.
SameBounds(r, s) ==
    /\ Len(r) = Len(s)
    /\ \A i \in 1..Len(s) : r[i].base = s[i].base /\ r[i].limit = s[i].limit

\* Writing into the message of a frame keeps the bounds of every frame.
LEMMA WritesKeepBounds ==
    ASSUME NEW s, IsStack(s), NEW k \in 1..Len(s), NEW m,
           NEW r, r = [s EXCEPT ![k] = [s[k] EXCEPT !.msg = m]]
    PROVE  IsStack(r) /\ SameBounds(r, s)
<1>1. PICK F : s \in Seq(F)
  BY Zenon DEF IsStack
<1>. DEFINE e == [s[k] EXCEPT !.msg = m]
<1>2. DOMAIN e = DOMAIN s[k] /\ {"msg", "base", "limit"} \subseteq DOMAIN s[k]
  BY Zenon DEF IsStack
<1>3. e.base = s[k].base /\ e.limit = s[k].limit
  BY <1>2, Zenon
<1>. HIDE DEF e
<1>4. s \in Seq(F \cup {e})
  BY <1>1, SeqMonotonic, Zenon
<1>5. r = [s EXCEPT ![k] = e]
  BY Zenon DEF e
<1>6. /\ r \in Seq(F \cup {e}) /\ Len(r) = Len(s)
      /\ \A i \in 1..Len(s) : r[i] = IF i = k THEN e ELSE s[i]
  BY <1>4, <1>5, ExceptSeq, SMTT(30)
<1>7. \A i \in 1..Len(s) : r[i].base = s[i].base /\ r[i].limit = s[i].limit
  BY <1>3, <1>6, Zenon
<1>8. \A i \in 1..Len(s) : {"msg", "base", "limit"} \subseteq DOMAIN r[i]
  BY <1>2, <1>6, Zenon DEF IsStack
<1>9. IsStack(r)
  BY <1>6, <1>8, Zenon DEF IsStack
<1>. QED
  BY <1>6, <1>7, <1>9, Zenon DEF SameBounds

\* A frame that lies inside the innermost one of a stack.
Inside(e, s) ==
    /\ {"msg", "base", "limit"} \subseteq DOMAIN e
    /\ e.base \in Nat /\ e.limit \in Nat /\ e.base <= e.limit
    /\ s[Len(s)].base <= e.base /\ e.limit <= s[Len(s)].limit

\* A call of an embedded Unmarshal keeps the stack nested.
LEMMA CallsNest ==
    ASSUME NEW s, IsStack(s), NEW n \in Nat, Nested(s, n),
           NEW e, Inside(e, s), NEW r, r = Append(s, e)
    PROVE  IsStack(r) /\ Nested(r, n) /\ r[Len(r)] = e
<1>. USE DEF Inside
<1>1. PICK F : s \in Seq(F)
  BY Zenon DEF IsStack
<1>2. s \in Seq(F \cup {e}) /\ e \in F \cup {e}
  BY <1>1, SeqMonotonic, Zenon
<1>3. /\ r \in Seq(F \cup {e}) /\ Len(r) = Len(s) + 1
      /\ \A i \in 1..Len(s) : r[i] = s[i]
      /\ r[Len(s) + 1] = e
  BY <1>2, AppendProperties
<1>4. Len(s) \in Nat \ {0}
  BY <1>1, LenProperties DEF IsStack
<1>5. IsStack(r)
  <2>1. ASSUME NEW i \in 1..Len(r) PROVE {"msg", "base", "limit"} \subseteq DOMAIN r[i]
    <3>1. CASE i = Len(s) + 1
      BY <1>3, <3>1, Zenon
    <3>2. CASE i # Len(s) + 1
      <4>1. i \in 1..Len(s)
        BY <1>3, <1>4, <3>2
      <4>. QED
        BY <1>3, <4>1, Zenon DEF IsStack
    <3>. QED
      BY <3>1, <3>2, Zenon
  <2>. QED
    BY <1>3, <1>4, <2>1 DEF IsStack
<1>6. ASSUME NEW i \in 1..Len(r)
      PROVE  /\ r[i].base \in 0..n /\ r[i].limit \in r[i].base..n
             /\ i > 1 => r[i - 1].base <= r[i].base /\ r[i].limit <= r[i - 1].limit
  <2>1. CASE i = Len(s) + 1
    <3>1. Len(s) \in 1..Len(s)
      BY <1>4
    <3>2. s[Len(s)].base \in 0..n /\ s[Len(s)].limit \in s[Len(s)].base..n
      BY <3>1, Zenon DEF Nested
    <3>3. r[i] = e /\ r[i - 1] = s[Len(s)]
      BY <1>3, <1>4, <2>1, <3>1
    <3>. QED
      BY <3>2, <3>3
  <2>2. CASE i # Len(s) + 1
    <3>1. i \in 1..Len(s) /\ (i > 1 => i - 1 \in 1..Len(s))
      BY <1>3, <1>4, <2>2
    <3>. QED
      BY <1>3, <3>1, Zenon DEF Nested
  <2>. QED
    BY <2>1, <2>2, Zenon
<1>. QED
  BY <1>3, <1>5, <1>6, Zenon DEF Nested

\* The innermost frame of a stack is the second one of another.
Popped(r, s) ==
    /\ r[Len(r)].base = s[Len(s) - 1].base
    /\ r[Len(r)].limit = s[Len(s) - 1].limit

\* The return from an embedded Unmarshal leaves the caller's frame innermost.
LEMMA ReturnsNest ==
    ASSUME NEW s, IsStack(s), Len(s) > 1, NEW n \in Nat, Nested(s, n), NEW m,
           NEW r, r = [SubSeq(s, 1, Len(s) - 1) EXCEPT ![Len(s) - 1] = [s[Len(s) - 1] EXCEPT !.msg = m]]
    PROVE  IsStack(r) /\ Nested(r, n) /\ Popped(r, s)
<1>1. PICK F : s \in Seq(F)
  BY Zenon DEF IsStack
<1>2. Len(s) \in Nat /\ \A i \in 1..(Len(s) - 1) : s[i] \in F
  BY <1>1, LenProperties, ElementOfSeq
<1>. DEFINE f == SubSeq(s, 1, Len(s) - 1)
<1>3. /\ f \in Seq(F) /\ Len(f) = Len(s) - 1
      /\ \A i \in 1..(Len(s) - 1) : f[i] = s[i]
  BY <1>1, <1>2, SubSeqProperties
<1>. HIDE DEF f
<1>4. IsStack(f) /\ Len(f) \in 1..Len(f) /\ f[Len(f)] = s[Len(s) - 1]
  BY <1>2, <1>3 DEF IsStack
<1>k. PICK k \in 1..Len(f) : k = Len(f)
  BY <1>4, Zenon
<1>5. r = [f EXCEPT ![k] = [f[k] EXCEPT !.msg = m]]
  BY <1>3, <1>4, <1>k, Zenon DEF f
<1>w. IsStack(r) /\ SameBounds(r, f)
  BY <1>4, <1>5, WritesKeepBounds, Zenon
<1>6. /\ IsStack(r) /\ Len(r) = Len(f)
      /\ \A i \in 1..Len(f) : r[i].base = f[i].base /\ r[i].limit = f[i].limit
  BY <1>w, Zenon DEF SameBounds
<1>7. \A i \in 1..Len(r) : r[i].base = s[i].base /\ r[i].limit = s[i].limit
  BY <1>3, <1>6
<1>8. ASSUME NEW i \in 1..Len(r)
      PROVE  /\ r[i].base \in 0..n /\ r[i].limit \in r[i].base..n
             /\ i > 1 => r[i - 1].base <= r[i].base /\ r[i].limit <= r[i - 1].limit
  <2>1. i \in 1..Len(s) /\ (i > 1 => i - 1 \in 1..Len(r))
    BY <1>2, <1>3, <1>6
  <2>. QED
    BY <1>7, <2>1, Zenon DEF Nested
<1>. QED
  BY <1>3, <1>4, <1>6, <1>7, <1>8, Zenon DEF Nested, Popped

\* A step that fails changes nothing but the error.
LEMMA FailStep ==
    ASSUME DInv, NEW e, Fail(e)
    PROVE  DInv'
BY Zenon DEF DInv, Fail, top

\* The bytes the decoder passes over are filled in.
LEMMA ThroughFacts ==
    ASSUME wire \in Seq(0..255), NEW n \in Int
    PROVE  Through(n) \in Seq(0..255)
<1>1. Len(wire) \in Nat
  BY LenProperties
<1>. DEFINE k == n - Len(wire)
            fill == [i \in 1..k |-> Letter]
<1>2. k \in Int
  BY <1>1
<1>. HIDE DEF k
<1>3. fill \in Seq(0..255)
  <2>1. CASE k >= 0
    BY <1>2, <2>1, WireAssumption
  <2>2. CASE k < 0
    <3>1. 1..k = {}
      BY <1>2, <2>2
    <3>2. fill = <<>>
      BY <3>1
    <3>3. <<>> \in Seq(0..255)
      OBVIOUS
    <3>. HIDE DEF fill
    <3>. QED
      BY <3>2, <3>3, Zenon
  <2>. QED
    BY <1>2, <2>1, <2>2
<1>4. Through(n) = wire \o fill
  BY Zenon DEF Through, k
<1>. QED
  BY <1>3, <1>4, ConcatProperties

\* A field of the innermost message is written and iNdEx moves on.
LEMMA WriteStep ==
    ASSUME DInv, NEW f, NEW v, stack' = SetField(f, v), skip = NotSkipping,
           wire' \in Seq(0..255), index' \in index..top.limit, UNCHANGED <<length, skip>>
    PROVE  DInv'
<1>1. Len(stack) \in Nat \ {0} /\ index \in Nat /\ top.base \in Nat /\ top.base <= index
      /\ top.limit \in Nat
  BY TopFacts, Zenon
<1>2. PICK k \in 1..Len(stack) : k = Len(stack)
  BY <1>1
<1>3. PICK m : stack' = [stack EXCEPT ![k] = [stack[k] EXCEPT !.msg = m]]
  BY <1>2, Zenon DEF SetField
<1>4. /\ IsStack(stack') /\ Len(stack') = Len(stack)
      /\ \A i \in 1..Len(stack) : stack'[i].base = stack[i].base /\ stack'[i].limit = stack[i].limit
  <2>1. IsStack(stack)
    BY Zenon DEF DInv
  <2>2. IsStack(stack') /\ SameBounds(stack', stack)
    BY <1>3, <2>1, WritesKeepBounds, Zenon
  <2>. QED
    BY <2>2, Zenon DEF SameBounds
<1>5. Nested(stack', length)
  <2>1. ASSUME NEW i \in 1..Len(stack')
        PROVE  /\ stack'[i].base \in 0..length /\ stack'[i].limit \in stack'[i].base..length
               /\ i > 1 => /\ stack'[i - 1].base <= stack'[i].base
                           /\ stack'[i].limit <= stack'[i - 1].limit
    <3>1. i \in 1..Len(stack) /\ (i > 1 => i - 1 \in 1..Len(stack))
      BY <1>1, <1>4
    <3>. QED
      BY <1>4, <3>1, Zenon DEF DInv, Nested
  <2>. QED
    BY <2>1, Zenon DEF Nested
<1>6. top'.base = top.base /\ top'.limit = top.limit
  BY <1>2, <1>4, Zenon DEF top
<1>7. index' \in top'.base..top'.limit
  BY <1>1, <1>6
<1>. QED
  BY <1>4, <1>5, <1>7, Zenon DEF DInv

\* The handlers of the loop of Unmarshal keep it inside the innermost frame.
LEMMA UnmarshalStep ==
    ASSUME DInv, NEW t, t = Turn,
           \/ Supply(t) \/ BadTag(t) \/ WrongWireType(t) \/ ScalarField(t) \/ BadLength(t)
           \/ StringField(t) \/ UnknownField(t)
    PROVE  DInv'
<1>0. /\ top.base \in Nat /\ top.limit \in Nat /\ index \in Nat
      /\ top.base <= index /\ index <= top.limit
  BY TopFacts, Zenon
<1>1. CASE Supply(t)
  <2>1. wire' \in Seq(0..255)
    BY <1>1, WireAssumption, AppendProperties DEF Supply, DInv
  <2>. QED
    BY <1>1, <2>1, Zenon DEF Supply, DInv, top
<1>2. CASE BadTag(t)
  BY <1>2, FailStep, Zenon DEF BadTag
<1>3. CASE WrongWireType(t)
  BY <1>3, FailStep, Zenon DEF WrongWireType
<1>4. CASE BadLength(t)
  BY <1>4, FailStep, Zenon DEF BadLength
<1>5. CASE ScalarField(t)
  <2>1. CASE t.payload.end # "nil"
    BY <1>5, <2>1, FailStep, Zenon DEF ScalarField
  <2>2. CASE t.payload.end = "nil"
    <3>1. t.end = "nil" /\ skip = NotSkipping
      BY <1>5, Zenon DEF ScalarField, Known, GoodTag, InLoop
    <3>2. /\ \E v : stack' = SetField(t.fieldNum, v)
          /\ index' = t.payload.next /\ UNCHANGED <<wire, length, skip>>
      BY <1>5, <2>2, Zenon DEF ScalarField
    <3>3. t.next \in (index + 1)..top.limit /\ t.payload.next \in (t.next + 1)..top.limit
      BY <2>2, <3>1, TurnFacts, Zenon
    <3>4. index' \in index..top.limit /\ wire' \in Seq(0..255)
      BY <1>0, <3>2, <3>3 DEF DInv
    <3>. QED
      BY <3>1, <3>2, <3>4, WriteStep, Zenon
  <2>. QED
    BY <2>1, <2>2, Zenon
<1>6. CASE StringField(t)
  <2>1. t.end = "nil" /\ skip = NotSkipping /\ LengthError(t) = "nil"
    BY <1>6, Zenon DEF StringField, Known, GoodTag, InLoop
  <2>2. /\ wire' = Through(SliceEnd(t)) /\ index' = SliceEnd(t) /\ UNCHANGED <<length, skip>>
        /\ \E v : stack' = SetField(t.fieldNum, v)
    BY <1>6, Zenon DEF StringField
  <2>3. t.payload.next \in (index + 2)..top.limit /\ SliceEnd(t) \in t.payload.next..top.limit
    BY <2>1, SliceFacts, Zenon
  <2>4. SliceEnd(t) \in Int /\ index' \in index..top.limit
    BY <1>0, <2>2, <2>3
  <2>5. wire' \in Seq(0..255)
    BY <2>2, <2>4, ThroughFacts, Zenon DEF DInv
  <2>. QED
    BY <2>1, <2>2, <2>4, <2>5, WriteStep, Zenon
<1>7. CASE UnknownField(t)
  <2>1. /\ skip' = [from |-> index, depth |-> 0]
        /\ UNCHANGED <<wire, length, index, stack>>
    BY <1>7, Zenon DEF UnknownField
  <2>2. top' = top
    BY <2>1, Zenon DEF top
  <2>3. skip' \in [from : Int, depth : Int] /\ skip'.from \in top.base..index
    BY <1>0, <2>1
  <2>. QED
    BY <2>1, <2>2, <2>3, Zenon DEF DInv
<1>. QED
  BY <1>1, <1>2, <1>3, <1>4, <1>5, <1>6, <1>7, Zenon

\* An embedded message is decoded inside the slice its length announced.
LEMMA MessageStep ==
    ASSUME DInv, NEW t, t = Turn, MessageField(t)
    PROVE  DInv'
<1>1. t.end = "nil" /\ skip = NotSkipping /\ LengthError(t) = "nil"
  BY Zenon DEF MessageField, Known, GoodTag, InLoop
<1>2. PICK e : /\ stack' = Append(stack, e) /\ e.base = t.payload.next /\ e.limit = SliceEnd(t)
               /\ {"msg", "base", "limit"} \subseteq DOMAIN e
  BY DEF MessageField
<1>3. index' = t.payload.next /\ UNCHANGED <<wire, length, skip>>
  BY Zenon DEF MessageField
<1>4. /\ top.base \in Nat /\ top.limit \in Nat /\ index \in Nat
      /\ top.base <= index /\ index <= top.limit /\ length \in Nat
  BY TopFacts DEF DInv
<1>5. t.payload.next \in (index + 2)..top.limit /\ SliceEnd(t) \in t.payload.next..top.limit
  BY <1>1, SliceFacts, Zenon
<1>6. Inside(e, stack)
  BY <1>2, <1>4, <1>5 DEF top, Inside
<1>7. IsStack(stack) /\ Nested(stack, length)
  BY Zenon DEF DInv
<1>8. IsStack(stack') /\ Nested(stack', length) /\ stack'[Len(stack')] = e
  <2>1. stack' = Append(stack, e) /\ length \in Nat
    BY <1>2, <1>4, Zenon
  <2>. QED
    BY <1>6, <1>7, <2>1, CallsNest, Zenon
<1>9. index' \in top'.base..top'.limit
  BY <1>2, <1>3, <1>6, <1>8 DEF top, Inside
<1>. QED
  BY <1>1, <1>3, <1>8, <1>9, Zenon DEF DInv

\* Its caller goes on behind the slice.
LEMMA ReturnStep ==
    ASSUME DInv, Return
    PROVE  DInv'
<1>1. skip = NotSkipping /\ index = top.limit /\ Len(stack) > 1 /\ UNCHANGED <<wire, length, index, skip>>
  BY Zenon DEF Return
<1>2. IsStack(stack) /\ Nested(stack, length) /\ length \in Nat /\ Len(stack) \in Nat
  BY TopFacts DEF DInv
<1>3. PICK m : stack' = [SubSeq(stack, 1, Len(stack) - 1) EXCEPT
                          ![Len(stack) - 1] = [stack[Len(stack) - 1] EXCEPT !.msg = m]]
  <2>1. SubSeq(stack, 1, Len(stack) - 1)[Len(stack) - 1] = stack[Len(stack) - 1]
    <3>1. PICK F : stack \in Seq(F)
      BY <1>2, Zenon DEF IsStack
    <3>2. \A i \in 1..(Len(stack) - 1) : stack[i] \in F
      BY <1>2, <3>1, ElementOfSeq
    <3>. QED
      BY <1>1, <1>2, <3>2, SubSeqProperties
  <2>. QED
    BY <2>1, Zenon DEF Return
<1>4. /\ IsStack(stack') /\ Nested(stack', length)
      /\ top'.base = stack[Len(stack) - 1].base /\ top'.limit = stack[Len(stack) - 1].limit
  <2>1. IsStack(stack') /\ Nested(stack', length) /\ Popped(stack', stack)
    BY <1>1, <1>2, <1>3, ReturnsNest, Zenon
  <2>. QED
    BY <2>1, Zenon DEF top, Popped
<1>5. /\ top.base \in Nat /\ top.limit \in Nat /\ top.base <= top.limit
      /\ stack[Len(stack) - 1].base <= top.base /\ top.limit <= stack[Len(stack) - 1].limit
      /\ stack[Len(stack) - 1].base \in Nat /\ stack[Len(stack) - 1].limit \in Nat
  <2>1. Len(stack) \in 1..Len(stack) /\ Len(stack) - 1 \in 1..Len(stack)
    BY <1>1, <1>2
  <2>. QED
    BY <1>1, <1>2, <2>1 DEF Nested, top
<1>6. index' \in top'.base..top'.limit
  BY <1>1, <1>4, <1>5
<1>. QED
  BY <1>1, <1>4, <1>6, Zenon DEF DInv

\* Neither does skip leave the frame.
LEMMA SkipStep ==
    ASSUME DInv, NEW t, t = Turn, SkipRecord(t)
    PROVE  DInv'
<1>1. CASE SkipError(t) # "nil"
  BY <1>1, FailStep, Zenon DEF SkipRecord
<1>2. CASE SkipError(t) = "nil"
  <2>1. /\ skip # NotSkipping
        /\ index' = skip.from + skippy(t) /\ wire' = Through(index')
        /\ skip' = IF SkipDepth(t) = 0 THEN NotSkipping ELSE [skip EXCEPT !.depth = SkipDepth(t)]
        /\ UNCHANGED <<length, stack>>
    BY <1>2, Zenon DEF SkipRecord, Skipping
  <2>2. index' \in (index + 1)..top.limit
    BY <1>2, <2>1, SkipFacts, Zenon
  <2>3. /\ top.base \in Nat /\ top.limit \in Nat /\ index \in Nat /\ top.base <= index
        /\ skip \in [from : Int, depth : Int] /\ skip.from \in top.base..index
    BY <2>1, TopFacts, Zenon DEF DInv
  <2>4. top' = top
    BY <2>1, Zenon DEF top
  <2>5. wire' \in Seq(0..255)
    <3>1. index' \in Int
      BY <2>2, <2>3
    <3>. QED
      BY <2>1, <3>1, ThroughFacts, Zenon DEF DInv
  <2>6. index' \in top.base..top.limit /\ skip.from \in top.base..index'
    BY <2>2, <2>3
  <2>7. skip' \in [from : Int, depth : Int] /\ (skip' # NotSkipping => skip'.from = skip.from)
    <3>1. SkipDepth(t) \in Int
      BY <2>3 DEF SkipDepth
    <3>. QED
      BY <2>1, <2>3, <3>1 DEF NotSkipping
  <2>. QED
    BY <2>1, <2>4, <2>5, <2>6, <2>7, Zenon DEF DInv
<1>. QED
  BY <1>1, <1>2, Zenon

\* A new call of Unmarshal has one frame, its whole buffer.
LEMMA NewCall ==
    ASSUME NEW d, NEW n \in Nat
    PROVE  /\ IsStack(<<Frame(d, n)>>) /\ Nested(<<Frame(d, n)>>, n)
           /\ <<Frame(d, n)>>[Len(<<Frame(d, n)>>)].base = 0
           /\ <<Frame(d, n)>>[Len(<<Frame(d, n)>>)].limit = n
<1>. DEFINE e == Frame(d, n)
<1>1. e.base = 0 /\ e.limit = n /\ {"msg", "base", "limit"} \subseteq DOMAIN e
  BY Zenon DEF Frame
<1>. HIDE DEF e
<1>. DEFINE s == <<e>>
<1>2. s \in Seq({e}) /\ Len(s) = 1 /\ s[1] = e
  OBVIOUS
<1>. HIDE DEF s
<1>3. IsStack(s)
  BY <1>1, <1>2 DEF IsStack
<1>4. Nested(s, n)
  BY <1>1, <1>2 DEF Nested
<1>5. s[Len(s)].base = 0 /\ s[Len(s)].limit = n
  BY <1>1, <1>2, Zenon
<1>. QED
  BY <1>3, <1>4, <1>5, Zenon DEF e, s

-----------------------------------------------------------------------------
(* Invariance *)

\* The bounds hold when a request arrives.
LEMMA InitDInv == WireInit => DInv
<1>. SUFFICES ASSUME WireInit PROVE DInv
  BY Zenon
<1>1. /\ length \in 0..(Pow2(IntBits - 1) - 1)
      /\ wire = <<>> /\ index = 0 /\ stack = <<Frame(desc, length)>> /\ skip = NotSkipping
  BY WireAssumption DEF WireInit
<1>2. length \in Nat
  <2>1. Pow2(IntBits - 1) \in Nat
    <3>1. IntBits - 1 \in Nat
      BY WireAssumption
    <3>. QED
      BY <3>1, Pow2Facts, Zenon
  <2>. QED
    BY <1>1, <2>1
<1>3. IsStack(stack) /\ Nested(stack, length) /\ top.base = 0 /\ top.limit = length
  BY <1>1, <1>2, NewCall, Zenon DEF top
<1>4. wire \in Seq(0..255)
  BY <1>1
<1>. QED
  BY <1>1, <1>2, <1>3, <1>4 DEF DInv, NotSkipping

\* Every step keeps them.
LEMMA NextDInv == DInv /\ [DecodeNext]_wireVars => DInv'
<1>. SUFFICES ASSUME DInv, [DecodeNext]_wireVars PROVE DInv'
  BY Zenon
<1>1. CASE Unmarshal
  <2>1. PICK t \in {Turn} :
          \/ Supply(t) \/ BadTag(t) \/ WrongWireType(t) \/ ScalarField(t) \/ BadLength(t)
          \/ StringField(t) \/ MessageField(t) \/ UnknownField(t) \/ SkipRecord(t)
    BY <1>1, Zenon DEF Unmarshal
  <2>2. t = Turn
    BY Zenon
  <2>. QED
    BY <2>1, <2>2, UnmarshalStep, MessageStep, SkipStep, Zenon
<1>2. CASE Return
  BY <1>2, ReturnStep, Zenon
<1>3. CASE Accept
  BY <1>3, Zenon DEF Accept, DInv, top
<1>4. ASSUME NEW bytes \in Seq(0..255), Redecode(bytes) PROVE DInv'
  <2>1. /\ wire' = bytes /\ length' = Len(bytes) /\ length' < Pow2(IntBits - 1)
        /\ index' = 0 /\ stack' = <<Frame(desc, length')>> /\ skip' = NotSkipping
    BY <1>4, Zenon DEF Redecode
  <2>2. length' \in Nat /\ Pow2(IntBits - 1) \in Nat
    BY <2>1, TopFacts, LenProperties
  <2>3. IsStack(stack') /\ Nested(stack', length') /\ top'.base = 0 /\ top'.limit = length'
    BY <2>1, <2>2, NewCall, Zenon DEF top
  <2>. QED
    BY <2>1, <2>2, <2>3 DEF DInv, NotSkipping
<1>5. CASE UNCHANGED wireVars
  BY <1>5, Zenon DEF wireVars, DInv, top
<1>. QED
  BY <1>1, <1>2, <1>3, <1>4, <1>5, Zenon DEF DecodeNext

\* Unmarshal and skip never read or slice outside the buffer, for every message,
\* every byte string shorter than 2^(IntBits-1) and every width of an int from
\* four bits on: the checks of the sums against overflow are all it takes.
THEOREM DecoderStaysInside == DecodeSpec => []SlicesStayInside
<1>1. DInv => SlicesStayInside
  <2>. SUFFICES ASSUME DInv PROVE SlicesStayInside
    BY Zenon
  <2>1. length >= 0 /\ index \in top.base..top.limit
    BY TopFacts DEF DInv
  <2>. QED
    BY <2>1, Zenon DEF DInv, Nested, SlicesStayInside
<1>. QED
  BY <1>1, InitDInv, NextDInv, PTL DEF DecodeSpec

==============================================================================
