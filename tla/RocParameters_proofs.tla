------------------------ MODULE RocParameters_proofs ------------------------
(***************************************************************************)
(* Proofs about RocParameters, for every table of parameters.              *)
(*  - The compiler is exact: what it puts into registers is what it is     *)
(*    given, and it touches nothing else.                                  *)
(*  - The bits of every parameter hold what the scopes and the permanent   *)
(*    settings say, for every nesting of scopes, every number of attempts  *)
(*    at a register, and whichever transactions fail.                      *)
(*  - What is dumped and loaded again gives the same chip.                 *)
(***************************************************************************)
EXTENDS RocParameters, SequenceTheorems, FiniteSetTheorems, NaturalsInduction,
        WellFoundedInduction, TLAPS

LEMMA LeastExists ==
  ASSUME NEW T, T \subseteq Nat, T # {}
  PROVE  \E x \in T : \A y \in T : x <= y
<1> DEFINE R == OpToRel(<, Nat)
<1>1. IsWellFoundedOn(R, Nat)
  BY NatLessThanWellFounded
<1>2. \A x, y \in T : <<y, x>> \in R <=> y < x
  BY DEF OpToRel
<1> HIDE DEF R
<1>3. PICK x \in T : \A y \in T : ~ (<<y, x>> \in R)
  BY <1>1, WFMin
<1>4. \A y \in T : ~ (y < x)
  BY <1>2, <1>3
<1>5. QED
  BY <1>4

LEMMA RegNat == Reg \subseteq Nat /\ \A p \in Param : Regs(p) \subseteq Reg
<1> DEFINE Loc == [reg : Nat, min : Nat, n : Nat \ {0}]
<1>1. ASSUME NEW p \in Param, NEW i \in DOMAIN Locations(p)
      PROVE  Locations(p)[i].reg \in Nat
  <2>1. Locations(p) \in Seq(Loc)
    BY TableAssumption
  <2>2. Locations(p)[i] \in Loc
    <3> HIDE DEF Loc
    <3>1. QED
      BY <2>1, ElementOfSeq, LenProperties
  <2>3. QED
    BY <2>2
<1>2. \A p \in Param : Regs(p) \subseteq Nat /\ Regs(p) \subseteq Reg
  BY <1>1 DEF Regs, Reg
<1>3. QED
  BY <1>2 DEF Reg
-----------------------------------------------------------------------------
(***************************************************************************)
(* The compiler is exact, on every table.  First powers of two, quotients  *)
(* and remainders.                                                         *)
(***************************************************************************)
LEMMA Widths ==
  /\ ByteBits \in Nat /\ IntBits \in Nat /\ LongBits \in Nat
  /\ ByteBits < IntBits /\ IntBits < LongBits
BY WidthAssumption

LEMMA PowerPos == \A n \in 0..(LongBits + 1) : 2^n \in Nat /\ 2^n >= 1
<1> DEFINE T == {n \in 0..(LongBits + 1) : ~ (2^n \in Nat /\ 2^n >= 1)}
<1> SUFFICES ASSUME T # {} PROVE FALSE
  OBVIOUS
<1>1. T \subseteq Nat
  BY Widths
<1>2. PICK n \in T : \A m \in T : n <= m
  <2> HIDE DEF T
  <2>1. QED
    BY <1>1, LeastExists
<1>3. CASE n = 0
  BY <1>3
<1>4. CASE n # 0
  <2>1. n - 1 \in 0..LongBits /\ n - 1 \in 0..(LongBits + 1) /\ ~ (n <= n - 1) /\ n = (n - 1) + 1
    BY <1>4, Widths
  <2>2. 2^(n - 1) \in Nat /\ 2^(n - 1) >= 1
    BY <1>2, <2>1
  <2>3. 2^((n - 1) + 1) = 2 * 2^(n - 1)
    BY <2>1, PowerAssumption
  <2>4. 2^n = 2 * 2^(n - 1)
    BY <2>1, <2>3
  <2>5. QED
    BY <2>2, <2>4
<1>5. QED
  BY <1>3, <1>4

LEMMA PowerAdd ==
  ASSUME NEW a \in Nat, NEW b \in Nat, a + b <= LongBits + 1
  PROVE  2^(a + b) = 2^a * 2^b
<1> DEFINE T == {c \in 0..b : 2^(a + c) # 2^a * 2^c}
<1> SUFFICES ASSUME 2^(a + b) # 2^a * 2^b PROVE FALSE
  OBVIOUS
<1>0. b \in T
  <2>1. b \in 0..b
    OBVIOUS
  <2>2. QED
    BY <2>1
<1>1. T \subseteq Nat
  OBVIOUS
<1>2. PICK n \in T : \A m \in T : n <= m
  <2> HIDE DEF T
  <2>1. QED
    BY <1>0, <1>1, LeastExists
<1>3. 2^a \in Nat
  BY PowerPos, Widths
<1>4. CASE n = 0
  <2>1. 2^(a + 0) = 2^a /\ 2^0 = 1
    OBVIOUS
  <2>2. QED
    BY <1>2, <1>3, <1>4, <2>1
<1>5. CASE n # 0
  <2> DEFINE c == n - 1
  <2>1. /\ c \in 0..b /\ ~ (n <= c) /\ n = c + 1 /\ a + n = (a + c) + 1
        /\ a + c \in 0..LongBits /\ c \in 0..LongBits
    BY <1>5, Widths
  <2>2. 2^(a + c) = 2^a * 2^c
    BY <1>2, <2>1
  <2>3. 2^((a + c) + 1) = 2 * 2^(a + c) /\ 2^(c + 1) = 2 * 2^c
    BY <2>1, PowerAssumption
  <2>4. 2^c \in Nat /\ 2^(a + c) \in Nat
    BY <2>1, PowerPos, Widths
  <2>5. 2^(a + n) = 2 * 2^(a + c) /\ 2^n = 2 * 2^c
    BY <2>1, <2>3
  <2> HIDE DEF c
  <2>6. \A x, y \in Nat : x * (2 * y) = 2 * (x * y)
    OBVIOUS
  <2>7. 2^a * 2^n = 2 * (2^a * 2^c)
    BY <1>3, <2>4, <2>5, <2>6
  <2>8. QED
    BY <1>2, <2>2, <2>5, <2>7
<1>6. QED
  BY <1>4, <1>5

LEMMA PowerOrder ==
  ASSUME NEW a \in Nat, NEW b \in Nat, a <= b, b <= LongBits + 1
  PROVE  2^a <= 2^b /\ (a < b => 2 * 2^a <= 2^b)
<1> DEFINE c == b - a
<1>1. c \in Nat /\ b = a + c /\ c \in 0..(LongBits + 1)
  BY Widths
<1>2. 2^b = 2^a * 2^c
  BY <1>1, PowerAdd
<1>3. 2^a \in Nat /\ 2^c \in Nat /\ 2^c >= 1
  BY <1>1, PowerPos, Widths
<1>4. \A x, y \in Nat : y >= 1 => x <= x * y
  OBVIOUS
<1>5. 2^a <= 2^b
  BY <1>2, <1>3, <1>4
<1>6. ASSUME a < b PROVE 2 * 2^a <= 2^b
  <2> DEFINE d == c - 1
  <2>1. d \in Nat /\ c = d + 1 /\ d \in 0..LongBits
    BY <1>1, <1>6, Widths
  <2>2. 2^(d + 1) = 2 * 2^d
    BY <2>1, PowerAssumption
  <2>3. 2^c = 2 * 2^d
    BY <2>1, <2>2
  <2>4. 2^d \in Nat /\ 2^d >= 1
    BY <2>1, PowerPos, Widths
  <2>5. \A x, y \in Nat : y >= 1 => 2 * x <= x * (2 * y)
    OBVIOUS
  <2>6. QED
    BY <1>2, <1>3, <2>3, <2>4, <2>5
<1>7. QED
  BY <1>5, <1>6

LEMMA Division ==
  ASSUME NEW a \in Nat, NEW d \in Nat \ {0}
  PROVE  a \div d \in Nat /\ a % d \in 0..(d - 1) /\ a = d * (a \div d) + (a % d)
<1> DEFINE p == a \div d
           m == a % d
<1>0. a \in Int /\ d \in Int /\ d > 0
  OBVIOUS
<1>1. p \in Int /\ m \in 0..(d - 1) /\ a = d * p + m
  BY <1>0
<1> HIDE DEF p, m
<1>2. ASSUME p < 0 PROVE FALSE
  <2>1. p <= -1
    BY <1>1, <1>2
  <2>2. d * p <= d * (-1)
    BY <1>0, <1>1, <2>1
  <2>3. d * (-1) = -d /\ d * p \in Int
    BY <1>0, <1>1
  <2>4. QED
    BY <1>0, <1>1, <2>2, <2>3
<1>3. p \in Nat
  BY <1>1, <1>2
<1>4. p \in Nat /\ m \in 0..(d - 1) /\ a = d * p + m
  BY <1>1, <1>3
<1>5. QED
  BY <1>4, Zenon DEF p, m

LEMMA DivisionIs ==
  ASSUME NEW a \in Nat, NEW d \in Nat \ {0}, NEW q \in Int, NEW r \in 0..(d - 1), a = d * q + r
  PROVE  a \div d = q /\ a % d = r
<1> DEFINE p == a \div d
           s == a % d
<1>1. p \in Int /\ s \in 0..(d - 1) /\ a = d * p + s
  BY Division
<1> HIDE DEF p, s
<1>2. ASSUME p < q PROVE FALSE
  <2>1. p + 1 <= q
    BY <1>1, <1>2
  <2>2. d * (p + 1) <= d * q
    BY <1>1, <2>1
  <2>3. d * (p + 1) = d * p + d
    BY <1>1
  <2>4. d * p \in Int /\ d * q \in Int
    BY <1>1
  <2>5. QED
    BY <1>1, <2>2, <2>3, <2>4
<1>3. ASSUME q < p PROVE FALSE
  <2>1. q + 1 <= p
    BY <1>1, <1>3
  <2>2. d * (q + 1) <= d * p
    BY <1>1, <2>1
  <2>3. d * (q + 1) = d * q + d
    BY <1>1
  <2>4. d * p \in Int /\ d * q \in Int
    BY <1>1
  <2>5. QED
    BY <1>1, <2>2, <2>3, <2>4
<1>4. p = q
  BY <1>1, <1>2, <1>3
<1>5. d * q \in Int
  OBVIOUS
<1>6. s = r
  BY <1>1, <1>4, <1>5
<1>7. QED
  BY <1>4, <1>6 DEF p, s
-----------------------------------------------------------------------------
(***************************************************************************)
(* Folds.  A fold over a finite set has a value, and the fold of a         *)
(* sequence passes through the values h[0], h[1], ...                      *)
(***************************************************************************)
Iterates(f, S, G, base, F, ch) ==
    /\ f \in [SUBSET S -> G]
    /\ \A s \in SUBSET S : f[s] = IF s = {} THEN base ELSE F[<<ch[s], f[s \ {ch[s]}]>>]

LEMMA FoldExists ==
  ASSUME NEW S, IsFiniteSet(S), NEW G, NEW base \in G, NEW F \in [S \X G -> G],
         NEW ch, \A s \in SUBSET S : s # {} => ch[s] \in s
  PROVE  \E f : Iterates(f, S, G, base, F, ch)
<1> DEFINE D(n) == {s \in SUBSET S : Cardinality(s) <= n}
           Is(f, n) == \A s \in D(n) : f[s] = IF s = {} THEN base ELSE F[<<ch[s], f[s \ {ch[s]}]>>]
           T == {n \in Nat : ~ \E f \in [D(n) -> G] : Is(f, n)}
<1>0. \A s \in SUBSET S : IsFiniteSet(s) /\ Cardinality(s) \in Nat
  BY FS_Subset, FS_CardinalityType
<1>1. T = {}
  <2> SUFFICES ASSUME T # {} PROVE FALSE
    OBVIOUS
  <2>1. PICK n \in T : \A m \in T : n <= m
    <3>1. T \subseteq Nat
      OBVIOUS
    <3> HIDE DEF T
    <3>2. QED
      BY <3>1, LeastExists
  <2>2. CASE n = 0
    <3> DEFINE f == [s \in D(0) |-> base]
    <3>1. \A s \in D(0) : s = {}
      BY <1>0, FS_EmptySet
    <3>2. f \in [D(0) -> G] /\ Is(f, 0)
      BY <3>1
    <3>3. QED
      BY <2>1, <2>2, <3>2
  <2>3. CASE n # 0
    <3> DEFINE m == n - 1
    <3>1. m \in Nat /\ n = m + 1 /\ m \notin T
      <4>1. n \in Nat
        OBVIOUS
      <4> HIDE DEF T
      <4>2. m \in Nat /\ n = m + 1 /\ ~ (n <= m)
        BY <2>3, <4>1
      <4>3. QED
        BY <2>1, <4>2
    <3>2. PICK f \in [D(m) -> G] : Is(f, m)
      BY <3>1
    <3> HIDE DEF m, T
    <3>3. \A s \in D(n) : s # {} => ch[s] \in s /\ ch[s] \in S /\ s \ {ch[s]} \in D(m)
      <4> SUFFICES ASSUME NEW s \in D(n), s # {}
                   PROVE  ch[s] \in s /\ ch[s] \in S /\ s \ {ch[s]} \in D(m)
        OBVIOUS
      <4>1. ch[s] \in s /\ IsFiniteSet(s) /\ Cardinality(s) \in Nat
        BY <1>0
      <4>2. Cardinality(s \ {ch[s]}) = Cardinality(s) - 1
        BY <4>1, FS_RemoveElement
      <4>3. QED
        BY <3>1, <4>1, <4>2
    <3>4. D(m) \subseteq D(n)
      BY <1>0, <3>1
    <3> DEFINE f2 == [s \in D(n) |-> IF s = {} THEN base ELSE F[<<ch[s], f[s \ {ch[s]}]>>]]
    <3>5. f2 \in [D(n) -> G]
      <4>1. ASSUME NEW s \in D(n), s # {} PROVE F[<<ch[s], f[s \ {ch[s]}]>>] \in G
        <5>1. f[s \ {ch[s]}] \in G
          BY <3>2, <3>3, <4>1
        <5>2. QED
          BY <3>3, <4>1, <5>1
      <4>2. QED
        BY <4>1
    <3>6. \A s \in D(m) : f2[s] = f[s]
      BY <3>2, <3>4
    <3>7. Is(f2, n)
      <4>1. ASSUME NEW s \in D(n)
            PROVE  f2[s] = IF s = {} THEN base ELSE F[<<ch[s], f2[s \ {ch[s]}]>>]
        <5>1. s # {} => f2[s \ {ch[s]}] = f[s \ {ch[s]}]
          BY <3>3, <3>6
        <5>2. QED
          BY <5>1
      <4>2. QED
        BY <4>1
    <3>8. n \notin T
      BY <3>5, <3>7 DEF T
    <3>9. QED
      BY <2>1, <3>8
  <2>4. QED
    BY <2>2, <2>3
<1> DEFINE c == Cardinality(S)
<1>2. c \in Nat /\ c \notin T
  BY <1>0, <1>1
<1>3. D(c) = SUBSET S
  BY <1>0, FS_Subset
<1>4. QED
  BY <1>2, <1>3 DEF Iterates

LEMMA MaxIs ==
  ASSUME NEW n \in Nat, NEW s \in SUBSET (1..n), s # {}
  PROVE  Max(s) \in s /\ \A x \in s : x <= Max(s)
<1> DEFINE T == {n - x : x \in s}
<1>1. T \subseteq Nat /\ T # {}
  <2>1. \A x \in s : x \in 1..n /\ n - x \in Nat
    OBVIOUS
  <2>2. PICK x \in s : TRUE
    OBVIOUS
  <2>3. n - x \in T
    BY <2>2
  <2>4. QED
    BY <2>1, <2>3
<1>2. PICK t \in T : \A u \in T : t <= u
  <2> HIDE DEF T
  <2>1. QED
    BY <1>1, LeastExists
<1>3. PICK m \in s : t = n - m
  BY <1>2
<1>4. \A x \in s : n - x \in T
  OBVIOUS
<1>5. \A x \in s : m >= x
  BY <1>2, <1>3, <1>4
<1>6. QED
  BY <1>3, <1>5 DEF Max

LEMMA MaxUpTo ==
  ASSUME NEW k \in Nat \ {0} PROVE Max(1..k) = k /\ (1..k) \ {Max(1..k)} = 1..(k - 1)
<1> DEFINE s == 1..k
<1>0. k \in s /\ s # {} /\ s \in SUBSET (1..k)
  OBVIOUS
<1>1. Max(s) \in s /\ \A x \in s : x <= Max(s)
  <2> HIDE DEF s
  <2>1. QED
    BY <1>0, MaxIs
<1>2. Max(1..k) = k
  BY <1>1
<1>3. (1..k) \ {k} = 1..(k - 1)
  OBVIOUS
<1>4. QED
  BY <1>2, <1>3

\* The fold of a sequence of length n, for which FoldLeft chooses iter.
Folds(f, n, G, base, F) ==
    /\ f \in [SUBSET (1..n) -> G]
    /\ \A s \in SUBSET (1..n) : f[s] = IF s = {} THEN base ELSE F[<<Max(s), f[s \ {Max(s)}]>>]

LEMMA FoldsExist ==
  ASSUME NEW n \in Nat, NEW G, NEW base \in G, NEW F \in [(1..n) \X G -> G]
  PROVE  \E f : Folds(f, n, G, base, F)
<1> DEFINE S == 1..n
           ch == [s \in SUBSET S |-> Max(s)]
<1>1. \A s \in SUBSET S : s # {} => ch[s] \in s
  BY MaxIs
<1>2. IsFiniteSet(S)
  BY FS_Interval
<1>3. \A s \in SUBSET S : ch[s] = Max(s)
  OBVIOUS
<1> HIDE DEF ch
<1>4. PICK f : Iterates(f, S, G, base, F, ch)
  <2>1. F \in [S \X G -> G]
    OBVIOUS
  <2> HIDE DEF S
  <2>2. QED
    BY <1>1, <1>2, <2>1, FoldExists
<1>5. QED
  BY <1>3, <1>4 DEF Iterates, Folds

\* The values it passes through.
Passes(h, n, G, base, F) ==
    h \in [0..n -> G] /\ h[0] = base /\ \A k \in 1..n : h[k] = F[<<k, h[k - 1]>>]

LEMMA PassesThrough ==
  ASSUME NEW n \in Nat, NEW G, NEW base \in G, NEW F \in [(1..n) \X G -> G],
         NEW f, Folds(f, n, G, base, F)
  PROVE  \E h : Passes(h, n, G, base, F)
<1> DEFINE h == [k \in 0..n |-> f[1..k]]
<1>1. \A k \in 0..n : (1..k) \in SUBSET (1..n)
  OBVIOUS
<1>2. h \in [0..n -> G]
  BY <1>1 DEF Folds
<1>3. h[0] = base
  <2>1. 1..0 = {} /\ 0 \in 0..n
    OBVIOUS
  <2>2. QED
    BY <2>1 DEF Folds
<1>4. ASSUME NEW k \in 1..n PROVE h[k] = F[<<k, h[k - 1]>>]
  <2>1. k \in Nat \ {0} /\ k \in 0..n /\ k - 1 \in 0..n /\ 1..k # {}
    OBVIOUS
  <2>2. Max(1..k) = k /\ (1..k) \ {Max(1..k)} = 1..(k - 1)
    BY <2>1, MaxUpTo
  <2>3. f[1..k] = F[<<k, f[1..(k - 1)]>>]
    BY <1>1, <2>1, <2>2 DEF Folds
  <2>4. QED
    BY <2>1, <2>3
<1>5. QED
  BY <1>2, <1>3, <1>4 DEF Passes

InStep(g, h, m) == g[0] = h[0] /\ \A k \in 1..m : g[k - 1] = h[k - 1] => g[k] = h[k]

LEMMA PassesOnce ==
  ASSUME NEW m \in Nat, NEW g, NEW h, InStep(g, h, m)
  PROVE  \A k \in 0..m : g[k] = h[k]
<1> DEFINE T == {k \in 0..m : g[k] # h[k]}
<1> SUFFICES ASSUME T # {} PROVE FALSE
  OBVIOUS
<1>1. T \subseteq Nat
  OBVIOUS
<1>2. PICK k \in T : \A j \in T : k <= j
  <2> HIDE DEF T
  <2>1. QED
    BY <1>1, LeastExists
<1>3. k # 0
  BY DEF InStep
<1>4. k \in 1..m /\ k - 1 \in 0..m /\ ~ (k <= k - 1)
  BY <1>3
<1>5. g[k - 1] = h[k - 1]
  BY <1>2, <1>4
<1>6. QED
  BY <1>4, <1>5 DEF InStep

\* What FoldLeft chooses passes through them.
Follows(iter, n, G, base, F) ==
    /\ iter[{}] = base
    /\ \A k \in 1..n, y \in G : iter[1..(k - 1)] = y => iter[1..k] = F[<<k, y>>]

Gives(v, n, G, base, F) == \E h : Passes(h, n, G, base, F) /\ v = h[n]

LEMMA PassesIter ==
  ASSUME NEW n \in Nat, NEW G, NEW base \in G, NEW F \in [(1..n) \X G -> G],
         NEW iter, Follows(iter, n, G, base, F)
  PROVE  Gives(iter[1..n], n, G, base, F)
<1>1. PICK f : Folds(f, n, G, base, F)
  BY FoldsExist
<1>2. PICK h : Passes(h, n, G, base, F)
  BY <1>1, PassesThrough
<1> DEFINE g == [k \in 0..n |-> iter[1..k]]
<1>3. g[0] = h[0]
  <2>1. 1..0 = {} /\ 0 \in 0..n
    OBVIOUS
  <2>2. QED
    BY <1>2, <2>1 DEF Passes, Follows
<1>4. ASSUME NEW k \in 1..n, g[k - 1] = h[k - 1] PROVE g[k] = h[k]
  <2>1. k \in 0..n /\ k - 1 \in 0..n
    OBVIOUS
  <2>2. h[k - 1] \in G /\ h[k] = F[<<k, h[k - 1]>>]
    BY <1>2, <2>1 DEF Passes
  <2>3. iter[1..(k - 1)] = h[k - 1]
    BY <1>4, <2>1
  <2>4. iter[1..k] = F[<<k, h[k - 1]>>]
    BY <2>2, <2>3 DEF Follows
  <2>5. QED
    BY <2>1, <2>2, <2>4
<1>5. g[n] = iter[1..n] /\ n \in 0..n
  OBVIOUS
<1> HIDE DEF g
<1>6. g[n] = h[n]
  <2>1. InStep(g, h, n)
    BY <1>3, <1>4 DEF InStep
  <2>2. QED
    BY <1>5, <2>1, PassesOnce
<1>7. QED
  BY <1>2, <1>5, <1>6 DEF Gives
-----------------------------------------------------------------------------
(***************************************************************************)
(* The table.                                                              *)
(***************************************************************************)
Loc == [reg : Nat, min : Nat, n : Nat \ {0}]

LEMMA Table ==
  ASSUME NEW p \in Param
  PROVE  /\ Locations(p) \in Seq(Loc) /\ Len(Locations(p)) \in Nat \ {0}
         /\ DOMAIN Locations(p) = 1..Len(Locations(p))
         /\ \A i \in 1..Len(Locations(p)) :
               /\ Locations(p)[i] \in Loc /\ Locations(p)[i].reg \in Regs(p)
               /\ Locations(p)[i].reg \in Reg
               /\ Locations(p)[i].min \in Nat /\ Locations(p)[i].n \in Nat \ {0}
<1>1. Locations(p) \in Seq(Loc) /\ Locations(p) # <<>>
  BY TableAssumption DEF Loc
<1>2. Len(Locations(p)) \in Nat /\ DOMAIN Locations(p) = 1..Len(Locations(p))
  BY <1>1, LenProperties
<1>3. Len(Locations(p)) # 0
  BY <1>1, EmptySeq
<1>4. \A i \in 1..Len(Locations(p)) : Locations(p)[i] \in Loc
  BY <1>1, ElementOfSeq
<1>5. \A i \in 1..Len(Locations(p)) : Locations(p)[i].reg \in Regs(p)
  BY <1>2 DEF Regs
<1>6. QED
  BY <1>1, <1>2, <1>3, <1>4, <1>5, RegNat DEF Loc

\* The fold of MinBits.
Sum(p, n) == [x \in (1..n) \X Nat |-> x[2] + Locations(p)[x[1]].n]

LEMMA MinBitFold ==
  ASSUME NEW p \in Param, NEW i \in 1..(Len(Locations(p)) + 1)
  PROVE  Gives(MinBit(p, i), i - 1, Nat, 0, Sum(p, i - 1))
<1> DEFINE n == i - 1
           J == SubSeq(Locations(p), 1, n)
           F == Sum(p, n)
           iter == CHOOSE it : it = [s \in SUBSET DOMAIN J |->
                      IF s = {} THEN 0 ELSE it[s \ {Max(s)}] + J[Max(s)].n]
<1>1. MinBit(p, i) = iter[DOMAIN J]
  BY DEF MinBit, MinBits, FoldLeft, MapThenFoldSet
<1>2. /\ n \in Nat /\ n <= Len(Locations(p)) /\ Locations(p) \in Seq(Loc)
      /\ \A k \in 1..n : Locations(p)[k].n \in Nat
  BY Table
<1>3. Len(J) = n /\ DOMAIN J = 1..n /\ \A k \in 1..n : J[k] = Locations(p)[k]
  <2> HIDE DEF n
  <2>1. \A k \in 1..n : Locations(p)[k] \in Loc
    BY <1>2, Table
  <2>2. J \in Seq(Loc) /\ Len(J) = n /\ \A k \in 1..n : J[k] = Locations(p)[k]
    BY <1>2, <2>1, SubSeqProperties
  <2>3. QED
    BY <2>2, LenProperties
<1> HIDE DEF n, J
<1>4. /\ F \in [(1..n) \X Nat -> Nat]
      /\ \A k \in 1..n, y \in Nat : F[<<k, y>>] = y + Locations(p)[k].n
  BY <1>2 DEF Sum
<1> HIDE DEF F
<1>5. PICK f : Folds(f, n, Nat, 0, F)
  BY <1>2, <1>4, FoldsExist
<1>6. \A s \in SUBSET (1..n) :
         f[s] = IF s = {} THEN 0 ELSE f[s \ {Max(s)}] + J[Max(s)].n
  BY <1>2, <1>3, <1>4, <1>5, MaxIs DEF Folds
<1>7. f = [s \in SUBSET DOMAIN J |-> IF s = {} THEN 0 ELSE f[s \ {Max(s)}] + J[Max(s)].n]
  BY <1>3, <1>5, <1>6 DEF Folds
<1>8. iter = [s \in SUBSET DOMAIN J |->
                 IF s = {} THEN 0 ELSE iter[s \ {Max(s)}] + J[Max(s)].n]
  BY <1>7
<1> HIDE DEF iter
<1>9. iter[{}] = 0
  BY <1>8
<1>10. ASSUME NEW k \in 1..n, NEW y \in Nat, iter[1..(k - 1)] = y PROVE iter[1..k] = F[<<k, y>>]
  <2>1. k \in Nat \ {0} /\ k <= n /\ k \in 1..k
    BY <1>2
  <2>a. (1..k) \in SUBSET DOMAIN J /\ 1..k # {}
    <3>1. \A x \in 1..k : x \in 1..n
      BY <1>2, <2>1
    <3>2. 1..k \subseteq DOMAIN J
      BY <1>3, <3>1
    <3>3. QED
      BY <2>1, <3>2
  <2>2. iter[1..k] = iter[1..(k - 1)] + J[k].n
    BY <1>8, <2>1, <2>a, MaxUpTo
  <2>3. QED
    BY <1>3, <1>4, <1>10, <2>2
<1>11. Gives(iter[1..n], n, Nat, 0, F)
  <2>1. Follows(iter, n, Nat, 0, F)
    BY <1>9, <1>10 DEF Follows
  <2>2. n \in Nat /\ 0 \in Nat /\ F \in [(1..n) \X Nat -> Nat]
    BY <1>2, <1>4
  <2>3. QED
    BY <2>1, <2>2, PassesIter
<1>12. QED
  BY <1>1, <1>3, <1>11 DEF n, F

LEMMA MinBitNext ==
  ASSUME NEW p \in Param
  PROVE  /\ MinBit(p, 1) = 0 /\ \A i \in 1..(Len(Locations(p)) + 1) : MinBit(p, i) \in Nat
         /\ \A i \in 1..Len(Locations(p)) : MinBit(p, i + 1) = MinBit(p, i) + Locations(p)[i].n
<1> DEFINE N == Len(Locations(p))
<1>1. N \in Nat /\ \A k \in 1..N : Locations(p)[k].n \in Nat
  BY Table
<1>2. \A i \in 1..(N + 1) : Gives(MinBit(p, i), i - 1, Nat, 0, Sum(p, i - 1))
  BY MinBitFold
<1> HIDE DEF N
<1>3. ASSUME NEW n \in 0..N, NEW h, Passes(h, n, Nat, 0, Sum(p, n))
      PROVE  /\ h[0] = 0 /\ h[n] \in Nat
             /\ \A k \in 1..n : h[k] = h[k - 1] + Locations(p)[k].n
  <2>1. h \in [0..n -> Nat] /\ h[0] = 0 /\ \A k \in 1..n : h[k] = Sum(p, n)[<<k, h[k - 1]>>]
    BY <1>3 DEF Passes
  <2>2. n \in Nat /\ n \in 0..n /\ \A k \in 1..n : k - 1 \in 0..n
    BY <1>1
  <2>3. \A k \in 1..n : h[k - 1] \in Nat
    BY <2>1, <2>2
  <2>4. QED
    BY <2>1, <2>2, <2>3 DEF Sum
<1>4. \A i \in 1..(N + 1) : MinBit(p, i) \in Nat
  <2> SUFFICES ASSUME NEW i \in 1..(N + 1) PROVE MinBit(p, i) \in Nat
    OBVIOUS
  <2>1. i - 1 \in 0..N
    BY <1>1
  <2>2. PICK h : Passes(h, i - 1, Nat, 0, Sum(p, i - 1)) /\ MinBit(p, i) = h[i - 1]
    BY <1>2 DEF Gives
  <2>3. QED
    BY <1>3, <2>1, <2>2
<1>5. MinBit(p, 1) = 0
  <2>1. 1 \in 1..(N + 1) /\ 1 - 1 = 0 /\ 0 \in 0..N
    BY <1>1
  <2>2. PICK h : Passes(h, 0, Nat, 0, Sum(p, 0)) /\ MinBit(p, 1) = h[0]
    BY <1>2, <2>1 DEF Gives
  <2>3. QED
    BY <1>3, <2>1, <2>2
<1>6. ASSUME NEW i \in 1..N PROVE MinBit(p, i + 1) = MinBit(p, i) + Locations(p)[i].n
  <2> DEFINE m == i - 1
  <2>1. /\ i \in 1..(N + 1) /\ i + 1 \in 1..(N + 1) /\ (i + 1) - 1 = i /\ m \in Nat
        /\ i \in 0..N /\ m \in 0..N /\ i \in 1..i /\ m \in 0..m /\ \A k \in 1..m : k \in 1..i
    BY <1>1
  <2>2. PICK g : Passes(g, i, Nat, 0, Sum(p, i)) /\ MinBit(p, i + 1) = g[i]
    BY <1>2, <2>1 DEF Gives
  <2>3. PICK h : Passes(h, m, Nat, 0, Sum(p, m)) /\ MinBit(p, i) = h[m]
    BY <1>2, <2>1 DEF Gives
  <2>4. g[0] = 0 /\ \A k \in 1..i : g[k] = g[k - 1] + Locations(p)[k].n
    BY <1>3, <2>1, <2>2
  <2>5. h[0] = 0 /\ \A k \in 1..m : h[k] = h[k - 1] + Locations(p)[k].n
    BY <1>3, <2>1, <2>3
  <2>6. InStep(g, h, m)
    BY <2>1, <2>4, <2>5 DEF InStep
  <2>7. g[m] = h[m]
    <3> HIDE DEF m
    <3>1. QED
      BY <2>1, <2>6, PassesOnce
  <2>8. g[i] = g[m] + Locations(p)[i].n
    BY <2>1, <2>4
  <2>9. QED
    BY <2>2, <2>3, <2>7, <2>8
<1>7. QED
  BY <1>4, <1>5, <1>6 DEF N

\* The place of every bit of a parameter is below its total, which a long has room for.
LEMMA MinBitOrder ==
  ASSUME NEW p \in Param
  PROVE  /\ Total(p) \in Nat /\ Total(p) <= LongBits
         /\ \A j \in 1..(Len(Locations(p)) + 1) :
               /\ MinBit(p, j) <= Total(p)
               /\ \A i \in 1..(j - 1) : MinBit(p, i) + Locations(p)[i].n <= MinBit(p, j)
<1> DEFINE N == Len(Locations(p))
           B(i) == MinBit(p, i)
           n(i) == Locations(p)[i].n
           T == {j \in 1..(N + 1) : ~ \A i \in 1..(j - 1) : B(i) + n(i) <= B(j)}
<1>1. N \in Nat /\ \A k \in 1..N : n(k) \in Nat
  BY Table
<1>2. /\ \A i \in 1..(N + 1) : B(i) \in Nat
      /\ \A i \in 1..N : B(i + 1) = B(i) + n(i)
  BY MinBitNext
<1>3. Total(p) = B(N + 1) /\ Total(p) <= LongBits
  BY DefaultAssumption DEF Total
<1> HIDE DEF N, B, n
<1>4. T = {}
  <2> SUFFICES ASSUME T # {} PROVE FALSE
    OBVIOUS
  <2>1. T \subseteq Nat
    BY <1>1
  <2>2. PICK j \in T : \A k \in T : j <= k
    <3> HIDE DEF T
    <3>1. QED
      BY <2>1, LeastExists
  <2>3. PICK i \in 1..(j - 1) : ~ (B(i) + n(i) <= B(j))
    OBVIOUS
  <2> DEFINE m == j - 1
  <2>4. m \in 1..N /\ m \in 1..(N + 1) /\ ~ (j <= m) /\ j = m + 1 /\ i \in 1..m /\ i \in 1..N
        /\ i \in 1..(N + 1)
    BY <1>1, <2>3
  <2>5. B(j) = B(m) + n(m) /\ B(m) \in Nat /\ n(m) \in Nat /\ B(i) \in Nat /\ n(i) \in Nat
    BY <1>1, <1>2, <2>4
  <2>6. m \notin T
    BY <2>2, <2>4
  <2>7. CASE i = m
    BY <2>3, <2>5, <2>7
  <2>8. CASE i # m
    <3>1. i \in 1..(m - 1)
      BY <2>4, <2>8
    <3>2. B(i) + n(i) <= B(m)
      BY <2>4, <2>6, <3>1
    <3>3. QED
      BY <2>3, <2>5, <3>2
  <2>9. QED
    BY <2>7, <2>8
<1>5. \A j \in 1..(N + 1) : \A i \in 1..(j - 1) : B(i) + n(i) <= B(j)
  BY <1>4
<1> HIDE DEF T
<1>6. ASSUME NEW j \in 1..(N + 1) PROVE B(j) <= B(N + 1)
  <2>1. N + 1 \in 1..(N + 1) /\ j \in Nat
    BY <1>1
  <2>2. CASE j = N + 1
    BY <1>2, <2>1, <2>2
  <2>3. CASE j # N + 1
    <3>1. j \in 1..((N + 1) - 1) /\ j \in 1..N
      BY <1>1, <2>3
    <3>2. B(j) + n(j) <= B(N + 1)
      BY <1>5, <2>1, <3>1
    <3>3. B(j) \in Nat /\ B(N + 1) \in Nat /\ n(j) \in Nat
      BY <1>1, <1>2, <2>1, <3>1
    <3>4. QED
      BY <3>2, <3>3
  <2>4. QED
    BY <2>2, <2>3
<1>7. B(N + 1) \in Nat
  BY <1>1, <1>2
<1>8. QED
  BY <1>3, <1>5, <1>6, <1>7 DEF N, B, n
-----------------------------------------------------------------------------
(***************************************************************************)
(* Bits of a number.                                                       *)
(***************************************************************************)
LEMMA DivisionTwice ==
  ASSUME NEW v \in Nat, NEW d \in Nat \ {0}, NEW e \in Nat \ {0}
  PROVE  v \div (d * e) = (v \div d) \div e
<1> DEFINE q == v \div d
           r == v % d
           x == q \div e
           y == q % e
<1>1. q \in Nat /\ r \in 0..(d - 1) /\ v = d * q + r
  BY Division
<1>2. x \in Nat /\ y \in 0..(e - 1) /\ q = e * x + y
  BY <1>1, Division
<1> HIDE DEF q, r, x, y
<1>3. d * e \in Nat \ {0}
  OBVIOUS
<1>4. d * q = (d * e) * x + d * y
  BY <1>2
<1>5. d * y + r \in 0..(d * e - 1)
  <2>1. d * y <= d * (e - 1)
    BY <1>2
  <2>2. d * (e - 1) = d * e - d /\ d * y \in Nat
    BY <1>2
  <2>3. QED
    BY <1>1, <1>3, <2>1, <2>2
<1>6. v = (d * e) * x + (d * y + r)
  <2>1. d * y \in Int /\ (d * e) * x \in Int /\ d * q \in Int
    BY <1>1, <1>2, <1>3
  <2>2. QED
    BY <1>1, <1>4, <2>1
<1>7. v \div (d * e) = x
  BY <1>2, <1>3, <1>5, <1>6, DivisionIs
<1>8. QED
  BY <1>7 DEF q, x

LEMMA Power == \A n \in 0..LongBits : 2^n \in Nat \ {0}
  BY PowerPos, Widths

LEMMA FieldIn ==
  ASSUME NEW v \in Nat, NEW l, l.min \in 0..LongBits, l.n \in 0..LongBits
  PROVE  Field(v, l) \in Nat /\ Field(v, l) \in 0..(2^l.n - 1)
<1>1. 2^l.min \in Nat \ {0} /\ 2^l.n \in Nat \ {0}
  BY Power
<1> DEFINE b == v \div 2^l.min
           K == 2^l.n
<1>2. b \in Nat
  BY <1>1, Division
<1> HIDE DEF b, K
<1>3. K \in Nat \ {0}
  BY <1>1 DEF K
<1>4. b % K \in 0..(K - 1) /\ b % K \in Nat
  BY <1>2, <1>3, Division
<1>5. QED
  BY <1>4 DEF Field, b, K

\* They are determined by the bits below any place above them,
LEMMA FieldLow ==
  ASSUME NEW v \in Nat, NEW m \in 0..LongBits, NEW l, l.min \in Nat, l.n \in Nat, l.min + l.n <= m
  PROVE  Field(v, l) = Field(v % 2^m, l)
<1> DEFINE A == 2^l.min
           K == 2^l.n
           c == m - (l.min + l.n)
           C == 2^c
           P == 2^m
           q == v \div P
           lo == v % P
           x == lo \div A
           y == lo % A
           hi == x \div K
           z == x % K
<1>1. c \in 0..LongBits /\ m = (l.min + l.n) + c /\ l.min \in 0..LongBits /\ l.n \in 0..LongBits
  BY Widths
<1>2. P = (A * K) * C
  <2>1. 2^(l.min + l.n) = A * K
    <3> DEFINE a == l.min
               k == l.n
    <3>1. a \in Nat /\ k \in Nat /\ a + k <= LongBits + 1
      BY <1>1, Widths
    <3> HIDE DEF a, k
    <3>2. 2^(a + k) = 2^a * 2^k
      BY <3>1, PowerAdd
    <3>3. QED
      BY <3>2 DEF a, k
  <2>2. 2^m = 2^(l.min + l.n) * C
    <3> DEFINE s == l.min + l.n
    <3>1. s \in Nat /\ c \in Nat /\ s + c = m /\ s + c <= LongBits + 1
      BY <1>1, Widths
    <3> HIDE DEF s, c
    <3>2. 2^(s + c) = 2^s * 2^c
      BY <3>1, PowerAdd
    <3>3. QED
      BY <3>1, <3>2 DEF s
  <2>3. QED
    BY <2>1, <2>2
<1>3. A \in Nat \ {0} /\ K \in Nat \ {0} /\ C \in Nat \ {0} /\ P \in Nat \ {0}
  BY <1>1, Power
<1> HIDE DEF P
<1>4. q \in Nat /\ lo \in Nat /\ v = P * q + lo
  <2>1. P \in Nat \ {0}
    BY <1>3
  <2>2. q \in Nat /\ lo \in 0..(P - 1) /\ v = P * q + lo
    BY <2>1, Division
  <2>3. lo \in Nat
    BY <2>1, <2>2
  <2> HIDE DEF q, lo
  <2>4. QED
    BY <2>2, <2>3
<1> HIDE DEF q, lo, c, C
<1>5. x \in Nat /\ y \in 0..(A - 1) /\ lo = A * x + y
  BY <1>3, <1>4, Division
<1> HIDE DEF x, y
<1>6. hi \in Nat /\ z \in 0..(K - 1) /\ x = K * hi + z
  BY <1>3, <1>5, Division
<1> HIDE DEF hi, z, A, K
<1> DEFINE w == K * (C * q) + x
           u == C * q + hi
<1>7. C * q \in Nat /\ w \in Nat /\ u \in Nat
  <2>1. C * q \in Nat
    BY <1>3, <1>4
  <2>2. K * (C * q) \in Nat
    BY <1>3, <2>1
  <2>3. QED
    BY <1>5, <1>6, <2>1, <2>2
<1>8. v = A * w + y
  <2>1. ((A * K) * C) * q = A * (K * (C * q))
    BY <1>3, <1>4
  <2>2. A * w = A * (K * (C * q)) + A * x
    <3>1. K * (C * q) \in Nat
      BY <1>3, <1>7
    <3> HIDE DEF w
    <3>2. \A a, b, d \in Nat : a * (b + d) = a * b + a * d
      OBVIOUS
    <3>3. QED
      BY <1>3, <1>5, <3>1, <3>2 DEF w
  <2>3. A * (K * (C * q)) \in Nat /\ A * x \in Nat
    <3>1. K * (C * q) \in Nat
      BY <1>3, <1>7
    <3>2. QED
      BY <1>3, <1>5, <3>1
  <2> HIDE DEF w
  <2>4. v = ((A * K) * C) * q + lo
    BY <1>2, <1>4
  <2>5. QED
    BY <1>5, <2>1, <2>2, <2>3, <2>4
<1>9. w = K * u + z
  <2>1. K * u = K * (C * q) + K * hi
    BY <1>3, <1>6, <1>7
  <2>2. K * (C * q) \in Nat /\ K * hi \in Nat
    BY <1>3, <1>6, <1>7
  <2>3. QED
    BY <1>6, <2>1, <2>2
<1> HIDE DEF w, u
<1>10. v \div A = w
  <2>1. w \in Int /\ A \in Nat \ {0} /\ y \in 0..(A - 1)
    BY <1>3, <1>5, <1>7
  <2>2. QED
    BY <1>8, <2>1, DivisionIs
<1>11. w % K = z
  <2>1. u \in Int /\ w \in Nat /\ K \in Nat \ {0} /\ z \in 0..(K - 1)
    BY <1>3, <1>6, <1>7
  <2>2. QED
    BY <1>9, <2>1, DivisionIs
<1>12. QED
  BY <1>10, <1>11 DEF Field, A, K, z, x, lo, P

\* and by the bits above any place below them.
LEMMA FieldHigh ==
  ASSUME NEW v \in Nat, NEW w \in Nat, NEW m \in Nat, NEW l, l.min \in 0..LongBits, m <= l.min,
         v \div 2^m = w \div 2^m
  PROVE  Field(v, l) = Field(w, l)
<1> DEFINE c == l.min - m
<1>1. c \in 0..LongBits /\ m \in 0..LongBits /\ l.min = m + c /\ m + c <= LongBits + 1
  BY Widths
<1>2. 2^m \in Nat \ {0} /\ 2^c \in Nat \ {0} /\ 2^(m + c) = 2^m * 2^c
  BY <1>1, Power, PowerAdd
<1>3. 2^l.min = 2^m * 2^c
  BY <1>1, <1>2
<1> HIDE DEF c
<1>4. v \div 2^l.min = (v \div 2^m) \div 2^c /\ w \div 2^l.min = (w \div 2^m) \div 2^c
  BY <1>2, <1>3, DivisionTwice
<1>5. QED
  BY <1>4 DEF Field

\* Other bits are put into a byte: they are there then, and those beside them are what they were.
Replaced(b, l, v) == b - Field(b, l) * 2^l.min + v * 2^l.min
Beside(k, l) == k.min + k.n <= l.min \/ l.min + l.n <= k.min
InByte(l) == l.min \in Nat /\ l.n \in Nat /\ l.min + l.n <= ByteBits

LEMMA ReplacedIs ==
  ASSUME NEW b \in Byte, NEW l, InByte(l), NEW v \in 0..(2^l.n - 1)
  PROVE  /\ Replaced(b, l, v) \in Byte /\ Field(Replaced(b, l, v), l) = v
         /\ \A k : InByte(k) /\ Beside(k, l) => Field(Replaced(b, l, v), k) = Field(b, k)
<1> DEFINE D == 2^l.min
           E == 2^l.n
           q == b \div D
           lo == b % D
           f == q % E
           hi == q \div E
           new == Replaced(b, l, v)
           s == l.min + l.n
           c == ByteBits - s
           C == 2^c
           B == 2^ByteBits
<1>1. /\ l.min \in 0..LongBits /\ l.n \in 0..LongBits /\ s \in 0..LongBits /\ c \in 0..LongBits
      /\ s + c = ByteBits /\ ByteBits \in 0..LongBits /\ s \in Nat /\ c \in Nat
      /\ s + c <= LongBits + 1 /\ l.min \in Nat /\ l.n \in Nat
  BY Widths DEF InByte
<1>2. D \in Nat \ {0} /\ E \in Nat \ {0} /\ C \in Nat \ {0} /\ B \in Nat \ {0}
  BY <1>1, Power
<1>3. 2^s = D * E
  <2> DEFINE a == l.min
             k == l.n
  <2>1. a \in Nat /\ k \in Nat /\ a + k <= LongBits + 1 /\ s = a + k
    BY <1>1, Widths
  <2> HIDE DEF a, k, s
  <2>2. 2^(a + k) = 2^a * 2^k
    BY <2>1, PowerAdd
  <2>3. QED
    BY <2>1, <2>2 DEF a, k
<1>4. B = (D * E) * C
  <2> HIDE DEF s, c, D, E
  <2>1. 2^(s + c) = 2^s * 2^c
    BY <1>1, PowerAdd
  <2>2. QED
    BY <1>1, <1>3, <2>1
<1>5. b \in Nat /\ b <= B - 1
  <2> HIDE DEF B
  <2>1. Byte = 0..(B - 1)
    BY DEF Byte, B
  <2>2. QED
    BY <1>2, <2>1
<1>6. new = b - f * D + v * D
  BY DEF Replaced, Field
<1> HIDE DEF D, E, C, B, s, c, new
<1>7. q \in Nat /\ lo \in 0..(D - 1) /\ b = D * q + lo
  BY <1>2, <1>5, Division
<1> HIDE DEF q, lo
<1>8. hi \in Nat /\ f \in 0..(E - 1) /\ q = E * hi + f
  BY <1>2, <1>7, Division
<1> HIDE DEF hi, f
<1>9. v \in 0..(E - 1) /\ v \in Nat /\ f \in Nat /\ lo \in Nat
  BY <1>2, <1>7, <1>8 DEF E
<1> DEFINE w == E * hi + v
<1>10. w \in Nat /\ E * hi \in Nat
  BY <1>2, <1>8, <1>9
<1>11. new = D * w + lo
  <2>1. D * q = D * (E * hi) + D * f /\ D * w = D * (E * hi) + D * v
    <3> DEFINE e == E * hi
    <3>1. e \in Nat
      BY <1>10
    <3>2. q = e + f /\ w = e + v
      BY <1>8
    <3> HIDE DEF e, w
    <3>3. \A x, y, z \in Nat : x * (y + z) = x * y + x * z
      OBVIOUS
    <3>4. D * q = D * e + D * f /\ D * w = D * e + D * v
      BY <1>2, <1>9, <3>1, <3>2, <3>3
    <3>5. QED
      BY <3>4 DEF e
  <2>2. D * (E * hi) \in Nat /\ D * f \in Nat /\ D * v \in Nat
    BY <1>2, <1>9, <1>10
  <2>3. f * D = D * f /\ v * D = D * v
    BY <1>2, <1>9
  <2> HIDE DEF w
  <2>4. QED
    BY <1>6, <1>7, <1>9, <2>1, <2>2, <2>3
<1>12. new \in Nat
  BY <1>2, <1>9, <1>10, <1>11
<1>13. new \div D = w /\ new % D = lo
  <2> HIDE DEF w
  <2>1. w \in Int
    BY <1>10
  <2>2. QED
    BY <1>2, <1>7, <1>11, <1>12, <2>1, DivisionIs
<1>14. w \div E = hi /\ w % E = v
  <2>1. hi \in Int /\ w = E * hi + v
    BY <1>8
  <2> HIDE DEF w
  <2>2. QED
    BY <1>2, <1>9, <1>10, <2>1, DivisionIs
<1> HIDE DEF w
<1>15. new \div 2^s = b \div 2^s
  <2>1. new \div (D * E) = hi
    BY <1>2, <1>12, <1>13, <1>14, DivisionTwice
  <2>2. b \div (D * E) = q \div E
    BY <1>2, <1>5, DivisionTwice DEF q
  <2>3. QED
    BY <1>3, <2>1, <2>2 DEF hi
<1>16. new <= B - 1
  <2> DEFINE P == D * E
  <2>1. P \in Nat \ {0} /\ P * hi \in Nat
    BY <1>2, <1>8
  <2>2. D * w = P * hi + D * v /\ D * q = P * hi + D * f
    <3>1. w = E * hi + v /\ q = E * hi + f /\ P * hi = D * (E * hi)
      BY <1>2, <1>8 DEF w
    <3> DEFINE e == E * hi
    <3>2. e \in Nat
      BY <1>10
    <3> HIDE DEF e, P
    <3>3. \A x, y, z \in Nat : x * (y + z) = x * y + x * z
      OBVIOUS
    <3>4. QED
      BY <1>2, <1>9, <3>1, <3>2, <3>3 DEF e
  <2>3. D * v + lo <= P - 1
    <3>1. D * v <= D * (E - 1)
      BY <1>2, <1>9
    <3>2. D * (E - 1) = P - D /\ D * v \in Nat
      BY <1>2, <1>9
    <3>3. QED
      BY <1>2, <1>7, <2>1, <3>1, <3>2
  <2> HIDE DEF P
  <2>4. P * hi <= b
    <3>1. D * f \in Nat
      BY <1>2, <1>9
    <3>2. QED
      BY <1>5, <1>7, <1>9, <2>1, <2>2, <3>1
  <2>5. hi + 1 <= C
    <3>1. ASSUME C <= hi PROVE FALSE
      <4>1. P * C <= P * hi /\ P * C = B
        BY <1>2, <1>4, <1>8, <2>1, <3>1 DEF P
      <4>2. QED
        BY <1>2, <1>5, <2>1, <2>4, <4>1
    <3>2. QED
      BY <1>2, <1>8, <3>1
  <2>6. P * (hi + 1) <= P * C /\ P * C = B /\ P * (hi + 1) = P * hi + P
    BY <1>2, <1>4, <1>8, <2>1, <2>5 DEF P
  <2>7. D * v \in Nat
    BY <1>2, <1>9
  <2>8. QED
    BY <1>2, <1>9, <1>11, <2>1, <2>2, <2>3, <2>6, <2>7
<1>17. new \in Byte
  <2>1. Byte = 0..(B - 1)
    BY DEF Byte, B
  <2>2. QED
    BY <1>2, <1>12, <1>16, <2>1
<1>18. Field(new, l) = v
  BY <1>13, <1>14 DEF Field, D, E
<1>19. ASSUME NEW k, InByte(k), Beside(k, l) PROVE Field(new, k) = Field(b, k)
  <2>1. k.min \in Nat /\ k.n \in Nat /\ k.min \in 0..LongBits
    BY <1>1, <1>19, Widths DEF InByte
  <2>2. CASE k.min + k.n <= l.min
    <3>1. Field(new, k) = Field(new % 2^l.min, k) /\ Field(b, k) = Field(b % 2^l.min, k)
      BY <1>1, <1>5, <1>12, <2>1, <2>2, FieldLow
    <3>2. new % 2^l.min = b % 2^l.min
      BY <1>13 DEF D, lo
    <3>3. QED
      BY <3>1, <3>2
  <2>3. CASE l.min + l.n <= k.min
    <3>1. s <= k.min
      BY <2>3 DEF s
    <3>2. QED
      BY <1>1, <1>5, <1>12, <1>15, <2>1, <3>1, FieldHigh
  <2>4. QED
    BY <1>19, <2>2, <2>3 DEF Beside
<1>20. QED
  BY <1>17, <1>18, <1>19 DEF new
-----------------------------------------------------------------------------
(***************************************************************************)
(* Locations are beside each other.                                        *)
(***************************************************************************)
LEMMA LocationInByte ==
  ASSUME NEW p \in Param, NEW i \in 1..Len(Locations(p))
  PROVE  InByte(Locations(p)[i])
<1> DEFINE l == Locations(p)[i]
<1>1. i \in DOMAIN Locations(p) /\ l.min \in Nat /\ l.n \in Nat \ {0}
  BY Table
<1>2. Bits(l) \subseteq 0..(ByteBits - 1)
  BY <1>1, LocationAssumption
<1> HIDE DEF l
<1>3. l.min + l.n - 1 \in Bits(l)
  BY <1>1 DEF Bits
<1>4. l.min + l.n - 1 <= ByteBits - 1
  BY <1>2, <1>3, Widths
<1>5. QED
  BY <1>1, <1>4, Widths DEF InByte, l

LEMMA LocationsBeside ==
  ASSUME NEW p \in Param, NEW i \in 1..Len(Locations(p)),
         NEW q \in Param, NEW j \in 1..Len(Locations(q)),
         p # q \/ i # j, Locations(p)[i].reg = Locations(q)[j].reg
  PROVE  Beside(Locations(p)[i], Locations(q)[j])
<1> DEFINE l == Locations(p)[i]
           m == Locations(q)[j]
<1>1. /\ i \in DOMAIN Locations(p) /\ l.min \in Nat /\ l.n \in Nat \ {0}
      /\ j \in DOMAIN Locations(q) /\ m.min \in Nat /\ m.n \in Nat \ {0}
  BY Table
<1>5. Bits(l) \cap Bits(m) = {}
  BY <1>1, LocationAssumption
<1> HIDE DEF l, m
<1>6. CASE l.min <= m.min
  <2>1. m.min \in Bits(m)
    BY <1>1 DEF Bits
  <2>2. m.min \notin Bits(l)
    BY <1>5, <2>1
  <2>3. l.min + l.n <= m.min
    BY <1>1, <1>6, <2>2 DEF Bits
  <2>4. QED
    BY <2>3 DEF Beside, l, m
<1>7. CASE m.min <= l.min
  <2>1. l.min \in Bits(l)
    BY <1>1 DEF Bits
  <2>2. l.min \notin Bits(m)
    BY <1>5, <2>1
  <2>3. m.min + m.n <= l.min
    BY <1>1, <1>7, <2>2 DEF Bits
  <2>4. QED
    BY <2>3 DEF Beside, l, m
<1>8. QED
  BY <1>1, <1>6, <1>7
-----------------------------------------------------------------------------
(***************************************************************************)
(* compile.                                                                *)
(***************************************************************************)

\* The bits of a location in registers, and the bits of a value that go there.
Part(g, p, i) == Field(g[Locations(p)[i].reg], Locations(p)[i])
Place(p, i) == [min |-> MinBit(p, i), n |-> Locations(p)[i].n]
Digit(p, v, i) == Field(v, Place(p, i))

LEMMA PlaceIn ==
  ASSUME NEW p \in Param, NEW i \in 1..Len(Locations(p))
  PROVE  /\ Place(p, i).min \in 0..LongBits /\ Place(p, i).n \in 0..LongBits
         /\ Place(p, i).min = MinBit(p, i) /\ Place(p, i).n = Locations(p)[i].n
         /\ MinBit(p, i) \in 0..LongBits /\ MinBit(p, i + 1) \in 0..LongBits
         /\ MinBit(p, i + 1) = MinBit(p, i) + Locations(p)[i].n
         /\ Locations(p)[i].n \in 0..LongBits
<1> DEFINE N == Len(Locations(p))
<1>1. N \in Nat /\ i \in 1..(N + 1) /\ i + 1 \in 1..(N + 1) /\ Locations(p)[i].n \in Nat
  BY Table
<1>2. /\ MinBit(p, i) \in Nat /\ MinBit(p, i + 1) \in Nat
      /\ MinBit(p, i + 1) = MinBit(p, i) + Locations(p)[i].n
  BY <1>1, MinBitNext
<1>3. MinBit(p, i + 1) <= Total(p) /\ Total(p) \in Nat /\ Total(p) <= LongBits
  BY <1>1, MinBitOrder
<1> HIDE DEF N
<1>4. QED
  BY <1>1, <1>2, <1>3, Widths DEF Place

LEMMA DigitIn ==
  ASSUME NEW p \in Param, NEW i \in 1..Len(Locations(p)), NEW v \in Nat
  PROVE  Digit(p, v, i) \in 0..(2^Locations(p)[i].n - 1)
  BY PlaceIn, FieldIn DEF Digit

LEMMA ZeroByte == 0 \in Byte
<1>1. 2^ByteBits \in Nat \ {0}
  BY Power, Widths
<1>2. QED
  BY <1>1 DEF Byte

IsPut(h, g, p, i, v) ==
    /\ h \in Images /\ DOMAIN h = DOMAIN g \cup {Locations(p)[i].reg}
    /\ Part(h, p, i) = v
    /\ \A q \in Param : \A j \in 1..Len(Locations(q)) :
          (p # q \/ i # j) /\ Locations(q)[j].reg \in DOMAIN g => Part(h, q, j) = Part(g, q, j)

LEMMA PutIs ==
  ASSUME NEW g \in Images, NEW p \in Param, NEW i \in 1..Len(Locations(p)),
         NEW v \in 0..(2^Locations(p)[i].n - 1)
  PROVE  IsPut(Put(g, Locations(p)[i], v), g, p, i, v)
<1> DEFINE l == Locations(p)[i]
           old == IF l.reg \in DOMAIN g THEN g[l.reg] ELSE 0
           h == Put(g, l, v)
<1>1. l.reg \in Reg /\ InByte(l)
  BY Table, LocationInByte
<1>2. PICK S \in SUBSET Reg : g \in [S -> Byte]
  BY DEF Images
<1>3. old \in Byte /\ \A r \in DOMAIN g : g[r] \in Byte
  BY <1>2, ZeroByte
<1>4. h = [r \in DOMAIN g \cup {l.reg} |-> IF r = l.reg THEN Replaced(old, l, v) ELSE g[r]]
  BY DEF Put, Replaced
<1>5. v \in 0..(2^l.n - 1)
  OBVIOUS
<1> HIDE DEF l, old, h
<1>6. /\ Replaced(old, l, v) \in Byte /\ Field(Replaced(old, l, v), l) = v
      /\ \A k : InByte(k) /\ Beside(k, l) => Field(Replaced(old, l, v), k) = Field(old, k)
  BY <1>1, <1>3, <1>5, ReplacedIs
<1>7. DOMAIN h = DOMAIN g \cup {l.reg} /\ h \in [DOMAIN g \cup {l.reg} -> Byte]
  BY <1>3, <1>4, <1>6
<1>8. h \in Images
  BY <1>1, <1>2, <1>7 DEF Images
<1>9. h[l.reg] = Replaced(old, l, v)
  BY <1>4
<1>10. Part(h, p, i) = v
  BY <1>6, <1>9 DEF Part, l
<1>11. ASSUME NEW q \in Param, NEW j \in 1..Len(Locations(q)), p # q \/ i # j,
              Locations(q)[j].reg \in DOMAIN g
       PROVE  Part(h, q, j) = Part(g, q, j)
  <2> DEFINE k == Locations(q)[j]
  <2>1. CASE k.reg # l.reg
    <3>1. h[k.reg] = g[k.reg]
      BY <1>4, <1>11, <2>1
    <3>2. QED
      BY <3>1 DEF Part
  <2>2. CASE k.reg = l.reg
    <3>1. InByte(k) /\ Beside(k, l)
      BY <1>11, <2>2, LocationInByte, LocationsBeside DEF l
    <3>2. old = g[l.reg]
      BY <1>11, <2>2 DEF old
    <3>3. Field(h[k.reg], k) = Field(g[k.reg], k)
      BY <1>6, <1>9, <2>2, <3>1, <3>2
    <3>4. QED
      BY <3>3 DEF Part
  <2>3. QED
    BY <2>1, <2>2
<1>12. QED
  BY <1>7, <1>8, <1>10, <1>11 DEF IsPut, h, l

\* The fold of Compile.
Puts(p, v) ==
    [x \in (1..Len(Locations(p))) \X Images |-> Put(x[2], Locations(p)[x[1]], Digit(p, v, x[1]))]

LEMMA PutsIn ==
  ASSUME NEW p \in Param, NEW v \in Nat
  PROVE  /\ Puts(p, v) \in [(1..Len(Locations(p))) \X Images -> Images]
         /\ \A k \in 1..Len(Locations(p)), y \in Images :
               /\ Puts(p, v)[<<k, y>>] = Put(y, Locations(p)[k], Digit(p, v, k))
               /\ Put(y, Locations(p)[k], Digit(p, v, k)) \in Images
<1> DEFINE N == Len(Locations(p))
<1>1. \A k \in 1..N, y \in Images : Put(y, Locations(p)[k], Digit(p, v, k)) \in Images
  BY DigitIn, PutIs DEF IsPut
<1>2. \A x \in (1..N) \X Images : x[1] \in 1..N /\ x[2] \in Images
  OBVIOUS
<1>3. QED
  BY <1>1, <1>2 DEF Puts

LEMMA CompileFold ==
  ASSUME NEW g \in Images, NEW p \in Param, NEW v \in Nat
  PROVE  Gives(Compile(g, p, v), Len(Locations(p)), Images, g, Puts(p, v))
<1> DEFINE n == Len(Locations(p))
           J == [i \in DOMAIN Locations(p) |-> i]
           F == Puts(p, v)
           iter == CHOOSE it : it = [s \in SUBSET DOMAIN J |->
                      IF s = {} THEN g
                      ELSE Put(it[s \ {Max(s)}], Locations(p)[J[Max(s)]],
                               (v \div 2^MinBit(p, J[Max(s)])) % 2^Locations(p)[J[Max(s)]].n)]
<1>1. Compile(g, p, v) = iter[DOMAIN J]
  BY DEF Compile, FoldLeftDomain, FoldLeft, MapThenFoldSet
<1>2. n \in Nat /\ DOMAIN J = 1..n /\ \A k \in 1..n : J[k] = k
  BY Table
<1>3. /\ F \in [(1..n) \X Images -> Images]
      /\ \A k \in 1..n, y \in Images : F[<<k, y>>] = Put(y, Locations(p)[k], Digit(p, v, k))
  BY PutsIn
<1>4. \A k \in 1..n : Digit(p, v, k) = (v \div 2^MinBit(p, k)) % 2^Locations(p)[k].n
  BY DEF Digit, Field, Place
<1> HIDE DEF n, J, F
<1>5. PICK f : Folds(f, n, Images, g, F)
  BY <1>2, <1>3, FoldsExist
<1>6. \A s \in SUBSET (1..n) :
         f[s] = IF s = {} THEN g
                ELSE Put(f[s \ {Max(s)}], Locations(p)[J[Max(s)]],
                         (v \div 2^MinBit(p, J[Max(s)])) % 2^Locations(p)[J[Max(s)]].n)
  <2> SUFFICES ASSUME NEW s \in SUBSET (1..n), s # {}
               PROVE f[s] = Put(f[s \ {Max(s)}], Locations(p)[J[Max(s)]],
                         (v \div 2^MinBit(p, J[Max(s)])) % 2^Locations(p)[J[Max(s)]].n)
    BY <1>5 DEF Folds
  <2> DEFINE m == Max(s)
  <2>1. m \in 1..n /\ J[m] = m
    BY <1>2, MaxIs
  <2>2. f[s \ {m}] \in Images /\ f[s] = F[<<m, f[s \ {m}]>>]
    BY <1>5 DEF Folds
  <2> HIDE DEF m
  <2>3. f[s] = Put(f[s \ {m}], Locations(p)[J[m]],
                   (v \div 2^MinBit(p, J[m])) % 2^Locations(p)[J[m]].n)
    BY <1>3, <1>4, <2>1, <2>2
  <2>4. QED
    BY <2>3 DEF m
<1>7. f = [s \in SUBSET DOMAIN J |->
             IF s = {} THEN g
             ELSE Put(f[s \ {Max(s)}], Locations(p)[J[Max(s)]],
                      (v \div 2^MinBit(p, J[Max(s)])) % 2^Locations(p)[J[Max(s)]].n)]
  BY <1>2, <1>5, <1>6 DEF Folds
<1>8. iter = [s \in SUBSET DOMAIN J |->
                IF s = {} THEN g
                ELSE Put(iter[s \ {Max(s)}], Locations(p)[J[Max(s)]],
                         (v \div 2^MinBit(p, J[Max(s)])) % 2^Locations(p)[J[Max(s)]].n)]
  BY <1>7
<1> HIDE DEF iter
<1>9. iter[{}] = g
  BY <1>8
<1>10. ASSUME NEW k \in 1..n, NEW y \in Images, iter[1..(k - 1)] = y PROVE iter[1..k] = F[<<k, y>>]
  <2>1. k \in Nat \ {0} /\ k <= n /\ k \in 1..k
    BY <1>2
  <2>2. (1..k) \in SUBSET DOMAIN J /\ 1..k # {}
    <3>1. \A x \in 1..k : x \in 1..n
      BY <1>2, <2>1
    <3>2. 1..k \subseteq DOMAIN J
      BY <1>2, <3>1
    <3>3. QED
      BY <2>1, <3>2
  <2>3. Max(1..k) = k /\ (1..k) \ {Max(1..k)} = 1..(k - 1) /\ J[k] = k
    BY <1>2, <2>1, MaxUpTo
  <2>4. iter[1..k] = Put(iter[1..(k - 1)], Locations(p)[J[k]],
                         (v \div 2^MinBit(p, J[k])) % 2^Locations(p)[J[k]].n)
    BY <1>8, <2>2, <2>3
  <2>5. iter[1..k] = Put(y, Locations(p)[k], Digit(p, v, k))
    BY <1>4, <1>10, <2>3, <2>4
  <2>6. QED
    BY <1>3, <2>5
<1>11. Follows(iter, n, Images, g, F)
  BY <1>9, <1>10 DEF Follows
<1>12. Gives(iter[1..n], n, Images, g, F)
  BY <1>2, <1>3, <1>11, PassesIter
<1>13. QED
  BY <1>1, <1>2, <1>12 DEF n, F

\* What it has done after k locations,
After(h, g, p, v, k) ==
    /\ h \in Images /\ DOMAIN h = DOMAIN g \cup {Locations(p)[i].reg : i \in 1..k}
    /\ \A i \in 1..k : Part(h, p, i) = Digit(p, v, i)
    /\ \A q \in Param \ {p} : \A j \in 1..Len(Locations(q)) :
          Locations(q)[j].reg \in DOMAIN g => Part(h, q, j) = Part(g, q, j)

LEMMA AfterNext ==
  ASSUME NEW g \in Images, NEW p \in Param, NEW v \in Nat, NEW k \in 1..Len(Locations(p)),
         NEW h, After(h, g, p, v, k - 1)
  PROVE  After(Put(h, Locations(p)[k], Digit(p, v, k)), g, p, v, k)
<1> DEFINE h2 == Put(h, Locations(p)[k], Digit(p, v, k))
<1>1. /\ h \in Images /\ DOMAIN h = DOMAIN g \cup {Locations(p)[i].reg : i \in 1..(k - 1)}
      /\ \A i \in 1..(k - 1) : Part(h, p, i) = Digit(p, v, i)
      /\ \A q \in Param \ {p} : \A j \in 1..Len(Locations(q)) :
            Locations(q)[j].reg \in DOMAIN g => Part(h, q, j) = Part(g, q, j)
  BY DEF After
<1>2. /\ h2 \in Images /\ DOMAIN h2 = DOMAIN h \cup {Locations(p)[k].reg}
      /\ Part(h2, p, k) = Digit(p, v, k)
      /\ \A q \in Param : \A j \in 1..Len(Locations(q)) :
            (p # q \/ k # j) /\ Locations(q)[j].reg \in DOMAIN h => Part(h2, q, j) = Part(h, q, j)
  <2> DEFINE d == Digit(p, v, k)
  <2>1. d \in 0..(2^Locations(p)[k].n - 1)
    BY DigitIn
  <2>2. h2 = Put(h, Locations(p)[k], d)
    OBVIOUS
  <2> HIDE DEF h2, d
  <2>3. /\ h2 \in Images /\ DOMAIN h2 = DOMAIN h \cup {Locations(p)[k].reg}
        /\ Part(h2, p, k) = d
        /\ \A q \in Param : \A j \in 1..Len(Locations(q)) :
              (p # q \/ k # j) /\ Locations(q)[j].reg \in DOMAIN h => Part(h2, q, j) = Part(h, q, j)
    <3>1. IsPut(h2, h, p, k, d)
      BY <1>1, <2>1, <2>2, PutIs
    <3>2. QED
      BY <3>1 DEF IsPut
  <2>4. QED
    BY <2>3 DEF d
<1> HIDE DEF h2
<1>3. Len(Locations(p)) \in Nat /\ k \in Nat /\ k <= Len(Locations(p))
  BY Table
<1>4. DOMAIN h2 = DOMAIN g \cup {Locations(p)[i].reg : i \in 1..k}
  <2>1. \A i : i \in 1..k <=> i \in 1..(k - 1) \/ i = k
    BY <1>3
  <2>2. QED
    BY <1>1, <1>2, <2>1
<1>5. ASSUME NEW i \in 1..k PROVE Part(h2, p, i) = Digit(p, v, i)
  <2>1. CASE i = k
    BY <1>2, <2>1
  <2>2. CASE i # k
    <3>1. i \in 1..(k - 1) /\ i \in 1..Len(Locations(p))
      BY <1>3, <2>2
    <3>2. Locations(p)[i].reg \in DOMAIN h
      BY <1>1, <3>1
    <3>3. QED
      BY <1>1, <1>2, <2>2, <3>1, <3>2
  <2>3. QED
    BY <2>1, <2>2
<1>6. ASSUME NEW q \in Param \ {p}, NEW j \in 1..Len(Locations(q)),
             Locations(q)[j].reg \in DOMAIN g
      PROVE  Part(h2, q, j) = Part(g, q, j)
  <2>1. Locations(q)[j].reg \in DOMAIN h
    BY <1>1, <1>6
  <2>2. QED
    BY <1>1, <1>2, <1>6, <2>1
<1>7. QED
  BY <1>2, <1>4, <1>5, <1>6 DEF After, h2

\* and after the last of them.
LEMMA CompileIs ==
  ASSUME NEW g \in Images, NEW p \in Param, NEW v \in Nat, NEW h, h = Compile(g, p, v)
  PROVE  h \in Images /\ DOMAIN h = DOMAIN g \cup Regs(p) /\ After(h, g, p, v, Len(Locations(p)))
<1> DEFINE N == Len(Locations(p))
<1>1. N \in Nat
  BY Table
<1>2. PICK a : Passes(a, N, Images, g, Puts(p, v)) /\ h = a[N]
  BY CompileFold DEF Gives
<1>3. /\ a \in [0..N -> Images] /\ a[0] = g
      /\ \A k \in 1..N : a[k] = Put(a[k - 1], Locations(p)[k], Digit(p, v, k))
  <2>1. a \in [0..N -> Images] /\ a[0] = g /\ \A k \in 1..N : a[k] = Puts(p, v)[<<k, a[k - 1]>>]
    BY <1>2 DEF Passes
  <2>2. \A k \in 1..N : a[k - 1] \in Images
    BY <1>1, <2>1
  <2>3. \A k \in 1..N, y \in Images : Puts(p, v)[<<k, y>>] = Put(y, Locations(p)[k], Digit(p, v, k))
    BY PutsIn
  <2> HIDE DEF N
  <2>4. QED
    BY <2>1, <2>2, <2>3
<1> DEFINE T == {k \in 0..N : ~ After(a[k], g, p, v, k)}
<1>4. T = {}
  <2> SUFFICES ASSUME T # {} PROVE FALSE
    OBVIOUS
  <2>1. T \subseteq Nat
    BY <1>1
  <2>2. PICK k \in T : \A m \in T : k <= m
    <3> HIDE DEF T
    <3>1. QED
      BY <2>1, LeastExists
  <2>3. CASE k = 0
    <3>1. After(g, g, p, v, 0)
      <4>1. 1..0 = {}
        OBVIOUS
      <4>2. QED
        BY <4>1 DEF After
    <3>2. QED
      BY <1>3, <2>2, <2>3, <3>1
  <2>4. CASE k # 0
    <3>1. k \in 1..N /\ k - 1 \in 0..N /\ ~ (k <= k - 1)
      BY <1>1, <2>4
    <3>2. After(a[k - 1], g, p, v, k - 1)
      BY <2>2, <3>1
    <3>3. After(a[k], g, p, v, k)
      BY <1>3, <3>1, <3>2, AfterNext
    <3>4. QED
      BY <3>3
  <2>5. QED
    BY <2>3, <2>4
<1>5. After(h, g, p, v, N)
  <2>1. N \in 0..N
    BY <1>1
  <2>2. QED
    BY <1>2, <1>4, <2>1
<1>6. {Locations(p)[i].reg : i \in 1..N} = Regs(p)
  BY Table DEF Regs
<1>7. QED
  BY <1>5, <1>6 DEF After

\* What the loop over settings has done after the parameters in s.
Done(h, g, ps, s) ==
    /\ h \in Images /\ DOMAIN h = DOMAIN g \cup UNION {Regs(p) : p \in s}
    /\ \A p \in s : \A i \in 1..Len(Locations(p)) : Part(h, p, i) = Digit(p, ps[p], i)
    /\ \A q \in Param \ s : \A j \in 1..Len(Locations(q)) :
          Locations(q)[j].reg \in DOMAIN g => Part(h, q, j) = Part(g, q, j)

LEMMA DoneNext ==
  ASSUME NEW g \in Images, NEW ps, NEW s \in SUBSET Param, NEW p \in s, ps[p] \in Nat,
         NEW h, Done(h, g, ps, s \ {p})
  PROVE  Done(Compile(h, p, ps[p]), g, ps, s)
<1> DEFINE h2 == Compile(h, p, ps[p])
<1>1. /\ h \in Images /\ DOMAIN h = DOMAIN g \cup UNION {Regs(q) : q \in s \ {p}}
      /\ \A q \in s \ {p} : \A i \in 1..Len(Locations(q)) : Part(h, q, i) = Digit(q, ps[q], i)
      /\ \A q \in Param \ (s \ {p}) : \A j \in 1..Len(Locations(q)) :
            Locations(q)[j].reg \in DOMAIN g => Part(h, q, j) = Part(g, q, j)
  BY DEF Done
<1>2. p \in Param
  OBVIOUS
<1>3. /\ h2 \in Images /\ DOMAIN h2 = DOMAIN h \cup Regs(p)
      /\ \A i \in 1..Len(Locations(p)) : Part(h2, p, i) = Digit(p, ps[p], i)
      /\ \A q \in Param \ {p} : \A j \in 1..Len(Locations(q)) :
            Locations(q)[j].reg \in DOMAIN h => Part(h2, q, j) = Part(h, q, j)
  <2> DEFINE v == ps[p]
  <2>1. v \in Nat /\ h2 = Compile(h, p, v)
    OBVIOUS
  <2> HIDE DEF h2, v
  <2>2. /\ h2 \in Images /\ DOMAIN h2 = DOMAIN h \cup Regs(p)
        /\ \A i \in 1..Len(Locations(p)) : Part(h2, p, i) = Digit(p, v, i)
        /\ \A q \in Param \ {p} : \A j \in 1..Len(Locations(q)) :
              Locations(q)[j].reg \in DOMAIN h => Part(h2, q, j) = Part(h, q, j)
    <3>1. DOMAIN h2 = DOMAIN h \cup Regs(p) /\ After(h2, h, p, v, Len(Locations(p)))
      BY <1>1, <1>2, <2>1, CompileIs
    <3>2. QED
      BY <3>1 DEF After
  <2>3. QED
    BY <2>2 DEF v
<1> HIDE DEF h2
<1>4. DOMAIN h2 = DOMAIN g \cup UNION {Regs(q) : q \in s}
  <2>1. \A r : r \in UNION {Regs(q) : q \in s} <=> r \in UNION {Regs(q) : q \in s \ {p}} \/ r \in Regs(p)
    <3>1. \A q : q \in s <=> q \in s \ {p} \/ q = p
      OBVIOUS
    <3>2. QED
      BY <3>1
  <2> DEFINE A == UNION {Regs(q) : q \in s}
             B == UNION {Regs(q) : q \in s \ {p}}
  <2> HIDE DEF A, B
  <2>2. A = B \cup Regs(p)
    BY <2>1 DEF A, B
  <2>3. QED
    BY <1>1, <1>3, <2>2 DEF A, B
<1>5. ASSUME NEW q \in s, NEW i \in 1..Len(Locations(q)) PROVE Part(h2, q, i) = Digit(q, ps[q], i)
  <2>1. CASE q = p
    BY <1>3, <2>1
  <2>2. CASE q # p
    <3>1. q \in s \ {p} /\ q \in Param \ {p}
      BY <2>2
    <3>2. Locations(q)[i].reg \in Regs(q)
      BY <3>1, Table
    <3>3. Locations(q)[i].reg \in DOMAIN h
      BY <1>1, <3>1, <3>2
    <3>4. QED
      BY <1>1, <1>3, <3>1, <3>3
  <2>3. QED
    BY <2>1, <2>2
<1>6. ASSUME NEW q \in Param \ s, NEW j \in 1..Len(Locations(q)), Locations(q)[j].reg \in DOMAIN g
      PROVE  Part(h2, q, j) = Part(g, q, j)
  <2>1. q \in Param \ {p} /\ q \in Param \ (s \ {p}) /\ Locations(q)[j].reg \in DOMAIN h
    BY <1>1, <1>6
  <2>2. QED
    BY <1>1, <1>3, <1>6, <2>1
<1>7. QED
  BY <1>3, <1>4, <1>5, <1>6 DEF Done, h2

LEMMA CompileAllIs ==
  ASSUME NEW g \in Images, NEW ps, DOMAIN ps \subseteq Param, \A p \in DOMAIN ps : ps[p] \in Nat
  PROVE  Done(CompileAll(g, ps), g, ps, DOMAIN ps)
<1> DEFINE S == DOMAIN ps
           ch == [s \in SUBSET S |-> CHOOSE x \in s : TRUE]
           F == [x \in S \X Images |-> Compile(x[2], x[1], ps[x[1]])]
           iter == CHOOSE it : it = [s \in SUBSET S |->
                      IF s = {} THEN g
                      ELSE LET p == CHOOSE x \in s : TRUE IN Compile(it[s \ {p}], p, ps[p])]
<1>1. CompileAll(g, ps) = iter[S]
  BY DEF CompileAll, FoldSet, MapThenFoldSet
<1>2. IsFiniteSet(S)
  BY TableAssumption, FS_Subset
<1>3. \A s \in SUBSET S : ch[s] = (CHOOSE x \in s : TRUE) /\ (s # {} => ch[s] \in s /\ ch[s] \in S)
  OBVIOUS
<1>4. \A x \in S \X Images : Compile(x[2], x[1], ps[x[1]]) \in Images
  <2> SUFFICES ASSUME NEW x \in S \X Images PROVE Compile(x[2], x[1], ps[x[1]]) \in Images
    OBVIOUS
  <2>1. x[1] \in Param /\ x[2] \in Images /\ ps[x[1]] \in Nat
    OBVIOUS
  <2>2. QED
    BY <2>1, CompileIs
<1>5. F \in [S \X Images -> Images] /\ \A p \in S, y \in Images : F[<<p, y>>] = Compile(y, p, ps[p])
  BY <1>4
<1> HIDE DEF S, ch, F
<1>6. PICK f : Iterates(f, S, Images, g, F, ch)
  BY <1>2, <1>3, <1>5, FoldExists
<1>7. \A s \in SUBSET S :
         f[s] = IF s = {} THEN g
                ELSE LET p == CHOOSE x \in s : TRUE IN Compile(f[s \ {p}], p, ps[p])
  <2> SUFFICES ASSUME NEW s \in SUBSET S, s # {}
               PROVE f[s] = LET p == CHOOSE x \in s : TRUE IN Compile(f[s \ {p}], p, ps[p])
    BY <1>6 DEF Iterates
  <2> DEFINE p == CHOOSE x \in s : TRUE
  <2>1. p \in S /\ ch[s] = p
    BY <1>3
  <2>2. f[s \ {p}] \in Images /\ f[s] = F[<<p, f[s \ {p}]>>]
    BY <1>6, <2>1 DEF Iterates
  <2> HIDE DEF p
  <2>3. f[s] = Compile(f[s \ {p}], p, ps[p])
    BY <1>5, <2>1, <2>2
  <2>4. QED
    BY <2>3 DEF p
<1>8. f = [s \in SUBSET S |->
             IF s = {} THEN g
             ELSE LET p == CHOOSE x \in s : TRUE IN Compile(f[s \ {p}], p, ps[p])]
  BY <1>6, <1>7 DEF Iterates
<1>9. iter = [s \in SUBSET S |->
             IF s = {} THEN g
             ELSE LET p == CHOOSE x \in s : TRUE IN Compile(iter[s \ {p}], p, ps[p])]
  BY <1>8
<1> HIDE DEF iter
<1>10. \A s \in SUBSET S : IsFiniteSet(s) /\ Cardinality(s) \in Nat
  BY <1>2, FS_Subset, FS_CardinalityType
<1> DEFINE T == {Cardinality(s) : s \in {t \in SUBSET S : ~ Done(iter[t], g, ps, t)}}
<1>11. T = {}
  <2> SUFFICES ASSUME T # {} PROVE FALSE
    OBVIOUS
  <2>1. T \subseteq Nat
    BY <1>10
  <2>2. PICK n \in T : \A m \in T : n <= m
    <3> HIDE DEF T
    <3>1. QED
      BY <2>1, LeastExists
  <2>3. PICK s \in SUBSET S : ~ Done(iter[s], g, ps, s) /\ n = Cardinality(s)
    OBVIOUS
  <2>4. CASE s = {}
    <3>1. iter[s] = g
      BY <1>9, <2>4
    <3>2. Done(g, g, ps, {})
      BY DEF Done
    <3>3. QED
      BY <2>3, <2>4, <3>1, <3>2
  <2>5. CASE s # {}
    <3> DEFINE p == CHOOSE x \in s : TRUE
               t == s \ {p}
    <3>1. p \in s /\ iter[s] = Compile(iter[t], p, ps[p])
      BY <1>9, <2>5
    <3>2. t \in SUBSET S /\ p \in S /\ s \in SUBSET Param /\ ps[p] \in Nat
      BY <3>1 DEF S
    <3> HIDE DEF p
    <3>3. Cardinality(t) = Cardinality(s) - 1
      BY <1>10, <3>1, FS_RemoveElement
    <3>4. ~ (n <= Cardinality(t))
      BY <1>10, <2>3, <3>3
    <3>5. Done(iter[t], g, ps, t)
      BY <2>2, <3>2, <3>4
    <3>6. Done(iter[s], g, ps, s)
      <4> DEFINE u == iter[t]
      <4>1. Done(u, g, ps, s \ {p})
        BY <3>5
      <4> HIDE DEF u, t
      <4>2. Done(Compile(u, p, ps[p]), g, ps, s)
        BY <3>1, <3>2, <4>1, DoneNext
      <4>3. QED
        BY <3>1, <4>2 DEF u
    <3>7. QED
      BY <2>3, <3>6
  <2>6. QED
    BY <2>4, <2>5
<1>12. Done(iter[S], g, ps, S)
  BY <1>11
<1>13. QED
  BY <1>1, <1>12 DEF S
-----------------------------------------------------------------------------
(***************************************************************************)
(* What the bits of a parameter stand for.                                 *)
(***************************************************************************)
HasBytes(g, p) == \A r \in Regs(p) : g[r] \in Byte

LEMMA PartIn ==
  ASSUME NEW p \in Param, NEW g, HasBytes(g, p), NEW i \in 1..Len(Locations(p))
  PROVE  Part(g, p, i) \in Nat /\ Part(g, p, i) \in 0..(2^Locations(p)[i].n - 1)
<1> DEFINE l == Locations(p)[i]
<1>1. g[l.reg] \in Byte /\ l.min \in Nat /\ l.n \in Nat
  BY Table DEF HasBytes
<1>2. l.min \in 0..LongBits /\ l.n \in 0..LongBits
  BY <1>1, LocationInByte, Widths DEF InByte
<1>3. 2^ByteBits \in Nat
  BY Power, Widths
<1>4. g[l.reg] \in Nat
  BY <1>1, <1>3 DEF Byte
<1> HIDE DEF l
<1>5. Field(g[l.reg], l) \in Nat /\ Field(g[l.reg], l) \in 0..(2^l.n - 1)
  BY <1>2, <1>4, FieldIn
<1>6. QED
  BY <1>5 DEF Part, l

\* The fold of Held.
Adds(g, p) ==
    [x \in (1..Len(Locations(p))) \X Nat |-> x[2] + Part(g, p, x[1]) * 2^MinBit(p, x[1])]

LEMMA AddsIn ==
  ASSUME NEW p \in Param, NEW g, HasBytes(g, p)
  PROVE  /\ Adds(g, p) \in [(1..Len(Locations(p))) \X Nat -> Nat]
         /\ \A k \in 1..Len(Locations(p)), y \in Nat :
               Adds(g, p)[<<k, y>>] = y + Part(g, p, k) * 2^MinBit(p, k)
<1> DEFINE N == Len(Locations(p))
<1>1. \A k \in 1..N : Part(g, p, k) \in Nat /\ 2^MinBit(p, k) \in Nat
  BY PartIn, PlaceIn, Power
<1>2. \A a, b, c \in Nat : a + b * c \in Nat
  OBVIOUS
<1> HIDE DEF N
<1>3. \A x \in (1..N) \X Nat : x[2] + Part(g, p, x[1]) * 2^MinBit(p, x[1]) \in Nat
  BY <1>1, <1>2
<1>4. QED
  BY <1>3 DEF Adds, N

LEMMA HeldFold ==
  ASSUME NEW p \in Param, NEW g, HasBytes(g, p)
  PROVE  Gives(Held(g, p), Len(Locations(p)), Nat, 0, Adds(g, p))
<1> DEFINE n == Len(Locations(p))
           J == [i \in DOMAIN Locations(p) |-> i]
           F == Adds(g, p)
           iter == CHOOSE it : it = [s \in SUBSET DOMAIN J |->
                      IF s = {} THEN 0
                      ELSE it[s \ {Max(s)}]
                           + Field(g[Locations(p)[J[Max(s)]].reg], Locations(p)[J[Max(s)]])
                             * 2^MinBit(p, J[Max(s)])]
<1>1. Held(g, p) = iter[DOMAIN J]
  BY DEF Held, FoldLeftDomain, FoldLeft, MapThenFoldSet
<1>2. n \in Nat /\ DOMAIN J = 1..n /\ \A k \in 1..n : J[k] = k
  BY Table
<1>3. /\ F \in [(1..n) \X Nat -> Nat]
      /\ \A k \in 1..n, y \in Nat : F[<<k, y>>] = y + Part(g, p, k) * 2^MinBit(p, k)
  BY AddsIn
<1>4. \A k \in 1..n : Part(g, p, k) = Field(g[Locations(p)[k].reg], Locations(p)[k])
  BY DEF Part
<1> HIDE DEF n, J, F
<1>5. PICK f : Folds(f, n, Nat, 0, F)
  BY <1>2, <1>3, FoldsExist
<1>6. \A s \in SUBSET (1..n) :
         f[s] = IF s = {} THEN 0
                ELSE f[s \ {Max(s)}]
                     + Field(g[Locations(p)[J[Max(s)]].reg], Locations(p)[J[Max(s)]])
                       * 2^MinBit(p, J[Max(s)])
  <2> SUFFICES ASSUME NEW s \in SUBSET (1..n), s # {}
               PROVE f[s] = f[s \ {Max(s)}]
                     + Field(g[Locations(p)[J[Max(s)]].reg], Locations(p)[J[Max(s)]])
                       * 2^MinBit(p, J[Max(s)])
    BY <1>5 DEF Folds
  <2> DEFINE m == Max(s)
  <2>1. m \in 1..n /\ J[m] = m
    BY <1>2, MaxIs
  <2>2. f[s \ {m}] \in Nat /\ f[s] = F[<<m, f[s \ {m}]>>]
    BY <1>5 DEF Folds
  <2> HIDE DEF m
  <2>3. f[s] = f[s \ {m}] + Field(g[Locations(p)[J[m]].reg], Locations(p)[J[m]]) * 2^MinBit(p, J[m])
    BY <1>3, <1>4, <2>1, <2>2
  <2>4. QED
    BY <2>3 DEF m
<1>7. f = [s \in SUBSET DOMAIN J |->
             IF s = {} THEN 0
             ELSE f[s \ {Max(s)}]
                  + Field(g[Locations(p)[J[Max(s)]].reg], Locations(p)[J[Max(s)]])
                    * 2^MinBit(p, J[Max(s)])]
  BY <1>2, <1>5, <1>6 DEF Folds
<1>8. iter = [s \in SUBSET DOMAIN J |->
                IF s = {} THEN 0
                ELSE iter[s \ {Max(s)}]
                     + Field(g[Locations(p)[J[Max(s)]].reg], Locations(p)[J[Max(s)]])
                       * 2^MinBit(p, J[Max(s)])]
  BY <1>7
<1> HIDE DEF iter
<1>9. iter[{}] = 0
  BY <1>8
<1>10. ASSUME NEW k \in 1..n, NEW y \in Nat, iter[1..(k - 1)] = y PROVE iter[1..k] = F[<<k, y>>]
  <2>1. k \in Nat \ {0} /\ k <= n /\ k \in 1..k
    BY <1>2
  <2>2. (1..k) \in SUBSET DOMAIN J /\ 1..k # {}
    <3>1. \A x \in 1..k : x \in 1..n
      BY <1>2, <2>1
    <3>2. 1..k \subseteq DOMAIN J
      BY <1>2, <3>1
    <3>3. QED
      BY <2>1, <3>2
  <2>3. Max(1..k) = k /\ (1..k) \ {Max(1..k)} = 1..(k - 1) /\ J[k] = k
    BY <1>2, <2>1, MaxUpTo
  <2>4. iter[1..k] = iter[1..(k - 1)]
                     + Field(g[Locations(p)[J[k]].reg], Locations(p)[J[k]]) * 2^MinBit(p, J[k])
    BY <1>8, <2>2, <2>3
  <2>5. iter[1..k] = y + Part(g, p, k) * 2^MinBit(p, k)
    BY <1>4, <1>10, <2>3, <2>4
  <2>6. QED
    BY <1>3, <2>5
<1>11. Follows(iter, n, Nat, 0, F)
  BY <1>9, <1>10 DEF Follows
<1>12. Gives(iter[1..n], n, Nat, 0, F)
  <2>1. 0 \in Nat
    OBVIOUS
  <2>2. QED
    BY <1>2, <1>3, <1>11, <2>1, PassesIter
<1>13. QED
  BY <1>1, <1>2, <1>12 DEF n, F

\* The partial sums.
Sums(h, g, p) ==
    /\ h \in [0..Len(Locations(p)) -> Nat] /\ h[0] = 0 /\ Held(g, p) = h[Len(Locations(p))]
    /\ \A k \in 1..Len(Locations(p)) : h[k] = h[k - 1] + Part(g, p, k) * 2^MinBit(p, k)

LEMMA HeldSums == ASSUME NEW p \in Param, NEW g, HasBytes(g, p) PROVE \E h : Sums(h, g, p)
<1> DEFINE N == Len(Locations(p))
<1>1. PICK h : Passes(h, N, Nat, 0, Adds(g, p)) /\ Held(g, p) = h[N]
  BY HeldFold DEF Gives
<1>2. h \in [0..N -> Nat] /\ h[0] = 0 /\ \A k \in 1..N : h[k] = Adds(g, p)[<<k, h[k - 1]>>]
  BY <1>1 DEF Passes
<1>3. N \in Nat
  BY Table
<1>4. \A k \in 1..N : h[k - 1] \in Nat
  BY <1>2, <1>3
<1>5. \A k \in 1..N, y \in Nat : Adds(g, p)[<<k, y>>] = y + Part(g, p, k) * 2^MinBit(p, k)
  BY AddsIn
<1> HIDE DEF N
<1>6. \A k \in 1..N : h[k] = h[k - 1] + Part(g, p, k) * 2^MinBit(p, k)
  BY <1>2, <1>4, <1>5
<1>7. QED
  BY <1>1, <1>2, <1>6 DEF Sums, N

LEMMA RemainderNext ==
  ASSUME NEW v \in Nat, NEW a \in Nat, NEW k \in Nat, a + k <= LongBits
  PROVE  v % 2^(a + k) = (v % 2^a) + ((v \div 2^a) % 2^k) * 2^a
<1> DEFINE A == 2^a
           K == 2^k
           q == v \div A
           r == v % A
           x == q \div K
           z == q % K
<1>1. 2^(a + k) = A * K /\ A \in Nat \ {0} /\ K \in Nat \ {0}
  BY PowerAdd, Power, Widths
<1> HIDE DEF A, K
<1>2. q \in Nat /\ r \in 0..(A - 1) /\ v = A * q + r
  BY <1>1, Division
<1> HIDE DEF q, r
<1>3. x \in Nat /\ z \in 0..(K - 1) /\ q = K * x + z
  BY <1>1, <1>2, Division
<1> HIDE DEF x, z
<1> DEFINE B == A * K
           w == A * z + r
<1>4. B \in Nat \ {0} /\ A * z \in Nat /\ K * x \in Nat /\ z \in Nat
  BY <1>1, <1>3
<1>5. A * q = B * x + A * z
  <2> DEFINE e == K * x
  <2>1. q = e + z /\ e \in Nat /\ A * e = B * x
    BY <1>1, <1>3
  <2> HIDE DEF e, B
  <2>2. \A b, c, d \in Nat : b * (c + d) = b * c + b * d
    OBVIOUS
  <2>3. A * q = A * e + A * z
    BY <1>1, <1>4, <2>1, <2>2
  <2>4. QED
    BY <2>1, <2>3
<1>6. w \in 0..(B - 1)
  <2>1. A * z <= A * (K - 1)
    BY <1>1, <1>3
  <2>2. A * (K - 1) = B - A
    BY <1>1
  <2> HIDE DEF B
  <2>3. QED
    BY <1>1, <1>2, <1>4, <2>1, <2>2
<1>7. B * x \in Nat
  BY <1>3, <1>4
<1> HIDE DEF B
<1>8. v = B * x + w
  BY <1>1, <1>2, <1>4, <1>5, <1>7
<1> HIDE DEF w
<1>9. v % B = w
  <2>1. x \in Int
    BY <1>3
  <2>2. QED
    BY <1>4, <1>6, <1>8, <2>1, DivisionIs
<1>10. w = r + z * A
  BY <1>1, <1>2, <1>3 DEF w
<1>11. QED
  BY <1>1, <1>9, <1>10 DEF B, A, K, q, r, z

\* Bits that are those of a number that fits stand for the number,
LEMMA HeldOfDigits ==
  ASSUME NEW p \in Param, NEW g, HasBytes(g, p), NEW v \in Nat, v < 2^Total(p),
         \A i \in 1..Len(Locations(p)) : Part(g, p, i) = Digit(p, v, i)
  PROVE  Held(g, p) = v
<1> DEFINE N == Len(Locations(p))
           M(i) == MinBit(p, i)
<1>1. N \in Nat
  BY Table
<1>2. PICK h : Sums(h, g, p)
  BY HeldSums
<1>3. h[0] = 0 /\ Held(g, p) = h[N] /\ \A k \in 1..N : h[k] = h[k - 1] + Digit(p, v, k) * 2^M(k)
  BY <1>2 DEF Sums
<1>4. M(1) = 0 /\ Total(p) = M(N + 1)
  BY MinBitNext DEF Total
<1>5. \A k \in 1..N : M(k) \in 0..LongBits /\ M(k + 1) \in 0..LongBits
                      /\ M(k + 1) = M(k) + Locations(p)[k].n /\ Locations(p)[k].n \in 0..LongBits
  BY PlaceIn
<1>6. \A k \in 1..N : Digit(p, v, k) = (v \div 2^M(k)) % 2^Locations(p)[k].n
  BY DEF Digit, Field, Place
<1> DEFINE h2 == [k \in 0..N |-> v % 2^M(k + 1)]
<1> HIDE DEF N, M
<1>7. h2[0] = h[0]
  <2>1. 2^0 = 1 /\ v % 1 = 0 /\ 0 \in 0..N /\ 0 + 1 = 1
    BY <1>1
  <2>2. QED
    BY <1>3, <1>4, <2>1
<1>8. ASSUME NEW k \in 1..N, h2[k - 1] = h[k - 1] PROVE h2[k] = h[k]
  <2>1. k \in 0..N /\ k - 1 \in 0..N /\ (k - 1) + 1 = k
    BY <1>1
  <2>2. h[k - 1] = v % 2^M(k)
    BY <1>8, <2>1
  <2> DEFINE a == M(k)
             b == Locations(p)[k].n
  <2>3. a \in Nat /\ b \in Nat /\ a + b <= LongBits /\ M(k + 1) = a + b
    BY <1>5, Widths
  <2> HIDE DEF a, b
  <2>4. v % 2^(a + b) = (v % 2^a) + ((v \div 2^a) % 2^b) * 2^a
    BY <2>3, RemainderNext
  <2>5. h[k] = (v % 2^a) + ((v \div 2^a) % 2^b) * 2^a
    BY <1>3, <1>6, <2>2 DEF a, b
  <2>6. QED
    BY <2>1, <2>3, <2>4, <2>5
<1>9. InStep(h2, h, N)
  BY <1>7, <1>8 DEF InStep
<1>10. N \in 0..N /\ h2[N] = v % 2^M(N + 1)
  BY <1>1
<1> HIDE DEF h2
<1>11. h2[N] = h[N]
  BY <1>1, <1>9, <1>10, PassesOnce
<1> DEFINE P == 2^Total(p)
<1>12. v % P = v
  <2>1. P \in Nat \ {0}
    BY MinBitOrder, Power
  <2>2. 0 \in Int /\ v \in 0..(P - 1) /\ v = P * 0 + v
    <3> HIDE DEF P
    <3>1. v < P
      BY DEF P
    <3>2. QED
      BY <2>1, <3>1
  <2> HIDE DEF P
  <2>3. QED
    BY <2>1, <2>2, DivisionIs
<1>13. QED
  BY <1>3, <1>4, <1>10, <1>11, <1>12

\* and the number bits stand for has these bits.
SumIs(y, g, p, k) ==
    /\ y \in Nat /\ y < 2^MinBit(p, k + 1)
    /\ \A i \in 1..k : Digit(p, y, i) = Part(g, p, i)

LEMMA SumNext ==
  ASSUME NEW p \in Param, NEW g, HasBytes(g, p), NEW k \in 1..Len(Locations(p)),
         NEW y, SumIs(y, g, p, k - 1)
  PROVE  SumIs(y + Part(g, p, k) * 2^MinBit(p, k), g, p, k)
<1> DEFINE M == MinBit(p, k)
           n == Locations(p)[k].n
           d == Part(g, p, k)
           A == 2^M
           E == 2^n
           w == y + d * A
<1>1. k \in Nat /\ (k - 1) + 1 = k /\ Len(Locations(p)) \in Nat /\ k \in 1..(Len(Locations(p)) + 1)
  BY Table
<1>2. M \in 0..LongBits /\ n \in 0..LongBits /\ MinBit(p, k + 1) = M + n /\ M + n \in 0..LongBits
  BY PlaceIn
<1>3. A \in Nat \ {0} /\ E \in Nat \ {0}
  BY <1>2, Power
<1>4. 2^(M + n) = A * E
  <2>1. M \in Nat /\ n \in Nat /\ M + n <= LongBits + 1
    BY <1>2, Widths
  <2> HIDE DEF M, n
  <2>2. 2^(M + n) = 2^M * 2^n
    BY <2>1, PowerAdd
  <2>3. QED
    BY <2>2
<1>5. d \in Nat /\ d \in 0..(E - 1)
  BY PartIn
<1>6. y \in Nat /\ y < A /\ \A i \in 1..(k - 1) : Digit(p, y, i) = Part(g, p, i)
  BY <1>1 DEF SumIs
<1>7. Place(p, k).min = M /\ Place(p, k).n = n
  BY PlaceIn
<1>8. \A i \in 1..(k - 1) : MinBit(p, i) + Locations(p)[i].n <= M
  BY <1>1, MinBitOrder
<1> HIDE DEF M, n, d, A, E
<1>9. d * A \in Nat /\ w \in Nat /\ w = A * d + y /\ y \in 0..(A - 1) /\ d \in Int
  BY <1>3, <1>5, <1>6
<1> HIDE DEF w
<1>10. w \div A = d /\ w % A = y
  BY <1>3, <1>9, DivisionIs
<1>11. d % E = d
  <2>1. 0 \in Int /\ d = E * 0 + d
    BY <1>3, <1>5
  <2>2. QED
    BY <1>3, <1>5, <2>1, DivisionIs
<1>12. Digit(p, w, k) = d
  BY <1>7, <1>10, <1>11 DEF Digit, Field, A, E
<1>13. ASSUME NEW i \in 1..(k - 1) PROVE Digit(p, w, i) = Part(g, p, i)
  <2> DEFINE l == Place(p, i)
  <2>1. i \in 1..Len(Locations(p))
    BY <1>1
  <2>2. l.min \in Nat /\ l.n \in Nat /\ l.min + l.n <= M /\ l.min \in 0..LongBits
    <3>1. l.min \in 0..LongBits /\ l.n \in 0..LongBits
      BY <2>1, PlaceIn
    <3>2. l.min = MinBit(p, i) /\ l.n = Locations(p)[i].n
      BY <2>1, PlaceIn
    <3> HIDE DEF l
    <3>3. QED
      BY <1>8, <3>1, <3>2
  <2> HIDE DEF l
  <2>3. Field(w, l) = Field(w % 2^M, l)
    BY <1>2, <1>9, <2>2, FieldLow
  <2>4. Field(w, l) = Field(y, l)
    BY <1>10, <2>3 DEF A
  <2>5. QED
    BY <1>6, <2>4 DEF Digit, l
<1>14. w < 2^MinBit(p, k + 1)
  <2>1. A * d <= A * (E - 1)
    BY <1>3, <1>5
  <2>2. A * (E - 1) = A * E - A /\ A * d \in Nat /\ A * E \in Nat
    BY <1>3, <1>5
  <2>3. w < A * E
    BY <1>3, <1>9, <2>1, <2>2
  <2>4. QED
    BY <1>2, <1>4, <2>3
<1>15. \A i \in 1..k : i = k \/ i \in 1..(k - 1)
  BY <1>1
<1>16. SumIs(w, g, p, k)
  BY <1>9, <1>12, <1>13, <1>14, <1>15 DEF SumIs, d
<1>17. QED
  BY <1>16 DEF w, d, A, M

LEMMA SumUpTo ==
  ASSUME NEW p \in Param, NEW g, HasBytes(g, p), NEW h, Sums(h, g, p),
         NEW m \in 0..Len(Locations(p))
  PROVE  SumIs(h[m], g, p, m)
<1> DEFINE N == Len(Locations(p))
<1>1. N \in Nat /\ MinBit(p, 1) = 0
  BY Table, MinBitNext
<1>2. h[0] = 0 /\ \A k \in 1..N : h[k] = h[k - 1] + Part(g, p, k) * 2^MinBit(p, k)
  BY DEF Sums
<1> DEFINE T == {k \in 0..N : ~ SumIs(h[k], g, p, k)}
<1>3. T = {}
  <2> SUFFICES ASSUME T # {} PROVE FALSE
    OBVIOUS
  <2>1. T \subseteq Nat
    BY <1>1
  <2>2. PICK k \in T : \A j \in T : k <= j
    <3> HIDE DEF T
    <3>1. QED
      BY <2>1, LeastExists
  <2>3. CASE k = 0
    <3>1. 1..0 = {} /\ 0 + 1 = 1
      OBVIOUS
    <3>2. MinBit(p, 0 + 1) = 0
      BY <1>1, <3>1
    <3>3. 0 < 2^MinBit(p, 0 + 1)
      <4>1. MinBit(p, 0 + 1) \in 0..LongBits
        BY <3>2, Widths
      <4>2. 2^MinBit(p, 0 + 1) \in Nat \ {0}
        BY <4>1, Power
      <4>3. QED
        BY <4>2
    <3>4. \A i \in 1..0 : Digit(p, 0, i) = Part(g, p, i)
      BY <3>1
    <3>5. SumIs(0, g, p, 0)
      BY <3>3, <3>4 DEF SumIs
    <3>6. QED
      BY <1>2, <2>2, <2>3, <3>5
  <2>4. CASE k # 0
    <3>1. k \in 1..N /\ k - 1 \in 0..N /\ ~ (k <= k - 1)
      BY <1>1, <2>4
    <3>2. SumIs(h[k - 1], g, p, k - 1)
      BY <2>2, <3>1
    <3>3. SumIs(h[k - 1] + Part(g, p, k) * 2^MinBit(p, k), g, p, k)
      BY <3>1, <3>2, SumNext
    <3>4. QED
      BY <1>2, <3>1, <3>3
  <2>5. QED
    BY <2>3, <2>4
<1>4. QED
  BY <1>3

LEMMA DigitsOfHeld ==
  ASSUME NEW p \in Param, NEW g, HasBytes(g, p)
  PROVE  /\ Held(g, p) \in Nat /\ Held(g, p) < 2^Total(p)
         /\ \A i \in 1..Len(Locations(p)) : Digit(p, Held(g, p), i) = Part(g, p, i)
<1> DEFINE N == Len(Locations(p))
<1>1. N \in 0..N
  BY Table
<1>2. PICK h : Sums(h, g, p)
  BY HeldSums
<1>3. SumIs(Held(g, p), g, p, N)
  <2>1. Held(g, p) = h[N]
    BY <1>2 DEF Sums
  <2>2. SumIs(h[N], g, p, N)
    BY <1>1, <1>2, SumUpTo
  <2>3. QED
    BY <2>1, <2>2
<1>4. QED
  BY <1>3 DEF SumIs, Total

LEMMA SameParts ==
  ASSUME NEW p \in Param, NEW g, NEW h
  PROVE  Fields(g, p) = Fields(h, p) <=> \A i \in 1..Len(Locations(p)) : Part(g, p, i) = Part(h, p, i)
<1>1. DOMAIN Locations(p) = 1..Len(Locations(p))
  BY Table
<1>2. \A i \in DOMAIN Locations(p) : Fields(g, p)[i] = Part(g, p, i) /\ Fields(h, p)[i] = Part(h, p, i)
  BY DEF Fields, Part
<1>3. ASSUME Fields(g, p) = Fields(h, p), NEW i \in 1..Len(Locations(p))
      PROVE  Part(g, p, i) = Part(h, p, i)
  BY <1>1, <1>2, <1>3
<1>4. ASSUME \A i \in 1..Len(Locations(p)) : Part(g, p, i) = Part(h, p, i)
      PROVE  Fields(g, p) = Fields(h, p)
  BY <1>1, <1>4 DEF Fields, Part
<1>5. QED
  BY <1>3, <1>4

LEMMA ChipBytes == ASSUME NEW g \in Chips, NEW p \in Param PROVE HasBytes(g, p)
  BY RegNat DEF HasBytes, Chips

LEMMA FieldsExact == HeldByFields
<1>1. ASSUME NEW p \in Param, NEW g \in Chips, NEW h \in Chips
      PROVE  Fields(g, p) = Fields(h, p) <=> Held(g, p) = Held(h, p)
  <2>1. HasBytes(g, p) /\ HasBytes(h, p)
    BY ChipBytes
  <2>2. /\ Held(h, p) \in Nat /\ Held(h, p) < 2^Total(p)
        /\ \A i \in 1..Len(Locations(p)) : Digit(p, Held(h, p), i) = Part(h, p, i)
        /\ \A i \in 1..Len(Locations(p)) : Digit(p, Held(g, p), i) = Part(g, p, i)
    BY <2>1, DigitsOfHeld
  <2>3. ASSUME \A i \in 1..Len(Locations(p)) : Part(g, p, i) = Part(h, p, i)
        PROVE  Held(g, p) = Held(h, p)
    <3> DEFINE v == Held(h, p)
    <3>1. v \in Nat /\ v < 2^Total(p) /\ \A i \in 1..Len(Locations(p)) : Part(g, p, i) = Digit(p, v, i)
      BY <2>2, <2>3
    <3> HIDE DEF v
    <3>2. Held(g, p) = v
      BY <2>1, <3>1, HeldOfDigits
    <3>3. QED
      BY <3>2 DEF v
  <2>4. ASSUME Held(g, p) = Held(h, p)
        PROVE  \A i \in 1..Len(Locations(p)) : Part(g, p, i) = Part(h, p, i)
    BY <2>2, <2>4
  <2>5. QED
    BY <2>3, <2>4, SameParts
<1>2. ASSUME NEW p \in Param PROVE Regs(p) # {}
  <2>1. 1 \in 1..Len(Locations(p))
    BY Table
  <2>2. QED
    BY <2>1, Table
<1>3. QED
  <2> SUFFICES ASSUME NEW p \in Param
               PROVE LET both == {<<Fields(g, p), Held(g, p)>> : g \in Chips}
                     IN  Regs(p) # {} /\ \A x, y \in both : x[1] = y[1] <=> x[2] = y[2]
    BY DEF HeldByFields
  <2> DEFINE both == {<<Fields(g, p), Held(g, p)>> : g \in Chips}
  <2>1. ASSUME NEW x \in both, NEW y \in both PROVE x[1] = y[1] <=> x[2] = y[2]
    <3>1. PICK g \in Chips : x = <<Fields(g, p), Held(g, p)>>
      OBVIOUS
    <3>2. PICK h \in Chips : y = <<Fields(h, p), Held(h, p)>>
      OBVIOUS
    <3>3. x[1] = Fields(g, p) /\ x[2] = Held(g, p) /\ y[1] = Fields(h, p) /\ y[2] = Held(h, p)
      BY <3>1, <3>2
    <3>4. QED
      BY <1>1, <3>3
  <2>2. QED
    BY <1>2, <2>1
-----------------------------------------------------------------------------
(***************************************************************************)
(* The settings of files.                                                  *)
(***************************************************************************)
Sets(ps, node) ==
    LET named == node.pages \X DOMAIN node.settings
    IN  [p \in DOMAIN ps \cup named |-> IF p \in named THEN node.settings[p[2]] ELSE ps[p]]

\* Numbers for the names in D and others.
Numbers(D, U) == UNION {[S -> Nat] : S \in {X \in SUBSET U : D \subseteq X}}

LEMMA NumbersSet ==
  ASSUME NEW D, NEW U, NEW ps \in Numbers(D, U), NEW node,
         node.pages \X DOMAIN node.settings \subseteq U,
         \A name \in DOMAIN node.settings : node.settings[name] \in Nat
  PROVE  Sets(ps, node) \in Numbers(D, U)
<1> DEFINE named == node.pages \X DOMAIN node.settings
           new == Sets(ps, node)
<1>1. PICK S \in SUBSET U : D \subseteq S /\ ps \in [S -> Nat]
  BY DEF Numbers
<1>2. \A p \in named : node.settings[p[2]] \in Nat
  OBVIOUS
<1>3. new = [p \in S \cup named |-> IF p \in named THEN node.settings[p[2]] ELSE ps[p]]
  BY <1>1 DEF Sets
<1> HIDE DEF named, new
<1>4. new \in [S \cup named -> Nat]
  BY <1>1, <1>2, <1>3
<1>5. S \cup named \in {X \in SUBSET U : D \subseteq X}
  BY <1>1 DEF named
<1>6. new \in Numbers(D, U)
  BY <1>4, <1>5 DEF Numbers
<1>7. QED
  BY <1>6 DEF new

\* The fold of Extract.
Reads(file, G) == [x \in (1..Len(file)) \X G |-> Sets(x[2], file[x[1]])]

LEMMA ExtractFold ==
  ASSUME NEW file, Len(file) \in Nat, DOMAIN file = 1..Len(file), NEW G, NEW settings \in G,
         \A k \in 1..Len(file), y \in G : Sets(y, file[k]) \in G
  PROVE  Gives(Extract(settings, file), Len(file), G, settings, Reads(file, G))
<1> DEFINE n == Len(file)
           F == Reads(file, G)
           iter == CHOOSE it : it = [s \in SUBSET DOMAIN file |->
                      IF s = {} THEN settings ELSE Sets(it[s \ {Max(s)}], file[Max(s)])]
<1>1. Extract(settings, file) = iter[DOMAIN file]
  BY DEF Extract, FoldLeft, MapThenFoldSet, Sets
<1>2. n \in Nat /\ DOMAIN file = 1..n
  OBVIOUS
<1>3. F \in [(1..n) \X G -> G] /\ \A k \in 1..n, y \in G : F[<<k, y>>] = Sets(y, file[k])
  BY DEF Reads
<1> HIDE DEF n, F
<1>5. PICK f : Folds(f, n, G, settings, F)
  BY <1>2, <1>3, FoldsExist
<1>6. \A s \in SUBSET (1..n) :
         f[s] = IF s = {} THEN settings ELSE Sets(f[s \ {Max(s)}], file[Max(s)])
  <2> SUFFICES ASSUME NEW s \in SUBSET (1..n), s # {}
               PROVE f[s] = Sets(f[s \ {Max(s)}], file[Max(s)])
    BY <1>5 DEF Folds
  <2> DEFINE m == Max(s)
  <2>1. m \in 1..n
    BY <1>2, MaxIs
  <2>2. f[s \ {m}] \in G /\ f[s] = F[<<m, f[s \ {m}]>>]
    BY <1>5 DEF Folds
  <2> HIDE DEF m
  <2>3. f[s] = Sets(f[s \ {m}], file[m])
    BY <1>3, <2>1, <2>2
  <2>4. QED
    BY <2>3 DEF m
<1>7. f = [s \in SUBSET DOMAIN file |->
             IF s = {} THEN settings ELSE Sets(f[s \ {Max(s)}], file[Max(s)])]
  BY <1>2, <1>5, <1>6 DEF Folds
<1>8. iter = [s \in SUBSET DOMAIN file |->
                IF s = {} THEN settings ELSE Sets(iter[s \ {Max(s)}], file[Max(s)])]
  BY <1>7
<1> HIDE DEF iter
<1>9. iter[{}] = settings
  BY <1>8
<1>10. ASSUME NEW k \in 1..n, NEW y \in G, iter[1..(k - 1)] = y PROVE iter[1..k] = F[<<k, y>>]
  <2>1. k \in Nat \ {0} /\ k <= n /\ k \in 1..k
    BY <1>2
  <2>2. (1..k) \in SUBSET DOMAIN file /\ 1..k # {}
    <3>1. \A x \in 1..k : x \in 1..n
      BY <1>2, <2>1
    <3>2. 1..k \subseteq DOMAIN file
      BY <1>2, <3>1
    <3>3. QED
      BY <2>1, <3>2
  <2>3. Max(1..k) = k /\ (1..k) \ {Max(1..k)} = 1..(k - 1)
    BY <2>1, MaxUpTo
  <2>4. iter[1..k] = Sets(iter[1..(k - 1)], file[k])
    BY <1>8, <2>2, <2>3
  <2>5. iter[1..k] = Sets(y, file[k])
    BY <1>10, <2>4
  <2>6. QED
    BY <1>3, <2>5
<1>11. Follows(iter, n, G, settings, F)
  BY <1>9, <1>10 DEF Follows
<1>12. Gives(iter[1..n], n, G, settings, F)
  BY <1>2, <1>3, <1>11, PassesIter
<1>13. QED
  BY <1>1, <1>2, <1>12 DEF n, F

LEMMA ExtractIs ==
  ASSUME NEW file \in FileChoices, NEW D, NEW settings \in [D -> Nat]
  PROVE  LET ps == Extract(settings, file)
         IN  D \subseteq DOMAIN ps /\ \A p \in DOMAIN ps : ps[p] \in Nat
<1> DEFINE n == Len(file)
           named(i) == file[i].pages \X DOMAIN file[i].settings
           U == D \cup UNION {named(i) : i \in 1..n}
           G == Numbers(D, U)
           ps == Extract(settings, file)
<1>1. /\ n \in Nat /\ DOMAIN file = 1..n
      /\ \A i \in 1..n : \A name \in DOMAIN file[i].settings : file[i].settings[name] \in Nat
  BY ValueAssumption
<1>2. \A i \in 1..n : named(i) \subseteq U
  OBVIOUS
<1>3. settings \in G
  BY DEF Numbers
<1>4. \A k \in 1..n, y \in G : Sets(y, file[k]) \in G
  <2> HIDE DEF U
  <2>1. QED
    BY <1>1, <1>2, NumbersSet
<1> HIDE DEF G, n
<1>5. Gives(ps, n, G, settings, Reads(file, G))
  BY <1>1, <1>3, <1>4, ExtractFold DEF n
<1>6. PICK h : Passes(h, n, G, settings, Reads(file, G)) /\ ps = h[n]
  BY <1>5 DEF Gives
<1>7. ps \in G
  BY <1>1, <1>6 DEF Passes
<1> HIDE DEF ps, U
<1>8. D \subseteq DOMAIN ps /\ \A p \in DOMAIN ps : ps[p] \in Nat
  BY <1>7 DEF G, Numbers
<1>9. QED
  BY <1>8 DEF ps
-----------------------------------------------------------------------------
LEMMA SettingsAre ==
  ASSUME NEW ps \in Settings PROVE \A p \in DOMAIN ps : ps[p] \in Nat
<1>1. CASE ps \in ScopeChoices \cup PokeChoices
  BY <1>1, ValueAssumption
<1>2. CASE ps \in {Extract(<<>>, file) : file \in FileChoices}
  <2>1. PICK file \in FileChoices : ps = Extract(<<>>, file)
    BY <1>2
  <2>2. <<>> \in [{} -> Nat]
    OBVIOUS
  <2>3. QED
    BY <2>1, <2>2, ExtractIs
<1>3. QED
  BY <1>1, <1>2 DEF Settings

\* Registers that hold the bits of a value hold the value.
LEMMA DoneHeld ==
  ASSUME NEW p \in Param, NEW g, HasBytes(g, p), NEW v \in Nat, Fits(p, v),
         \A i \in 1..Len(Locations(p)) : Part(g, p, i) = Digit(p, v, i)
  PROVE  Held(g, p) = v
  BY HeldOfDigits DEF Fits

LEMMA OverlayIsExact == OverlayExact
<1> SUFFICES ASSUME NEW g \in Chips, NEW ps \in Settings, Accepted(ps)
             PROVE  LET new == CompileAll([r \in Selected(ps) |-> g[r]], ps)
                    IN  /\ new \in [Selected(ps) -> Byte]
                        /\ \A p \in DOMAIN ps : Held(Over(g, new), p) = ps[p]
                        /\ \A p \in Param \ DOMAIN ps : Fields(Over(g, new), p) = Fields(g, p)
  BY DEF OverlayExact
<1> DEFINE old == [r \in Selected(ps) |-> g[r]]
           new == CompileAll(old, ps)
           all == Over(g, new)
<1>1. /\ DOMAIN ps \subseteq Param
      /\ \A p \in DOMAIN ps : ps[p] \in Nat /\ Fits(p, ps[p])
  BY SettingsAre DEF Accepted
<1>2. Selected(ps) \subseteq Reg /\ \A p \in DOMAIN ps : Regs(p) \subseteq Selected(ps)
  BY <1>1, RegNat DEF Selected
<1>3. \A r \in Reg : g[r] \in Byte
  BY DEF Chips
<1>4. old \in Images /\ DOMAIN old = Selected(ps)
  <2>1. old \in [Selected(ps) -> Byte]
    BY <1>2, <1>3
  <2>2. QED
    BY <1>2, <2>1 DEF Images
<1>5. \A r \in Selected(ps) : old[r] = g[r]
  OBVIOUS
<1> HIDE DEF old
<1>6. Done(new, old, ps, DOMAIN ps)
  BY <1>1, <1>4, CompileAllIs
<1> HIDE DEF new
<1>7. DOMAIN new = Selected(ps)
  BY <1>2, <1>4, <1>6 DEF Done
<1>8. new \in [Selected(ps) -> Byte]
  BY <1>6, <1>7 DEF Done, Images
<1>9. \A r \in Reg : all[r] = IF r \in Selected(ps) THEN new[r] ELSE g[r]
  BY <1>7 DEF Over
<1>10. \A r \in Reg : all[r] \in Byte
  BY <1>3, <1>8, <1>9
<1> HIDE DEF all
<1>11. \A p \in Param : HasBytes(all, p)
  BY <1>10, RegNat DEF HasBytes
<1>12. ASSUME NEW p \in DOMAIN ps PROVE Held(all, p) = ps[p]
  <2>1. ASSUME NEW i \in 1..Len(Locations(p)) PROVE Part(all, p, i) = Digit(p, ps[p], i)
    <3>1. Locations(p)[i].reg \in Selected(ps) /\ Locations(p)[i].reg \in Reg
      BY <1>1, <1>2, Table
    <3>2. Part(all, p, i) = Part(new, p, i)
      BY <1>9, <3>1 DEF Part
    <3>3. QED
      BY <1>6, <3>2 DEF Done
  <2> DEFINE v == ps[p]
  <2>2. v \in Nat /\ Fits(p, v) /\ HasBytes(all, p) /\ p \in Param
    BY <1>1, <1>11
  <2>3. \A i \in 1..Len(Locations(p)) : Part(all, p, i) = Digit(p, v, i)
    BY <2>1
  <2> HIDE DEF v
  <2>4. Held(all, p) = v
    BY <2>2, <2>3, DoneHeld
  <2>5. QED
    BY <2>4 DEF v
<1>13. ASSUME NEW p \in Param \ DOMAIN ps PROVE Fields(all, p) = Fields(g, p)
  <2>1. ASSUME NEW i \in 1..Len(Locations(p)) PROVE Part(all, p, i) = Part(g, p, i)
    <3> DEFINE r == Locations(p)[i].reg
    <3>1. r \in Reg
      BY Table
    <3>2. CASE r \in Selected(ps)
      <4>1. Part(new, p, i) = Part(old, p, i)
        BY <1>4, <1>6, <3>2 DEF Done
      <4>2. Part(all, p, i) = Part(new, p, i) /\ Part(old, p, i) = Part(g, p, i)
        BY <1>5, <1>9, <3>1, <3>2 DEF Part
      <4>3. QED
        BY <4>1, <4>2
    <3>3. CASE r \notin Selected(ps)
      BY <1>9, <3>1, <3>3 DEF Part
    <3>4. QED
      BY <3>2, <3>3
  <2>2. QED
    BY <2>1, SameParts
<1>14. QED
  BY <1>8, <1>12, <1>13 DEF all, new, old

LEMMA CompiledIs ==
  ASSUME NEW g \in Images, NEW ps, DOMAIN ps = Param, Accepted(ps), \A p \in Param : ps[p] \in Nat
  PROVE  Compiled(CompileAll(g, ps), ps)
<1> DEFINE h == CompileAll(g, ps)
<1>1. Done(h, g, ps, Param)
  BY CompileAllIs
<1> HIDE DEF h
<1>2. DOMAIN g \subseteq Reg
  BY DEF Images
<1>3. DOMAIN h = Reg /\ h \in Images
  BY <1>1, <1>2 DEF Done, Reg
<1>4. h \in Chips
  BY <1>3 DEF Images, Chips
<1>5. ASSUME NEW p \in Param PROVE Held(h, p) = ps[p]
  <2> DEFINE v == ps[p]
  <2>1. v \in Nat /\ Fits(p, v) /\ HasBytes(h, p)
    BY <1>4, ChipBytes DEF Accepted
  <2>2. \A i \in 1..Len(Locations(p)) : Part(h, p, i) = Digit(p, v, i)
    BY <1>1 DEF Done
  <2> HIDE DEF v
  <2>3. Held(h, p) = v
    BY <2>1, <2>2, DoneHeld
  <2>4. QED
    BY <2>3 DEF v
<1>6. QED
  BY <1>4, <1>5 DEF Compiled, h

LEMMA DefaultsAre ==
  Defaults \in [Param -> Nat] /\ DOMAIN Defaults = Param /\ Accepted(Defaults)
  BY DefaultAssumption DEF Defaults, Accepted

LEMMA LoadIsExact == LoadExact
<1>1. <<>> \in Images
  <2>1. <<>> \in [{} -> Byte]
    OBVIOUS
  <2>2. QED
    BY <2>1 DEF Images
<1>2. [r \in Reg |-> 0] \in Images
  <2>1. [r \in Reg |-> 0] \in [Reg -> Byte]
    BY ZeroByte
  <2>2. QED
    BY <2>1 DEF Images
<1>3. ASSUME NEW file \in FileChoices, Accepted(Extract(Defaults, file))
      PROVE  Compiled(CompileAll(<<>>, Extract(Defaults, file)), Extract(Defaults, file))
  <2> DEFINE ps == Extract(Defaults, file)
  <2>1. Param \subseteq DOMAIN ps /\ \A p \in DOMAIN ps : ps[p] \in Nat
    BY DefaultsAre, ExtractIs
  <2>2. DOMAIN ps = Param /\ Accepted(ps)
    BY <1>3, <2>1 DEF Accepted
  <2> HIDE DEF ps
  <2>3. Compiled(CompileAll(<<>>, ps), ps)
    BY <1>1, <2>1, <2>2, CompiledIs
  <2>4. QED
    BY <2>3 DEF ps
<1>4. Compiled(CompileAll([r \in Reg |-> 0], Defaults), Defaults)
  BY <1>2, DefaultsAre, CompiledIs
<1>5. QED
  BY <1>3, <1>4 DEF LoadExact

\* The compiler is exact: what a parameter holds is the bits of its locations, settings
\* that are compiled onto the registers they touch have their values then and leave the
\* bits of the other parameters alone, and a compilation of all the parameters gives a
\* whole chip that holds each of them.
THEOREM CompilerCorrect == CompilerExact
  BY FieldsExact, OverlayIsExact, LoadIsExact DEF CompilerExact
-----------------------------------------------------------------------------
(***************************************************************************)
(* Parameters and chips.                                                   *)
(***************************************************************************)

\* The bits of a parameter are in its registers.
LEMMA FieldsLocal ==
  ASSUME NEW p \in Param, NEW g, NEW h, \A r \in Regs(p) : g[r] = h[r]
  PROVE  Fields(g, p) = Fields(h, p)
<1>1. \A i \in DOMAIN Locations(p) : Locations(p)[i].reg \in Regs(p)
  BY DEF Regs
<1>2. QED
  BY <1>1 DEF Fields, Field

\* Of two chips with the same bits of a parameter, any mixture has them too.
LEMMA FieldsMixed ==
  ASSUME NEW p \in Param, NEW g, NEW h, NEW m, Fields(g, p) = Fields(h, p),
         \A r \in Regs(p) : m[r] = g[r] \/ m[r] = h[r]
  PROVE  Fields(m, p) = Fields(g, p)
<1>1. \A i \in DOMAIN Locations(p) : Locations(p)[i].reg \in Regs(p)
  BY DEF Regs
<1>2. \A i \in DOMAIN Locations(p) : Fields(g, p)[i] = Fields(h, p)[i]
  OBVIOUS
<1>3. ASSUME NEW i \in DOMAIN Locations(p)
      PROVE  Field(m[Locations(p)[i].reg], Locations(p)[i]) = Field(g[Locations(p)[i].reg], Locations(p)[i])
  <2>1. Field(g[Locations(p)[i].reg], Locations(p)[i]) = Field(h[Locations(p)[i].reg], Locations(p)[i])
    BY <1>2 DEF Fields
  <2>2. m[Locations(p)[i].reg] = g[Locations(p)[i].reg] \/ m[Locations(p)[i].reg] = h[Locations(p)[i].reg]
    BY <1>1
  <2>3. QED
    BY <2>1, <2>2
<1>4. QED
  BY <1>3 DEF Fields

LEMMA HeldSame ==
  ASSUME NEW p \in Param, NEW g \in Chips, NEW h \in Chips
  PROVE  Fields(g, p) = Fields(h, p) <=> Held(g, p) = Held(h, p)
<1> DEFINE both == {<<Fields(f, p), Held(f, p)>> : f \in Chips}
<1>1. \A x, y \in both : x[1] = y[1] <=> x[2] = y[2]
  BY CompilerCorrect DEF CompilerExact, HeldByFields
<1>2. <<Fields(g, p), Held(g, p)>> \in both /\ <<Fields(h, p), Held(h, p)>> \in both
  OBVIOUS
<1> HIDE DEF both
<1>3. QED
  BY <1>1, <1>2

LEMMA HeldLocal ==
  ASSUME NEW p \in Param, NEW g \in Chips, NEW h \in Chips,
         \A r \in Regs(p) : g[r] = h[r]
  PROVE  Held(g, p) = Held(h, p)
  BY FieldsLocal, HeldSame

LEMMA HasRegs == ASSUME NEW p \in Param PROVE Regs(p) # {}
  BY CompilerCorrect DEF CompilerExact, HeldByFields

\* What applyParameters writes.
LEMMA OverlayIs ==
  ASSUME NEW b \in Chips, NEW ps \in Settings, Accepted(ps),
         NEW new, new = CompileAll([r \in Selected(ps) |-> b[r]], ps)
  PROVE  /\ Selected(ps) \subseteq Reg /\ DOMAIN ps \subseteq Param
         /\ new \in [Selected(ps) -> Byte] /\ new \in Images /\ Over(b, new) \in Chips
         /\ [r \in Selected(ps) |-> b[r]] \in Images
         /\ \A p \in DOMAIN ps : Regs(p) \subseteq Selected(ps) /\ Held(Over(b, new), p) = ps[p]
         /\ \A p \in Param \ DOMAIN ps : Fields(Over(b, new), p) = Fields(b, p)
<1>1. /\ new \in [Selected(ps) -> Byte]
      /\ \A p \in DOMAIN ps : Held(Over(b, new), p) = ps[p]
      /\ \A p \in Param \ DOMAIN ps : Fields(Over(b, new), p) = Fields(b, p)
  BY CompilerCorrect DEF CompilerExact, OverlayExact
<1>2. DOMAIN ps \subseteq Param
  BY DEF Accepted
<1>3. Selected(ps) \subseteq Reg /\ \A p \in DOMAIN ps : Regs(p) \subseteq Selected(ps)
  BY <1>2, RegNat DEF Selected
<1>4. \A r \in Reg : b[r] \in Byte
  BY DEF Chips
<1>5. Over(b, new) \in Chips
  BY <1>1, <1>4 DEF Over, Chips
<1>6. [r \in Selected(ps) |-> b[r]] \in [Selected(ps) -> Byte]
  BY <1>3, <1>4
<1>7. QED
  BY <1>1, <1>2, <1>3, <1>5, <1>6 DEF Images
-----------------------------------------------------------------------------
(***************************************************************************)
(* What the open scopes make of a chip.  A handle of hs puts its registers *)
(* back when it goes: c is what the chip b will be when all but the first  *)
(* k of the handles have gone.                                             *)
(***************************************************************************)
Handles ==
    {h \in [kind : {"open"}, params : Settings, saved : Images, suspect : SUBSET Param] :
        Accepted(h.params) /\ DOMAIN h.saved = Selected(h.params)}

Saved(hs, k, r) == \E j \in (k + 1)..Len(hs) : r \in DOMAIN hs[j].saved

IsUnder(hs, c, b, k) ==
    \A r \in Reg :
        \/ \E j \in (k + 1)..Len(hs) :
              /\ r \in DOMAIN hs[j].saved /\ c[r] = hs[j].saved[r]
              /\ \A i \in (k + 1)..(j - 1) : r \notin DOMAIN hs[i].saved
        \/ ~Saved(hs, k, r) /\ c[r] = b[r]

\* p will be suspect when all but the first k handles have gone.
Doubt(hs, sus, k, p) ==
    /\ p \in sus
    /\ \A j \in (k + 1)..Len(hs) : Regs(p) \subseteq DOMAIN hs[j].saved => p \in hs[j].suspect

\* v is the setting of p by the first k scopes, or the permanent one.
IsSet(hs, int, k, p, v) ==
    \/ \E i \in 1..k :
          /\ p \in DOMAIN hs[i].params /\ v = hs[i].params[p]
          /\ \A j \in (i + 1)..k : p \notin DOMAIN hs[j].params
    \/ (\A i \in 1..k : p \notin DOMAIN hs[i].params) /\ v = int[p]

\* However many of the handles go, the innermost first, View is true then.
Levels(hs, sus, int, b) ==
    \A k \in 0..Len(hs), c \in Chips, p \in Param :
        IsUnder(hs, c, b, k) /\ ~Doubt(hs, sus, k, p) => IsSet(hs, int, k, p, Held(c, p))

LEMMA NextRegIn == ASSUME todo \subseteq Reg, todo # {} PROVE NextReg \in todo
  BY RegNat, LeastExists DEF NextReg

\* The same handles over another chip.
SameUnder(hs, k, d, b, c, b2) ==
    /\ IsUnder(hs, d, b, k)
    /\ \A r \in Reg : \/ Saved(hs, k, r) /\ d[r] = c[r]
                      \/ ~Saved(hs, k, r) /\ d[r] = b[r] /\ c[r] = b2[r]

LEMMA Rebase ==
  ASSUME NEW hs, NEW k, NEW b \in Chips, NEW b2 \in Chips, NEW c \in Chips, IsUnder(hs, c, b2, k)
  PROVE  \E d \in Chips : SameUnder(hs, k, d, b, c, b2)
<1> DEFINE d == [r \in Reg |-> IF Saved(hs, k, r) THEN c[r] ELSE b[r]]
<1>1. d \in Chips
  BY DEF Chips
<1>2. \A r \in Reg : d[r] = IF Saved(hs, k, r) THEN c[r] ELSE b[r]
  OBVIOUS
<1> HIDE DEF d
<1>3. \A r \in Reg : ~Saved(hs, k, r) => c[r] = b2[r]
  BY DEF IsUnder, Saved
<1>4. IsUnder(hs, d, b, k)
  <2> SUFFICES ASSUME NEW r \in Reg
               PROVE \/ \E j \in (k + 1)..Len(hs) :
                           /\ r \in DOMAIN hs[j].saved /\ d[r] = hs[j].saved[r]
                           /\ \A i \in (k + 1)..(j - 1) : r \notin DOMAIN hs[i].saved
                     \/ ~Saved(hs, k, r) /\ d[r] = b[r]
    BY DEF IsUnder
  <2>1. CASE Saved(hs, k, r)
    <3>1. d[r] = c[r]
      BY <1>2, <2>1
    <3>2. QED
      BY <2>1, <3>1 DEF IsUnder
  <2>2. CASE ~Saved(hs, k, r)
    BY <1>2, <2>2
  <2>3. QED
    BY <2>1, <2>2
<1>5. QED
  BY <1>1, <1>2, <1>3, <1>4 DEF SameUnder

\* What a parameter holds is right at a level whatever happens to other bits.
LEMMA SameBits ==
  ASSUME NEW hs, NEW sus, NEW int, NEW b \in Chips, NEW b2 \in Chips,
         NEW k \in 0..Len(hs), NEW c \in Chips, NEW p \in Param,
         Levels(hs, sus, int, b), IsUnder(hs, c, b2, k), ~Doubt(hs, sus, k, p),
         Fields(b, p) = Fields(b2, p)
  PROVE  IsSet(hs, int, k, p, Held(c, p))
<1>1. PICK d \in Chips : SameUnder(hs, k, d, b, c, b2)
  BY Rebase
<1>2. Fields(d, p) = Fields(c, p)
  <2>1. \A i \in DOMAIN Locations(p) : Locations(p)[i].reg \in Reg
    BY RegNat DEF Regs
  <2>2. ASSUME NEW i \in DOMAIN Locations(p)
        PROVE  Field(d[Locations(p)[i].reg], Locations(p)[i]) = Field(c[Locations(p)[i].reg], Locations(p)[i])
    <3> DEFINE l == Locations(p)[i]
    <3>1. Fields(b, p)[i] = Fields(b2, p)[i]
      OBVIOUS
    <3>2. Field(b[l.reg], l) = Field(b2[l.reg], l)
      BY <3>1 DEF Fields
    <3>3. d[l.reg] = c[l.reg] \/ (d[l.reg] = b[l.reg] /\ c[l.reg] = b2[l.reg])
      BY <1>1, <2>1 DEF SameUnder
    <3> HIDE DEF l
    <3>4. Field(d[l.reg], l) = Field(c[l.reg], l)
      BY <3>2, <3>3
    <3>5. QED
      BY <3>4 DEF l
  <2>3. QED
    BY <2>2 DEF Fields
<1>3. Held(d, p) = Held(c, p)
  BY <1>2, HeldSame
<1>4. IsSet(hs, int, k, p, Held(d, p))
  BY <1>1 DEF Levels, SameUnder
<1>5. QED
  BY <1>3, <1>4

\* Nothing is above the last level: there c is the chip itself.
LEMMA TopIsChip ==
  ASSUME NEW hs, Len(hs) \in Nat, NEW b \in Chips
  PROVE  /\ IsUnder(hs, b, b, Len(hs))
         /\ \A c \in Chips : IsUnder(hs, c, b, Len(hs)) => c = b
         /\ \A sus, p : Doubt(hs, sus, Len(hs), p) <=> p \in sus
<1>1. \A j \in (Len(hs) + 1)..Len(hs) : FALSE
  OBVIOUS
<1>2. \A r : ~Saved(hs, Len(hs), r)
  BY <1>1 DEF Saved
<1>3. ASSUME NEW c \in Chips, IsUnder(hs, c, b, Len(hs)) PROVE c = b
  <2>1. \A r \in Reg : c[r] = b[r]
    BY <1>1, <1>3 DEF IsUnder
  <2>2. QED
    BY <2>1 DEF Chips
<1>4. IsUnder(hs, b, b, Len(hs))
  BY <1>2 DEF IsUnder
<1>5. \A sus, p : Doubt(hs, sus, Len(hs), p) <=> p \in sus
  BY <1>1 DEF Doubt
<1>6. QED
  BY <1>3, <1>4, <1>5

LEMMA LevelsTop ==
  ASSUME NEW hs, Len(hs) \in Nat, NEW sus, NEW int, NEW b \in Chips, Levels(hs, sus, int, b)
  PROVE  \A p \in Param \ sus : IsSet(hs, int, Len(hs), p, Held(b, p))
  BY TopIsChip DEF Levels

\* Without a scope open a parameter has its permanent setting.
LEMMA LevelsNone ==
  ASSUME NEW sus, NEW int, NEW b \in Chips
  PROVE  Levels(<<>>, sus, int, b) <=> \A p \in Param \ sus : Held(b, p) = int[p]
<1>1. Len(<<>>) = 0 /\ 0..Len(<<>>) = {0}
  OBVIOUS
<1>2. \A p, v : IsSet(<<>>, int, 0, p, v) <=> v = int[p]
  BY DEF IsSet
<1>3. /\ IsUnder(<<>>, b, b, 0)
      /\ \A c \in Chips : IsUnder(<<>>, c, b, 0) => c = b
      /\ \A p : Doubt(<<>>, sus, 0, p) <=> p \in sus
  BY <1>1, TopIsChip
<1>4. QED
  BY <1>1, <1>2, <1>3 DEF Levels

\* A handle keeps the registers of the parameters it sets.
LEMMA HandleHas ==
  ASSUME NEW h \in Handles
  PROVE  /\ DOMAIN h.params \subseteq Param /\ h.params \in Settings /\ Accepted(h.params)
         /\ DOMAIN h.saved = Selected(h.params) /\ DOMAIN h.saved \subseteq Reg
         /\ h.saved \in Images /\ h.suspect \subseteq Param
         /\ \A r \in DOMAIN h.saved : h.saved[r] \in Byte
         /\ \A p \in DOMAIN h.params : Regs(p) \subseteq DOMAIN h.saved
<1>1. /\ h.params \in Settings /\ Accepted(h.params) /\ h.saved \in Images
      /\ h.suspect \subseteq Param /\ DOMAIN h.saved = Selected(h.params)
  BY DEF Handles
<1>2. DOMAIN h.params \subseteq Param
  BY <1>1 DEF Accepted
<1>3. DOMAIN h.saved \subseteq Reg /\ \A r \in DOMAIN h.saved : h.saved[r] \in Byte
  BY <1>1 DEF Images
<1>4. \A p \in DOMAIN h.params : Regs(p) \subseteq Selected(h.params)
  BY DEF Selected
<1>5. QED
  BY <1>1, <1>2, <1>3, <1>4

\* A scope opens: below it, everything is what it was.
LEMMA LevelsPush ==
  ASSUME NEW hs \in Seq(Handles), NEW h \in Handles, NEW int,
         NEW b \in Chips, h.saved = [r \in Selected(h.params) |-> b[r]],
         NEW new, new = CompileAll(h.saved, h.params), Levels(hs, h.suspect, int, b)
  PROVE  Levels(Append(hs, h), h.suspect, int, Over(b, new))
<1> DEFINE hs2 == Append(hs, h)
           n == Len(hs)
           b2 == Over(b, new)
           sus == h.suspect
           ps == h.params
<1>1. /\ n \in Nat /\ Len(hs2) = n + 1 /\ hs2[n + 1] = h
      /\ \A i \in 1..n : hs2[i] = hs[i]
  BY AppendProperties
<1>2. /\ DOMAIN h.saved = Selected(ps) /\ ps \in Settings /\ Accepted(ps)
      /\ \A r \in DOMAIN h.saved : h.saved[r] = b[r]
  BY HandleHas
<1>3. new = CompileAll([r \in Selected(ps) |-> b[r]], ps)
  OBVIOUS
<1>4. /\ new \in [Selected(ps) -> Byte] /\ b2 \in Chips
      /\ \A p \in DOMAIN ps : Held(b2, p) = ps[p]
      /\ \A p \in Param \ DOMAIN ps : Fields(b2, p) = Fields(b, p)
  <2> HIDE DEF ps
  <2>1. QED
    BY <1>2, <1>3, OverlayIs
<1>5. \A r \in Reg : r \notin Selected(ps) => b2[r] = b[r]
  BY <1>4 DEF Over
<1> HIDE DEF hs2, n, b2, sus, ps
<1>6. ASSUME NEW k \in 0..n, NEW c \in Chips, NEW p \in Param,
             IsUnder(hs2, c, b2, k), ~Doubt(hs2, sus, k, p)
      PROVE  IsSet(hs2, int, k, p, Held(c, p))
  <2>1. IsUnder(hs, c, b, k)
    <3> SUFFICES ASSUME NEW r \in Reg
                 PROVE \/ \E j \in (k + 1)..n :
                             /\ r \in DOMAIN hs[j].saved /\ c[r] = hs[j].saved[r]
                             /\ \A i \in (k + 1)..(j - 1) : r \notin DOMAIN hs[i].saved
                       \/ ~Saved(hs, k, r) /\ c[r] = b[r]
      BY DEF IsUnder, n
    <3>1. (\A i \in (k + 1)..n : r \notin DOMAIN hs2[i].saved) => ~Saved(hs, k, r)
      BY <1>1 DEF Saved, n
    <3>2. CASE \E j \in (k + 1)..(n + 1) :
                  /\ r \in DOMAIN hs2[j].saved /\ c[r] = hs2[j].saved[r]
                  /\ \A i \in (k + 1)..(j - 1) : r \notin DOMAIN hs2[i].saved
      <4>1. PICK j \in (k + 1)..(n + 1) :
                  /\ r \in DOMAIN hs2[j].saved /\ c[r] = hs2[j].saved[r]
                  /\ \A i \in (k + 1)..(j - 1) : r \notin DOMAIN hs2[i].saved
        BY <3>2
      <4>2. CASE j = n + 1
        <5>1. \A i \in (k + 1)..n : r \notin DOMAIN hs2[i].saved
          BY <1>1, <4>1, <4>2
        <5>2. c[r] = b[r]
          BY <1>1, <1>2, <4>1, <4>2
        <5>3. QED
          BY <3>1, <5>1, <5>2
      <4>3. CASE j # n + 1
        <5>1. j \in (k + 1)..n /\ j \in 1..n
          BY <1>1, <4>3
        <5>2. \A i \in (k + 1)..(j - 1) : i \in 1..n
          BY <1>1, <5>1
        <5>3. QED
          BY <1>1, <4>1, <5>1, <5>2
      <4>4. QED
        BY <4>2, <4>3
    <3>3. CASE ~Saved(hs2, k, r) /\ c[r] = b2[r]
      <4>1. \A i \in (k + 1)..(n + 1) : r \notin DOMAIN hs2[i].saved
        BY <1>1, <3>3 DEF Saved
      <4>2. r \notin Selected(ps)
        BY <1>1, <1>2, <4>1
      <4>3. \A i \in (k + 1)..n : r \notin DOMAIN hs2[i].saved
        BY <1>1, <4>1
      <4>4. QED
        BY <1>5, <3>1, <3>3, <4>2, <4>3
    <3>4. QED
      BY <1>1, <1>6, <3>2, <3>3 DEF IsUnder
  <2>2. ~Doubt(hs, sus, k, p)
    <3> SUFFICES ASSUME Doubt(hs, sus, k, p) PROVE Doubt(hs2, sus, k, p)
      BY <1>6
    <3>1. p \in sus /\ \A j \in (k + 1)..n : Regs(p) \subseteq DOMAIN hs[j].saved => p \in hs[j].suspect
      BY DEF Doubt, n
    <3>2. ASSUME NEW j \in (k + 1)..(n + 1), Regs(p) \subseteq DOMAIN hs2[j].saved
          PROVE  p \in hs2[j].suspect
      <4>1. CASE j = n + 1
        BY <1>1, <3>1, <4>1 DEF sus
      <4>2. CASE j # n + 1
        <5>1. j \in (k + 1)..n /\ hs2[j] = hs[j]
          BY <1>1, <4>2
        <5>2. QED
          BY <3>1, <3>2, <5>1
      <4>3. QED
        BY <4>1, <4>2
    <3>3. QED
      BY <1>1, <3>1, <3>2 DEF Doubt
  <2>3. IsSet(hs, int, k, p, Held(c, p))
    BY <2>1, <2>2 DEF Levels, n, sus
  <2>4. \A i \in 1..k : hs2[i] = hs[i]
    BY <1>1
  <2>5. \A i \in 1..k : \A j \in (i + 1)..k : hs2[j] = hs[j]
    BY <1>1
  <2>6. QED
    BY <2>3, <2>4, <2>5 DEF IsSet
<1>7. ASSUME NEW c \in Chips, NEW p \in Param,
             IsUnder(hs2, c, b2, n + 1), ~Doubt(hs2, sus, n + 1, p)
      PROVE  IsSet(hs2, int, n + 1, p, Held(c, p))
  <2>1. c = b2 /\ p \notin sus
    BY <1>1, <1>4, <1>7, TopIsChip
  <2>2. CASE p \in DOMAIN ps
    <3>1. Held(c, p) = hs2[n + 1].params[p] /\ p \in DOMAIN hs2[n + 1].params
      BY <1>1, <1>4, <2>1, <2>2 DEF ps
    <3>2. n + 1 \in 1..(n + 1) /\ \A j \in ((n + 1) + 1)..(n + 1) : FALSE
      BY <1>1
    <3>3. QED
      BY <3>1, <3>2 DEF IsSet
  <2>3. CASE p \notin DOMAIN ps
    <3>1. Held(c, p) = Held(b, p)
      BY <1>4, <2>1, <2>3, HeldSame
    <3>2. IsSet(hs, int, n, p, Held(b, p))
      BY <1>1, <2>1, LevelsTop DEF n, sus
    <3>3. p \notin DOMAIN hs2[n + 1].params
      BY <1>1, <2>3 DEF ps
    <3>4. CASE \E i \in 1..n : /\ p \in DOMAIN hs[i].params /\ Held(b, p) = hs[i].params[p]
                               /\ \A j \in (i + 1)..n : p \notin DOMAIN hs[j].params
      <4>1. PICK i \in 1..n : /\ p \in DOMAIN hs[i].params /\ Held(b, p) = hs[i].params[p]
                              /\ \A j \in (i + 1)..n : p \notin DOMAIN hs[j].params
        BY <3>4
      <4>2. i \in 1..(n + 1) /\ p \in DOMAIN hs2[i].params /\ Held(c, p) = hs2[i].params[p]
        BY <1>1, <3>1, <4>1
      <4>3. ASSUME NEW j \in (i + 1)..(n + 1) PROVE p \notin DOMAIN hs2[j].params
        <5>1. j = n + 1 \/ (j \in (i + 1)..n /\ j \in 1..n)
          BY <1>1
        <5>2. QED
          BY <1>1, <3>3, <4>1, <5>1
      <4>4. QED
        BY <4>2, <4>3 DEF IsSet
    <3>5. CASE (\A i \in 1..n : p \notin DOMAIN hs[i].params) /\ Held(b, p) = int[p]
      <4>1. ASSUME NEW i \in 1..(n + 1) PROVE p \notin DOMAIN hs2[i].params
        <5>1. i = n + 1 \/ i \in 1..n
          BY <1>1
        <5>2. QED
          BY <1>1, <3>3, <3>5, <5>1
      <4>2. QED
        BY <3>1, <3>5, <4>1 DEF IsSet
    <3>6. QED
      BY <3>2, <3>4, <3>5 DEF IsSet
  <2>4. QED
    BY <2>2, <2>3
<1>8. \A k \in 0..(n + 1) : k \in 0..n \/ k = n + 1
  BY <1>1
<1>9. Levels(hs2, sus, int, b2)
  BY <1>1, <1>6, <1>7, <1>8 DEF Levels
<1>10. QED
  BY <1>9 DEF hs2, sus, b2

\* A scope closes: the level below is what the chip holds now.
LEMMA LevelsPop ==
  ASSUME NEW hs \in Seq(Handles), hs # <<>>, NEW h, h = hs[Len(hs)], NEW sus, NEW int,
         NEW b \in Chips, Levels(hs, sus, int, b)
  PROVE  Levels(SubSeq(hs, 1, Len(hs) - 1),
                {p \in sus : Regs(p) \subseteq DOMAIN h.saved => p \in h.suspect},
                int, Over(b, h.saved))
<1> DEFINE n == Len(hs)
           hs1 == SubSeq(hs, 1, n - 1)
           b2 == Over(b, h.saved)
           sus2 == {p \in sus : Regs(p) \subseteq DOMAIN h.saved => p \in h.suspect}
<1>1. n \in Nat /\ n > 0 /\ hs[n] = h
  BY EmptySeq, LenProperties
<1>2. Len(hs1) = n - 1 /\ \A i \in 1..(n - 1) : hs1[i] = hs[i]
  <2>1. \A i \in 1..(n - 1) : hs[i] \in Handles
    <3>1. \A i \in 1..(n - 1) : i \in 1..Len(hs)
      BY <1>1
    <3>2. QED
      BY <3>1, ElementOfSeq
  <2> HIDE DEF n
  <2>2. /\ Len(SubSeq(hs, 1, n - 1)) = IF 1 <= n - 1 THEN (n - 1) - 1 + 1 ELSE 0
        /\ \A i \in 1..((n - 1) - 1 + 1) : SubSeq(hs, 1, n - 1)[i] = hs[1 + i - 1]
    BY <1>1, <2>1, SubSeqProperties
  <2>3. QED
    BY <1>1, <2>2
<1>3. \A r \in Reg : b2[r] = IF r \in DOMAIN h.saved THEN h.saved[r] ELSE b[r]
  BY DEF Over
<1>4. \A p : p \in sus2 <=> p \in sus /\ (Regs(p) \subseteq DOMAIN h.saved => p \in h.suspect)
  OBVIOUS
<1> HIDE DEF n, hs1, b2, sus2
<1>5. ASSUME NEW k \in 0..(n - 1), NEW c \in Chips, NEW p \in Param,
             IsUnder(hs1, c, b2, k), ~Doubt(hs1, sus2, k, p)
      PROVE  IsSet(hs1, int, k, p, Held(c, p))
  <2>1. IsUnder(hs, c, b, k)
    <3> SUFFICES ASSUME NEW r \in Reg
                 PROVE \/ \E j \in (k + 1)..n :
                             /\ r \in DOMAIN hs[j].saved /\ c[r] = hs[j].saved[r]
                             /\ \A i \in (k + 1)..(j - 1) : r \notin DOMAIN hs[i].saved
                       \/ ~Saved(hs, k, r) /\ c[r] = b[r]
      BY DEF IsUnder, n
    <3>1. CASE \E j \in (k + 1)..(n - 1) :
                  /\ r \in DOMAIN hs1[j].saved /\ c[r] = hs1[j].saved[r]
                  /\ \A i \in (k + 1)..(j - 1) : r \notin DOMAIN hs1[i].saved
      <4>1. PICK j \in (k + 1)..(n - 1) :
                  /\ r \in DOMAIN hs1[j].saved /\ c[r] = hs1[j].saved[r]
                  /\ \A i \in (k + 1)..(j - 1) : r \notin DOMAIN hs1[i].saved
        BY <3>1
      <4>2. j \in 1..(n - 1) /\ j \in (k + 1)..n
        BY <1>1
      <4>3. \A i \in (k + 1)..(j - 1) : i \in 1..(n - 1)
        BY <1>1
      <4>4. QED
        BY <1>2, <4>1, <4>2, <4>3
    <3>2. CASE ~Saved(hs1, k, r) /\ c[r] = b2[r]
      <4>1. \A i \in (k + 1)..(n - 1) : i \in 1..(n - 1)
        BY <1>1
      <4>2. \A i \in (k + 1)..(n - 1) : r \notin DOMAIN hs[i].saved
        BY <1>2, <3>2, <4>1 DEF Saved
      <4>3. CASE r \in DOMAIN h.saved
        <5>1. n \in (k + 1)..n
          BY <1>1
        <5>2. c[r] = hs[n].saved[r] /\ r \in DOMAIN hs[n].saved
          BY <1>1, <1>3, <3>2, <4>3
        <5>3. QED
          BY <4>2, <5>1, <5>2
      <4>4. CASE r \notin DOMAIN h.saved
        <5>1. c[r] = b[r]
          BY <1>3, <3>2, <4>4
        <5>2. \A i \in (k + 1)..n : i = n \/ i \in (k + 1)..(n - 1)
          BY <1>1
        <5>3. \A i \in (k + 1)..n : r \notin DOMAIN hs[i].saved
          BY <1>1, <4>2, <4>4, <5>2
        <5>4. ~Saved(hs, k, r)
          BY <5>3 DEF Saved, n
        <5>5. QED
          BY <5>1, <5>4
      <4>5. QED
        BY <4>3, <4>4
    <3>3. QED
      BY <1>2, <1>5, <3>1, <3>2 DEF IsUnder
  <2>2. ~Doubt(hs, sus, k, p)
    <3> SUFFICES ASSUME Doubt(hs, sus, k, p) PROVE Doubt(hs1, sus2, k, p)
      BY <1>5
    <3>1. p \in sus /\ \A j \in (k + 1)..n : Regs(p) \subseteq DOMAIN hs[j].saved => p \in hs[j].suspect
      BY DEF Doubt, n
    <3>2. n \in (k + 1)..n
      BY <1>1
    <3>3. p \in sus2
      BY <1>1, <1>4, <3>1, <3>2
    <3>4. \A j \in (k + 1)..(n - 1) : j \in 1..(n - 1) /\ j \in (k + 1)..n
      BY <1>1
    <3>5. QED
      BY <1>2, <3>1, <3>3, <3>4 DEF Doubt
  <2>3. k \in 0..n
    BY <1>1
  <2>4. IsSet(hs, int, k, p, Held(c, p))
    BY <2>1, <2>2, <2>3 DEF Levels, n
  <2>5. /\ \A i \in 1..k : i \in 1..(n - 1)
        /\ \A i \in 1..k : \A j \in (i + 1)..k : j \in 1..(n - 1)
    BY <1>1
  <2>6. QED
    BY <1>2, <2>4, <2>5 DEF IsSet
<1>6. Levels(hs1, sus2, int, b2)
  BY <1>2, <1>5 DEF Levels
<1>7. QED
  BY <1>6 DEF n, hs1, sus2, b2

\* A parameter is set for good, whose registers no scope has saved.
LEMMA LevelsApply ==
  ASSUME NEW hs \in Seq(Handles), NEW sus, NEW int, NEW b \in Chips,
         NEW ps \in Settings, Accepted(ps), NEW new,
         new = CompileAll([r \in Selected(ps) |-> b[r]], ps),
         \A i \in DOMAIN hs : Selected(ps) \cap DOMAIN hs[i].saved = {},
         Levels(hs, sus, int, b)
  PROVE  Levels(hs, sus \ DOMAIN ps,
                [p \in Param |-> IF p \in DOMAIN ps THEN ps[p] ELSE int[p]], Over(b, new))
<1> DEFINE b2 == Over(b, new)
           sus2 == sus \ DOMAIN ps
           int2 == [p \in Param |-> IF p \in DOMAIN ps THEN ps[p] ELSE int[p]]
<1>1. /\ b2 \in Chips /\ DOMAIN ps \subseteq Param
      /\ \A p \in DOMAIN ps : Regs(p) \subseteq Selected(ps) /\ Held(b2, p) = ps[p]
      /\ \A p \in Param \ DOMAIN ps : Fields(b2, p) = Fields(b, p)
  BY OverlayIs
<1>2. \A p \in Param : int2[p] = IF p \in DOMAIN ps THEN ps[p] ELSE int[p]
  OBVIOUS
<1>3. \A p : p \in sus2 <=> p \in sus /\ p \notin DOMAIN ps
  OBVIOUS
<1>4. Len(hs) \in Nat /\ DOMAIN hs = 1..Len(hs) /\ \A i \in 1..Len(hs) : hs[i] \in Handles
  BY LenProperties, ElementOfSeq
<1> HIDE DEF b2, int2, sus2
<1>5. ASSUME NEW k \in 0..Len(hs), NEW c \in Chips, NEW p \in Param,
             IsUnder(hs, c, b2, k), ~Doubt(hs, sus2, k, p)
      PROVE  IsSet(hs, int2, k, p, Held(c, p))
  <2>0. (\A i \in 1..k : i \in 1..Len(hs)) /\ \A i \in (k + 1)..Len(hs) : i \in 1..Len(hs)
    BY <1>4
  <2>1. CASE p \in DOMAIN ps
    <3>1. Regs(p) \subseteq Selected(ps) /\ Regs(p) \subseteq Reg /\ Regs(p) # {}
      BY <1>1, <2>1, RegNat, HasRegs
    <3>2. \A r \in Regs(p) : \A i \in 1..Len(hs) : r \notin DOMAIN hs[i].saved
      BY <1>4, <3>1
    <3>3. \A r \in Regs(p) : c[r] = b2[r]
      BY <1>5, <2>0, <3>1, <3>2 DEF IsUnder
    <3>4. Held(c, p) = ps[p]
      BY <1>1, <2>1, <3>3, HeldLocal
    <3>5. ASSUME NEW i \in 1..k PROVE p \notin DOMAIN hs[i].params
      <4>1. hs[i] \in Handles
        BY <1>4, <2>0
      <4>2. p \in DOMAIN hs[i].params => Regs(p) \subseteq DOMAIN hs[i].saved
        BY <4>1, HandleHas
      <4>3. QED
        BY <2>0, <3>1, <3>2, <4>2
    <3>6. QED
      BY <1>2, <2>1, <3>4, <3>5 DEF IsSet
  <2>2. CASE p \notin DOMAIN ps
    <3>1. ~Doubt(hs, sus, k, p)
      BY <1>3, <1>5, <2>2 DEF Doubt
    <3>2. IsSet(hs, int, k, p, Held(c, p))
      BY <1>1, <1>5, <2>2, <3>1, SameBits
    <3>3. QED
      BY <1>2, <2>2, <3>2 DEF IsSet
  <2>3. QED
    BY <2>1, <2>2
<1>6. Levels(hs, sus2, int2, b2)
  BY <1>5 DEF Levels
<1>7. QED
  BY <1>6 DEF sus2, int2, b2

\* Some of the registers of a call have been written, and the call fails.
LEMMA LevelsFail ==
  ASSUME NEW hs \in Seq(Handles), NEW sus, NEW int, NEW b \in Chips,
         NEW ps \in Settings, Accepted(ps), NEW new,
         new = CompileAll([r \in Selected(ps) |-> b[r]], ps), NEW b2 \in Chips,
         \A r \in Reg : b2[r] = b[r] \/ b2[r] = Over(b, new)[r],
         Levels(hs, sus, int, b)
  PROVE  Levels(hs, sus \cup DOMAIN ps, int, b2)
<1>1. /\ \A p \in Param \ DOMAIN ps : Fields(b, p) = Fields(Over(b, new), p)
      /\ \A p \in Param : Regs(p) \subseteq Reg
  BY OverlayIs, RegNat
<1> DEFINE sus2 == sus \cup DOMAIN ps
<1>2. \A p : p \in sus2 <=> p \in sus \/ p \in DOMAIN ps
  OBVIOUS
<1> HIDE DEF sus2
<1>3. ASSUME NEW k \in 0..Len(hs), NEW c \in Chips, NEW p \in Param,
             IsUnder(hs, c, b2, k), ~Doubt(hs, sus2, k, p)
      PROVE  IsSet(hs, int, k, p, Held(c, p))
  <2>1. ~Doubt(hs, sus, k, p)
    BY <1>2, <1>3 DEF Doubt
  <2>2. CASE p \in DOMAIN ps
    <3>1. PICK j \in (k + 1)..Len(hs) : Regs(p) \subseteq DOMAIN hs[j].saved
      BY <1>2, <1>3, <2>2 DEF Doubt
    <3>2. \A r \in Regs(p) : Saved(hs, k, r)
      BY <3>1 DEF Saved
    <3>3. PICK d \in Chips : SameUnder(hs, k, d, b, c, b2)
      BY <1>3, Rebase
    <3>4. \A r \in Regs(p) : d[r] = c[r]
      BY <1>1, <3>2, <3>3 DEF SameUnder
    <3>5. Held(d, p) = Held(c, p)
      BY <3>4, HeldLocal
    <3>6. IsSet(hs, int, k, p, Held(d, p))
      BY <2>1, <3>3 DEF Levels, SameUnder
    <3>7. QED
      BY <3>5, <3>6
  <2>3. CASE p \notin DOMAIN ps
    <3>1. \A r \in Regs(p) : b2[r] = b[r] \/ b2[r] = Over(b, new)[r]
      BY <1>1
    <3>2. Fields(b2, p) = Fields(b, p)
      <4>1. Fields(b, p) = Fields(Over(b, new), p)
        BY <1>1, <2>3
      <4> DEFINE m == Over(b, new)
      <4> HIDE DEF m
      <4>2. Fields(b, p) = Fields(m, p) /\ \A r \in Regs(p) : b2[r] = b[r] \/ b2[r] = m[r]
        BY <3>1, <4>1 DEF m
      <4>3. QED
        BY <4>2, FieldsMixed
    <3>3. QED
      BY <1>3, <2>1, <3>2, SameBits
  <2>4. QED
    BY <2>2, <2>3
<1>4. Levels(hs, sus2, int, b2)
  BY <1>3 DEF Levels
<1>5. QED
  BY <1>4 DEF sus2

\* A destructor fails: what no scope names has its permanent setting, before the
\* registers are put back and after, and so at any time between.
LEMMA LevelsDead ==
  ASSUME NEW hs \in Seq(Handles), hs # <<>>, NEW h, h = hs[Len(hs)],
         NEW sus, NEW int, NEW b \in Chips, Levels(hs, sus, int, b), NEW b2 \in Chips,
         \A r \in Reg : b2[r] = b[r] \/ b2[r] = Over(b, h.saved)[r],
         NEW p \in Param \ sus, \A i \in DOMAIN hs : p \notin DOMAIN hs[i].params
  PROVE  Held(b2, p) = int[p]
<1> DEFINE n == Len(hs)
           e == Over(b, h.saved)
<1>1. n \in Nat /\ n > 0 /\ hs[n] = h /\ h \in Handles /\ DOMAIN hs = 1..n
  BY EmptySeq, LenProperties, ElementOfSeq
<1>2. e \in Chips
  <2>1. \A r \in DOMAIN h.saved : h.saved[r] \in Byte
    BY <1>1, HandleHas
  <2>2. QED
    BY <2>1 DEF Over, Chips
<1>3. Held(b, p) = int[p]
  <2>1. IsSet(hs, int, n, p, Held(b, p))
    BY <1>1, LevelsTop
  <2>2. QED
    BY <1>1, <2>1 DEF IsSet
<1>4. IsUnder(hs, e, b, n - 1)
  <2>1. \A j \in ((n - 1) + 1)..n : j = n
    <3>1. n \in Nat
      BY <1>1
    <3> HIDE DEF n
    <3>2. QED
      BY <3>1
  <2>2. n \in ((n - 1) + 1)..n /\ \A i \in ((n - 1) + 1)..(n - 1) : FALSE
    BY <1>1
  <2>3. \A r \in Reg : e[r] = IF r \in DOMAIN h.saved THEN h.saved[r] ELSE b[r]
    BY DEF Over
  <2> HIDE DEF e
  <2>4. ASSUME NEW r \in Reg
        PROVE  \/ \E j \in ((n - 1) + 1)..n :
                     /\ r \in DOMAIN hs[j].saved /\ e[r] = hs[j].saved[r]
                     /\ \A i \in ((n - 1) + 1)..(j - 1) : r \notin DOMAIN hs[i].saved
               \/ ~Saved(hs, n - 1, r) /\ e[r] = b[r]
    <3>1. CASE r \in DOMAIN h.saved
      <4>1. r \in DOMAIN hs[n].saved /\ e[r] = hs[n].saved[r]
        BY <1>1, <2>3, <3>1
      <4>2. QED
        BY <2>2, <4>1
    <3>2. CASE r \notin DOMAIN h.saved
      <4>1. ~Saved(hs, n - 1, r)
        BY <1>1, <2>1, <3>2 DEF Saved
      <4>2. QED
        BY <2>3, <3>2, <4>1
    <3>3. QED
      BY <3>1, <3>2
  <2>5. QED
    BY <2>4 DEF IsUnder
<1> HIDE DEF e
<1>5. Held(e, p) = int[p]
  <2>1. ~Doubt(hs, sus, n - 1, p)
    BY DEF Doubt
  <2>2. n - 1 \in 0..n /\ \A i \in 1..(n - 1) : i \in 1..n
    BY <1>1
  <2>3. IsSet(hs, int, n - 1, p, Held(e, p))
    BY <1>2, <1>4, <2>1, <2>2 DEF Levels
  <2>4. QED
    BY <1>1, <2>2, <2>3 DEF IsSet
<1>6. Fields(b, p) = Fields(e, p)
  BY <1>2, <1>3, <1>5, HeldSame
<1>7. Fields(b2, p) = Fields(b, p)
  <2>1. \A r \in Regs(p) : b2[r] = b[r] \/ b2[r] = e[r]
    BY RegNat DEF e
  <2>2. QED
    BY <1>6, <2>1, FieldsMixed
<1>8. QED
  BY <1>3, <1>7, HeldSame
-----------------------------------------------------------------------------
(***************************************************************************)
(* Writing registers.                                                      *)
(***************************************************************************)

\* The chip ch, which held b, while the registers td of g have still to be written.
Mixed(g, td, ch, b) ==
    \A r \in Reg :
        IF r \in DOMAIN g THEN /\ ch[r] = b[r] \/ ch[r] = g[r]
                               /\ r \notin td => ch[r] = g[r]
        ELSE ch[r] = b[r]

LEMMA MixedStart == ASSUME NEW b, NEW g PROVE Mixed(g, DOMAIN g, b, b)
  BY DEF Mixed

LEMMA MixedTake ==
  ASSUME NEW b \in Chips, NEW ch \in Chips, NEW g \in Images, NEW td \in SUBSET DOMAIN g,
         NEW q \in td, NEW ch2, ch2 = [ch EXCEPT ![q] = g[q]], Mixed(g, td, ch, b)
  PROVE  ch2 \in Chips /\ Mixed(g, td \ {q}, ch2, b) /\ Mixed(g, td, ch2, b)
<1>1. DOMAIN g \subseteq Reg /\ \A r \in DOMAIN g : g[r] \in Byte
  BY DEF Images
<1>2. ch2 \in Chips /\ \A r \in Reg : ch2[r] = IF r = q THEN g[q] ELSE ch[r]
  BY <1>1 DEF Chips
<1>3. QED
  BY <1>1, <1>2 DEF Mixed

LEMMA MixedEnd ==
  ASSUME NEW b \in Chips, NEW ch \in Chips, NEW g \in Images, Mixed(g, {}, ch, b)
  PROVE  ch = Over(b, g)
<1>1. \A r \in Reg : ch[r] = Over(b, g)[r]
  BY DEF Mixed, Over
<1>2. ch \in [Reg -> Byte] /\ DOMAIN Over(b, g) = Reg
  BY DEF Chips, Over
<1>3. Over(b, g) = [r \in Reg |-> Over(b, g)[r]]
  BY DEF Over
<1>4. QED
  BY <1>1, <1>2, <1>3

LEMMA MixedAny ==
  ASSUME NEW b, NEW ch, NEW g, NEW td, Mixed(g, td, ch, b)
  PROVE  \A r \in Reg : ch[r] = b[r] \/ ch[r] = Over(b, g)[r]
  BY DEF Mixed, Over

\* What setRegisters(g) is called for, on the chip b.
Overlaying(o, g, hs, sus, b) ==
    /\ o.kind \in {"open", "apply"} /\ o.params \in Settings /\ Accepted(o.params)
    /\ o.saved = [r \in Selected(o.params) |-> b[r]]
    /\ g = CompileAll(o.saved, o.params)
    /\ o.kind = "open" => o \in Handles /\ o.suspect = sus
    /\ o.kind = "apply" => \A i \in DOMAIN hs : Selected(o.params) \cap DOMAIN hs[i].saved = {}
Loading(o, g, hs) == o.kind = "load" /\ hs = << >> /\ Compiled(g, o.params)
Copying(o, g, hs) == o.kind = "csv" /\ hs = << >> /\ o.saved = g
Restoring(o, g, hs) ==
    /\ o.kind \in {"close", "unwind"} /\ hs # << >>
    /\ g = hs[Len(hs)].saved /\ o.saved = g /\ o.suspect = hs[Len(hs)].suspect
Task(o, g, hs, sus, b) ==
    Overlaying(o, g, hs, sus, b) \/ Loading(o, g, hs) \/ Copying(o, g, hs) \/ Restoring(o, g, hs)

\* b is what the chip held when the call began.
Before(b) ==
    /\ Levels(handles, suspect, intended, b)
    /\ Mixed(image, todo, chip, b)
    /\ Task(op, image, handles, suspect, b)

Shape ==
    /\ chip \in Chips /\ handles \in Seq(Handles) /\ suspect \subseteq Param
    /\ pc \in {"client", "write", "unwind", "terminated"}
Steady == pc \in {"client", "unwind"} => Levels(handles, suspect, intended, chip)
Writing == pc = "write" => /\ image \in Images /\ todo \subseteq DOMAIN image
                           /\ \E b \in Chips : Before(b)
Dead == pc = "terminated" =>
    \A p \in Param \ suspect : /\ Held(chip, p) = intended[p]
                               /\ \A i \in DOMAIN handles : p \notin DOMAIN handles[i].params

ViewInv == Shape /\ Steady /\ Writing /\ Dead
-----------------------------------------------------------------------------
(***************************************************************************)
(* The steps.                                                              *)
(***************************************************************************)

LEMMA ViewInit == ASSUME Init PROVE ViewInv
<1>1. chip \in Chips /\ handles = << >> /\ pc = "client" /\ suspect = {}
  BY InitialAssumption DEF Init
<1>2. \A p \in Param : intended[p] = Held(chip, p)
  BY DEF Init
<1>3. Levels(<< >>, suspect, intended, chip)
  BY <1>1, <1>2, LevelsNone
<1>4. << >> \in Seq(Handles)
  OBVIOUS
<1>5. QED
  BY <1>1, <1>3, <1>4 DEF ViewInv, Shape, Steady, Writing, Dead

LEMMA ViewStart ==
  ASSUME ViewInv, pc \in {"client", "unwind"}, NEW o, NEW g \in Images,
         Task(o, g, handles, suspect, chip), StartWrite(o, g)
  PROVE  ViewInv'
<1>1. /\ chip' = chip /\ handles' = handles /\ suspect' = suspect /\ intended' = intended
      /\ pc' = "write" /\ op' = o /\ image' = g /\ todo' = DOMAIN g
  BY DEF StartWrite
<1>2. Levels(handles, suspect, intended, chip) /\ chip \in Chips
  BY DEF ViewInv, Steady, Shape
<1>3. Mixed(g, DOMAIN g, chip, chip)
  BY MixedStart
<1>4. /\ Levels(handles', suspect', intended', chip)
      /\ Mixed(image', todo', chip', chip)
      /\ Task(op', image', handles', suspect', chip)
  BY <1>1, <1>2, <1>3
<1>5. \E b \in Chips : /\ Levels(handles', suspect', intended', b)
                       /\ Mixed(image', todo', chip', b)
                       /\ Task(op', image', handles', suspect', b)
  BY <1>2, <1>4
<1>6. Writing'
  BY <1>1, <1>5 DEF Writing, Before
<1>7. QED
  BY <1>1, <1>6 DEF ViewInv, Shape, Steady, Dead

LEMMA ViewThrows ==
  ASSUME ViewInv, pc \in {"client", "unwind"}, pc' \in {"client", "unwind"},
         UNCHANGED <<chip, handles, intended, suspect>>
  PROVE  ViewInv'
  BY DEF ViewInv, Shape, Steady, Writing, Dead

LEMMA ViewApply ==
  ASSUME ViewInv, pc = "client", NEW kind \in {"open", "apply"}, NEW ps \in Settings,
         kind = "apply" /\ Accepted(ps) => Unsaved(ps), ApplyParameters(kind, ps)
  PROVE  ViewInv'
<1>1. CASE ~Accepted(ps) /\ Throws
  BY <1>1, ViewThrows DEF Throws
<1> DEFINE o == [kind |-> kind, params |-> ps, saved |-> GetRegisters(ps), suspect |-> suspect]
           g == Overlay(ps)
<1>2. CASE Accepted(ps) /\ StartWrite(o, g)
  <2>1. /\ o.kind = kind /\ o.params = ps /\ o.suspect = suspect
        /\ o.saved = [r \in Selected(ps) |-> chip[r]]
    BY DEF GetRegisters
  <2>2. g = CompileAll(o.saved, o.params) /\ g = CompileAll([r \in Selected(ps) |-> chip[r]], ps)
    BY <2>1 DEF Overlay, GetRegisters
  <2>3. o = [kind |-> kind, params |-> ps, saved |-> o.saved, suspect |-> o.suspect]
    OBVIOUS
  <2> HIDE DEF o, g
  <2>4. chip \in Chips /\ suspect \subseteq Param
    BY DEF ViewInv, Shape
  <2>5. g \in Images /\ o.saved \in Images
    BY <1>2, <2>1, <2>2, <2>4, OverlayIs
  <2>6. o.kind = "open" => o \in Handles
    BY <1>2, <2>1, <2>3, <2>4, <2>5 DEF Handles
  <2>7. o.kind = "apply" => \A i \in DOMAIN handles : Selected(o.params) \cap DOMAIN handles[i].saved = {}
    BY <1>2, <2>1 DEF Unsaved
  <2>8. Task(o, g, handles, suspect, chip)
    BY <1>2, <2>1, <2>2, <2>6, <2>7 DEF Task, Overlaying
  <2>9. QED
    BY <1>2, <2>5, <2>8, ViewStart
<1>3. QED
  BY <1>1, <1>2 DEF ApplyParameters

LEMMA ViewRestore ==
  ASSUME ViewInv, pc \in {"client", "unwind"}, handles # << >>,
         NEW kind \in {"close", "unwind"}, Restore(kind)
  PROVE  ViewInv'
<1> DEFINE h == handles[Len(handles)]
           o == [h EXCEPT !.kind = kind]
<1>1. handles \in Seq(Handles)
  BY DEF ViewInv, Shape
<1>2. Len(handles) \in Nat \ {0}
  BY <1>1, EmptySeq
<1>3. h \in Handles
  BY <1>1, <1>2, ElementOfSeq
<1>4. o.kind = kind /\ o.saved = h.saved /\ o.suspect = h.suspect
  BY <1>3 DEF Handles
<1>5. h.saved \in Images
  BY <1>3, HandleHas
<1>6. StartWrite(o, h.saved)
  BY DEF Restore
<1> HIDE DEF o
<1>7. Task(o, h.saved, handles, suspect, chip)
  BY <1>4 DEF Task, Restoring
<1>8. QED
  BY <1>5, <1>6, <1>7, ViewStart

LEMMA ViewReset == ASSUME ViewInv, HardReset PROVE ViewInv'
<1>1. /\ handles = << >> /\ handles' = << >> /\ pc' = "client" /\ suspect' = {}
      /\ chip' = CompileAll([r \in Reg |-> 0], Defaults) /\ intended' = Defaults
  BY DEF HardReset
<1>2. chip' \in Chips /\ \A p \in Param : Held(chip', p) = intended'[p]
  BY <1>1, CompilerCorrect DEF CompilerExact, LoadExact, Compiled
<1>3. Levels(<< >>, suspect', intended', chip')
  BY <1>2, LevelsNone
<1>4. Levels(handles', suspect', intended', chip') /\ << >> \in Seq(Handles)
  BY <1>1, <1>3
<1>5. QED
  BY <1>1, <1>2, <1>4 DEF ViewInv, Shape, Steady, Writing, Dead

\* A register more may be written.
LEMMA ViewTake ==
  ASSUME ViewInv, pc = "write", todo # {},
         NEW td \in {todo, todo \ {NextReg}},
         \/ chip' = chip /\ td = todo
         \/ chip' = [chip EXCEPT ![NextReg] = image[NextReg]]
  PROVE  /\ chip' \in Chips
         /\ \E b \in Chips : /\ Levels(handles, suspect, intended, b)
                             /\ Mixed(image, td, chip', b)
                             /\ Task(op, image, handles, suspect, b)
<1>1. chip \in Chips /\ image \in Images /\ todo \subseteq DOMAIN image /\ DOMAIN image \subseteq Reg
  BY DEF ViewInv, Shape, Writing, Images
<1>2. PICK b \in Chips : Before(b)
  BY DEF ViewInv, Writing
<1>3. NextReg \in todo
  BY <1>1, NextRegIn
<1>4. chip' \in Chips /\ Mixed(image, td, chip', b)
  <2>1. Mixed(image, todo, chip, b)
    BY <1>2 DEF Before
  <2>2. CASE chip' = [chip EXCEPT ![NextReg] = image[NextReg]]
    <3>1. \A q \in todo : chip' = [chip EXCEPT ![q] = image[q]] =>
             chip' \in Chips /\ Mixed(image, todo \ {q}, chip', b) /\ Mixed(image, todo, chip', b)
      BY <1>1, <2>1, MixedTake
    <3>2. QED
      BY <1>3, <2>2, <3>1
  <2>3. QED
    BY <1>1, <2>1, <2>2
<1>5. QED
  BY <1>2, <1>4 DEF Before

LEMMA ViewSetValue == ASSUME ViewInv, SetValue PROVE ViewInv'
<1>1. /\ pc = "write" /\ todo # {} /\ chip' = [chip EXCEPT ![NextReg] = image[NextReg]]
      /\ todo' = todo \ {NextReg} /\ handles' = handles /\ pc' = pc /\ op' = op
      /\ image' = image /\ intended' = intended /\ suspect' = suspect
  BY DEF SetValue
<1>2. /\ chip' \in Chips
      /\ \E b \in Chips : /\ Levels(handles, suspect, intended, b)
                          /\ Mixed(image, todo', chip', b)
                          /\ Task(op, image, handles, suspect, b)
  BY <1>1, ViewTake
<1>3. Writing'
  BY <1>1, <1>2 DEF ViewInv, Writing, Before
<1>4. QED
  BY <1>1, <1>2, <1>3 DEF ViewInv, Shape, Steady, Dead

LEMMA ViewRetry == ASSUME ViewInv, Retry PROVE ViewInv'
<1>1. /\ pc = "write" /\ todo # {}
      /\ chip' = chip \/ chip' = [chip EXCEPT ![NextReg] = image[NextReg]]
      /\ todo' = todo /\ handles' = handles /\ pc' = pc /\ op' = op
      /\ image' = image /\ intended' = intended /\ suspect' = suspect
  BY DEF Retry, MayTake
<1>2. /\ chip' \in Chips
      /\ \E b \in Chips : /\ Levels(handles, suspect, intended, b)
                          /\ Mixed(image, todo, chip', b)
                          /\ Task(op, image, handles, suspect, b)
  BY <1>1, ViewTake
<1>3. Writing'
  BY <1>1, <1>2 DEF ViewInv, Writing, Before
<1>4. QED
  BY <1>1, <1>2, <1>3 DEF ViewInv, Shape, Steady, Dead

\* A call fails with some of its registers written.
LEMMA ViewAbandon ==
  ASSUME ViewInv, pc = "write", chip' \in Chips, NEW b \in Chips,
         Levels(handles, suspect, intended, b), Mixed(image, todo, chip', b),
         Task(op, image, handles, suspect, b), Abandon
  PROVE  ViewInv'
<1>1. handles' = handles /\ intended' = intended
  BY DEF Abandon
<1>2. handles \in Seq(Handles) /\ suspect \subseteq Param
  BY DEF ViewInv, Shape
<1>3. \A r \in Reg : chip'[r] = b[r] \/ chip'[r] = Over(b, image)[r]
  BY MixedAny
<1>4. ASSUME pc' = "unwind", suspect' \subseteq Param, Levels(handles, suspect', intended, chip')
      PROVE  ViewInv'
  BY <1>1, <1>2, <1>4 DEF ViewInv, Shape, Steady, Writing, Dead
<1>5. CASE Overlaying(op, image, handles, suspect, b)
  <2>1. /\ op.params \in Settings /\ Accepted(op.params)
        /\ image = CompileAll([r \in Selected(op.params) |-> b[r]], op.params)
    BY <1>5 DEF Overlaying
  <2>2. pc' = "unwind" /\ suspect' = suspect \cup DOMAIN op.params
    BY <1>5 DEF Abandon, InDestructor, Overlaying
  <2>3. suspect' \subseteq Param
    BY <1>2, <2>1, <2>2 DEF Accepted
  <2>4. Levels(handles, suspect', intended, chip')
    BY <1>2, <1>3, <2>1, <2>2, LevelsFail
  <2>5. QED
    BY <1>4, <2>2, <2>3, <2>4
<1>6. CASE Loading(op, image, handles)
  <2>1. pc' = "unwind" /\ suspect' = Param /\ handles = << >>
    BY <1>2, <1>6 DEF Abandon, InDestructor, Loading
  <2>2. Levels(<< >>, suspect', intended, chip')
    BY <2>1, LevelsNone
  <2>3. QED
    BY <1>4, <2>1, <2>2
<1>7. CASE Copying(op, image, handles)
  <2>1. pc' = "unwind" /\ suspect' = suspect \cup Within(image) /\ handles = << >>
    BY <1>7 DEF Abandon, InDestructor, Copying
  <2>2. ASSUME NEW p \in Param \ suspect' PROVE Held(chip', p) = intended[p]
    <3>1. p \notin suspect /\ Regs(p) \cap DOMAIN image = {} /\ Regs(p) \subseteq Reg
      BY <2>1, RegNat DEF Within
    <3>2. \A r \in Regs(p) : chip'[r] = b[r]
      BY <3>1 DEF Mixed
    <3>3. Held(b, p) = intended[p]
      BY <2>1, <3>1, LevelsNone
    <3>4. QED
      BY <3>2, <3>3, HeldLocal
  <2>3. Levels(<< >>, suspect', intended, chip')
    BY <2>2, LevelsNone
  <2>4. QED
    BY <1>2, <1>4, <2>1, <2>3 DEF Within
<1>8. CASE Restoring(op, image, handles)
  <2>1. /\ pc' = "terminated"
        /\ suspect' = suspect \cup UNION {DOMAIN handles[i].params : i \in DOMAIN handles}
    BY <1>8 DEF Abandon, InDestructor, Restoring
  <2>2. suspect' \subseteq Param
    <3>1. \A i \in DOMAIN handles : handles[i] \in Handles
      BY <1>2, LenProperties, ElementOfSeq
    <3>2. \A i \in DOMAIN handles : DOMAIN handles[i].params \subseteq Param
      BY <3>1, HandleHas
    <3>3. QED
      BY <1>2, <2>1, <3>2
  <2>3. ASSUME NEW p \in Param \ suspect'
        PROVE  /\ Held(chip', p) = intended[p]
               /\ \A i \in DOMAIN handles : p \notin DOMAIN handles[i].params
    <3>1. p \notin suspect /\ \A i \in DOMAIN handles : p \notin DOMAIN handles[i].params
      BY <2>1
    <3> DEFINE h == handles[Len(handles)]
    <3>2. handles # << >> /\ image = h.saved
      BY <1>8 DEF Restoring
    <3>3. Held(chip', p) = intended[p]
      BY <1>2, <1>3, <3>1, <3>2, LevelsDead
    <3>4. QED
      BY <3>1, <3>3
  <2>4. QED
    BY <1>1, <1>2, <2>1, <2>2, <2>3 DEF ViewInv, Shape, Steady, Writing, Dead
<1>9. QED
  BY <1>5, <1>6, <1>7, <1>8 DEF Task

LEMMA ViewGiveUp == ASSUME ViewInv, GiveUp PROVE ViewInv'
<1>1. /\ pc = "write" /\ todo # {} /\ Abandon
      /\ chip' = chip \/ chip' = [chip EXCEPT ![NextReg] = image[NextReg]]
  BY DEF GiveUp, MayTake
<1>2. /\ chip' \in Chips
      /\ \E b \in Chips : /\ Levels(handles, suspect, intended, b)
                          /\ Mixed(image, todo, chip', b)
                          /\ Task(op, image, handles, suspect, b)
  BY <1>1, ViewTake
<1>3. QED
  BY <1>1, <1>2, ViewAbandon

LEMMA ViewBadLine == ASSUME ViewInv, BadLine PROVE ViewInv'
<1>1. pc = "write" /\ Abandon /\ chip' = chip
  BY DEF BadLine
<1>2. PICK b \in Chips : Before(b)
  BY <1>1 DEF ViewInv, Writing
<1>3. chip' \in Chips
  BY <1>1 DEF ViewInv, Shape
<1>4. QED
  BY <1>1, <1>2, <1>3, ViewAbandon DEF Before

\* A call returns: all of its registers have been written.
LEMMA ViewWritten ==
  ASSUME ViewInv, NEW kinds, Written(kinds)
  PROVE  \E b \in Chips : /\ Levels(handles, suspect, intended, b)
                          /\ chip = Over(b, image) /\ chip' = chip
                          /\ op.kind \in kinds /\ pc' \in {"client", "unwind"}
                          /\ Task(op, image, handles, suspect, b)
<1>1. /\ pc = "write" /\ todo = {} /\ op.kind \in kinds
      /\ pc' \in {"client", "unwind"} /\ chip' = chip
  BY DEF Written
<1>2. PICK b \in Chips : Before(b)
  BY <1>1 DEF ViewInv, Writing
<1>3. chip = Over(b, image)
  BY <1>1, <1>2, MixedEnd DEF ViewInv, Shape, Writing, Before
<1>4. QED
  BY <1>1, <1>2, <1>3 DEF Before

LEMMA ViewSteady ==
  ASSUME pc' \in {"client", "unwind"}, chip' \in Chips, handles' \in Seq(Handles),
         suspect' \subseteq Param, Levels(handles', suspect', intended', chip')
  PROVE  ViewInv'
  BY DEF ViewInv, Shape, Steady, Writing, Dead

LEMMA ViewOpened == ASSUME ViewInv, ScopeOpened PROVE ViewInv'
<1>1. Written({"open"}) /\ handles' = Append(handles, op) /\ intended' = intended /\ suspect' = suspect
  BY DEF ScopeOpened
<1>2. PICK b \in Chips : /\ Levels(handles, suspect, intended, b)
                         /\ chip = Over(b, image) /\ chip' = chip
                         /\ op.kind \in {"open"} /\ pc' \in {"client", "unwind"}
                         /\ Task(op, image, handles, suspect, b)
  BY <1>1, ViewWritten
<1>3. Overlaying(op, image, handles, suspect, b)
  BY <1>2 DEF Task, Loading, Copying, Restoring
<1>4. /\ op \in Handles /\ op.suspect = suspect /\ op.saved = [r \in Selected(op.params) |-> b[r]]
      /\ image = CompileAll(op.saved, op.params)
  BY <1>2, <1>3 DEF Overlaying
<1>5. chip \in Chips /\ handles \in Seq(Handles) /\ suspect \subseteq Param
  BY DEF ViewInv, Shape
<1>6. Levels(Append(handles, op), op.suspect, intended, Over(b, image))
  BY <1>2, <1>4, <1>5, LevelsPush
<1>7. Append(handles, op) \in Seq(Handles)
  BY <1>4, <1>5, AppendProperties
<1>8. Levels(handles', suspect', intended', chip')
  BY <1>1, <1>2, <1>4, <1>6
<1>9. QED
  BY <1>1, <1>2, <1>5, <1>7, <1>8, ViewSteady

LEMMA ViewApplied == ASSUME ViewInv, ParameterApplied PROVE ViewInv'
<1> DEFINE int2 == [p \in Param |-> IF p \in DOMAIN op.params THEN op.params[p] ELSE intended[p]]
<1>1. /\ Written({"apply"}) /\ handles' = handles /\ intended' = int2
      /\ suspect' = suspect \ DOMAIN op.params
  BY DEF ParameterApplied
<1>2. PICK b \in Chips : /\ Levels(handles, suspect, intended, b)
                         /\ chip = Over(b, image) /\ chip' = chip
                         /\ op.kind \in {"apply"} /\ pc' \in {"client", "unwind"}
                         /\ Task(op, image, handles, suspect, b)
  BY <1>1, ViewWritten
<1>3. Overlaying(op, image, handles, suspect, b)
  BY <1>2 DEF Task, Loading, Copying, Restoring
<1>4. /\ op.params \in Settings /\ Accepted(op.params)
      /\ image = CompileAll([r \in Selected(op.params) |-> b[r]], op.params)
      /\ \A i \in DOMAIN handles : Selected(op.params) \cap DOMAIN handles[i].saved = {}
  BY <1>2, <1>3 DEF Overlaying
<1>5. chip \in Chips /\ handles \in Seq(Handles) /\ suspect \subseteq Param
  BY DEF ViewInv, Shape
<1>6. Levels(handles, suspect \ DOMAIN op.params, int2, Over(b, image))
  BY <1>2, <1>4, <1>5, LevelsApply
<1> HIDE DEF int2
<1>7. Levels(handles', suspect', intended', chip')
  BY <1>1, <1>2, <1>6
<1>8. QED
  BY <1>1, <1>2, <1>5, <1>7, ViewSteady

LEMMA ViewLoaded == ASSUME ViewInv, ParametersLoaded PROVE ViewInv'
<1>1. Written({"load"}) /\ handles' = handles /\ intended' = op.params /\ suspect' = {}
  BY DEF ParametersLoaded
<1>2. PICK b \in Chips : /\ Levels(handles, suspect, intended, b)
                         /\ chip = Over(b, image) /\ chip' = chip
                         /\ op.kind \in {"load"} /\ pc' \in {"client", "unwind"}
                         /\ Task(op, image, handles, suspect, b)
  BY <1>1, ViewWritten
<1>3. handles = << >> /\ Compiled(image, op.params)
  BY <1>2 DEF Task, Overlaying, Loading, Copying, Restoring
<1>4. chip \in Chips
  BY DEF ViewInv, Shape
<1>5. \A r \in Reg : chip[r] = image[r]
  BY <1>2, <1>3 DEF Compiled, Chips, Over
<1>6. \A p \in Param : Held(chip, p) = op.params[p]
  BY <1>3, <1>4, <1>5, RegNat, HeldLocal DEF Compiled
<1>7. Levels(<< >>, suspect', intended', chip)
  BY <1>1, <1>4, <1>6, LevelsNone
<1>8. << >> \in Seq(Handles) /\ Levels(handles', suspect', intended', chip')
  BY <1>1, <1>2, <1>3, <1>7
<1>9. QED
  BY <1>1, <1>2, <1>3, <1>4, <1>8, ViewSteady

LEMMA ViewCopied == ASSUME ViewInv, RegistersLoaded PROVE ViewInv'
<1>1. /\ Written({"csv"}) /\ handles' = handles
      /\ intended' = [p \in Param |-> IF p \in Within(op.saved) THEN Held(chip, p) ELSE intended[p]]
      /\ suspect' = {p \in suspect : ~(Regs(p) \subseteq DOMAIN op.saved)}
  BY DEF RegistersLoaded
<1>2. PICK b \in Chips : /\ Levels(handles, suspect, intended, b)
                         /\ chip = Over(b, image) /\ chip' = chip
                         /\ op.kind \in {"csv"} /\ pc' \in {"client", "unwind"}
                         /\ Task(op, image, handles, suspect, b)
  BY <1>1, ViewWritten
<1>3. handles = << >> /\ op.saved = image
  BY <1>2 DEF Task, Overlaying, Loading, Copying, Restoring
<1>4. chip \in Chips /\ suspect \subseteq Param
  BY DEF ViewInv, Shape
<1>5. ASSUME NEW p \in Param \ suspect' PROVE Held(chip, p) = intended'[p]
  <2>1. Regs(p) \subseteq Reg /\ Regs(p) # {}
    BY RegNat, HasRegs
  <2>2. CASE p \in Within(image)
    BY <1>1, <1>3, <2>2
  <2>3. CASE p \notin Within(image)
    <3>1. Regs(p) \cap DOMAIN image = {}
      BY <2>3 DEF Within
    <3>2. p \notin suspect /\ intended'[p] = intended[p]
      BY <1>1, <1>3, <2>1, <2>3, <3>1
    <3>3. \A r \in Regs(p) : chip[r] = b[r]
      BY <1>2, <2>1, <3>1 DEF Over
    <3>4. Held(b, p) = intended[p]
      BY <1>2, <1>3, <3>2, LevelsNone
    <3>5. QED
      BY <1>4, <3>2, <3>3, <3>4, HeldLocal
  <2>4. QED
    BY <2>2, <2>3
<1>6. Levels(<< >>, suspect', intended', chip)
  BY <1>4, <1>5, LevelsNone
<1>7. << >> \in Seq(Handles) /\ Levels(handles', suspect', intended', chip')
  BY <1>1, <1>2, <1>3, <1>6
<1>8. suspect' \subseteq Param
  BY <1>1, <1>4
<1>9. QED
  BY <1>1, <1>2, <1>3, <1>4, <1>7, <1>8, ViewSteady

LEMMA ViewClosed == ASSUME ViewInv, ScopeClosed PROVE ViewInv'
<1>1. /\ Written({"close", "unwind"}) /\ handles' = SubSeq(handles, 1, Len(handles) - 1)
      /\ suspect' = {p \in suspect : Regs(p) \subseteq DOMAIN op.saved => p \in op.suspect}
      /\ intended' = intended
  BY DEF ScopeClosed
<1>2. PICK b \in Chips : /\ Levels(handles, suspect, intended, b)
                         /\ chip = Over(b, image) /\ chip' = chip
                         /\ op.kind \in {"close", "unwind"} /\ pc' \in {"client", "unwind"}
                         /\ Task(op, image, handles, suspect, b)
  BY <1>1, ViewWritten
<1> DEFINE h == handles[Len(handles)]
<1>3. handles # << >> /\ image = h.saved /\ op.saved = h.saved /\ op.suspect = h.suspect
  BY <1>2 DEF Task, Overlaying, Loading, Copying, Restoring
<1>4. chip \in Chips /\ handles \in Seq(Handles) /\ suspect \subseteq Param
  BY DEF ViewInv, Shape
<1>5. Levels(SubSeq(handles, 1, Len(handles) - 1),
             {p \in suspect : Regs(p) \subseteq DOMAIN h.saved => p \in h.suspect},
             intended, Over(b, h.saved))
  BY <1>2, <1>3, <1>4, LevelsPop
<1>6. SubSeq(handles, 1, Len(handles) - 1) \in Seq(Handles)
  <2>1. Len(handles) \in Nat \ {0} /\ \A i \in 1..Len(handles) : handles[i] \in Handles
    BY <1>3, <1>4, EmptySeq, ElementOfSeq
  <2>2. \A i \in 1..(Len(handles) - 1) : i \in 1..Len(handles)
    BY <2>1
  <2>3. \A i \in 1..(Len(handles) - 1) : handles[i] \in Handles
    BY <2>1, <2>2
  <2>4. QED
    BY <2>1, <2>3, SubSeqProperties
<1>7. /\ suspect' = {p \in suspect : Regs(p) \subseteq DOMAIN h.saved => p \in h.suspect}
      /\ chip' = Over(b, h.saved)
  BY <1>1, <1>2, <1>3
<1> HIDE DEF h
<1>8. Levels(handles', suspect', intended', chip')
  BY <1>1, <1>5, <1>7
<1>9. QED
  BY <1>1, <1>2, <1>4, <1>6, <1>8, ViewSteady

LEMMA ViewRestart == ASSUME ViewInv, Restart PROVE ViewInv'
<1>1. /\ pc = "terminated" /\ pc' = "client" /\ handles' = << >>
      /\ chip' = chip /\ intended' = intended /\ suspect' = suspect
  BY DEF Restart
<1>2. chip \in Chips /\ suspect \subseteq Param /\ \A p \in Param \ suspect : Held(chip, p) = intended[p]
  BY <1>1 DEF ViewInv, Shape, Dead
<1>3. Levels(<< >>, suspect, intended, chip) /\ << >> \in Seq(Handles)
  BY <1>2, LevelsNone
<1>4. Levels(handles', suspect', intended', chip')
  BY <1>1, <1>3
<1>5. QED
  BY <1>1, <1>2, <1>3, <1>4, ViewSteady
-----------------------------------------------------------------------------
LEMMA ViewNext == ASSUME ViewInv, [Next]_vars PROVE ViewInv'
<1>1. CASE UNCHANGED vars
  BY <1>1 DEF ViewInv, Shape, Steady, Writing, Dead, Before, vars
<1>2. CASE OpenScope
  BY <1>2, ViewApply DEF OpenScope, Settings
<1>3. CASE ApplyParameter
  BY <1>3, ViewApply DEF ApplyParameter, Settings
<1>4. CASE LoadOverlay
  <2>1. PICK file \in FileChoices :
           IF Found(file) THEN ApplyParameters("apply", Extract(<<>>, file)) ELSE Throws
    BY <1>4 DEF LoadOverlay
  <2>2. pc = "client" /\ handles = << >>
    BY <1>4 DEF LoadOverlay
  <2>3. CASE Found(file)
    <3>1. Extract(<<>>, file) \in Settings
      BY DEF Settings
    <3>2. Unsaved(Extract(<<>>, file))
      BY <2>2 DEF Unsaved
    <3>3. QED
      BY <2>1, <2>2, <2>3, <3>1, <3>2, ViewApply
  <2>4. CASE ~Found(file)
    BY <2>1, <2>2, <2>4, ViewThrows DEF Throws
  <2>5. QED
    BY <2>3, <2>4
<1>5. CASE LoadWithDefaults
  <2>1. pc = "client" /\ handles = << >>
    BY <1>5 DEF LoadWithDefaults
  <2>2. CASE Throws
    BY <2>1, <2>2, ViewThrows DEF Throws
  <2>3. CASE ~Throws
    <3>1. PICK file \in FileChoices :
            /\ Found(file) /\ Accepted(Extract(Defaults, file))
            /\ StartWrite([Idle EXCEPT !.kind = "load", !.params = Extract(Defaults, file)],
                          CompileAll(<<>>, Extract(Defaults, file)))
      BY <1>5, <2>3 DEF LoadWithDefaults
    <3> DEFINE ps == Extract(Defaults, file)
               g == CompileAll(<<>>, ps)
               o == [Idle EXCEPT !.kind = "load", !.params = ps]
    <3>2. Compiled(g, ps)
      BY <3>1, CompilerCorrect DEF CompilerExact, LoadExact
    <3>3. o.kind = "load" /\ o.params = ps
      BY DEF Idle
    <3>4. StartWrite(o, g)
      BY <3>1
    <3> HIDE DEF ps, g, o
    <3>5. g \in Images
      BY <3>2 DEF Compiled, Chips, Images
    <3>6. Task(o, g, handles, suspect, chip)
      BY <2>1, <3>2, <3>3 DEF Task, Loading
    <3>7. QED
      BY <2>1, <3>4, <3>5, <3>6, ViewStart
  <2>4. QED
    BY <2>2, <2>3
<1>6. CASE LoadRegisters
  <2>1. PICK g \in CsvChoices : StartWrite([Idle EXCEPT !.kind = "csv", !.saved = g], g)
    BY <1>6 DEF LoadRegisters
  <2> DEFINE o == [Idle EXCEPT !.kind = "csv", !.saved = g]
  <2>2. o.kind = "csv" /\ o.saved = g
    BY DEF Idle
  <2>3. StartWrite(o, g)
    BY <2>1
  <2> HIDE DEF o
  <2>4. pc = "client" /\ handles = << >> /\ g \in Images
    BY <1>6, CsvAssumption DEF LoadRegisters
  <2>5. Task(o, g, handles, suspect, chip)
    BY <2>2, <2>4 DEF Task, Copying
  <2>6. QED
    BY <2>3, <2>4, <2>5, ViewStart
<1>7. CASE HardReset
  BY <1>7, ViewReset
<1>8. CASE CloseScope
  BY <1>8, ViewRestore DEF CloseScope
<1>9. CASE Throw
  BY <1>9, ViewThrows DEF Throw, Throws
<1>10. CASE SetValue
  BY <1>10, ViewSetValue
<1>11. CASE Retry
  BY <1>11, ViewRetry
<1>12. CASE GiveUp
  BY <1>12, ViewGiveUp
<1>13. CASE BadLine
  BY <1>13, ViewBadLine
<1>14. CASE ScopeOpened
  BY <1>14, ViewOpened
<1>15. CASE ParameterApplied
  BY <1>15, ViewApplied
<1>16. CASE ParametersLoaded
  BY <1>16, ViewLoaded
<1>17. CASE RegistersLoaded
  BY <1>17, ViewCopied
<1>18. CASE ScopeClosed
  BY <1>18, ViewClosed
<1>19. CASE UnwindScope
  BY <1>19, ViewRestore DEF UnwindScope
<1>20. CASE Catch
  BY <1>20, ViewThrows DEF Catch
<1>21. CASE Restart
  BY <1>21, ViewRestart
<1>22. QED
  BY <1>1, <1>2, <1>3, <1>4, <1>5, <1>6, <1>7, <1>8, <1>9, <1>10, <1>11, <1>12, <1>13,
     <1>14, <1>15, <1>16, <1>17, <1>18, <1>19, <1>20, <1>21
  DEF Next, Client, Run

\* The setting a level says a parameter has is the effective one.
LEMMA EffectiveIs ==
  ASSUME handles \in Seq(Handles), NEW p \in Param, NEW v,
         IsSet(handles, intended, Len(handles), p, v)
  PROVE  v = Effective(p)
<1>1. Len(handles) \in Nat /\ DOMAIN handles = 1..Len(handles)
  BY LenProperties
<1>2. CASE \E i \in 1..Len(handles) :
              /\ p \in DOMAIN handles[i].params /\ v = handles[i].params[p]
              /\ \A j \in (i + 1)..Len(handles) : p \notin DOMAIN handles[j].params
  <2>1. PICK i \in 1..Len(handles) :
              /\ p \in DOMAIN handles[i].params /\ v = handles[i].params[p]
              /\ \A j \in (i + 1)..Len(handles) : p \notin DOMAIN handles[j].params
    BY <1>2
  <2>2. i \in Naming(p) /\ Naming(p) \subseteq 1..Len(handles)
    BY <1>1, <2>1 DEF Naming
  <2>3. ASSUME NEW j \in Naming(p) PROVE j <= i
    <3>1. j \in 1..Len(handles) /\ j \notin (i + 1)..Len(handles)
      BY <2>1, <2>2 DEF Naming
    <3>2. QED
      BY <1>1, <3>1
  <2>4. \A x \in Naming(p) : (\A j \in Naming(p) : j <= x) => x = i
    BY <1>1, <2>2, <2>3
  <2> DEFINE m == CHOOSE x \in Naming(p) : \A j \in Naming(p) : j <= x
  <2>5. m = i
    BY <2>2, <2>3, <2>4
  <2>6. Effective(p) = handles[m].params[p]
    BY <2>2 DEF Effective
  <2> HIDE DEF m
  <2>7. QED
    BY <2>1, <2>5, <2>6
<1>3. CASE (\A i \in 1..Len(handles) : p \notin DOMAIN handles[i].params) /\ v = intended[p]
  BY <1>1, <1>3 DEF Naming, Effective
<1>4. QED
  BY <1>2, <1>3 DEF IsSet

LEMMA ViewHolds == ASSUME ViewInv PROVE View
<1>1. chip \in Chips /\ handles \in Seq(Handles)
  BY DEF ViewInv, Shape
<1>2. CASE pc \in {"client", "unwind"}
  <2>1. Len(handles) \in Nat
    BY <1>1, LenProperties
  <2>2. \A p \in Param \ suspect : IsSet(handles, intended, Len(handles), p, Held(chip, p))
    BY <1>1, <1>2, <2>1, LevelsTop DEF ViewInv, Steady
  <2>3. QED
    BY <1>1, <2>2, EffectiveIs DEF View
<1>3. CASE pc = "terminated"
  <2>1. ASSUME NEW p \in Param \ suspect PROVE Held(chip, p) = Effective(p)
    <3>1. Held(chip, p) = intended[p] /\ Naming(p) = {}
      BY <1>3 DEF ViewInv, Dead, Naming
    <3>2. QED
      BY <3>1 DEF Effective
  <2>2. QED
    BY <2>1 DEF View
<1>4. QED
  BY <1>2, <1>3 DEF View

\* View, for every table and whatever tasks, files and failures there are: whenever
\* client code runs, the bits of every parameter hold what the innermost scope that names
\* it says, or its last permanent setting.
THEOREM ViewCorrect == Spec => []View
<1>1. Init => ViewInv
  BY ViewInit
<1>2. ViewInv /\ [Next]_vars => ViewInv'
  BY ViewNext
<1>3. ViewInv => View
  BY ViewHolds
<1>4. QED
  BY <1>1, <1>2, <1>3, PTL DEF Spec
-----------------------------------------------------------------------------
(***************************************************************************)
(* decompile.                                                              *)
(***************************************************************************)
LEMMA RemainderSmall ==
  ASSUME NEW v \in Nat, NEW d \in Nat \ {0}, v < d PROVE v % d = v
<1>1. 0 \in Int /\ v \in 0..(d - 1) /\ v = d * 0 + v
  OBVIOUS
<1>2. QED
  BY <1>1, DivisionIs

\* The widths of int and long, and half the range of int.
LEMMA Ranges ==
  /\ 2^IntBits \in Nat \ {0} /\ 2^(IntBits - 1) \in Nat \ {0} /\ 2^LongBits \in Nat \ {0}
  /\ 2^IntBits = 2 * 2^(IntBits - 1) /\ 2 * 2^IntBits <= 2^LongBits
<1> DEFINE m == IntBits - 1
<1>1. /\ m \in 0..LongBits /\ IntBits \in 0..LongBits /\ LongBits \in 0..LongBits /\ m + 1 = IntBits
      /\ IntBits \in Nat /\ LongBits \in Nat /\ IntBits < LongBits /\ IntBits <= LongBits
      /\ LongBits <= LongBits + 1
  BY Widths
<1>2. 2 * 2^IntBits <= 2^LongBits
  BY <1>1, PowerOrder
<1> HIDE DEF m
<1>3. 2^(m + 1) = 2 * 2^m
  BY <1>1, PowerAssumption
<1>4. 2^IntBits = 2 * 2^m
  BY <1>1, <1>3
<1>5. 2^IntBits \in Nat \ {0} /\ 2^m \in Nat \ {0} /\ 2^LongBits \in Nat \ {0}
  BY <1>1, Power
<1>6. QED
  BY <1>2, <1>4, <1>5 DEF m

LEMMA PlacesIn ==
  ASSUME NEW places \in Nat
  PROVE  /\ places % IntBits \in 0..(IntBits - 1) /\ 2^(places % IntBits) \in Nat \ {0}
         /\ (places < IntBits => places % IntBits = places)
<1>1. IntBits \in Nat \ {0} /\ IntBits < LongBits /\ LongBits \in Nat
  BY Widths
<1> DEFINE m == places % IntBits
<1>2. m \in 0..(IntBits - 1)
  BY <1>1, Division
<1>3. places < IntBits => m = places
  BY <1>1, RemainderSmall
<1> HIDE DEF m
<1>4. m \in 0..LongBits
  BY <1>1, <1>2
<1>5. 2^m \in Nat \ {0}
  BY <1>4, Power
<1>6. QED
  BY <1>2, <1>3, <1>5 DEF m

LEMMA ShiftedIn == ASSUME NEW d \in Nat, NEW places \in Nat PROVE Shifted(d, places) \in Nat
<1> DEFINE A == 2^(places % IntBits)
           I == 2^IntBits
           H == 2^(IntBits - 1)
           L == 2^LongBits
           int == (d * A) % I
<1>1. A \in Nat \ {0}
  BY PlacesIn
<1>2. I \in Nat \ {0} /\ L \in Nat /\ 2 * I <= L
  BY Ranges
<1>3. Shifted(d, places) = IF int < H THEN int ELSE int + L - I
  BY DEF Shifted
<1> HIDE DEF A, I, H, L
<1>4. d * A \in Nat
  BY <1>1
<1>5. int \in Nat
  BY <1>2, <1>4, Division
<1> HIDE DEF int
<1>6. QED
  BY <1>2, <1>3, <1>5

\* What an int has room for is added as it is,
LEMMA ShiftedSmall ==
  ASSUME NEW d \in Nat, NEW places \in 0..LongBits, d * 2^places < 2^(IntBits - 1)
  PROVE  Shifted(d, places) = d * 2^places
<1> DEFINE A == 2^(places % IntBits)
           I == 2^IntBits
           H == 2^(IntBits - 1)
           L == 2^LongBits
           P == 2^places
           int == (d * A) % I
<1>1. A \in Nat \ {0} /\ (places < IntBits => A = P)
  BY PlacesIn
<1>2. I \in Nat \ {0} /\ H \in Nat \ {0} /\ I = 2 * H
  BY Ranges
<1>3. Shifted(d, places) = IF int < H THEN int ELSE int + L - I
  BY DEF Shifted
<1>4. P \in Nat \ {0} /\ d * P < H
  BY Power
<1>5. ~ (places < IntBits) => H <= P
  <2> SUFFICES ASSUME ~ (places < IntBits) PROVE H <= P
    OBVIOUS
  <2> DEFINE m == IntBits - 1
  <2>1. m \in Nat /\ m <= places /\ places \in Nat /\ places <= LongBits + 1
    BY Widths
  <2> HIDE DEF m
  <2>2. 2^m <= 2^places
    BY <2>1, PowerOrder
  <2>3. QED
    BY <2>2 DEF m
<1> HIDE DEF A, I, H, L, P
<1>6. CASE places < IntBits
  <2>1. d * A = d * P /\ d * A \in Nat /\ d * A < I
    BY <1>1, <1>2, <1>4, <1>6
  <2>2. int = d * P
    BY <1>2, <2>1, RemainderSmall
  <2> HIDE DEF int
  <2>3. Shifted(d, places) = d * P
    BY <1>3, <1>4, <2>2
  <2>4. QED
    BY <2>3 DEF P
<1>7. CASE ~ (places < IntBits)
  <2>1. d = 0
    <3>1. ASSUME d >= 1 PROVE FALSE
      <4>1. P <= d * P
        BY <1>4, <3>1
      <4>2. d * P \in Nat
        BY <1>4
      <4>3. QED
        BY <1>2, <1>4, <1>5, <1>7, <4>1, <4>2
    <3>2. QED
      BY <3>1
  <2>2. d * A = 0 /\ d * P = 0
    BY <1>1, <1>4, <2>1
  <2>3. 0 \in Nat /\ 0 < I
    BY <1>2
  <2>4. 0 % I = 0
    BY <1>2, <2>3, RemainderSmall
  <2>5. int = 0
    BY <2>2, <2>4
  <2> HIDE DEF int
  <2>6. Shifted(d, places) = d * P
    BY <1>2, <1>3, <2>2, <2>5
  <2>7. QED
    BY <2>6 DEF P
<1>8. QED
  BY <1>6, <1>7

\* and what sets its sign bit with all the bits above it.
LEMMA ShiftedSign ==
  ASSUME NEW d \in Nat, NEW places \in Nat, places < IntBits,
         2^(IntBits - 1) <= d * 2^places, d * 2^places < 2^IntBits
  PROVE  Shifted(d, places) = d * 2^places + 2^LongBits - 2^IntBits
<1> DEFINE I == 2^IntBits
           H == 2^(IntBits - 1)
           L == 2^LongBits
           P == 2^places
           int == (d * P) % I
<1>1. places % IntBits = places /\ P \in Nat \ {0}
  BY PlacesIn
<1>2. Shifted(d, places) = IF int < H THEN int ELSE int + L - I
  BY <1>1 DEF Shifted
<1>3. I \in Nat \ {0} /\ H \in Nat /\ L \in Nat /\ H <= d * P /\ d * P < I
  BY Ranges
<1> HIDE DEF I, H, L, P
<1>4. d * P \in Nat
  BY <1>1
<1>5. int = d * P
  BY <1>3, <1>4, RemainderSmall
<1> HIDE DEF int
<1>6. Shifted(d, places) = d * P + L - I
  BY <1>2, <1>3, <1>4, <1>5
<1>7. QED
  BY <1>6 DEF I, L, P
-----------------------------------------------------------------------------
\* The fold of Decompile.
Widens(g, p) ==
    [x \in (1..Len(Locations(p))) \X Nat |->
        (x[2] + Shifted(Part(g, p, x[1]), MinBit(p, x[1]))) % 2^LongBits]

LEMMA WidensIn ==
  ASSUME NEW p \in Param, NEW g, HasBytes(g, p)
  PROVE  /\ Widens(g, p) \in [(1..Len(Locations(p))) \X Nat -> Nat]
         /\ \A k \in 1..Len(Locations(p)), y \in Nat :
               Widens(g, p)[<<k, y>>] = (y + Shifted(Part(g, p, k), MinBit(p, k))) % 2^LongBits
<1> DEFINE N == Len(Locations(p))
           L == 2^LongBits
           D(k) == Shifted(Part(g, p, k), MinBit(p, k))
<1>1. ASSUME NEW k \in 1..N PROVE D(k) \in Nat
  <2>1. Part(g, p, k) \in Nat /\ MinBit(p, k) \in Nat
    BY PartIn, PlaceIn
  <2>2. QED
    BY <2>1, ShiftedIn
<1>2. L \in Nat \ {0}
  BY Ranges
<1> HIDE DEF D, L, N
<1>3. ASSUME NEW k \in 1..N, NEW y \in Nat PROVE (y + D(k)) % L \in Nat
  <2>1. y + D(k) \in Nat
    BY <1>1
  <2>2. QED
    BY <1>2, <2>1, Division
<1>4. \A x \in (1..N) \X Nat : (x[2] + D(x[1])) % L \in Nat
  BY <1>3
<1>5. Widens(g, p) = [x \in (1..N) \X Nat |-> (x[2] + D(x[1])) % L]
  BY DEF Widens, D, L, N
<1>6. /\ Widens(g, p) \in [(1..N) \X Nat -> Nat]
      /\ \A k \in 1..N, y \in Nat : Widens(g, p)[<<k, y>>] = (y + D(k)) % L
  BY <1>4, <1>5
<1>7. QED
  BY <1>6 DEF D, L, N

LEMMA DecompileFold ==
  ASSUME NEW p \in Param, NEW g, HasBytes(g, p)
  PROVE  Gives(Decompile(g, p), Len(Locations(p)), Nat, 0, Widens(g, p))
<1> DEFINE n == Len(Locations(p))
           J == [i \in DOMAIN Locations(p) |-> i]
           F == Widens(g, p)
           L == 2^LongBits
           D(k) == Shifted(Field(g[Locations(p)[k].reg], Locations(p)[k]), MinBit(p, k))
           iter == CHOOSE it : it = [s \in SUBSET DOMAIN J |->
                      IF s = {} THEN 0
                      ELSE (it[s \ {Max(s)}]
                            + Shifted(Field(g[Locations(p)[J[Max(s)]].reg], Locations(p)[J[Max(s)]]),
                                      MinBit(p, J[Max(s)]))) % 2^LongBits]
<1>1. Decompile(g, p) = iter[DOMAIN J]
  BY DEF Decompile, FoldLeftDomain, FoldLeft, MapThenFoldSet
<1>2. n \in Nat /\ DOMAIN J = 1..n /\ \A k \in 1..n : J[k] = k
  BY Table
<1>3. /\ F \in [(1..n) \X Nat -> Nat]
      /\ \A k \in 1..n, y \in Nat : F[<<k, y>>] = (y + D(k)) % L
  BY WidensIn DEF Part
<1>4. iter = CHOOSE it : it = [s \in SUBSET DOMAIN J |->
                IF s = {} THEN 0 ELSE (it[s \ {Max(s)}] + D(J[Max(s)])) % L]
  OBVIOUS
<1> HIDE DEF n, J, F, D, L, iter
<1>5. PICK f : Folds(f, n, Nat, 0, F)
  BY <1>2, <1>3, FoldsExist
<1>6. \A s \in SUBSET (1..n) : f[s] = IF s = {} THEN 0 ELSE (f[s \ {Max(s)}] + D(J[Max(s)])) % L
  <2> SUFFICES ASSUME NEW s \in SUBSET (1..n), s # {}
               PROVE f[s] = (f[s \ {Max(s)}] + D(J[Max(s)])) % L
    BY <1>5 DEF Folds
  <2> DEFINE m == Max(s)
  <2>1. m \in 1..n /\ J[m] = m
    BY <1>2, MaxIs
  <2>2. f[s \ {m}] \in Nat /\ f[s] = F[<<m, f[s \ {m}]>>]
    BY <1>5 DEF Folds
  <2> HIDE DEF m
  <2>3. f[s] = (f[s \ {m}] + D(J[m])) % L
    BY <1>3, <2>1, <2>2
  <2>4. QED
    BY <2>3 DEF m
<1>7. f = [s \in SUBSET DOMAIN J |-> IF s = {} THEN 0 ELSE (f[s \ {Max(s)}] + D(J[Max(s)])) % L]
  BY <1>2, <1>5, <1>6 DEF Folds
<1>8. iter = [s \in SUBSET DOMAIN J |->
                IF s = {} THEN 0 ELSE (iter[s \ {Max(s)}] + D(J[Max(s)])) % L]
  BY <1>4, <1>7
<1>9. iter[{}] = 0
  BY <1>8
<1>10. ASSUME NEW k \in 1..n, NEW y \in Nat, iter[1..(k - 1)] = y PROVE iter[1..k] = F[<<k, y>>]
  <2>1. k \in Nat \ {0} /\ k <= n /\ k \in 1..k
    BY <1>2
  <2>2. (1..k) \in SUBSET DOMAIN J /\ 1..k # {}
    <3>1. \A x \in 1..k : x \in 1..n
      BY <1>2, <2>1
    <3>2. 1..k \subseteq DOMAIN J
      BY <1>2, <3>1
    <3>3. QED
      BY <2>1, <3>2
  <2>3. Max(1..k) = k /\ (1..k) \ {Max(1..k)} = 1..(k - 1) /\ J[k] = k
    BY <1>2, <2>1, MaxUpTo
  <2>4. iter[1..k] = (iter[1..(k - 1)] + D(J[k])) % L
    BY <1>8, <2>2, <2>3
  <2>5. iter[1..k] = (y + D(k)) % L
    BY <1>10, <2>3, <2>4
  <2>6. QED
    BY <1>3, <2>5
<1>11. Follows(iter, n, Nat, 0, F)
  BY <1>9, <1>10 DEF Follows
<1>12. Gives(iter[1..n], n, Nat, 0, F)
  <2>1. 0 \in Nat
    OBVIOUS
  <2>2. QED
    BY <1>2, <1>3, <1>11, <2>1, PassesIter
<1>13. QED
  BY <1>1, <1>2, <1>12 DEF n, F

\* The values of pval.
PVals(a, g, p) ==
    /\ a \in [0..Len(Locations(p)) -> Nat] /\ a[0] = 0 /\ Decompile(g, p) = a[Len(Locations(p))]
    /\ \A k \in 1..Len(Locations(p)) :
          a[k] = (a[k - 1] + Shifted(Part(g, p, k), MinBit(p, k))) % 2^LongBits

LEMMA DecompilePVals ==
  ASSUME NEW p \in Param, NEW g, HasBytes(g, p) PROVE \E a : PVals(a, g, p)
<1> DEFINE N == Len(Locations(p))
           D(k) == Shifted(Part(g, p, k), MinBit(p, k))
           L == 2^LongBits
<1>1. PICK a : Passes(a, N, Nat, 0, Widens(g, p)) /\ Decompile(g, p) = a[N]
  BY DecompileFold DEF Gives
<1>2. a \in [0..N -> Nat] /\ a[0] = 0 /\ \A k \in 1..N : a[k] = Widens(g, p)[<<k, a[k - 1]>>]
  BY <1>1 DEF Passes
<1>3. N \in Nat
  BY Table
<1>4. \A k \in 1..N : a[k - 1] \in Nat
  BY <1>2, <1>3
<1>5. \A k \in 1..N, y \in Nat : Widens(g, p)[<<k, y>>] = (y + D(k)) % L
  BY WidensIn
<1> HIDE DEF N, D, L
<1>6. \A k \in 1..N : a[k] = (a[k - 1] + D(k)) % L
  BY <1>2, <1>4, <1>5
<1>7. QED
  BY <1>1, <1>2, <1>6 DEF PVals, N, D, L

LEMMA SumsGrow ==
  ASSUME NEW p \in Param, NEW g, HasBytes(g, p), NEW h, Sums(h, g, p), NEW m \in 0..Len(Locations(p))
  PROVE  /\ \A k \in 0..m : h[k] \in Nat /\ h[k] <= h[m]
         /\ \A k \in 1..m : /\ Part(g, p, k) * 2^MinBit(p, k) \in Nat
                            /\ Part(g, p, k) * 2^MinBit(p, k) <= h[m]
<1> DEFINE N == Len(Locations(p))
           D(k) == Part(g, p, k) * 2^MinBit(p, k)
           T == {j \in 0..m : ~ (h[m - j] <= h[m])}
<1>1. N \in Nat /\ m \in Nat /\ m <= N
  BY Table
<1>2. \A k \in 1..N : D(k) \in Nat
  <2> SUFFICES ASSUME NEW k \in 1..N PROVE D(k) \in Nat
    OBVIOUS
  <2>1. Part(g, p, k) \in Nat /\ 2^MinBit(p, k) \in Nat
    BY PartIn, PlaceIn, Power
  <2>2. QED
    BY <2>1
<1>3. h \in [0..N -> Nat] /\ \A k \in 1..N : h[k] = h[k - 1] + D(k)
  BY DEF Sums
<1> HIDE DEF N, D
<1>4. \A k \in 0..m : h[k] \in Nat
  BY <1>1, <1>3
<1>5. \A k \in 1..m : h[k] = h[k - 1] + D(k) /\ D(k) \in Nat
  BY <1>1, <1>2, <1>3
<1>6. T = {}
  <2> SUFFICES ASSUME T # {} PROVE FALSE
    OBVIOUS
  <2>1. T \subseteq Nat
    BY <1>1
  <2>2. PICK j \in T : \A i \in T : j <= i
    <3> HIDE DEF T
    <3>1. QED
      BY <2>1, LeastExists
  <2>3. j # 0
    BY <1>1, <1>4
  <2> DEFINE k == m - j + 1
  <2>4. k \in 1..m /\ k - 1 = m - j /\ k = m - (j - 1) /\ j - 1 \in 0..m /\ ~ (j <= j - 1)
    BY <1>1, <2>3
  <2>5. h[k] <= h[m]
    BY <2>2, <2>4
  <2>6. h[k - 1] \in Nat /\ h[k] = h[k - 1] + D(k) /\ D(k) \in Nat /\ h[m] \in Nat
    BY <1>1, <1>4, <1>5, <2>4
  <2>7. ~ (h[k - 1] <= h[m])
    BY <2>2, <2>4
  <2> HIDE DEF k
  <2>8. QED
    BY <2>5, <2>6, <2>7
<1>7. ASSUME NEW k \in 0..m PROVE h[k] <= h[m]
  <2> DEFINE j == m - k
  <2>1. j \in 0..m /\ m - j = k
    BY <1>1
  <2> HIDE DEF j
  <2>2. QED
    BY <1>6, <2>1
<1>8. ASSUME NEW k \in 1..m PROVE D(k) <= h[m]
  <2>1. k \in 0..m /\ k - 1 \in 0..m /\ m \in 0..m
    BY <1>1
  <2>2. QED
    BY <1>4, <1>5, <1>7, <2>1
<1>9. QED
  BY <1>4, <1>5, <1>7, <1>8 DEF D

\* As long as the sum fits an int, pval is the sum,
LEMMA PValIs ==
  ASSUME NEW p \in Param, NEW g, HasBytes(g, p), NEW h, Sums(h, g, p), NEW a, PVals(a, g, p),
         NEW m \in 0..Len(Locations(p)), h[m] < 2^(IntBits - 1)
  PROVE  a[m] = h[m]
<1> DEFINE N == Len(Locations(p))
           D(k) == Part(g, p, k) * 2^MinBit(p, k)
           S(k) == Shifted(Part(g, p, k), MinBit(p, k))
           H == 2^(IntBits - 1)
           L == 2^LongBits
<1>1. N \in Nat /\ m \in Nat /\ m <= N /\ m \in 0..m
  BY Table
<1>2. H \in Nat /\ L \in Nat \ {0} /\ H <= L
  BY Ranges
<1>3. /\ \A k \in 0..m : h[k] \in Nat /\ h[k] <= h[m]
      /\ \A k \in 1..m : D(k) \in Nat /\ D(k) <= h[m]
  BY SumsGrow
<1>4. \A k \in 1..N : Part(g, p, k) \in Nat /\ MinBit(p, k) \in 0..LongBits
  BY PartIn, PlaceIn
<1>5. h[0] = 0 /\ \A k \in 1..N : h[k] = h[k - 1] + D(k)
  BY DEF Sums
<1>6. a[0] = 0 /\ \A k \in 1..N : a[k] = (a[k - 1] + S(k)) % L
  BY DEF PVals
<1>7. h[m] < H
  OBVIOUS
<1>8. ASSUME NEW k \in 1..m PROVE S(k) = D(k)
  <2>1. k \in 1..N
    BY <1>1
  <2>2. D(k) < H
    BY <1>1, <1>2, <1>3, <1>7
  <2>3. QED
    BY <1>4, <2>1, <2>2, ShiftedSmall
<1> HIDE DEF N, D, S, H, L
<1>9. ASSUME NEW k \in 1..m, a[k - 1] = h[k - 1] PROVE a[k] = h[k]
  <2>1. k \in 1..N /\ k \in 0..m /\ k - 1 \in 0..m
    BY <1>1
  <2>2. a[k] = h[k] % L
    BY <1>5, <1>6, <1>8, <1>9, <2>1
  <2>3. h[k] \in Nat /\ h[k] < L
    BY <1>1, <1>2, <1>3, <1>7, <2>1
  <2>4. QED
    BY <1>2, <2>2, <2>3, RemainderSmall
<1>10. InStep(a, h, m)
  BY <1>5, <1>6, <1>9 DEF InStep
<1>11. QED
  BY <1>1, <1>10, PassesOnce

LEMMA DecompileSmall ==
  ASSUME NEW p \in Param, NEW g, HasBytes(g, p), Held(g, p) < 2^(IntBits - 1)
  PROVE  Decompile(g, p) = Held(g, p)
<1>1. PICK h : Sums(h, g, p)
  BY HeldSums
<1>2. PICK a : PVals(a, g, p)
  BY DecompilePVals
<1> DEFINE N == Len(Locations(p))
<1>3. Held(g, p) = h[N] /\ Decompile(g, p) = a[N]
  BY <1>1, <1>2 DEF Sums, PVals
<1>4. N \in 0..N
  BY Table
<1>5. a[N] = h[N]
  BY <1>1, <1>2, <1>3, <1>4, PValIs
<1>6. QED
  BY <1>3, <1>5

\* and a parameter that fills an int and has its top bit set comes out above its range.
LEMMA DecompileSigned ==
  ASSUME NEW p \in Param, NEW g, HasBytes(g, p), Total(p) = IntBits,
         ~ (Held(g, p) < 2^(IntBits - 1))
  PROVE  ~ Fits(p, Decompile(g, p))
<1>1. PICK h : Sums(h, g, p)
  BY HeldSums
<1>2. PICK a : PVals(a, g, p)
  BY DecompilePVals
<1> DEFINE N == Len(Locations(p))
           m == N - 1
           M == MinBit(p, N)
           n == Locations(p)[N].n
           d == Part(g, p, N)
           I == 2^IntBits
           H == 2^(IntBits - 1)
           L == 2^LongBits
           P == 2^M
           v == Held(g, p)
<1>3. N \in Nat \ {0} /\ m \in 0..N /\ N \in 0..N /\ N \in 1..N /\ m \in Nat
      /\ N \in 1..(N + 1) /\ n \in Nat \ {0}
  BY Table
<1>4. Held(g, p) = h[N] /\ h[N] = h[m] + d * P
  BY <1>1, <1>3 DEF Sums
<1>5. Decompile(g, p) = a[N] /\ a[N] = (a[m] + Shifted(d, M)) % L
  BY <1>2, <1>3 DEF PVals
<1>6. v \in Nat /\ v < I /\ H <= v
  <2>1. v \in Nat /\ v < 2^Total(p)
    BY DigitsOfHeld
  <2>2. H \in Nat
    BY Ranges
  <2>3. QED
    BY <2>1, <2>2
<1>7. I \in Nat \ {0} /\ H \in Nat \ {0} /\ L \in Nat \ {0} /\ I = 2 * H /\ 2 * I <= L
  BY Ranges
<1>8. M + n = IntBits /\ M \in 0..LongBits
  <2>1. MinBit(p, N + 1) = M + n /\ M \in 0..LongBits
    BY <1>3, PlaceIn
  <2>2. QED
    BY <2>1 DEF Total
<1>9. d \in Nat /\ P \in Nat \ {0} /\ d * P \in Nat
  <2>1. d \in Nat /\ P \in Nat \ {0}
    BY <1>3, <1>8, PartIn, Power
  <2>2. QED
    BY <2>1
<1>10. h[m] \in Nat /\ h[m] < P
  <2>1. SumIs(h[m], g, p, m)
    BY <1>1, <1>3, SumUpTo
  <2>2. m + 1 = N
    BY <1>3
  <2>3. QED
    BY <2>1, <2>2 DEF SumIs
<1> DEFINE c == n - 1
           C == 2^c
<1>11. C \in Nat \ {0} /\ H = P * C
  <2> DEFINE t == IntBits - 1
  <2>1. c \in 0..LongBits /\ c \in Nat /\ M \in Nat /\ M + c <= LongBits + 1 /\ t = M + c
    BY <1>3, <1>8, Widths
  <2> HIDE DEF M, c, t
  <2>2. 2^(M + c) = 2^M * 2^c /\ 2^c \in Nat \ {0}
    BY <2>1, PowerAdd, Power
  <2>3. 2^t = 2^M * 2^c
    BY <2>1, <2>2
  <2>4. QED
    BY <2>2, <2>3 DEF t
<1>12. M \in Nat /\ M < IntBits
  BY <1>3, <1>8, Widths
<1> HIDE DEF C, c
<1>13. P <= H
  <2> HIDE DEF P, H
  <2>1. P <= P * C
    BY <1>9, <1>11
  <2>2. QED
    BY <1>11, <2>1
<1>14. a[m] = h[m]
  <2>1. h[m] < H
    <3> HIDE DEF P, H
    <3>1. QED
      BY <1>7, <1>9, <1>10, <1>13
  <2>2. QED
    BY <1>1, <1>2, <1>3, <2>1, PValIs
<1>15. v = h[m] + d * P
  BY <1>4
<1>16. H <= d * P /\ d * P < I
  <2> HIDE DEF P, H, I, v, d, M, m
  <2>1. ASSUME d <= C - 1 PROVE FALSE
    <3>1. P * d <= P * (C - 1)
      BY <1>9, <1>11, <2>1
    <3>2. P * (C - 1) = P * C - P /\ P * d = d * P
      BY <1>9, <1>11
    <3>3. QED
      BY <1>6, <1>7, <1>9, <1>10, <1>11, <1>15, <3>1, <3>2
  <2>2. C <= d
    BY <1>9, <1>11, <2>1
  <2>3. P * C <= P * d /\ P * d = d * P
    BY <1>9, <1>11, <2>2
  <2>4. QED
    BY <1>6, <1>7, <1>9, <1>10, <1>11, <1>15, <2>3
<1>17. Shifted(d, M) = d * P + L - I
  BY <1>9, <1>12, <1>16, ShiftedSign
<1>18. Decompile(g, p) = (h[m] + (d * P + L - I)) % L
  BY <1>5, <1>14, <1>17
<1> DEFINE w == v + L - I
<1>19. Decompile(g, p) = w
  <2> DEFINE x == h[m] + (d * P + L - I)
  <2> HIDE DEF P, H, I, L, v, d, M, m
  <2>1. x = w /\ w \in Nat /\ w < L
    BY <1>6, <1>7, <1>9, <1>10, <1>15
  <2> HIDE DEF x, w
  <2>2. w % L = w
    BY <1>7, <2>1, RemainderSmall
  <2>3. QED
    BY <1>18, <2>1, <2>2 DEF x
<1>20. ~ (w < I)
  <2> HIDE DEF P, H, I, L, v, d, M, m
  <2>1. QED
    BY <1>6, <1>7
<1>21. QED
  BY <1>19, <1>20 DEF Fits
-----------------------------------------------------------------------------
(***************************************************************************)
(* Reloads.                                                                *)
(***************************************************************************)
IntendedInv == DOMAIN intended = Param /\ \A p \in Param : intended[p] \in Nat

LEMMA HeldNat == ASSUME NEW g \in Chips, NEW p \in Param PROVE Held(g, p) \in Nat
  BY ChipBytes, DigitsOfHeld

LEMMA IntendedInit == ASSUME Init PROVE IntendedInv
<1>1. chip \in Chips
  BY InitialAssumption DEF Init
<1>2. intended = [p \in Param |-> Held(chip, p)]
  BY DEF Init
<1>3. QED
  BY <1>1, <1>2, HeldNat DEF IntendedInv

LEMMA IntendedNext == ASSUME ViewInv, IntendedInv, [Next]_vars PROVE IntendedInv'
<1>1. chip \in Chips
  BY DEF ViewInv, Shape
<1>2. CASE HardReset
  BY <1>2, DefaultsAre DEF HardReset, IntendedInv
<1>3. CASE ParameterApplied
  <2>1. /\ Written({"apply"})
        /\ intended' = [p \in Param |-> IF p \in DOMAIN op.params THEN op.params[p] ELSE intended[p]]
    BY <1>3 DEF ParameterApplied
  <2>2. PICK b \in Chips : op.kind \in {"apply"} /\ Task(op, image, handles, suspect, b)
    BY <2>1, ViewWritten
  <2>3. Overlaying(op, image, handles, suspect, b)
    BY <2>2 DEF Task, Loading, Copying, Restoring
  <2>4. op.params \in Settings
    BY <2>2, <2>3 DEF Overlaying
  <2>5. QED
    BY <2>1, <2>4, SettingsAre DEF IntendedInv
<1>4. CASE ParametersLoaded
  <2>1. Written({"load"}) /\ intended' = op.params
    BY <1>4 DEF ParametersLoaded
  <2>2. PICK b \in Chips : op.kind \in {"load"} /\ Task(op, image, handles, suspect, b)
    BY <2>1, ViewWritten
  <2>3. Compiled(image, op.params)
    BY <2>2 DEF Task, Overlaying, Loading, Copying, Restoring
  <2> DEFINE ps == op.params
  <2>4. image \in Chips /\ DOMAIN ps = Param /\ \A p \in Param : Held(image, p) = ps[p]
    BY <2>3 DEF Compiled
  <2>5. \A p \in Param : ps[p] \in Nat
    BY <2>4, HeldNat
  <2>6. intended' = ps
    BY <2>1
  <2> HIDE DEF ps
  <2>7. QED
    BY <2>4, <2>5, <2>6 DEF IntendedInv
<1>5. CASE RegistersLoaded
  <2>1. intended' = [p \in Param |-> IF p \in Within(op.saved) THEN Held(chip, p) ELSE intended[p]]
    BY <1>5 DEF RegistersLoaded
  <2>2. QED
    BY <1>1, <2>1, HeldNat DEF IntendedInv
<1>6. CASE ~ (HardReset \/ ParameterApplied \/ ParametersLoaded \/ RegistersLoaded)
  <2>1. intended' = intended
    BY <1>6 DEF Next, Client, Run, vars, OpenScope, ApplyParameter, LoadOverlay, LoadWithDefaults,
         LoadRegisters, CloseScope, Throw, SetValue, Retry, GiveUp, BadLine, ScopeOpened,
         ScopeClosed, UnwindScope, Catch, Restart, ApplyParameters, StartWrite, Throws, Restore,
         Abandon
  <2>2. QED
    BY <2>1 DEF IntendedInv
<1>7. QED
  BY <1>2, <1>3, <1>4, <1>5, <1>6

LEMMA ReloadsHold == ASSUME ViewInv, IntendedInv PROVE Reloads
<1> DEFINE file == DecompileAll(chip)
<1>1. chip \in Chips
  BY DEF ViewInv, Shape
<1>2. \A p \in Param : HasBytes(chip, p) /\ Held(chip, p) \in Nat /\ Held(chip, p) < 2^Total(p)
  BY <1>1, ChipBytes, DigitsOfHeld
<1>3. DOMAIN file = Param /\ \A p \in Param : file[p] = Decompile(chip, p)
  BY <1>1, RegNat DEF Chips, DecompileAll
<1> HIDE DEF file
<1>4. \A p \in SmallValues : file[p] = Held(chip, p)
  BY <1>2, <1>3, DecompileSmall DEF SmallValues
<1>5. ASSUME SmallValues = Param
      PROVE  /\ Accepted(file)
             /\ \A before \in {Defaults, intended} : \A p \in Param :
                   Held(CompileAll(CompileAll(<<>>, before), file), p) = Held(chip, p)
  <2>1. \A p \in Param : file[p] = Held(chip, p)
    BY <1>4, <1>5
  <2>2. \A p \in Param : file[p] \in Nat /\ file[p] < 2^Total(p)
    BY <1>2, <2>1
  <2>3. Accepted(file)
    <3>1. \A p \in Param : Total(p) > 0
      BY DefaultAssumption DEF Fits
    <3>2. QED
      BY <1>3, <2>2, <3>1 DEF Accepted, Fits
  <2>4. ASSUME NEW before \in {Defaults, intended}, NEW p \in Param
        PROVE  Held(CompileAll(CompileAll(<<>>, before), file), p) = Held(chip, p)
    <3> DEFINE g == CompileAll(<<>>, before)
    <3>1. DOMAIN before = Param /\ \A q \in Param : before[q] \in Nat
      BY DefaultsAre DEF IntendedInv
    <3>2. <<>> \in Images
      <4>1. <<>> \in [{} -> Byte]
        OBVIOUS
      <4>2. QED
        BY <4>1 DEF Images
    <3>3. g \in Images
      <4>1. DOMAIN before \subseteq Param /\ \A q \in DOMAIN before : before[q] \in Nat
        BY <3>1
      <4>2. Done(g, <<>>, before, DOMAIN before)
        BY <3>2, <4>1, CompileAllIs
      <4>3. QED
        BY <4>2 DEF Done
    <3> HIDE DEF g
    <3>4. Compiled(CompileAll(g, file), file)
      BY <1>3, <2>2, <2>3, <3>3, CompiledIs
    <3>5. Held(CompileAll(g, file), p) = file[p]
      BY <3>4 DEF Compiled
    <3>6. QED
      BY <2>1, <3>5 DEF g
  <2>5. QED
    BY <2>3, <2>4
<1>6. QED
  BY <1>4, <1>5 DEF Reloads, file

\* Reloads, for every table, and whatever scopes, files and failures came before: what is
\* dumped between calls keeps every value below 2^31, and gives the chip the same
\* parameters again where it has no others.
THEOREM ReloadsCorrect == Spec => []Reloads
<1>1. Init => ViewInv /\ IntendedInv
  BY ViewInit, IntendedInit
<1>2. ViewInv /\ IntendedInv /\ [Next]_vars => ViewInv' /\ IntendedInv'
  BY ViewNext, IntendedNext
<1>3. ViewInv /\ IntendedInv => Reloads
  BY ReloadsHold
<1>4. QED
  BY <1>1, <1>2, <1>3, PTL DEF Spec

\* Which dumps are lost: those of a chip on which a parameter as wide as an int has its top
\* bit set, as SC_TESTRAM has by default. ROC.LOAD accepts none of them.
THEOREM LostDumps ==
  Spec => [](\A p \in Param : Total(p) = IntBits /\ 2^(IntBits - 1) <= Held(chip, p)
                => ~ Accepted(DecompileAll(chip)))
<1> DEFINE Lost == \A p \in Param : Total(p) = IntBits /\ 2^(IntBits - 1) <= Held(chip, p)
                     => ~ Accepted(DecompileAll(chip))
<1>1. Init => ViewInv /\ IntendedInv
  BY ViewInit, IntendedInit
<1>2. ViewInv /\ IntendedInv /\ [Next]_vars => ViewInv' /\ IntendedInv'
  BY ViewNext, IntendedNext
<1>3. ASSUME ViewInv PROVE Lost
  <2> SUFFICES ASSUME NEW p \in Param, Total(p) = IntBits, 2^(IntBits - 1) <= Held(chip, p)
               PROVE  ~ Accepted(DecompileAll(chip))
    OBVIOUS
  <2> DEFINE file == DecompileAll(chip)
  <2>1. chip \in Chips
    BY <1>3 DEF ViewInv, Shape
  <2>2. HasBytes(chip, p) /\ ~ (Held(chip, p) < 2^(IntBits - 1))
    <3>1. HasBytes(chip, p) /\ Held(chip, p) \in Nat /\ 2^(IntBits - 1) \in Nat
      BY <2>1, ChipBytes, DigitsOfHeld, Ranges
    <3>2. QED
      BY <3>1
  <2>3. DOMAIN file = Param /\ file[p] = Decompile(chip, p)
    BY <2>1, RegNat DEF Chips, DecompileAll
  <2> HIDE DEF file
  <2>4. ~ Fits(p, file[p])
    BY <2>2, <2>3, DecompileSigned
  <2>5. ~ Accepted(file)
    BY <2>3, <2>4 DEF Accepted
  <2>6. QED
    BY <2>5 DEF file
<1>4. QED
  BY <1>1, <1>2, <1>3, PTL DEF Spec
=============================================================================
