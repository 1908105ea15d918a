------------------------------ MODULE ScanProofs ------------------------------
(***************************************************************************)
(* Proofs about Scan, for every width of an address, every prefix that is  *)
(* swept and every number of workers.                                      *)
(***************************************************************************)
EXTENDS Scan, FiniteSetTheorems, SequenceTheorems, WellFoundedInduction, TLAPS

-----------------------------------------------------------------------------
(* Induction, and powers of two *)

(* A set of numbers that has 0 and with every number the next has them     *)
(* all: there is no least one outside.                                     *)
LEMMA SetInduction ==
  ASSUME NEW T, 0 \in T, \A n \in Nat : n \in T => n + 1 \in T
  PROVE  Nat \subseteq T
<1> DEFINE U == Nat \ T
<1>1. SUFFICES ASSUME U # {} PROVE FALSE
  OBVIOUS
<1>2. IsWellFoundedOn(OpToRel(<, Nat), Nat)
  BY NatLessThanWellFounded
<1>3. PICK x \in U : \A y \in U : ~(<<y, x>> \in OpToRel(<, Nat))
  <2>1. U \subseteq Nat
    OBVIOUS
  <2> HIDE DEF U
  <2> QED BY <1>1, <1>2, <2>1, WFMin
<1>4. x - 1 \in U
  OBVIOUS
<1>5. <<x - 1, x>> \in OpToRel(<, Nat)
  <2>1. OpToRel(<, Nat) = {ss \in Nat \X Nat : ss[1] < ss[2]}
    BY DEF OpToRel
  <2>2. <<x - 1, x>> \in Nat \X Nat /\ x - 1 < x
    BY <1>4
  <2> QED BY <2>1, <2>2
<1> QED BY <1>3, <1>4, <1>5

(* A power of two counts the subsets of 1..n. *)
LEMMA PowerIsPositive ==
  ASSUME NEW n \in Nat
  PROVE  2^n \in Nat \ {0}
<1>1. IsFiniteSet(1..n) /\ Cardinality(1..n) = n
  BY FS_Interval
<1>2. IsFiniteSet(SUBSET (1..n)) /\ Cardinality(SUBSET (1..n)) = 2^n
  BY <1>1, FS_SUBSET
<1>3. SUBSET (1..n) # {}
  OBVIOUS
<1> QED BY <1>2, <1>3, FS_CardinalityType, FS_EmptySet

(* A subset of 1..(m + n) is one of 1..m and one of (m + 1)..(m + n). *)
LEMMA PowersMultiply ==
  ASSUME NEW m \in Nat, NEW n \in Nat
  PROVE  2^(m + n) = 2^m * 2^n
<1> DEFINE Low == 1..m
           High == (m + 1)..(m + n)
           Both == 1..(m + n)
           f == [u \in SUBSET Both |-> <<u \cap Low, u \cap High>>]
<1>1. /\ IsFiniteSet(Low) /\ Cardinality(Low) = m
      /\ IsFiniteSet(High) /\ Cardinality(High) = n
      /\ IsFiniteSet(Both) /\ Cardinality(Both) = m + n
  <2>1. IsFiniteSet(Low) /\ Cardinality(Low) = IF 1 > m THEN 0 ELSE m - 1 + 1
    BY FS_Interval
  <2>2. /\ IsFiniteSet(High)
        /\ Cardinality(High) = IF m + 1 > m + n THEN 0 ELSE (m + n) - (m + 1) + 1
    BY FS_Interval
  <2>3. IsFiniteSet(Both) /\ Cardinality(Both) = IF 1 > m + n THEN 0 ELSE (m + n) - 1 + 1
    BY FS_Interval
  <2> HIDE DEF Low, High, Both
  <2> QED BY <2>1, <2>2, <2>3
<1>2. /\ IsFiniteSet(SUBSET Low) /\ Cardinality(SUBSET Low) = 2^m
      /\ IsFiniteSet(SUBSET High) /\ Cardinality(SUBSET High) = 2^n
      /\ IsFiniteSet(SUBSET Both) /\ Cardinality(SUBSET Both) = 2^(m + n)
  <2> HIDE DEF Low, High, Both
  <2> QED BY <1>1, FS_SUBSET
<1>3. Both = Low \cup High /\ Low \cap High = {}
  OBVIOUS
<1> HIDE DEF Low, High, Both
<1>4. f \in Bijection(SUBSET Both, (SUBSET Low) \X (SUBSET High))
  <2>1. ASSUME NEW u \in SUBSET Both, NEW v \in SUBSET Both, f[u] = f[v] PROVE u = v
    <3>1. u \cap Low = v \cap Low /\ u \cap High = v \cap High
      BY <2>1
    <3> QED BY <1>3, <3>1
  <2>2. f \in [SUBSET Both -> (SUBSET Low) \X (SUBSET High)]
    OBVIOUS
  <2>3. ASSUME NEW w \in (SUBSET Low) \X (SUBSET High)
        PROVE  \E u \in SUBSET Both : f[u] = w
    <3> DEFINE u == w[1] \cup w[2]
    <3>1. w[1] \in SUBSET Low /\ w[2] \in SUBSET High /\ w = <<w[1], w[2]>>
      OBVIOUS
    <3>2. u \in SUBSET Both /\ u \cap Low = w[1] /\ u \cap High = w[2]
      BY <1>3, <3>1
    <3>3. f[u] = w
      BY <3>1, <3>2
    <3> QED BY <3>2, <3>3
  <2> HIDE DEF f
  <2> QED BY <2>1, <2>2, <2>3 DEF Bijection, Injection, Surjection, IsInjective
<1>5. Cardinality((SUBSET Low) \X (SUBSET High)) = 2^m * 2^n
  <2>1. Cardinality((SUBSET Low) \X (SUBSET High)) = Cardinality(SUBSET Low) * Cardinality(SUBSET High)
    BY <1>2, FS_Product
  <2> QED BY <1>2, <2>1
<1> HIDE DEF f
<1> QED BY <1>2, <1>4, <1>5, FS_Bijection DEF ExistsBijection

-----------------------------------------------------------------------------
(* Addresses and prefixes *)

(* The numbers with the same quotient as a multiple of s are the s from it *)
(* on.                                                                     *)
LEMMA SameQuotient ==
  ASSUME NEW s \in Nat \ {0}, NEW a \in Nat, NEW b \in Nat, b % s = 0
  PROVE  a \div s = b \div s <=> b <= a /\ a < b + s
<1> DEFINE k == a \div s
           q == b \div s
<1>1. k \in Int /\ q \in Int
  OBVIOUS
<1>2. a = s * k + (a % s) /\ a % s \in 0..(s - 1)
  OBVIOUS
<1>3. b = s * q
  OBVIOUS
<1> HIDE DEF k, q
<1>4. s * k <= a /\ a < s * k + s
  BY <1>1, <1>2
<1>5. ASSUME k = q PROVE b <= a /\ a < b + s
  BY <1>3, <1>4, <1>5
<1>6. ASSUME b <= a, a < b + s PROVE k = q
  <2>1. ASSUME k < q PROVE FALSE
    <3>1. s * (k + 1) <= s * q
      BY <1>1, <2>1
    <3> QED BY <1>1, <1>3, <1>4, <1>6, <3>1
  <2>2. ASSUME q < k PROVE FALSE
    <3>1. s * (q + 1) <= s * k
      BY <1>1, <2>2
    <3> QED BY <1>1, <1>3, <1>4, <1>6, <3>1
  <2> QED BY <1>1, <2>1, <2>2
<1> QED BY <1>5, <1>6 DEF k, q

Last(p) == p.addr + Size(p) - 1

(* The addresses a prefix contains are the ones from its own to its last,  *)
(* which all exist.                                                        *)
LEMMA PrefixIsInterval ==
  ASSUME NEW p \in Sweepable
  PROVE  /\ Size(p) \in Nat \ {0} /\ Masked(p).addr = p.addr
         /\ p.addr \in Addresses /\ Last(p) \in Addresses
         /\ Addresses \subseteq Nat /\ ~Contains(p, None)
         /\ \A a \in Addresses : Contains(p, a) <=> a \in p.addr..Last(p)
         /\ Size(p) >= 4 <=> p.bits <= Width - 2
<1> USE ScanAssumption
<1> DEFINE s == Size(p)
           r == p.addr % s
<1>1. p.addr \in Addresses /\ p.bits \in MaxSweepBits..Width /\ p = Masked(p)
  BY DEF Sweepable
<1>2. s \in Nat \ {0} /\ 2^p.bits \in Nat \ {0} /\ 2^Width \in Nat \ {0}
  BY <1>1, PowerIsPositive DEF Size
<1>3. 2^Width = 2^p.bits * s
  <2>1. Width = p.bits + (Width - p.bits) /\ p.bits \in Nat /\ Width - p.bits \in Nat
    BY <1>1
  <2> QED BY <2>1, PowersMultiply DEF Size
<1>4. Masked(p) = [p EXCEPT !.addr = p.addr - r]
  BY DEF Masked
<1>5. Addresses \subseteq Nat /\ Addresses = 0..(2^Width - 1)
  BY <1>2 DEF Addresses
<1> HIDE DEF s
<1>6. Masked(p).addr = p.addr - r
  BY <1>4 DEF Sweepable
<1>7. r = 0 /\ Masked(p).addr = p.addr
  BY <1>1, <1>2, <1>5, <1>6
<1>8. \A a \in Addresses : Contains(p, a) <=> a \in p.addr..Last(p)
  <2> TAKE a \in Addresses
  <2>1. a # None
    BY <1>5
  <2>2. a \div s = p.addr \div s <=> p.addr <= a /\ a < p.addr + s
    BY <1>1, <1>2, <1>5, <1>7, SameQuotient
  <2>3. Contains(p, a) <=> a \div s = p.addr \div s
    BY <2>1 DEF Contains, s
  <2> QED BY <1>1, <1>2, <1>5, <2>2, <2>3 DEF Last, s
<1>9. Last(p) \in Addresses
  <2> DEFINE q == p.addr \div s
             b == 2^p.bits
  <2>1. q \in Nat /\ p.addr = s * q
    BY <1>1, <1>2, <1>5, <1>7
  <2>2. s * q < b * s /\ b \in Nat
    BY <1>1, <1>2, <1>3, <1>5, <2>1
  <2> HIDE DEF q, b
  <2>3. q < b
    <3>1. ASSUME b <= q PROVE FALSE
      <4>1. b * s <= s * q
        BY <1>2, <2>1, <2>2, <3>1
      <4> QED BY <1>2, <2>1, <2>2, <4>1
    <3> QED BY <2>1, <2>2, <3>1
  <2>4. s * q + s <= b * s
    <3>1. (q + 1) * s <= b * s
      BY <1>2, <2>1, <2>2, <2>3
    <3> QED BY <1>2, <2>1, <3>1
  <2>5. Last(p) = s * q + s - 1 /\ 2^Width = b * s
    BY <1>3, <2>1 DEF Last, b, s
  <2> QED BY <1>2, <1>5, <2>1, <2>2, <2>4, <2>5
<1>10. s >= 4 <=> p.bits <= Width - 2
  <2> DEFINE k == Width - p.bits
  <2>1. k \in Nat /\ s = 2^k
    BY <1>1 DEF s, Size
  <2>2. CASE k >= 2
    <3>1. 2^k = 2^2 * 2^(k - 2)
      <4>1. k = 2 + (k - 2) /\ k - 2 \in Nat
        BY <2>1, <2>2
      <4> HIDE DEF k
      <4> QED BY <4>1, PowersMultiply
    <3>2. 2^2 = 4
      OBVIOUS
    <3>3. 2^(k - 2) \in Nat \ {0}
      BY <2>1, <2>2, PowerIsPositive
    <3> HIDE DEF k
    <3>4. s >= 4
      BY <2>1, <3>1, <3>2, <3>3
    <3> QED BY <1>1, <2>2, <3>4 DEF k
  <2>3. CASE k < 2
    <3>1. 2^0 = 1 /\ 2^1 = 2
      OBVIOUS
    <3>2. k = 0 \/ k = 1
      BY <2>1, <2>3
    <3> HIDE DEF k, s
    <3>3. s = 2^0 \/ s = 2^1
      BY <2>1, <3>2, Zenon
    <3>4. s < 4
      BY <3>1, <3>3
    <3> QED BY <1>1, <1>2, <2>3, <3>4 DEF k
  <2> QED BY <1>1, <2>2, <2>3
<1> QED BY <1>1, <1>2, <1>5, <1>7, <1>8, <1>9, <1>10 DEF Contains, s

-----------------------------------------------------------------------------
(* Hosts *)

UpTo(a, last) == [i \in 1..(last - a + 1) |-> a + i - 1]

(* An address and then the rest up to the last one. *)
LEMMA OneMoreAddress ==
  ASSUME NEW a \in Nat, NEW last \in Nat, a <= last
  PROVE  <<a>> \o UpTo(a + 1, last) = UpTo(a, last)
<1> DEFINE s == UpTo(a + 1, last)
           t == UpTo(a, last)
<1>1. s \in Seq(Nat) /\ Len(s) = last - a /\ \A i \in 1..(last - a) : s[i] = a + i
  <2>1. s = [i \in 1..(last - a) |-> a + i]
    BY DEF UpTo
  <2> HIDE DEF s
  <2> QED BY <2>1
<1>2. /\ t \in Seq(Nat) /\ Len(t) = last - a + 1
      /\ \A i \in 1..(last - a + 1) : t[i] = a + i - 1
  <2>1. t = [i \in 1..(last - a + 1) |-> a + i - 1]
    BY DEF UpTo
  <2> HIDE DEF t
  <2> QED BY <2>1
<1>3. <<a>> \in Seq(Nat) /\ Len(<<a>>) = 1 /\ <<a>>[1] = a
  OBVIOUS
<1> HIDE DEF s, t
<1>4. /\ <<a>> \o s \in Seq(Nat) /\ Len(<<a>> \o s) = 1 + (last - a)
      /\ \A i \in 1..(1 + (last - a)) :
           (<<a>> \o s)[i] = IF i <= 1 THEN <<a>>[i] ELSE s[i - 1]
  <2> DEFINE one == <<a>>
  <2>1. one \in Seq(Nat) /\ Len(one) = 1
    BY <1>3
  <2> HIDE DEF one
  <2>2. /\ one \o s \in Seq(Nat) /\ Len(one \o s) = Len(one) + Len(s)
        /\ \A i \in 1..(Len(one) + Len(s)) :
             (one \o s)[i] = IF i <= Len(one) THEN one[i] ELSE s[i - Len(one)]
    BY <1>1, <2>1, ConcatProperties
  <2>3. /\ one \o s \in Seq(Nat) /\ Len(one \o s) = 1 + (last - a)
        /\ \A i \in 1..(1 + (last - a)) :
             (one \o s)[i] = IF i <= 1 THEN one[i] ELSE s[i - 1]
    BY <1>1, <2>1, <2>2
  <2> QED BY <2>3 DEF one
<1>5. \A i \in 1..(1 + (last - a)) : (<<a>> \o s)[i] = t[i]
  <2> TAKE i \in 1..(1 + (last - a))
  <2>1. CASE i = 1
    BY <1>2, <1>3, <1>4, <2>1
  <2>2. CASE i # 1
    BY <1>1, <1>2, <1>4, <2>2
  <2> QED BY <2>1, <2>2
<1>6. <<a>> \o s = t
  <2> DEFINE u == <<a>> \o s
  <2>1. /\ u \in Seq(Nat) /\ t \in Seq(Nat) /\ Len(u) = Len(t)
        /\ \A i \in 1..Len(u) : u[i] = t[i]
    BY <1>2, <1>4, <1>5
  <2> HIDE DEF u
  <2>2. u = t
    BY <2>1, SeqEqual
  <2> QED BY <2>2 DEF u
<1> QED BY <1>6 DEF s, t

(* The loop of Hosts starts over at each address it comes to. *)
LEMMA HostsLoop ==
  ASSUME NEW p \in Sweepable
  PROVE  \E f : /\ f = [a \in Addresses \cup {None} |->
                        IF Contains(p, a) THEN <<a>> \o f[Successor(a)] ELSE <<>>]
               /\ Hosts(p) = Trimmed(p, f[Masked(p).addr])
<1> DEFINE All == Addresses \cup {None}
           Loop(f) == [a \in All |-> IF Contains(p, a) THEN <<a>> \o f[Successor(a)] ELSE <<>>]
           from == CHOOSE f : f = Loop(f)
           g == [a \in All |-> IF Contains(p, a) THEN UpTo(a, Last(p)) ELSE <<>>]
<1>1. g = Loop(g)
  <2>1. ASSUME NEW a \in All PROVE g[a] = Loop(g)[a]
    <3>1. CASE ~Contains(p, a)
      BY <3>1
    <3>2. CASE Contains(p, a)
      <4>1. a \in Nat /\ a <= Last(p) /\ a \in p.addr..Last(p) /\ Last(p) \in Nat
            /\ a \in Addresses
        BY <3>2, PrefixIsInterval
      <4>2. CASE a = Last(p)
        <5>1. ~Contains(p, Successor(a))
          BY <4>1, <4>2, PrefixIsInterval DEF Successor
        <5>2. g[Successor(a)] = UpTo(a + 1, Last(p))
          <6>1. Successor(a) \in All
            BY DEF Successor
          <6>2. UpTo(a + 1, Last(p)) = <<>>
            BY <4>1, <4>2 DEF UpTo
          <6> QED BY <5>1, <6>1, <6>2
        <5> QED BY <3>2, <4>1, <5>2, OneMoreAddress
      <4>3. CASE a # Last(p)
        <5>1. a + 1 \in Addresses /\ Successor(a) = a + 1 /\ Contains(p, a + 1)
          <6>0. p.addr \in Nat
            BY PrefixIsInterval
          <6>1. a + 1 \in p.addr..Last(p)
            BY <4>1, <4>3, <6>0
          <6>2. Last(p) \in Addresses
            BY PrefixIsInterval
          <6>3. a + 1 \in Addresses
            BY <4>1, <6>1, <6>2, PowerIsPositive, ScanAssumption DEF Addresses
          <6> QED BY <6>1, <6>3, PrefixIsInterval DEF Successor
        <5>2. g[Successor(a)] = UpTo(a + 1, Last(p))
          BY <5>1
        <5> QED BY <3>2, <4>1, <5>2, OneMoreAddress
      <4> QED BY <4>2, <4>3
    <3> QED BY <3>1, <3>2
  <2> QED BY <2>1
<1>2. from = Loop(from)
  <2> HIDE DEF g, Loop
  <2> QED BY <1>1
<1>3. Hosts(p) = Trimmed(p, from[Masked(p).addr])
  BY DEF Hosts
<1> QED BY <1>2, <1>3

LEMMA UpToIsSequence ==
  ASSUME NEW a \in Nat, NEW last \in Nat, a <= last + 1
  PROVE  /\ UpTo(a, last) \in Seq(Nat) /\ Len(UpTo(a, last)) = last - a + 1
         /\ \A i \in 1..(last - a + 1) : UpTo(a, last)[i] = a + i - 1
BY DEF UpTo

(* So the loop collects the addresses up to the last one, from wherever it *)
(* is: by induction on how far that is from the end.                       *)
LEMMA LoopCollects ==
  ASSUME NEW p \in Sweepable, NEW f,
         f = [a \in Addresses \cup {None} |->
                IF Contains(p, a) THEN <<a>> \o f[Successor(a)] ELSE <<>>]
  PROVE  f[p.addr] = UpTo(p.addr, Last(p))
<1> DEFINE last == Last(p)
           T == {k \in Nat : k < Size(p) => f[last - k] = UpTo(last - k, last)}
<1>1. \A a \in Addresses \cup {None} :
        f[a] = IF Contains(p, a) THEN <<a>> \o f[Successor(a)] ELSE <<>>
  OBVIOUS
<1>2. /\ last \in Nat /\ last \in Addresses /\ p.addr \in Nat /\ Size(p) \in Nat \ {0}
      /\ last = p.addr + Size(p) - 1 /\ Addresses \subseteq Nat
  BY PrefixIsInterval DEF Last
<1>3. \A a \in p.addr..last : a \in Addresses /\ Contains(p, a)
  <2> TAKE a \in p.addr..last
  <2>1. a \in Addresses
    BY <1>2, PowerIsPositive, ScanAssumption DEF Addresses
  <2> QED BY <2>1, PrefixIsInterval
<1>4. Successor(last) \in Addresses \cup {None} /\ ~Contains(p, Successor(last))
  BY <1>2, PrefixIsInterval DEF Successor
<1> HIDE DEF last
<1>5. 0 \in T
  <2>1. f[last] = <<last>> \o f[Successor(last)]
    <3>1. last \in Addresses \cup {None} /\ Contains(p, last)
      BY <1>2, <1>3
    <3> QED BY <1>1, <3>1
  <2>2. f[Successor(last)] = <<>>
    BY <1>1, <1>4
  <2>3. UpTo(last + 1, last) = <<>>
    BY <1>2 DEF UpTo
  <2>4. <<last>> \o UpTo(last + 1, last) = UpTo(last, last)
    <3>1. last \in Nat /\ last <= last
      BY <1>2
    <3> QED BY <3>1, OneMoreAddress, Zenon
  <2>5. f[last] = UpTo(last, last)
    BY <2>1, <2>2, <2>3, <2>4, Zenon
  <2>6. last - 0 = last
    BY <1>2
  <2>7. f[last - 0] = UpTo(last - 0, last)
    BY <2>5, <2>6
  <2> QED BY <2>7
<1>6. ASSUME NEW k \in Nat, k \in T PROVE k + 1 \in T
  <2>1. SUFFICES ASSUME k + 1 < Size(p) PROVE f[last - (k + 1)] = UpTo(last - (k + 1), last)
    OBVIOUS
  <2> DEFINE a == last - (k + 1)
  <2>2. a \in p.addr..last /\ a + 1 \in p.addr..last /\ a + 1 = last - k /\ a \in Nat
    <3> DEFINE b == p.addr
               s == Size(p)
    <3>1. b \in Nat /\ s \in Nat /\ last = b + s - 1 /\ k + 1 < s
      BY <1>2, <2>1
    <3> HIDE DEF b, s
    <3>2. a \in b..last /\ a + 1 \in b..last /\ a + 1 = last - k /\ a \in Nat
      BY <3>1
    <3> QED BY <3>2 DEF b
  <2>3. k < Size(p)
    BY <1>2, <2>1
  <2>4. f[last - k] = UpTo(last - k, last)
    BY <1>6, <2>3
  <2>5. f[a + 1] = UpTo(a + 1, last)
    BY <2>2, <2>4
  <2> HIDE DEF a
  <2>6. /\ a \in Addresses \cup {None} /\ Contains(p, a) /\ a + 1 \in Addresses
        /\ Successor(a) = a + 1
    BY <1>3, <2>2 DEF Successor
  <2>7. f[a] = <<a>> \o f[a + 1]
    BY <1>1, <2>6
  <2>8. <<a>> \o UpTo(a + 1, last) = UpTo(a, last)
    <3>1. a \in Nat /\ last \in Nat /\ a <= last
      BY <1>2, <2>2
    <3> QED BY <3>1, OneMoreAddress
  <2>9. f[a] = UpTo(a, last)
    BY <2>5, <2>7, <2>8, Zenon
  <2> QED BY <2>9 DEF a
<1>7. Nat \subseteq T
  <2> HIDE DEF T
  <2> QED BY <1>5, <1>6, SetInduction
<1>8. last - (Size(p) - 1) = p.addr /\ Size(p) - 1 \in Nat /\ Size(p) - 1 < Size(p)
  BY <1>2
<1>9. f[last - (Size(p) - 1)] = UpTo(last - (Size(p) - 1), last)
  BY <1>7, <1>8
<1> QED BY <1>8, <1>9 DEF last

(* The addresses a host of the prefix may have. *)
UsableOf(p) == IF Size(p) >= 4 THEN (p.addr + 1)..(Last(p) - 1) ELSE p.addr..Last(p)

Members(s) == {s[i] : i \in 1..Len(s)}

(* Hosts lists exactly these, whatever the prefix. *)
LEMMA HostsAreUsable ==
  ASSUME NEW p \in Sweepable
  PROVE  Hosts(p) \in Seq(Addresses) /\ Members(Hosts(p)) = UsableOf(p)
<1> DEFINE run == UpTo(p.addr, Last(p))
           a == p.addr
           b == Last(p)
<1>1. Hosts(p) = Trimmed(p, run)
  <2>1. PICK f : /\ f = [x \in Addresses \cup {None} |->
                       IF Contains(p, x) THEN <<x>> \o f[Successor(x)] ELSE <<>>]
                 /\ Hosts(p) = Trimmed(p, f[Masked(p).addr])
    BY HostsLoop
  <2>2. f[p.addr] = UpTo(p.addr, Last(p))
    BY <2>1, LoopCollects
  <2> QED BY <2>1, <2>2, PrefixIsInterval
<1>2. /\ a \in Nat /\ b \in Nat /\ a <= b /\ Size(p) \in Nat \ {0} /\ b - a + 1 = Size(p)
      /\ Size(p) >= 4 <=> p.bits <= Width - 2
  BY PrefixIsInterval DEF Last
<1>3. \A i \in a..b : i \in Addresses
  BY <1>2, PrefixIsInterval, PowerIsPositive, ScanAssumption DEF Addresses
<1> HIDE DEF a, b
<1>4. run \in Seq(Nat) /\ Len(run) = b - a + 1 /\ \A i \in 1..(b - a + 1) : run[i] = a + i - 1
  <2>1. a <= b + 1
    BY <1>2
  <2>2. run = UpTo(a, b)
    BY DEF a, b
  <2> HIDE DEF run
  <2> QED BY <1>2, <2>1, <2>2, UpToIsSequence
<1> HIDE DEF run
<1>5. CASE Size(p) < 4
  <2>1. Hosts(p) = run
    BY <1>1, <1>2, <1>5 DEF Trimmed
  <2>2. run \in Seq(Addresses)
    <3>1. \A i \in 1..(b - a + 1) : a + i - 1 \in a..b
      BY <1>2
    <3>2. run \in [1..Len(run) -> Addresses] /\ Len(run) \in Nat
      BY <1>2, <1>3, <1>4, <3>1, LenProperties
    <3> QED BY <3>2, SeqDef
  <2>3. Members(run) = a..b
    <3>1. \A x \in a..b : x - a + 1 \in 1..(b - a + 1) /\ a + (x - a + 1) - 1 = x
      BY <1>2
    <3>2. \A i \in 1..(b - a + 1) : a + i - 1 \in a..b
      BY <1>2
    <3> QED BY <1>4, <3>1, <3>2 DEF Members
  <2> QED BY <1>2, <1>5, <2>1, <2>2, <2>3 DEF UsableOf, a, b
<1>6. CASE Size(p) >= 4
  <2> DEFINE s == SubSeq(run, 2, Len(run) - 1)
  <2>1. Hosts(p) = s
    BY <1>1, <1>2, <1>6 DEF Trimmed
  <2>2. \A i \in 2..(Len(run) - 1) : run[i] \in Addresses
    <3>1. \A i \in 1..(b - a + 1) : a + i - 1 \in a..b
      BY <1>2
    <3> QED BY <1>2, <1>3, <1>4, <3>1
  <2>3. /\ s \in Seq(Addresses) /\ Len(s) = b - a - 1
        /\ \A i \in 1..(b - a - 1) : s[i] = a + i
    <3>1. /\ s \in Seq(Addresses)
          /\ Len(s) = IF 2 <= Len(run) - 1 THEN (Len(run) - 1) - 2 + 1 ELSE 0
          /\ \A i \in 1..((Len(run) - 1) - 2 + 1) : s[i] = run[2 + i - 1]
      <4>1. 2 \in Int /\ Len(run) - 1 \in Int
        BY <1>2, <1>4
      <4> QED BY <2>2, <4>1, SubSeqProperties
    <3> HIDE DEF s
    <3> QED BY <1>2, <1>4, <1>6, <3>1
  <2> HIDE DEF s
  <2>4. Members(s) = (a + 1)..(b - 1)
    <3>1. \A x \in (a + 1)..(b - 1) : x - a \in 1..(b - a - 1) /\ a + (x - a) = x
      BY <1>2
    <3>2. \A i \in 1..(b - a - 1) : a + i \in (a + 1)..(b - 1)
      BY <1>2
    <3> QED BY <2>3, <3>1, <3>2 DEF Members
  <2> QED BY <1>6, <2>1, <2>3, <2>4 DEF UsableOf, a, b
<1> QED BY <1>2, <1>5, <1>6

-----------------------------------------------------------------------------
(* The sweep *)

(* The hosts some worker is at this point with. *)
With(point) ==
  {h \in Addresses : \E w \in DOMAIN worker : worker[w].pc = point /\ worker[w].host = h}

Appending == {h \in Addresses : drainer.pc = "append" /\ drainer.host = h}

(* Whoever holds a host holds an address. *)
HostsAreHeld ==
  /\ \A w \in DOMAIN worker : worker[w].pc \in {"ping", "send"} => worker[w].host \in Addresses
  /\ drainer.pc = "append" => drainer.host \in Addresses

(* No stage of the sweep is over before the one that feeds it. *)
StagesFollow ==
  /\ expired => retired
  /\ feeder = "called" => /\ unfed = <<>> /\ DOMAIN worker = {} /\ drainer = Receiving
                          /\ answered = {} /\ silent = {} /\ results = {}
  /\ feeder \in {"called", "feeding"} => ~err
  /\ feeder \in {"waiting", "returned"} /\ ~err => unfed = <<>>
  /\ feeder = "returned" => \A w \in DOMAIN worker : worker[w].pc = "returned"
  /\ drainer.pc = "drained" => feeder = "returned"
  /\ done => drainer.pc = "drained"

(* As long as the time of the sweep is not over, every host is waiting to  *)
(* be pinged, being pinged, or was, and every answer is in the results or  *)
(* on its way there.                                                       *)
NoHostIsLost ==
  ~expired =>
    /\ feeder # "called" /\ ~err =>
         answered \cup silent \cup With("ping") \cup Members(unfed) = UsableOf(prefix)
    /\ answered = results \cup With("send") \cup Appending

ScanInv == TypeOK /\ HostsAreHeld /\ StagesFollow /\ NoHostIsLost

(* A job is looked up only within its time; a page that stopped asking has *)
(* what the job has, and all of it unless the time ended in between.       *)
PageInv ==
  /\ page.pc = "got" => ~page.stale
  /\ page.pc = "shown" => done /\ page.results = results /\ page.err = err
  /\ page.pc = "shown" /\ ~page.err /\ ~page.late =>
       results = answered /\ answered \cup silent = UsableOf(prefix)

PageType ==
  {Asking, Gone} \cup {Got(stale) : stale \in BOOLEAN}
    \cup [pc: {"shown"}, results: SUBSET Addresses, err: BOOLEAN, late: BOOLEAN]

(* The first host leaves the queue. *)
LEMMA MembersStep ==
  ASSUME NEW s \in Seq(Addresses), s # <<>>
  PROVE  /\ Tail(s) \in Seq(Addresses) /\ Head(s) \in Addresses
         /\ Members(s) = {Head(s)} \cup Members(Tail(s))
<1>1. /\ Tail(s) \in Seq(Addresses) /\ Head(s) \in Addresses /\ Len(Tail(s)) = Len(s) - 1
      /\ \A i \in 1..Len(Tail(s)) : Tail(s)[i] = s[i + 1]
  BY HeadTailProperties
<1>2. Len(s) \in Nat \ {0} /\ Head(s) = s[1]
  BY EmptySeq
<1>3. ASSUME NEW i \in 1..Len(s) PROVE s[i] \in {Head(s)} \cup Members(Tail(s))
  <2>1. CASE i = 1
    BY <1>2, <2>1
  <2>2. CASE i # 1
    <3>1. i - 1 \in 1..Len(Tail(s)) /\ s[i] = Tail(s)[i - 1]
      BY <1>1, <1>2, <2>2
    <3> QED BY <3>1 DEF Members
  <2> QED BY <2>1, <2>2
<1>4. ASSUME NEW i \in 1..Len(Tail(s)) PROVE Tail(s)[i] \in Members(s)
  <2>1. i + 1 \in 1..Len(s) /\ Tail(s)[i] = s[i + 1]
    BY <1>1, <1>2, <1>4
  <2> QED BY <2>1 DEF Members
<1>5. Head(s) \in Members(s)
  BY <1>2 DEF Members
<1> QED BY <1>1, <1>3, <1>4, <1>5 DEF Members

(* An empty queue holds no host. *)
LEMMA NoMembers == Members(<<>>) = {}
BY DEF Members

(* One worker goes on to another point, or with another host. *)
LEMMA WorkerStep ==
  ASSUME NEW w \in DOMAIN worker, NEW f, worker' = [worker EXCEPT ![w] = f]
  PROVE  /\ DOMAIN worker' = DOMAIN worker /\ worker'[w] = f
         /\ \A v \in DOMAIN worker : v # w => worker'[v] = worker[v]
BY SMT

(* Before Sweep starts there is nothing to lose. *)
LEMMA ScanInv_Init == Init => ScanInv
<1> SUFFICES ASSUME Init PROVE ScanInv
  OBVIOUS
<1>1. DOMAIN worker = {} /\ unfed \in Seq(Addresses)
  BY DEF Init
<1>2. TypeOK
  BY <1>1 DEF Init, TypeOK, Receiving, Got
<1>3. HostsAreHeld /\ StagesFollow /\ NoHostIsLost
  BY <1>1 DEF Init, HostsAreHeld, StagesFollow, NoHostIsLost, Receiving, With, Appending
<1> QED BY <1>2, <1>3 DEF ScanInv

(* Sweep takes the list of hosts, which is that of the usable addresses. *)
LEMMA ScanInv_StartWorkers ==
  ASSUME ScanInv, StartWorkers
  PROVE  ScanInv'
<1> DEFINE n == Least(Workers, Len(Hosts(prefix)))
<1>1. /\ Hosts(prefix) \in Seq(Addresses) /\ Members(Hosts(prefix)) = UsableOf(prefix)
      /\ unfed' = Hosts(prefix) /\ n \in 0..Workers
  BY HostsAreUsable, LenProperties, ScanAssumption
     DEF ScanInv, TypeOK, StartWorkers, Least
<1>2. DOMAIN worker' = 1..n /\ \A w \in DOMAIN worker' : worker'[w] = Idle
  BY <1>1 DEF StartWorkers
<1> HIDE DEF n
<1>3. TypeOK'
  <2>1. DOMAIN worker' \subseteq 1..Workers
    BY <1>1, <1>2, ScanAssumption
  <2>2. \A w \in DOMAIN worker' :
          worker'[w] \in [pc: {"idle", "ping", "send", "returned"}, host: {None} \cup Addresses]
    BY <1>2 DEF Idle
  <2> QED BY <1>1, <2>1, <2>2 DEF ScanInv, TypeOK, StartWorkers, pings, job, clock
<1>4. HostsAreHeld' /\ StagesFollow'
  BY <1>1, <1>2 DEF ScanInv, HostsAreHeld, StagesFollow, StartWorkers, pings, job, clock,
     Idle, Receiving
<1>5. NoHostIsLost'
  <2>1. With("ping")' = {} /\ With("send")' = {} /\ Appending' = {}
    BY <1>2 DEF With, Appending, ScanInv, StagesFollow, StartWorkers, Idle, Receiving
  <2>2. UsableOf(prefix)' = UsableOf(prefix)
    BY DEF StartWorkers, job, UsableOf, Size, Last
  <2> QED BY <1>1, <2>1, <2>2 DEF ScanInv, StagesFollow, NoHostIsLost, StartWorkers, pings, job
<1> QED BY <1>3, <1>4, <1>5 DEF ScanInv

(* A host goes from the queue to a worker. *)
LEMMA ScanInv_Feed ==
  ASSUME ScanInv, NEW w \in DOMAIN worker, Feed(w)
  PROVE  ScanInv'
<1> DEFINE f == [pc |-> "ping", host |-> Head(unfed)]
<1>1. /\ unfed' = Tail(unfed) /\ unfed' \in Seq(Addresses) /\ Head(unfed) \in Addresses
      /\ Members(unfed) = {Head(unfed)} \cup Members(unfed')
  BY MembersStep DEF ScanInv, TypeOK, Feed
<1>2. /\ worker' = [worker EXCEPT ![w] = f] /\ worker[w].pc = "idle"
      /\ f.pc = "ping" /\ f.host = Head(unfed)
      /\ f \in [pc: {"idle", "ping", "send", "returned"}, host: {None} \cup Addresses]
  BY <1>1 DEF Feed
<1> HIDE DEF f
<1>3. /\ DOMAIN worker' = DOMAIN worker /\ worker'[w] = f
      /\ \A v \in DOMAIN worker : v # w => worker'[v] = worker[v]
  BY <1>2, WorkerStep
<1>4. TypeOK'
  BY <1>1, <1>2, <1>3 DEF ScanInv, TypeOK, Feed, pings, job, clock
<1>5. HostsAreHeld' /\ StagesFollow'
  BY <1>1, <1>2, <1>3 DEF ScanInv, HostsAreHeld, StagesFollow, Feed, pings, job, clock
<1>6. NoHostIsLost'
  <2>1. With("ping")' = With("ping") \cup {Head(unfed)}
    BY <1>1, <1>2, <1>3 DEF With
  <2>2. With("send")' = With("send") /\ Appending' = Appending
    BY <1>2, <1>3 DEF With, Appending, Feed
  <2>3. UsableOf(prefix)' = UsableOf(prefix)
    BY DEF Feed, job, UsableOf, Size, Last
  <2> QED BY <1>1, <2>1, <2>2, <2>3 DEF ScanInv, NoHostIsLost, Feed, pings, job, clock
<1> QED BY <1>4, <1>5, <1>6 DEF ScanInv

(* A ping ends: in an answer, in silence, or with the time of the sweep. *)
LEMMA ScanInv_Ping ==
  ASSUME ScanInv, NEW w \in DOMAIN worker, Ping(w)
  PROVE  ScanInv'
<1> DEFINE h == worker[w].host
           f == worker'[w]
<1>1. worker[w] \in [pc: {"idle", "ping", "send", "returned"}, host: {None} \cup Addresses]
  BY DEF ScanInv, TypeOK
<1>2. h \in Addresses /\ worker[w].pc = "ping"
  BY DEF ScanInv, HostsAreHeld, Ping
<1>3. /\ DOMAIN worker' = DOMAIN worker
      /\ \A v \in DOMAIN worker : v # w => worker'[v] = worker[v]
      /\ f \in [pc: {"idle", "ping", "send", "returned"}, host: {None} \cup Addresses]
      /\ \/ /\ f.pc = "send" /\ f.host = h
            /\ answered' = answered \cup {h} /\ silent' = silent
         \/ /\ f = Idle /\ answered' = answered
            /\ silent' = IF expired THEN silent ELSE silent \cup {h}
  BY <1>1, <1>2 DEF Ping, Idle
<1> HIDE DEF h, f
<1>4. ~expired => answered' \cup silent' = answered \cup silent \cup {h}
  <2>1. CASE answered' = answered \cup {h} /\ silent' = silent
    BY <2>1
  <2>2. CASE answered' = answered /\ silent' = IF expired THEN silent ELSE silent \cup {h}
    BY <2>2
  <2> QED BY <1>3, <2>1, <2>2
<1>5. worker'[w] = f /\ worker[w].host = h
  BY DEF f, h
<1>6. TypeOK'
  BY <1>2, <1>3, <1>5 DEF ScanInv, TypeOK, Ping, job, clock
<1>7. HostsAreHeld' /\ StagesFollow'
  BY <1>2, <1>3, <1>5 DEF ScanInv, HostsAreHeld, StagesFollow, Ping, job, clock, Idle
<1>8. NoHostIsLost'
  <2>1. With("ping") = With("ping")' \cup {h}
    BY <1>2, <1>3, <1>5 DEF With, Idle
  <2>2. /\ f.pc = "send" => With("send")' = With("send") \cup {h}
        /\ f = Idle => With("send")' = With("send")
    BY <1>2, <1>3, <1>5 DEF With, Idle
  <2>3. Appending' = Appending /\ UsableOf(prefix)' = UsableOf(prefix)
    BY DEF Appending, Ping, job, UsableOf, Size, Last
  <2>4. \/ /\ f.pc = "send" /\ answered' = answered \cup {h}
        \/ /\ f = Idle /\ answered' = answered
    BY <1>3
  <2> QED BY <1>4, <2>1, <2>2, <2>3, <2>4 DEF ScanInv, NoHostIsLost, Ping, job, clock
<1> QED BY <1>6, <1>7, <1>8 DEF ScanInv

(* A result goes from a worker to the drainer. *)
LEMMA ScanInv_Send ==
  ASSUME ScanInv, NEW w \in DOMAIN worker, Send(w)
  PROVE  ScanInv'
<1> DEFINE h == worker[w].host
<1>1. h \in Addresses /\ worker[w].pc = "send" /\ drainer.pc = "receive"
  BY DEF ScanInv, HostsAreHeld, Send, Receiving
<1>2. /\ DOMAIN worker' = DOMAIN worker /\ worker'[w] = Idle
      /\ \A v \in DOMAIN worker : v # w => worker'[v] = worker[v]
  BY WorkerStep DEF Send
<1>3. drainer' = [pc |-> "append", host |-> h]
  BY DEF Send
<1> HIDE DEF h
<1>4. worker[w].host = h /\ drainer'.pc = "append" /\ drainer'.host = h
  BY <1>3 DEF h
<1>5. TypeOK'
  <2>1. /\ Idle \in [pc: {"idle", "ping", "send", "returned"}, host: {None} \cup Addresses]
        /\ drainer' \in [pc: {"receive", "append", "drained"}, host: {None} \cup Addresses]
    BY <1>1, <1>3 DEF Idle
  <2> QED BY <1>2, <2>1 DEF ScanInv, TypeOK, Send, job, clock
<1>6. HostsAreHeld' /\ StagesFollow'
  BY <1>1, <1>2, <1>4 DEF ScanInv, HostsAreHeld, StagesFollow, Send, job, clock, Idle
<1>7. NoHostIsLost'
  <2>1. With("ping")' = With("ping") /\ With("send") = With("send")' \cup {h}
    BY <1>1, <1>2, <1>4 DEF With, Idle
  <2>2. Appending = {} /\ Appending' = {h}
    BY <1>1, <1>4 DEF Appending
  <2>3. UsableOf(prefix)' = UsableOf(prefix)
    BY DEF Send, job, UsableOf, Size, Last
  <2> QED BY <2>1, <2>2, <2>3 DEF ScanInv, NoHostIsLost, Send, job, clock
<1> QED BY <1>5, <1>6, <1>7 DEF ScanInv

(* A worker that returns holds nothing, or the time of the sweep is over. *)
LEMMA ScanInv_WorkerEnds ==
  ASSUME ScanInv, NEW w \in DOMAIN worker, WorkerStops(w) \/ GiveUp(w)
  PROVE  ScanInv'
<1> DEFINE f == [worker[w] EXCEPT !.pc = "returned"]
<1>1. /\ worker' = [worker EXCEPT ![w] = f] /\ worker[w].pc # "ping"
      /\ expired \/ worker[w].pc # "send"
  BY DEF WorkerStops, GiveUp
<1>2. /\ f.pc = "returned"
      /\ f \in [pc: {"idle", "ping", "send", "returned"}, host: {None} \cup Addresses]
  BY DEF ScanInv, TypeOK
<1> HIDE DEF f
<1>3. /\ DOMAIN worker' = DOMAIN worker /\ worker'[w] = f
      /\ \A v \in DOMAIN worker : v # w => worker'[v] = worker[v]
  BY <1>1, WorkerStep
<1> USE DEF WorkerStops, GiveUp, pings, job, clock
<1>4. TypeOK'
  BY <1>2, <1>3 DEF ScanInv, TypeOK
<1>5. HostsAreHeld' /\ StagesFollow'
  BY <1>2, <1>3 DEF ScanInv, HostsAreHeld, StagesFollow
<1>6. NoHostIsLost'
  <2>1. With("ping")' = With("ping") /\ (~expired => With("send")' = With("send"))
    BY <1>1, <1>2, <1>3 DEF With
  <2>2. Appending' = Appending /\ UsableOf(prefix)' = UsableOf(prefix)
    BY DEF Appending, UsableOf, Size, Last
  <2> QED BY <2>1, <2>2 DEF ScanInv, NoHostIsLost
<1> QED BY <1>4, <1>5, <1>6 DEF ScanInv

(* What moves no worker. *)
LEMMA ScanInv_Rest ==
  ASSUME ScanInv, NoAddress \/ CloseQueue \/ SweepReturns \/ Drained \/ Finish
                  \/ Get \/ View \/ Retire \/ Expire \/ UNCHANGED vars
  PROVE  ScanInv'
<1> USE DEF NoAddress, CloseQueue, SweepReturns, Drained, Finish, Get, View, Retire, Expire,
        vars, pings, job, clock
<1>1. TypeOK'
  <2>1. drainer' \in [pc: {"receive", "append", "drained"}, host: {None} \cup Addresses]
    BY DEF ScanInv, TypeOK, Receiving
  <2>2. feeder' \in {"called", "feeding", "waiting", "returned"}
    BY DEF ScanInv, TypeOK
  <2>3. done' \in BOOLEAN /\ err' \in BOOLEAN /\ retired' \in BOOLEAN /\ expired' \in BOOLEAN
    BY DEF ScanInv, TypeOK
  <2>4. page' \in PageType
    <3>1. page \in PageType /\ expired \in BOOLEAN /\ err \in BOOLEAN /\ results \subseteq Addresses
      BY DEF ScanInv, TypeOK, PageType
    <3>2. CASE Get
      BY <3>1, <3>2 DEF PageType
    <3>3. CASE View
      <4>1. (expired /\ ~page.stale) \in BOOLEAN
        OBVIOUS
      <4> QED BY <3>1, <3>3, <4>1 DEF PageType
    <3>4. CASE UNCHANGED page
      BY <3>1, <3>4
    <3> QED BY <3>2, <3>3, <3>4
  <2> QED BY <2>1, <2>2, <2>3, <2>4 DEF ScanInv, TypeOK, PageType
<1>2. HostsAreHeld'
  BY DEF ScanInv, HostsAreHeld, Receiving
<1>3. StagesFollow'
  <2> USE DEF ScanInv, StagesFollow, Receiving
  <2>1. CASE NoAddress
    BY <2>1
  <2>2. CASE CloseQueue
    BY <2>2
  <2>3. CASE SweepReturns
    BY <2>3
  <2>4. CASE Drained
    BY <2>4
  <2>5. CASE Finish
    BY <2>5
  <2>6. CASE Retire \/ Expire
    BY <2>6
  <2>7. CASE Get \/ View \/ UNCHANGED vars
    BY <2>7
  <2> QED BY <2>1, <2>2, <2>3, <2>4, <2>5, <2>6, <2>7
<1>4. NoHostIsLost'
  <2>1. With("ping")' = With("ping") /\ With("send")' = With("send")
    BY DEF With
  <2>2. Appending' = Appending /\ UsableOf(prefix)' = UsableOf(prefix)
    BY DEF Appending, UsableOf, Size, Last, Receiving
  <2>3. feeder' # "called" /\ ~err' => ~err /\ feeder # "called"
    BY DEF ScanInv, StagesFollow
  <2> QED BY <2>1, <2>2, <2>3 DEF ScanInv, NoHostIsLost
<1> QED BY <1>1, <1>2, <1>3, <1>4 DEF ScanInv

(* A result goes from the drainer to the page. *)
LEMMA ScanInv_Landed ==
  ASSUME ScanInv, Landed
  PROVE  ScanInv'
<1>1. drainer.pc = "append" /\ drainer.host \in Addresses /\ drainer'.pc = "receive"
  BY DEF ScanInv, HostsAreHeld, Landed, Receiving
<1>2. TypeOK'
  BY <1>1 DEF ScanInv, TypeOK, Landed, pings, clock, Receiving
<1>3. HostsAreHeld' /\ StagesFollow'
  BY <1>1 DEF ScanInv, HostsAreHeld, StagesFollow, Landed, pings, clock, Receiving
<1>4. NoHostIsLost'
  <2>1. With("ping")' = With("ping") /\ With("send")' = With("send")
    BY DEF With, Landed
  <2>2. Appending = {drainer.host} /\ Appending' = {}
    BY <1>1 DEF Appending
  <2>3. UsableOf(prefix)' = UsableOf(prefix)
    BY DEF Landed, UsableOf, Size, Last
  <2> QED BY <2>1, <2>2, <2>3 DEF ScanInv, NoHostIsLost, Landed, pings, clock
<1> QED BY <1>2, <1>3, <1>4 DEF ScanInv

(* Every step keeps the invariant. *)
LEMMA ScanInv_Next == ScanInv /\ [Next]_vars => ScanInv'
BY ScanInv_StartWorkers, ScanInv_Feed, ScanInv_Ping, ScanInv_Send, ScanInv_WorkerEnds,
   ScanInv_Rest, ScanInv_Landed DEF Next, Work, RunScan

(* A scan that finished in time, without an error, misses nothing. *)
LEMMA FinishedIsWhole ==
  ASSUME ScanInv, done, ~err, ~expired
  PROVE  results = answered /\ answered \cup silent = UsableOf(prefix)
<1>1. feeder = "returned" /\ drainer.pc = "drained" /\ unfed = <<>>
  BY DEF ScanInv, StagesFollow
<1>2. With("ping") = {} /\ With("send") = {} /\ Appending = {}
  BY <1>1 DEF ScanInv, StagesFollow, With, Appending
<1> QED BY <1>1, <1>2, NoMembers DEF ScanInv, NoHostIsLost

(* What is done stays as it is, and so does the page that shows it. *)
LEMMA PageInv_Next ==
  ASSUME ScanInv, PageInv, [Next]_vars
  PROVE  PageInv'
<1>1. UsableOf(prefix)' = UsableOf(prefix)
  BY DEF Next, Work, RunScan, NoAddress, StartWorkers, CloseQueue, SweepReturns, Feed,
         WorkerStops, Ping, Send, GiveUp, Landed, Drained, Finish, Get, View, Retire, Expire,
         vars, job, UsableOf, Size, Last
<1>2. CASE Get
  <2>1. page' = Gone \/ (page' = Got(expired) /\ ~retired)
    BY <1>2 DEF Get
  <2>2. expired => retired
    BY DEF ScanInv, StagesFollow
  <2> QED BY <2>1, <2>2 DEF PageInv, Gone, Got
<1>3. CASE View
  <2>1. CASE ~done
    BY <1>3, <2>1 DEF View, PageInv, Asking
  <2>2. CASE done
    <3>1. /\ page' = [pc |-> "shown", results |-> results, err |-> err,
                      late |-> expired /\ ~page.stale]
          /\ ~page.stale /\ UNCHANGED <<feeder, job, err, pings>>
      BY <1>3, <2>2 DEF View, PageInv
    <3>2. /\ page'.pc = "shown" /\ page'.results = results /\ page'.err = err
          /\ page'.late <=> expired
      <4>1. page'.late = (expired /\ ~page.stale)
        BY <3>1
      <4> QED BY <3>1, <4>1
    <3>3. ASSUME ~err, ~expired
          PROVE  results = answered /\ answered \cup silent = UsableOf(prefix)
      BY <2>2, <3>3, FinishedIsWhole
    <3> QED BY <1>1, <2>2, <3>1, <3>2, <3>3 DEF PageInv, job, pings
  <2> QED BY <2>1, <2>2
<1>4. CASE UNCHANGED page /\ page.pc # "shown"
  BY <1>4 DEF PageInv
<1>5. CASE UNCHANGED page /\ page.pc = "shown" /\ ~View /\ ~Get
  <2>1. done /\ feeder = "returned" /\ drainer.pc = "drained"
        /\ \A w \in DOMAIN worker : worker[w].pc = "returned"
    BY <1>5 DEF PageInv, ScanInv, StagesFollow
  <2>2. UNCHANGED <<job, err, pings>>
    BY <1>5, <2>1
       DEF Next, Work, RunScan, NoAddress, StartWorkers, CloseQueue, SweepReturns, Feed,
           WorkerStops, Ping, Send, GiveUp, Landed, Drained, Finish, Retire, Expire,
           vars, job, pings, Receiving
  <2> QED BY <1>1, <1>5, <2>2 DEF PageInv, job, pings
<1>6. Get \/ View \/ (UNCHANGED page /\ ~View /\ ~Get)
  BY DEF Next, Work, RunScan, NoAddress, StartWorkers, CloseQueue, SweepReturns, Feed,
         WorkerStops, Ping, Send, GiveUp, Landed, Drained, Finish, Retire, Expire, vars
<1> QED BY <1>2, <1>3, <1>4, <1>5, <1>6

(* The invariant holds in every reachable state. *)
LEMMA ScanInvHolds == Spec => [](ScanInv /\ PageInv)
<1>1. Init => PageInv
  BY DEF Init, PageInv, Got
<1>2. ScanInv /\ PageInv /\ [Next]_vars => PageInv'
  BY PageInv_Next
<1> QED BY <1>1, <1>2, ScanInv_Init, ScanInv_Next, PTL DEF Spec

(* Every variable keeps its type, in a sweep of any prefix with any number *)
(* of workers.                                                             *)
THEOREM TypeCorrect == Spec => []TypeOK
<1>1. ScanInv => TypeOK
  BY DEF ScanInv
<1> QED BY <1>1, ScanInvHolds, PTL

(* A page that shows a finished scan shows every host that answered, and   *)
(* every address a host of the subnet may have was tried and no other,     *)
(* whatever the width of an address, the prefix and the number of workers, *)
(* unless the time of the sweep ended while the page was being made.       *)
THEOREM FinishedScansAreWhole == Spec => []FinishedScanIsWhole
<1>1. UsableOf(prefix) = Usable
  BY DEF UsableOf, Usable, Last
<1>2. PageInv => FinishedScanIsWhole
  BY <1>1 DEF PageInv, FinishedScanIsWhole
<1> QED BY <1>2, ScanInvHolds, PTL
=============================================================================
