-------------------------- MODULE AlgorithmProofs ---------------------------
(***************************************************************************)
(* Theorems about the pure algorithms, for every input of the types the    *)
(* code passes to them, where the run asks them of inputs of a few bytes:  *)
(* the cipher and its keys, the combination of the sources, the division   *)
(* of the material, the frames, and every form in which something is       *)
(* written and read back.                                                  *)
(*                                                                         *)
(* What a recursive function computes is shown by induction on the size of *)
(* its input: the inputs for which it holds are a set that has 0 and, with *)
(* every number, the next (NatBySets). That the function exists at all is  *)
(* shown in the same way (CombinedIs).                                     *)
(***************************************************************************)
EXTENDS FieldHash, Material, Wire, FiniteSetTheorems, SequenceTheorems,
        WellFoundedInduction, TLAPS

LEMMA DivMod ==
  ASSUME NEW r \in Nat \ {0}, NEW b \in Nat
  PROVE  /\ b \div r \in Nat /\ b % r \in 0 .. r - 1
         /\ b = r * (b \div r) + (b % r)
<1>1. b % r \in 0 .. r - 1
  OBVIOUS
<1>2. b = r * (b \div r) + (b % r)
  BY SMT
<1>3. b \div r \in Nat
  BY <1>2, SMT
<1> QED BY <1>1, <1>2, <1>3

LEMMA DivModUnique ==
  ASSUME NEW r \in Nat \ {0}, NEW k \in Nat, NEW s \in 0 .. r - 1
  PROVE  /\ (r * k + s) % r = s
         /\ (r * k + s) \div r = k
<1> DEFINE b == r * k + s
<1>1. b \in Nat
  BY Z3
<1>2. /\ b \div r \in Nat /\ b % r \in 0 .. r - 1
      /\ b = r * (b \div r) + (b % r)
  BY <1>1, DivMod
<1> DEFINE d == b \div r
           e == b % r
<1> HIDE DEF b, d, e
<1>3. d \in Nat /\ e \in 0 .. r - 1 /\ r * k + s = r * d + e
  BY <1>2 DEF b, d, e
<1>4. CASE d > k
  <2>1. PICK x \in Nat : d = k + 1 + x
    BY <1>3, <1>4, d - k - 1 \in Nat
  <2>2. r * d = r * k + r + r * x /\ r * x >= 0 /\ r * x \in Nat
    BY <2>1, <1>3, Z3
  <2> QED BY <2>2, <1>3
<1>5. CASE d < k
  <2>1. PICK x \in Nat : k = d + 1 + x
    BY <1>3, <1>5, k - d - 1 \in Nat
  <2>2. r * k = r * d + r + r * x /\ r * x >= 0 /\ r * x \in Nat
    BY <2>1, <1>3, Z3
  <2> QED BY <2>2, <1>3
<1>6. CASE d = k
  <2>1. e = s
    BY <1>3, <1>6, Z3
  <2> QED BY <1>6, <2>1 DEF b, d, e
<1> QED BY <1>3, <1>4, <1>5, <1>6

LEMMA Below ==
  ASSUME NEW r \in Nat \ {0}, NEW k \in Nat, NEW q \in Nat
  PROVE  /\ k < q => r * k + r <= r * q
         /\ r * k < r * q => k < q
<1>1. ASSUME k < q PROVE r * k + r <= r * q
  <2>1. PICK x \in Nat : q = k + 1 + x
    BY <1>1, q - k - 1 \in Nat
  <2>2. r * q = r * k + r + r * x /\ r * x \in Nat /\ r * k \in Nat
    BY <2>1, Z3
  <2> QED BY <2>2
<1>2. ASSUME k >= q PROVE r * k >= r * q
  <2>1. PICK x \in Nat : k = q + x
    BY <1>2, k - q \in Nat
  <2>2. r * k = r * q + r * x /\ r * x \in Nat /\ r * q \in Nat
    BY <2>1, Z3
  <2> QED BY <2>2
<1>3. r * k \in Nat /\ r * q \in Nat
  BY Z3
<1> QED BY <1>1, <1>2, <1>3

LEMMA TimesClosed == \A a, b \in Nat : a * b \in Nat
BY Z3

LEMMA TimesMonotone ==
  ASSUME NEW r \in Nat, NEW a \in Nat, NEW b \in Nat, a <= b
  PROVE  r * a <= r * b
<1>1. PICK x \in Nat : b = a + x
  BY b - a \in Nat
<1>2. r * b = r * a + r * x /\ r * x \in Nat /\ r * a \in Nat
  BY <1>1, Z3
<1> QED BY <1>2

LEMMA DivCounts ==
  ASSUME NEW r \in Nat \ {0}, NEW b \in Nat, NEW k \in Nat
  PROVE  k <= b \div r <=> r * k <= b
<1> DEFINE d == b \div r
<1>1. d \in Nat /\ (b % r) \in 0 .. r - 1 /\ b = r * d + (b % r)
  BY DivMod, Zenon
<1> HIDE DEF d
<1>2. r * d \in Nat /\ r * k \in Nat
  BY <1>1, TimesClosed
<1>3. ASSUME k <= d PROVE r * k <= b
  BY <1>1, <1>2, <1>3, TimesMonotone
<1>4. ASSUME d < k PROVE b < r * k
  <2>1. r * d + r <= r * k
    BY <1>1, <1>4, Below
  <2> QED BY <1>1, <1>2, <2>1
<1>5. k <= d <=> r * k <= b
  BY <1>1, <1>2, <1>3, <1>4
<1> QED BY <1>5 DEF d

(* Induction: a set that has 0 and, with every number, the next has all.   *)
LEMMA NatBySets ==
  ASSUME NEW S, 0 \in S, \A n \in Nat : n \in S => n + 1 \in S
  PROVE  Nat \subseteq S
<1> SUFFICES ASSUME Nat \ S # {} PROVE FALSE
  OBVIOUS
<1>1. IsWellFoundedOn(OpToRel(<, Nat), Nat)
  BY NatLessThanWellFounded
<1>2. PICK n \in Nat \ S : \A m \in Nat \ S : ~(<<m, n>> \in OpToRel(<, Nat))
  <2>1. Nat \ S \subseteq Nat
    OBVIOUS
  <2> QED
    BY <1>1, <2>1, WFMin
<1>3. \A m \in Nat \ S : ~(m < n)
  BY <1>2 DEF OpToRel
<1>4. n # 0
  OBVIOUS
<1>5. n - 1 \in Nat /\ n - 1 < n
  BY <1>4
<1>6. n - 1 \in S
  BY <1>3, <1>5
<1> QED
  BY <1>5, <1>6
----------------------------------------------------------------------------
LEMMA ModBelow ==
  ASSUME NEW r \in Nat \ {0}, NEW a \in 0 .. r - 1
  PROVE  a % r = a /\ (a + r) % r = a
BY Z3

(* encryptLetters and encryptBytes (src/core/cipher-otp.ts), for symbols   *)
(* of any range: what is encrypted is recovered with the same symbol of    *)
(* the pad, and for every plain and every cipher symbol exactly one symbol *)
(* of the pad leads from the one to the other.                             *)
THEOREM EveryCipherHides == \A range \in Nat \ {0} : CipherHides(range)
<1> SUFFICES ASSUME NEW range \in Nat \ {0}, NEW plain \in 0 .. range - 1, NEW cipher \in 0 .. range - 1
             PROVE  \E key \in 0 .. range - 1 :
                      /\ \A other \in 0 .. range - 1 : Encrypted(range, plain, other) = cipher <=> other = key
                      /\ Decrypted(range, cipher, key) = plain
  BY DEF CipherHides
<1>1. CASE plain <= cipher
  <2>1. cipher - plain \in 0 .. range - 1
    BY <1>1
  <2>2. ASSUME NEW other \in 0 .. range - 1 PROVE (plain + other) % range = cipher <=> other = cipher - plain
    <3>1. CASE plain + other < range
      BY <3>1, ModBelow, plain + other \in 0 .. range - 1
    <3>2. CASE plain + other >= range
      BY <3>2, <1>1, ModBelow, plain + other - range \in 0 .. range - 1
    <3> QED BY <3>1, <3>2
  <2>3. (cipher + range - (cipher - plain)) % range = plain
    BY ModBelow, cipher + range - (cipher - plain) = plain + range
  <2> QED BY <2>1, <2>2, <2>3 DEF Encrypted, Decrypted
<1>2. CASE plain > cipher
  <2>1. cipher + range - plain \in 0 .. range - 1
    BY <1>2
  <2>2. ASSUME NEW other \in 0 .. range - 1 PROVE (plain + other) % range = cipher <=> other = cipher + range - plain
    <3>1. CASE plain + other < range
      BY <1>2, <3>1, ModBelow, plain + other \in 0 .. range - 1
    <3>2. CASE plain + other >= range
      BY <3>2, ModBelow, plain + other - range \in 0 .. range - 1
    <3> QED BY <3>1, <3>2
  <2>3. (cipher + range - (cipher + range - plain)) % range = plain
    BY ModBelow, cipher + range - (cipher + range - plain) = plain
  <2> QED BY <2>1, <2>2, <2>3 DEF Encrypted, Decrypted
<1> QED BY <1>1, <1>2
----------------------------------------------------------------------------
(* uniformInt (src/core/pad.ts), for every range: of the 256 bytes equally *)
(* many are taken for each symbol, because those past the last multiple of *)
(* the range are drawn again. That None is no number is what lets a redraw *)
(* be told from a symbol.                                                  *)
THEOREM EverySymbolIsUniform ==
  ASSUME None \notin Nat, NEW range \in Nat \ {0}
  PROVE  SymbolsAreUniform(range)
<1> SUFFICES ASSUME NEW s \in 1 .. range - 1
             PROVE  Cardinality({b \in 0 .. ByteRange - 1 : SymbolOf(range, b) = s})
                      = Cardinality({b \in 0 .. ByteRange - 1 : SymbolOf(range, b) = 0})
  BY DEF SymbolsAreUniform
<1> DEFINE q == 256 \div range
           From(t) == {b \in 0 .. 255 : SymbolOf(range, b) = t}
<1>1. q \in Nat /\ 256 % range \in Nat /\ 256 = range * q + (256 % range)
  BY DivMod
<1>2. ASSUME NEW b \in Nat
      PROVE  SymbolOf(range, b) = IF b < range * q THEN b % range ELSE None
  BY <1>1 DEF SymbolOf, ByteRange
<1>3. range * q \in Nat /\ range * q <= 256
  BY <1>1, Z3
<1> HIDE DEF q
<1>4. ASSUME NEW b \in From(s)
      PROVE  b - s \in From(0)
  <2>1. b < range * q /\ b % range = s
    BY <1>2 
  <2>2. PICK k \in Nat : b = range * k + s
    <3>1. b \in Nat
      OBVIOUS
    <3>2. b = range * (b \div range) + (b % range) /\ b \div range \in Nat
      BY <3>1, DivMod, Zenon
    <3> QED BY <2>1, <3>2, Zenon
  <2>3. range * k \in Nat
    BY Z3
  <2>4. (range * k + 0) % range = 0
    <3>1. 0 \in 0 .. range - 1
      OBVIOUS
    <3> QED BY <3>1, DivModUnique, Zenon
  <2> QED BY <1>2, <1>3, <2>1, <2>2, <2>3, <2>4, SMTT(30)
<1>5. ASSUME NEW c \in From(0)
      PROVE  c + s \in From(s)
  <2>1. c < range * q /\ c % range = 0
    BY <1>2
  <2>2. PICK k \in Nat : c = range * k
    <3>1. c \in Nat
      OBVIOUS
    <3>2. c = range * (c \div range) + (c % range) /\ c \div range \in Nat
      BY <3>1, DivMod, Zenon
    <3>3. c = range * (c \div range) + 0
      BY <2>1, <3>2, Zenon
    <3>4. \A k \in Nat : range * k \in Nat /\ range * k + 0 = range * k
      BY Z3
    <3>5. c = range * (c \div range)
      BY <3>2, <3>3, <3>4
    <3> QED BY <3>2, <3>5, Zenon
  <2>3. range * k + range <= range * q
    BY <2>1, <2>2, <1>1, Below
  <2>4. (range * k + s) % range = s
    <3>1. s \in 0 .. range - 1
      OBVIOUS
    <3> QED BY <3>1, DivModUnique, Zenon
  <2> QED BY <1>2, <1>3, <2>1, <2>2, <2>3, <2>4
<1> DEFINE f == [b \in From(s) |-> b - s]
<1>6. f \in Bijection(From(s), From(0))
  <2>1. f \in [From(s) -> From(0)]
    BY <1>4
  <2>2. \A a, b \in From(s) : f[a] = f[b] => a = b
    OBVIOUS
  <2>3. \A c \in From(0) : \E b \in From(s) : f[b] = c
    BY <1>5
  <2> HIDE DEF f, From
  <2> QED BY <2>1, <2>2, <2>3 DEF Bijection, Injection, Surjection, IsInjective
<1>7. IsFiniteSet(From(s))
  <2>1. IsFiniteSet(0 .. 255)
    <3>1. 0 \in Int /\ 255 \in Int
      OBVIOUS
    <3> QED BY <3>1, FS_Interval, Zenon
  <2>2. From(s) \in SUBSET (0 .. 255)
    OBVIOUS
  <2> QED BY <2>1, <2>2, FS_Subset
<1> QED BY <1>6, <1>7, FS_Bijection DEF ExistsBijection, ByteRange
----------------------------------------------------------------------------
(* maxRemainingSends and limitedBy (src/cli/v2/truepad2.ts), for any bytes *)
(* and records left and any size of frames: the number shown is that of    *)
(* the sends the store would still accept, and the limit named is the one  *)
(* that is reached first.                                                  *)
THEOREM EveryMeterIsTrue ==
  ASSUME NEW bytes \in Nat, NEW records \in Nat, NEW fixed \in Nat, NEW most \in Nat \ {0}
  PROVE  MetersAreTrue(bytes, records, fixed, most)
<1> DEFINE Longest(n) == n * fixed <= bytes /\ (n = records \/ (n + 1) * fixed > bytes)
           shown == MaxRemainingSends(bytes, records, fixed)
<1>1. \A n \in Nat : n * fixed = fixed * n /\ fixed * n \in Nat
  BY Z3
<1>2. fixed = 0 => \A n \in Nat : fixed * n = 0
  OBVIOUS
<1>3. fixed # 0 => /\ bytes \div fixed \in Nat
                   /\ \A k \in Nat : k <= bytes \div fixed <=> fixed * k <= bytes
  <2> SUFFICES ASSUME fixed \in Nat \ {0}
               PROVE  /\ bytes \div fixed \in Nat
                      /\ \A k \in Nat : k <= bytes \div fixed <=> fixed * k <= bytes
    OBVIOUS
  <2> QED BY DivMod, DivCounts, Zenon
<1>4. shown \in 0 .. records /\ Longest(shown)
  <2>1. CASE fixed = 0
    BY <1>1, <1>2, <2>1 DEF MaxRemainingSends, AffordableByBytes
  <2>2. CASE fixed # 0
    <3> DEFINE d == bytes \div fixed
    <3>1. d \in Nat /\ \A k \in Nat : k <= d <=> fixed * k <= bytes
      BY <1>3, <2>2
    <3>2. shown = IF records < d THEN records ELSE d
      BY <2>2 DEF MaxRemainingSends, AffordableByBytes
    <3> HIDE DEF d, shown
    <3>3. fixed * shown <= bytes /\ shown \in 0 .. records
      BY <3>1, <3>2
    <3>4. shown = records \/ fixed * (shown + 1) > bytes
      BY <1>1, <3>1, <3>2
    <3> QED BY <1>1, <3>3, <3>4
  <2> QED BY <2>1, <2>2
<1>5. ASSUME NEW n \in 0 .. records, NEW m \in 0 .. records, Longest(n), Longest(m), n < m
      PROVE  FALSE
  <2>1. fixed * (n + 1) <= fixed * m
    BY <1>5, TimesMonotone, n + 1 \in Nat, m \in Nat, n + 1 <= m
  <2>2. (n + 1) * fixed = fixed * (n + 1) /\ m * fixed = fixed * m
    BY <1>1, n + 1 \in Nat, m \in Nat
  <2>3. fixed * (n + 1) \in Nat /\ fixed * m \in Nat
    BY <1>1, n + 1 \in Nat, m \in Nat
  <2> QED BY <1>5, <2>1, <2>2, <2>3
<1>6. shown = CHOOSE n \in 0 .. records : Longest(n)
  <2> HIDE DEF shown, Longest
  <2>1. \A n \in 0 .. records : Longest(n) => n = shown
    BY <1>4, <1>5
  <2> QED BY <1>4, <2>1
<1>7. LimitedBy(bytes, records, fixed, most) = "AUTHENTICATION"
        <=> \A n \in 0 .. records - 1 : IF fixed > 0 THEN (n + 1) * fixed <= bytes ELSE n * most < bytes
  <2>1. CASE fixed # 0
    <3> DEFINE d == bytes \div fixed
    <3>1. d \in Nat /\ \A k \in Nat : k <= d <=> fixed * k <= bytes
      BY <1>3, <2>1
    <3>2. LimitedBy(bytes, records, fixed, most) = "AUTHENTICATION" <=> records <= d
      BY <2>1 DEF LimitedBy, AffordableByBytes
    <3> HIDE DEF d
    <3>3. ASSUME records <= d, NEW n \in 0 .. records - 1 PROVE (n + 1) * fixed <= bytes
      BY <1>1, <3>1, <3>3, n + 1 \in Nat, n + 1 <= d
    <3>4. ASSUME \A n \in 0 .. records - 1 : (n + 1) * fixed <= bytes PROVE records <= d
      <4>1. CASE records = 0
        BY <3>1, <4>1
      <4>2. CASE records # 0
        <5>1. records - 1 \in 0 .. records - 1 /\ (records - 1) + 1 = records
          BY <4>2
        <5>2. records * fixed <= bytes
          BY <3>4, <5>1
        <5> QED BY <1>1, <3>1, <5>2
      <4> QED BY <4>1, <4>2
    <3>5. fixed > 0
      BY <2>1
    <3>6. records <= d <=> \A n \in 0 .. records - 1 : (n + 1) * fixed <= bytes
      BY <3>3, <3>4, Zenon
    <3> QED BY <3>2, <3>5, <3>6, Zenon
  <2>2. CASE fixed = 0
    <3> DEFINE up == bytes + most - 1
               d == up \div most
    <3>0. up \in Nat
      OBVIOUS
    <3> HIDE DEF up
    <3>1. d \in Nat /\ \A k \in Nat : k <= d <=> most * k <= up
      BY <3>0, DivMod, DivCounts, Zenon
    <3> USE DEF up
    <3>2. LimitedBy(bytes, records, fixed, most) = "AUTHENTICATION" <=> records <= d
      BY <2>2 DEF LimitedBy
    <3> HIDE DEF d
    <3>3. \A n \in Nat : /\ n * most = most * n /\ most * n \in Nat
                         /\ most * (n + 1) = most * n + most
      BY Z3
    <3>4. ASSUME records <= d, NEW n \in 0 .. records - 1 PROVE n * most < bytes
      <4>1. n \in Nat /\ n + 1 \in Nat /\ n + 1 <= d
        BY <3>1, <3>4
      <4>2. most * (n + 1) <= bytes + most - 1
        BY <3>1, <4>1
      <4> QED BY <3>3, <4>1, <4>2
    <3>5. ASSUME \A n \in 0 .. records - 1 : n * most < bytes PROVE records <= d
      <4>1. CASE records = 0
        BY <3>1, <4>1
      <4>2. CASE records # 0
        <5>1. records - 1 \in 0 .. records - 1 /\ (records - 1) + 1 = records /\ records - 1 \in Nat
          BY <4>2
        <5>2. (records - 1) * most < bytes
          BY <3>5, <5>1
        <5>3. most * records = most * (records - 1) + most
          BY <3>3, <5>1
        <5>4. most * records <= bytes + most - 1
          BY <3>3, <5>1, <5>2, <5>3
        <5> QED BY <3>1, <5>4
      <4> QED BY <4>1, <4>2
    <3> QED BY <2>2, <3>2, <3>4, <3>5
  <2> QED BY <2>1, <2>2
<1> QED BY <1>6, <1>7 DEF MetersAreTrue
----------------------------------------------------------------------------
Bit == {0, 1}

LEMMA CombinedIs ==
  ASSUME NEW sources, Len(sources) \in Nat, NEW p
  PROVE  CombinedAt(sources, p)
           = [i \in 0 .. Len(sources) |->
               IF i = 0 THEN 0 ELSE (CombinedAt(sources, p)[i - 1] + sources[i][p]) % 2]
<1> DEFINE step(g, i) == IF i = 0 THEN 0 ELSE (g[i - 1] + sources[i][p]) % 2
           Reached == {n \in Nat : \E g : g = [i \in 0 .. n |-> step(g, i)]}
<1>1. 0 \in Reached
  <2>1. [i \in 0 .. 0 |-> 0] = [i \in 0 .. 0 |-> step([j \in 0 .. 0 |-> 0], i)]
    OBVIOUS
  <2> QED BY <2>1
<1>2. ASSUME NEW n \in Nat, n \in Reached PROVE n + 1 \in Reached
  <2>1. PICK g : g = [i \in 0 .. n |-> step(g, i)]
    BY <1>2
  <2> DEFINE h == [i \in 0 .. n + 1 |->
                    IF i <= n THEN g[i] ELSE (g[n] + sources[n + 1][p]) % 2]
  <2>2. h = [i \in 0 .. n + 1 |-> step(h, i)]
    <3> SUFFICES ASSUME NEW i \in 0 .. n + 1 PROVE h[i] = step(h, i)
      BY Zenon
    <3>1. CASE i = 0
      BY <2>1, <3>1
    <3>2. CASE i \in 1 .. n
      BY <2>1, <3>2
    <3>3. CASE i = n + 1
      BY <2>1, <3>3
    <3> QED BY <3>1, <3>2, <3>3
  <2> HIDE DEF h
  <2> QED BY <2>2
<1>3. Len(sources) \in Reached
  <2> HIDE DEF Reached
  <2>1. Nat \subseteq Reached
    BY <1>1, <1>2, NatBySets
  <2> QED BY <2>1
<1>4. \E g : g = [i \in 0 .. Len(sources) |-> step(g, i)]
  BY <1>3
<1> QED BY <1>4, Zenon DEF CombinedAt

LEMMA CombinedSteps ==
  ASSUME NEW sources, Len(sources) \in Nat, NEW p
  PROVE  /\ CombinedAt(sources, p)[0] = 0
         /\ \A i \in 1 .. Len(sources) :
              CombinedAt(sources, p)[i] = (CombinedAt(sources, p)[i - 1] + sources[i][p]) % 2
<1> DEFINE c == CombinedAt(sources, p)
<1>1. c = [i \in 0 .. Len(sources) |-> IF i = 0 THEN 0 ELSE (c[i - 1] + sources[i][p]) % 2]
  BY CombinedIs, ZenonT(40)
<1> HIDE DEF c
<1>2. c[0] = 0 /\ \A i \in 1 .. Len(sources) : c[i] = (c[i - 1] + sources[i][p]) % 2
  BY <1>1
<1> QED BY <1>2, Zenon DEF c

LEMMA CombinedIsABit ==
  ASSUME NEW sources, Len(sources) \in Nat, NEW p,
         \A i \in 1 .. Len(sources) : sources[i][p] \in Bit
  PROVE  \A n \in 0 .. Len(sources) : CombinedAt(sources, p)[n] \in Bit
<1> DEFINE c == CombinedAt(sources, p)
           S == {n \in Nat : n <= Len(sources) => c[n] \in Bit}
<1>1. c[0] = 0 /\ \A i \in 1 .. Len(sources) : c[i] = (c[i - 1] + sources[i][p]) % 2
  BY CombinedSteps, Zenon
<1> HIDE DEF c
<1>2. 0 \in S
  BY <1>1 DEF Bit
<1>3. ASSUME NEW n \in Nat, n \in S PROVE n + 1 \in S
  <2> SUFFICES ASSUME n + 1 <= Len(sources) PROVE c[n + 1] \in Bit
    OBVIOUS
  <2>1. c[n] \in Bit /\ n + 1 \in 1 .. Len(sources)
    BY <1>3
  <2>2. c[n + 1] = (c[n] + sources[n + 1][p]) % 2
    BY <1>1, <2>1
  <2> QED BY <2>1, <2>2 DEF Bit
<1>4. Nat \subseteq S
  <2> HIDE DEF S
  <2> QED BY <1>2, <1>3, NatBySets
<1>5. \A n \in 0 .. Len(sources) : c[n] \in Bit
  BY <1>4
<1> QED BY <1>5 DEF c

LEMMA BitsAddInAnyOrder ==
  \A a, b, d, e \in Bit : (((a + b + d) % 2) + e) % 2 = (((a + e) % 2) + b + d) % 2
<1> SUFFICES ASSUME NEW a \in Bit, NEW b \in Bit, NEW d \in Bit, NEW e \in Bit
             PROVE  (((a + b + d) % 2) + e) % 2 = (((a + e) % 2) + b + d) % 2
  OBVIOUS
<1>1. a \in 0 .. 1 /\ b \in 0 .. 1 /\ d \in 0 .. 1 /\ e \in 0 .. 1
  BY DEF Bit
<1> QED BY <1>1

(* With one source exchanged the sums change by the difference, from it on.*)
DiffersFrom(s, i, x, p) ==
  \A n \in i .. Len(s) :
    CombinedAt(ReplaceAt(s, i, x), p)[n] = (CombinedAt(s, p)[n] + s[i][p] + x[p]) % 2

LEMMA CombinedWithAnother ==
  ASSUME NEW s \in Seq(Seq(Bit)), NEW i \in 1 .. Len(s), NEW x, NEW p \in Nat,
         \A k \in 1 .. Len(s) : s[k][p] \in Bit, x[p] \in Bit
  PROVE  DiffersFrom(s, i, x, p)
<1> DEFINE t == ReplaceAt(s, i, x)
           c == CombinedAt(s, p)
           d == CombinedAt(t, p)
           S == {n \in Nat : n <= Len(s) =>
                   d[n] = IF n < i THEN c[n] ELSE (c[n] + s[i][p] + x[p]) % 2}
<1>1. Len(s) \in Nat /\ Len(t) = Len(s)
      /\ \A k \in 1 .. Len(s) : t[k] = IF k = i THEN x ELSE s[k]
  BY ExceptSeq DEF ReplaceAt
<1> HIDE DEF t
<1>2. c[0] = 0 /\ \A k \in 1 .. Len(s) : c[k] = (c[k - 1] + s[k][p]) % 2
  BY <1>1, CombinedSteps, Zenon
<1>3. d[0] = 0 /\ \A k \in 1 .. Len(s) : d[k] = (d[k - 1] + t[k][p]) % 2
  <2>1. Len(t) \in Nat
    BY <1>1
  <2>2. d[0] = 0 /\ \A k \in 1 .. Len(t) : d[k] = (d[k - 1] + t[k][p]) % 2
    BY <2>1, CombinedSteps, Zenon
  <2> QED BY <1>1, <2>2
<1>4. \A n \in 0 .. Len(s) : c[n] \in Bit
  BY <1>1, CombinedIsABit, Zenon
<1> HIDE DEF c, d
<1>5. 0 \in S
  BY <1>2, <1>3
<1>6. ASSUME NEW n \in Nat, n \in S PROVE n + 1 \in S
  <2> SUFFICES ASSUME n + 1 <= Len(s)
               PROVE  d[n + 1] = IF n + 1 < i THEN c[n + 1] ELSE (c[n + 1] + s[i][p] + x[p]) % 2
    OBVIOUS
  <2>1. /\ n + 1 \in 1 .. Len(s) /\ n \in 0 .. Len(s)
        /\ d[n] = IF n < i THEN c[n] ELSE (c[n] + s[i][p] + x[p]) % 2
    BY <1>6
  <2>2. /\ c[n + 1] = (c[n] + s[n + 1][p]) % 2
        /\ d[n + 1] = (d[n] + t[n + 1][p]) % 2
    BY <1>2, <1>3, <2>1
  <2>3. c[n] \in {0, 1} /\ s[n + 1][p] \in {0, 1} /\ s[i][p] \in {0, 1} /\ x[p] \in {0, 1}
    BY <1>4, <2>1 DEF Bit
  <2>4. CASE n + 1 < i
    <3>1. t[n + 1] = s[n + 1] /\ d[n] = c[n]
      BY <1>1, <2>1, <2>4
    <3> QED BY <2>2, <2>4, <3>1
  <2>5. CASE n + 1 = i
    <3>1. t[n + 1] = x /\ d[n] = c[n]
      BY <1>1, <2>1, <2>5
    <3> QED BY <2>2, <2>3, <2>5, <3>1
  <2>6. CASE n + 1 > i
    <3>1. t[n + 1] = s[n + 1] /\ d[n] = (c[n] + s[i][p] + x[p]) % 2
      BY <1>1, <2>1, <2>6, SMTT(30)
    <3>2. (((c[n] + s[i][p] + x[p]) % 2) + s[n + 1][p]) % 2
            = (((c[n] + s[n + 1][p]) % 2) + s[i][p] + x[p]) % 2
      BY <2>3, BitsAddInAnyOrder DEF Bit
    <3> QED BY <2>2, <2>6, <3>1, <3>2
  <2> QED BY <2>4, <2>5, <2>6
<1>7. Nat \subseteq S
  <2> HIDE DEF S
  <2> QED BY <1>5, <1>6, NatBySets
<1>8. \A n \in i .. Len(s) : d[n] = (c[n] + s[i][p] + x[p]) % 2
  BY <1>1, <1>7
<1> QED BY <1>8 DEF c, d, t, DiffersFrom

(* combineSources (src/core/partition2.ts), for any number of sources of   *)
(* any lengths: whatever the others are, each source alone decides the     *)
(* combined bytes one to one, what it has too much is not used, and one    *)
(* that is too short is refused.                                           *)
THEOREM EveryGoodSourceIsEnough ==
  ASSUME NEW sources \in Seq(Seq(Bit)), NEW length \in Nat, None \notin Seq(Bit)
  PROVE  OneGoodSourceIsEnough(sources, length)
<1> DEFINE n == Len(sources)
           short == sources = <<>> \/ \E i \in DOMAIN sources : Len(sources[i]) < length
           sum == [p \in 1 .. length |-> CombinedAt(sources, p)[n]]
<1>1. n \in Nat /\ DOMAIN sources = 1 .. n /\ \A i \in 1 .. n : sources[i] \in Seq(Bit)
  OBVIOUS
<1>2. CombineSources(sources, length) = IF short THEN None ELSE sum
  BY DEF CombineSources
<1>3. CASE short
  BY <1>2, <1>3 DEF OneGoodSourceIsEnough
<1>4. CASE ~short
  <2>1. n \in Nat \ {0} /\ \A i \in 1 .. n : Len(sources[i]) \in Nat /\ Len(sources[i]) >= length
    <3>1. sources # <<>> /\ \A i \in 1 .. n : ~(Len(sources[i]) < length)
      BY <1>1, <1>4, Zenon
    <3>2. n # 0
      BY <3>1
    <3>3. \A i \in 1 .. n : Len(sources[i]) \in Nat
      BY <1>1
    <3> QED BY <1>1, <3>1, <3>2, <3>3
  <2>2. ASSUME NEW p \in 1 .. length
        PROVE  /\ \A i \in 1 .. n : sources[i][p] \in Bit
               /\ sum[p] \in Bit
    <3>1. \A i \in 1 .. n : p \in 1 .. Len(sources[i])
      BY <2>1
    <3>2. \A i \in 1 .. n : sources[i][p] \in Bit
      BY <1>1, <3>1, ElementOfSeq
    <3>3. \A k \in 0 .. n : CombinedAt(sources, p)[k] \in Bit
      BY <1>1, <3>2, CombinedIsABit, Zenon
    <3> QED BY <2>1, <3>2, <3>3
  <2>3. sum \in Seq(Bit) /\ Len(sum) = length
    BY <2>2
  <2>4. CombineSources(sources, length) = sum /\ sum # None
    BY <1>2, <1>4, <2>3
  <2>5. ASSUME NEW i \in 1 .. n, NEW x \in Seq(Bit), Len(x) >= length
        PROVE  CombineSources(ReplaceAt(sources, i, x), length)
                 = [p \in 1 .. length |-> (sum[p] + sources[i][p] + x[p]) % 2]
    <3> DEFINE t == ReplaceAt(sources, i, x)
    <3>1. /\ t \in Seq(Seq(Bit)) /\ Len(t) = n
          /\ \A k \in 1 .. n : t[k] = IF k = i THEN x ELSE sources[k]
      BY <1>1, ExceptSeq DEF ReplaceAt
    <3>2. ~(t = <<>> \/ \E k \in DOMAIN t : Len(t[k]) < length)
      <4> HIDE DEF t
      <4>1. DOMAIN t = 1 .. n /\ t # <<>>
        BY <2>1, <3>1
      <4>2. \A k \in 1 .. n : Len(t[k]) >= length /\ Len(t[k]) \in Nat
        <5> SUFFICES ASSUME NEW k \in 1 .. n
                     PROVE  Len(t[k]) >= length /\ Len(t[k]) \in Nat
          OBVIOUS
        <5>1. Len(x) \in Nat
          OBVIOUS
        <5>2. CASE k = i
          BY <2>5, <3>1, <5>1, <5>2
        <5>3. CASE k # i
          BY <2>1, <3>1, <5>3
        <5> QED BY <5>2, <5>3
      <4> QED BY <4>1, <4>2
    <3>3. CombineSources(t, length) = [p \in 1 .. length |-> CombinedAt(t, p)[n]]
      BY <3>1, <3>2 DEF CombineSources
    <3>4. ASSUME NEW p \in 1 .. length
          PROVE  CombinedAt(t, p)[n] = (sum[p] + sources[i][p] + x[p]) % 2
      <4>1. p \in 1 .. Len(x)
        BY <2>5
      <4>2. x[p] \in Bit /\ n \in i .. n /\ \A k \in 1 .. n : sources[k][p] \in Bit
        BY <1>1, <2>2, <4>1, ElementOfSeq
      <4>3. CombinedAt(t, p)[n] = (CombinedAt(sources, p)[n] + sources[i][p] + x[p]) % 2
        <5>1. p \in Nat
          OBVIOUS
        <5>2. DiffersFrom(sources, i, x, p)
          BY <4>2, <5>1, CombinedWithAnother
        <5> QED BY <4>2, <5>2, Zenon DEF DiffersFrom
      <4> QED BY <4>3
    <3> QED BY <3>3, <3>4
  <2>6. ASSUME NEW i \in 1 .. n
        PROVE  CombineSources(ReplaceAt(sources, i, sum), length) = SubSeq(sources[i], 1, length)
    <3>1. CombineSources(ReplaceAt(sources, i, sum), length)
            = [p \in 1 .. length |-> (sum[p] + sources[i][p] + sum[p]) % 2]
      <4> HIDE DEF sum
      <4>1. sum \in Seq(Bit) /\ Len(sum) >= length
        BY <2>3
      <4> QED BY <4>1, <2>5, Zenon
    <3>2. \A p \in 1 .. length : (sum[p] + sources[i][p] + sum[p]) % 2 = sources[i][p]
      <4> HIDE DEF sum
      <4> SUFFICES ASSUME NEW p \in 1 .. length
                   PROVE  (sum[p] + sources[i][p] + sum[p]) % 2 = sources[i][p]
        OBVIOUS
      <4>1. sum[p] \in {0, 1} /\ sources[i][p] \in {0, 1}
        BY <2>2 DEF Bit
      <4> QED BY <4>1
    <3>3. SubSeq(sources[i], 1, length) = [p \in 1 .. length |-> sources[i][p]]
      BY <1>1, <2>1
    <3> QED BY <3>1, <3>2, <3>3
  <2>7. ASSUME NEW i \in 1 .. n
        PROVE  CombineSources(ReplaceAt(sources, i, Append(sources[i], 1)), length) = sum
    <3> DEFINE x == Append(sources[i], 1)
    <3>1. /\ x \in Seq(Bit) /\ Len(x) >= length
          /\ \A p \in 1 .. length : x[p] = sources[i][p]
      BY <1>1, <2>1, AppendProperties DEF Bit
    <3> HIDE DEF x
    <3>2. CombineSources(ReplaceAt(sources, i, x), length)
            = [p \in 1 .. length |-> (sum[p] + sources[i][p] + x[p]) % 2]
      BY <2>5, <3>1
    <3>3. \A p \in 1 .. length : (sum[p] + sources[i][p] + x[p]) % 2 = sum[p]
      <4> HIDE DEF sum
      <4> SUFFICES ASSUME NEW p \in 1 .. length
                   PROVE  (sum[p] + sources[i][p] + x[p]) % 2 = sum[p]
        OBVIOUS
      <4>1. sum[p] \in {0, 1} /\ sources[i][p] \in {0, 1} /\ x[p] = sources[i][p]
        BY <2>2, <3>1 DEF Bit
      <4> QED BY <4>1
    <3>4. sum = [p \in 1 .. length |-> sum[p]]
      OBVIOUS
    <3> QED BY <3>2, <3>3, <3>4 DEF x
  <2> HIDE DEF sum
  <2> QED BY <1>1, <2>4, <2>6, <2>7 DEF OneGoodSourceIsEnough
<1> QED BY <1>3, <1>4
----------------------------------------------------------------------------
(* Consecutive numbers.                                                    *)
Numbered(from, n) == [i \in 1 .. n |-> from + i]

LEMMA NumberedSeq ==
  ASSUME NEW from \in Nat, NEW n \in Nat
  PROVE  /\ Numbered(from, n) \in Seq(Nat) /\ Len(Numbered(from, n)) = n
         /\ \A i \in 1 .. n : Numbered(from, n)[i] = from + i
BY DEF Numbered

Slice(s, from, count) == SubSeq(s, from + 1, from + count)

LEMMA SliceOfNumbers ==
  ASSUME NEW base \in Nat, NEW length \in Nat, NEW from \in Nat, NEW count \in Nat,
         from + count <= length
  PROVE  Slice(Numbered(base, length), from, count) = Numbered(base + from, count)
<1> DEFINE s == Numbered(base, length)
           t == Slice(s, from, count)
<1>1. s \in Seq(Nat) /\ Len(s) = length /\ \A i \in 1 .. length : s[i] = base + i
  BY NumberedSeq, Zenon
<1> HIDE DEF s
<1>2. t = [i \in 1 .. count |-> s[from + i]]
  BY <1>1 DEF Slice
<1>3. \A i \in 1 .. count : s[from + i] = base + from + i
  BY <1>1
<1> QED BY <1>2, <1>3 DEF Numbered, s

(* A record of a slice of consecutive numbers.                             *)
LEMMA RecordOfNumbers ==
  ASSUME NEW from \in Nat, NEW records \in Nat, NEW s \in 0 .. records - 1
  PROVE  AuthRecordAt(Numbered(from, 4 * records), s).key
           \o AuthRecordAt(Numbered(from, 4 * records), s).mask = Numbered(from + 4 * s, 4)
<1> DEFINE slice == Numbered(from, 4 * records)
           r == AuthRecordAt(slice, s)
<1>1. slice \in Seq(Nat) /\ Len(slice) = 4 * records
  BY NumberedSeq
<1> HIDE DEF slice
<1>2. r = [key |-> Slice(slice, 4 * s, 2), mask |-> Slice(slice, 4 * s + 2, 2)]
  <2>1. AuthRecordBytes = 4 /\ KeyBytes = 2
    BY DEF AuthRecordBytes, KeyBytes
  <2>2. r = IF s * 4 + 4 > Len(slice) THEN None
            ELSE [key |-> SubSeq(slice, s * 4 + 1, s * 4 + 2), mask |-> SubSeq(slice, s * 4 + 2 + 1, s * 4 + 4)]
    BY <2>1, Zenon DEF AuthRecordAt
  <2>3. s * 4 = 4 * s /\ 4 * s + 4 = (4 * s + 2) + 2 /\ ~(4 * s + 4 > 4 * records)
    OBVIOUS
  <2> QED BY <1>1, <2>2, <2>3, Zenon DEF Slice
<1>3. Slice(slice, 4 * s, 2) = Numbered(from + 4 * s, 2)
  <2>1. 4 * s \in Nat /\ 4 * s + 2 <= 4 * records /\ 4 * records \in Nat /\ 2 \in Nat
    OBVIOUS
  <2> QED BY <2>1, SliceOfNumbers DEF slice
<1>4. Slice(slice, 4 * s + 2, 2) = Numbered(from + 4 * s + 2, 2)
  <2>1. /\ 4 * s + 2 \in Nat /\ (4 * s + 2) + 2 <= 4 * records /\ 4 * records \in Nat /\ 2 \in Nat
        /\ from + (4 * s + 2) = from + 4 * s + 2
    OBVIOUS
  <2>2. Slice(slice, 4 * s + 2, 2) = Numbered(from + (4 * s + 2), 2)
    BY <2>1, SliceOfNumbers DEF slice
  <2> QED BY <2>1, <2>2, Zenon
<1>5. Numbered(from + 4 * s, 2) \o Numbered(from + 4 * s + 2, 2) = Numbered(from + 4 * s, 4)
  BY DEF Numbered
<1>6. r.key = Numbered(from + 4 * s, 2) /\ r.mask = Numbered(from + 4 * s + 2, 2)
  BY <1>2, <1>3, <1>4
<1> QED BY <1>5, <1>6 DEF slice

LEMMA NoMoreRecords ==
  ASSUME NEW from \in Nat, NEW records \in Nat
  PROVE  AuthRecordAt(Numbered(from, 4 * records), records) = None
<1> DEFINE slice == Numbered(from, 4 * records)
<1>1. Len(slice) = 4 * records
  BY NumberedSeq
<1> HIDE DEF slice
<1>2. AuthRecordAt(slice, records) = None
  BY <1>1 DEF AuthRecordAt, AuthRecordBytes, KeyBytes
<1> QED BY <1>2 DEF slice

(* partition and authRecordAt (src/core/partition2.ts), for every capacity *)
(* and every number of records: each byte of the material comes to one     *)
(* place of one direction, to an encryption slice or to a key or a mask of *)
(* one record, none is left over, and there is no record more.             *)
THEOREM AllMaterialIsDividedOnce ==
  ASSUME NEW capacity \in Nat, NEW records \in Nat
  PROVE  DividedOnce(capacity, records)
<1> DEFINE length == RequiredSourceLength(capacity, records)
           parts == Partition([p \in 1 .. length |-> p], capacity, records)
           places == ({"abEnc", "baEnc"} \X {0} \X (1 .. capacity))
                       \cup ({"abAuth", "baAuth"} \X (0 .. records - 1) \X (1 .. AuthRecordBytes))
           byteAt(place) ==
             IF place[1] \in {"abEnc", "baEnc"} THEN parts[place[1]][place[3]]
             ELSE LET r == AuthRecordAt(parts[place[1]], place[2]) IN (r.key \o r.mask)[place[3]]
           auth == 4 * records
           half == capacity + auth
           At(h, k) == <<h, (k - 1) \div 4, ((k - 1) % 4) + 1>>
           placeOf(p) == IF p <= capacity THEN <<"abEnc", 0, p>>
                         ELSE IF p <= half THEN At("abAuth", p - capacity)
                         ELSE IF p <= half + capacity THEN <<"baEnc", 0, p - half>>
                         ELSE At("baAuth", p - half - capacity)
<1>1. length = 2 * half /\ length \in Nat /\ half \in Nat /\ auth \in Nat
  BY DEF RequiredSourceLength, AuthRecordBytes, KeyBytes
<1>2. /\ parts.abEnc = Numbered(0, capacity)
      /\ parts.abAuth = Numbered(capacity, auth)
      /\ parts.baEnc = Numbered(half, capacity)
      /\ parts.baAuth = Numbered(half + capacity, auth)
  <2> DEFINE numbers == [p \in 1 .. length |-> p]
  <2>1. numbers = Numbered(0, length) /\ Len(numbers) = length
    BY <1>1 DEF Numbered
  <2> HIDE DEF numbers
  <2>2. parts = [abEnc |-> Slice(numbers, 0, capacity), abAuth |-> Slice(numbers, capacity, auth),
                 baEnc |-> Slice(numbers, half, capacity), baAuth |-> Slice(numbers, half + capacity, auth)]
    <3>1. Partition(numbers, capacity, records)
            = [abEnc |-> SubSeq(numbers, 0 + 1, 0 + capacity),
               abAuth |-> SubSeq(numbers, capacity + 1, capacity + auth),
               baEnc |-> SubSeq(numbers, (capacity + auth) + 1, (capacity + auth) + capacity),
               baAuth |-> SubSeq(numbers, (2 * capacity + auth) + 1, (2 * capacity + auth) + auth)]
      BY <2>1 DEF Partition, AuthRecordBytes, KeyBytes
    <3>2. 2 * capacity + auth = half + capacity
      OBVIOUS
    <3> QED BY <3>1, <3>2, Zenon DEF numbers, Slice
  <2> HIDE DEF length, parts
  <2>3. ASSUME NEW from \in Nat, NEW count \in Nat, from + count <= length
        PROVE  Slice(numbers, from, count) = Numbered(from, count)
    <3>1. 0 + from = from /\ 0 \in Nat
      OBVIOUS
    <3>2. Slice(Numbered(0, length), from, count) = Numbered(0 + from, count)
      BY <1>1, <2>3, <3>1, SliceOfNumbers
    <3> QED BY <2>1, <3>1, <3>2, Zenon
  <2>4. /\ 0 \in Nat /\ half + capacity \in Nat
        /\ 0 + capacity <= length /\ capacity + auth <= length /\ half + capacity <= length
        /\ (half + capacity) + auth <= length
    BY <1>1
  <2>5. /\ Slice(numbers, 0, capacity) = Numbered(0, capacity)
        /\ Slice(numbers, capacity, auth) = Numbered(capacity, auth)
        /\ Slice(numbers, half, capacity) = Numbered(half, capacity)
        /\ Slice(numbers, half + capacity, auth) = Numbered(half + capacity, auth)
    BY <1>1, <2>3, <2>4, Zenon
  <2> QED BY <2>2, <2>5
<1> HIDE DEF parts, length
<1>3. ASSUME NEW i \in 1 .. capacity
      PROVE  byteAt(<<"abEnc", 0, i>>) = i /\ byteAt(<<"baEnc", 0, i>>) = half + i
  BY <1>2 DEF Numbered
<1>4. ASSUME NEW s \in 0 .. records - 1, NEW j \in 1 .. 4
      PROVE  /\ byteAt(<<"abAuth", s, j>>) = capacity + 4 * s + j
             /\ byteAt(<<"baAuth", s, j>>) = half + capacity + 4 * s + j
  <2> DEFINE ab == AuthRecordAt(parts.abAuth, s)
             ba == AuthRecordAt(parts.baAuth, s)
  <2>1. ab.key \o ab.mask = Numbered(capacity + 4 * s, 4)
    BY <1>2, RecordOfNumbers, Zenon
  <2>2. ba.key \o ba.mask = Numbered(half + capacity + 4 * s, 4)
    <3>1. half + capacity \in Nat
      BY <1>1
    <3> QED BY <1>2, <3>1, RecordOfNumbers, Zenon
  <2>3. byteAt(<<"abAuth", s, j>>) = (ab.key \o ab.mask)[j]
        /\ byteAt(<<"baAuth", s, j>>) = (ba.key \o ba.mask)[j]
    OBVIOUS
  <2> HIDE DEF ab, ba, byteAt
  <2>4. (ab.key \o ab.mask)[j] = capacity + 4 * s + j /\ (ba.key \o ba.mask)[j] = half + capacity + 4 * s + j
    BY <2>1, <2>2 DEF Numbered
  <2> QED BY <2>3, <2>4, Zenon
<1>5. ASSUME NEW x \in places
      PROVE  \/ \E i \in 1 .. capacity : x = <<"abEnc", 0, i>> \/ x = <<"baEnc", 0, i>>
             \/ \E s \in 0 .. records - 1, j \in 1 .. 4 : x = <<"abAuth", s, j>> \/ x = <<"baAuth", s, j>>
  BY DEF AuthRecordBytes, KeyBytes
<1>6. /\ \A i \in 1 .. capacity : <<"abEnc", 0, i>> \in places /\ <<"baEnc", 0, i>> \in places
      /\ \A s \in 0 .. records - 1, j \in 1 .. 4 :
           <<"abAuth", s, j>> \in places /\ <<"baAuth", s, j>> \in places
  BY DEF AuthRecordBytes, KeyBytes
<1> HIDE DEF byteAt, places
<1>7. ASSUME NEW s \in 0 .. records - 1, NEW j \in 1 .. 4
      PROVE  /\ 4 * s + j \in 1 .. auth
             /\ ((4 * s + j) - 1) \div 4 = s /\ (((4 * s + j) - 1) % 4) + 1 = j
  OBVIOUS
<1>8. ASSUME NEW x \in places
      PROVE  byteAt(x) \in 1 .. length /\ placeOf(byteAt(x)) = x
  <2>1. ASSUME NEW i \in 1 .. capacity, x = <<"abEnc", 0, i>>
        PROVE  byteAt(x) \in 1 .. length /\ placeOf(byteAt(x)) = x
    <3>1. byteAt(x) = i
      BY <1>3, <2>1
    <3> QED BY <1>1, <2>1, <3>1
  <2>2. ASSUME NEW i \in 1 .. capacity, x = <<"baEnc", 0, i>>
        PROVE  byteAt(x) \in 1 .. length /\ placeOf(byteAt(x)) = x
    <3>1. byteAt(x) = half + i
      BY <1>3, <2>2
    <3>2. half + i > half /\ half + i <= half + capacity /\ half + i > capacity /\ (half + i) - half = i
      OBVIOUS
    <3> QED BY <1>1, <2>2, <3>1, <3>2
  <2>3. ASSUME NEW s \in 0 .. records - 1, NEW j \in 1 .. 4, x = <<"abAuth", s, j>>
        PROVE  byteAt(x) \in 1 .. length /\ placeOf(byteAt(x)) = x
    <3>1. byteAt(x) = capacity + 4 * s + j
      BY <1>4, <2>3
    <3>2. byteAt(x) - capacity = 4 * s + j /\ byteAt(x) > capacity /\ byteAt(x) <= half /\ byteAt(x) \in Nat
      BY <1>7, <3>1
    <3>3. At("abAuth", 4 * s + j) = <<"abAuth", s, j>>
      BY <1>7
    <3> QED BY <1>1, <2>3, <3>2, <3>3
  <2>4. ASSUME NEW s \in 0 .. records - 1, NEW j \in 1 .. 4, x = <<"baAuth", s, j>>
        PROVE  byteAt(x) \in 1 .. length /\ placeOf(byteAt(x)) = x
    <3>1. byteAt(x) = half + capacity + 4 * s + j
      BY <1>4, <2>4
    <3>2. /\ byteAt(x) - half - capacity = 4 * s + j /\ byteAt(x) > capacity /\ byteAt(x) > half
          /\ byteAt(x) > half + capacity /\ byteAt(x) <= 2 * half /\ byteAt(x) \in Nat
      BY <1>7, <3>1
    <3>3. At("baAuth", 4 * s + j) = <<"baAuth", s, j>>
      BY <1>7
    <3> QED BY <1>1, <2>4, <3>2, <3>3
  <2> HIDE DEF placeOf
  <2> QED BY <1>5, <2>1, <2>2, <2>3, <2>4
<1>9. ASSUME NEW p \in 1 .. length PROVE placeOf(p) \in places /\ byteAt(placeOf(p)) = p
  <2>0. ASSUME NEW k \in 1 .. auth
        PROVE  /\ (k - 1) \div 4 \in 0 .. records - 1 /\ ((k - 1) % 4) + 1 \in 1 .. 4
               /\ k = 4 * ((k - 1) \div 4) + (((k - 1) % 4) + 1)
    OBVIOUS
  <2>1. CASE p <= capacity
    <3>1. p \in 1 .. capacity /\ placeOf(p) = <<"abEnc", 0, p>>
      BY <1>1, <2>1
    <3> QED BY <1>3, <1>6, <3>1
  <2>2. CASE capacity < p /\ p <= half
    <3>1. p - capacity \in 1 .. auth /\ placeOf(p) = At("abAuth", p - capacity)
      BY <1>1, <2>2
    <3> DEFINE s == ((p - capacity) - 1) \div 4
               j == (((p - capacity) - 1) % 4) + 1
    <3>2. s \in 0 .. records - 1 /\ j \in 1 .. 4 /\ p - capacity = 4 * s + j /\ placeOf(p) = <<"abAuth", s, j>>
      BY <2>0, <3>1
    <3> HIDE DEF s, j, placeOf
    <3>3. p = capacity + 4 * s + j
      BY <1>1, <3>2
    <3> QED BY <1>4, <1>6, <3>2, <3>3
  <2>3. CASE half < p /\ p <= half + capacity
    <3>1. p - half \in 1 .. capacity /\ placeOf(p) = <<"baEnc", 0, p - half>> /\ half + (p - half) = p
      BY <1>1, <2>3
    <3> HIDE DEF placeOf
    <3> QED BY <1>3, <1>6, <3>1
  <2>4. CASE half + capacity < p
    <3>1. p - half - capacity \in 1 .. auth /\ placeOf(p) = At("baAuth", p - half - capacity)
      BY <1>1, <2>4
    <3> DEFINE s == ((p - half - capacity) - 1) \div 4
               j == (((p - half - capacity) - 1) % 4) + 1
    <3>2. s \in 0 .. records - 1 /\ j \in 1 .. 4 /\ p - half - capacity = 4 * s + j
          /\ placeOf(p) = <<"baAuth", s, j>>
      BY <2>0, <3>1
    <3> HIDE DEF s, j, placeOf
    <3>3. p = half + capacity + 4 * s + j
      BY <1>1, <3>2
    <3> QED BY <1>4, <1>6, <3>2, <3>3
  <2> QED BY <1>1, <2>1, <2>2, <2>3, <2>4
<1> HIDE DEF placeOf
<1>10. \A x, y \in places : byteAt(x) = byteAt(y) => x = y
  BY <1>8, Zenon
<1>11. {byteAt(x) : x \in places} = 1 .. length
  BY <1>8, <1>9
<1>12. Len(parts.abEnc) = capacity /\ Len(parts.baEnc) = capacity
  BY <1>1, <1>2, NumberedSeq
<1>13. AuthRecordAt(parts.abAuth, records) = None /\ AuthRecordAt(parts.baAuth, records) = None
  <2>1. half + capacity \in Nat
    BY <1>1
  <2> QED BY <1>2, <2>1, NoMoreRecords, Zenon
<1> QED BY <1>10, <1>11, <1>12, <1>13 DEF DividedOnce, byteAt, places, parts, length
----------------------------------------------------------------------------
(* A length of four bits is what its bits spell.                          *)
LEMMA FourBits ==
  \A n \in 0 .. 15 :
    n = (n % 2) + 2 * ((n \div 2) % 2) + 4 * ((n \div 4) % 2) + 8 * ((n \div 8) % 2)
<1> SUFFICES ASSUME NEW n \in 0 .. 15
             PROVE  n = (n % 2) + 2 * ((n \div 2) % 2) + 4 * ((n \div 4) % 2) + 8 * ((n \div 8) % 2)
  OBVIOUS
<1> QED BY Z3

(* buildFrame and parseFrame (src/core/frame2.ts), for every size and every*)
(* message whose length the prefix can state, which has four bits here: a  *)
(* frame has its size and gives back its message, and with any one bit     *)
(* changed it is refused exactly when the length it then declares runs     *)
(* past its end.                                                           *)
THEOREM EveryFrameCarries ==
  ASSUME NEW plain \in Seq(Bit), NEW size \in Nat, Len(plain) \in 0 .. 15, None \notin Seq(Bit)
  PROVE  FramesCarry(plain, size)
<1> DEFINE n == Len(plain)
           frame == BuildFrame(plain, size)
           zeros == [i \in 1 .. size - 4 - n |-> 0]
<1>1. CASE size < 4 \/ n > size - 4
  <2>1. frame = None
    BY <1>1 DEF BuildFrame, LengthPrefixBytes
  <2> QED BY <1>1, <2>1 DEF FramesCarry, LengthPrefixBytes
<1>2. CASE ~(size < 4 \/ n > size - 4)
  <2>1. frame = Prefix(n) \o plain \o zeros
    BY <1>2 DEF BuildFrame, LengthPrefixBytes
  <2>2. Prefix(n) \in Seq(Bit) /\ Len(Prefix(n)) = 4
    BY DEF Prefix, Bit
  <2>3. zeros \in Seq(Bit) /\ Len(zeros) = size - 4 - n
    BY <1>2 DEF Bit
  <2>4. /\ frame \in Seq(Bit) /\ Len(frame) = size
        /\ \A i \in 1 .. 4 : frame[i] = Prefix(n)[i]
        /\ \A i \in 1 .. n : frame[4 + i] = plain[i]
    <3> DEFINE prefix == Prefix(n)
               front == prefix \o plain
    <3>1. /\ front \in Seq(Bit) /\ Len(front) = Len(prefix) + Len(plain)
          /\ \A i \in 1 .. Len(prefix) + Len(plain) :
               front[i] = IF i <= Len(prefix) THEN prefix[i] ELSE plain[i - Len(prefix)]
      BY <2>2, ConcatProperties, Zenon
    <3> HIDE DEF zeros, front, prefix, frame
    <3>2. frame = front \o zeros
      BY <2>1, Zenon DEF front, prefix
    <3>3. /\ frame \in Seq(Bit) /\ Len(frame) = Len(front) + Len(zeros)
          /\ \A i \in 1 .. Len(front) + Len(zeros) :
               frame[i] = IF i <= Len(front) THEN front[i] ELSE zeros[i - Len(front)]
      BY <2>3, <3>1, <3>2, ConcatProperties, Zenon
    <3>4. prefix \in Seq(Bit) /\ Len(prefix) = 4
      BY <2>2, Zenon DEF prefix
    <3>5. Len(front) = 4 + n /\ Len(frame) = size
      BY <1>2, <2>3, <3>1, <3>3, <3>4
    <3>6. \A i \in 1 .. 4 + n : frame[i] = IF i <= 4 THEN prefix[i] ELSE plain[i - 4]
      <4> SUFFICES ASSUME NEW i \in 1 .. 4 + n
                   PROVE  frame[i] = IF i <= 4 THEN prefix[i] ELSE plain[i - 4]
        OBVIOUS
      <4>1. i <= Len(front) /\ i \in 1 .. Len(front) + Len(zeros) /\ i \in 1 .. Len(prefix) + Len(plain)
        BY <1>2, <2>3, <3>4, <3>5
      <4>2. frame[i] = front[i]
        BY <3>3, <4>1, Zenon
      <4>3. front[i] = IF i <= Len(prefix) THEN prefix[i] ELSE plain[i - Len(prefix)]
        BY <3>1, <4>1, Zenon
      <4> QED BY <3>4, <4>2, <4>3, Zenon
    <3> QED BY <3>3, <3>5, <3>6, SMTT(30) DEF prefix
  <2>5. Declared(frame) = n
    <3>1. /\ frame[1] = n % 2 /\ frame[2] = (n \div 2) % 2
          /\ frame[3] = (n \div 4) % 2 /\ frame[4] = (n \div 8) % 2
      <4> HIDE DEF frame
      <4>1. /\ frame[1] = Prefix(n)[1] /\ frame[2] = Prefix(n)[2]
            /\ frame[3] = Prefix(n)[3] /\ frame[4] = Prefix(n)[4]
        BY <2>4
      <4> QED BY <4>1 DEF Prefix
    <3>2. n = (n % 2) + 2 * ((n \div 2) % 2) + 4 * ((n \div 4) % 2) + 8 * ((n \div 8) % 2)
      BY FourBits, Zenon
    <3> HIDE DEF frame
    <3> QED BY <3>1, <3>2 DEF Declared
  <2> HIDE DEF frame
  <2>6. ParseFrame(frame) = SubSeq(frame, 5, 4 + n)
    BY <1>2, <2>4, <2>5 DEF ParseFrame, LengthPrefixBytes
  <2>7. SubSeq(frame, 5, 4 + n) = plain
    <3>1. SubSeq(frame, 5, 4 + n) = [i \in 1 .. n |-> frame[4 + i]]
      BY <1>2, <2>4
    <3>2. plain = [i \in 1 .. n |-> plain[i]]
      OBVIOUS
    <3> QED BY <2>4, <3>1, <3>2
  <2>8. frame # None
    BY <2>4
  <2>9. ASSUME NEW i \in DOMAIN frame
        PROVE  LET other == [frame EXCEPT ![i] = 1 - @]
               IN ParseFrame(other) = None <=> Declared(other) + 4 > size
    <3> DEFINE other == [frame EXCEPT ![i] = 1 - @]
    <3>1. i \in 1 .. size /\ frame[i] \in Bit
      BY <2>4, ElementOfSeq
    <3>2. 1 - frame[i] \in Bit
      BY <3>1 DEF Bit
    <3>3. other \in Seq(Bit) /\ Len(other) = size
      BY <2>4, <3>1, <3>2, ExceptSeq
    <3> HIDE DEF other
    <3>4. other[1] \in Bit /\ other[2] \in Bit /\ other[3] \in Bit /\ other[4] \in Bit
      BY <1>2, <3>3, ElementOfSeq
    <3>5. Declared(other) \in 0 .. 15
      BY <3>4 DEF Declared, Bit
    <3>6. ASSUME Declared(other) <= size - 4
          PROVE  SubSeq(other, 5, 4 + Declared(other)) \in Seq(Bit)
      <4> DEFINE last == 4 + Declared(other)
      <4>1. last \in Int /\ 5 \in Int /\ \A k \in 5 .. last : k \in 1 .. Len(other)
        BY <3>3, <3>5, <3>6, SMTT(30)
      <4>2. \A k \in 5 .. last : other[k] \in Bit
        BY <3>3, <4>1, ElementOfSeq, Zenon
      <4> HIDE DEF last
      <4>3. SubSeq(other, 5, last) \in Seq(Bit)
        BY <4>1, <4>2, SubSeqProperties, Zenon
      <4> QED BY <4>3 DEF last
    <3>7. ParseFrame(other) = IF Declared(other) > size - 4 THEN None
                              ELSE SubSeq(other, 5, 4 + Declared(other))
      BY <1>2, <3>3 DEF ParseFrame, LengthPrefixBytes
    <3>8. ParseFrame(other) = None <=> Declared(other) + 4 > size
      <4>1. CASE Declared(other) > size - 4
        BY <3>5, <3>7, <4>1, SMTT(30)
      <4>2. CASE Declared(other) <= size - 4
        <5>1. ParseFrame(other) \in Seq(Bit)
          BY <3>5, <3>6, <3>7, <4>2, SMTT(30)
        <5>2. ParseFrame(other) # None
          BY <5>1, Zenon
        <5> QED BY <3>5, <4>2, <5>2, SMTT(30)
      <4> QED BY <3>5, <4>1, <4>2
    <3> QED BY <3>8 DEF other
  <2> QED BY <2>4, <2>6, <2>7, <2>8, <2>9 DEF FramesCarry, frame, LengthPrefixBytes
<1> QED BY <1>1, <1>2

-----------------------------------------------------------------------------
(* base64url (src/core/base64url.ts) and what is written in it: the request of*)
(* a receiver and the package of a sender.                                 *)

Byte == 0 .. 255

(* How many characters so many bytes have.                                 *)
Characters(n) == n + CeilDiv(n, 3)

LEMMA CharactersOfBytes ==
  ASSUME NEW n \in Nat
  PROVE  /\ Characters(n) \in Nat /\ Characters(n) % 4 # 1
         /\ Characters(n) - CeilDiv(Characters(n), 4) = n
<1>1. PICK q \in Nat, r \in 0 .. 2 : n = 3 * q + r
  <2>1. n = 3 * (n \div 3) + (n % 3) /\ n \div 3 \in Nat /\ n % 3 \in 0 .. 2
    BY DivMod
  <2> QED BY <2>1
<1>2. Characters(n) = 4 * q + (IF r = 0 THEN 0 ELSE r + 1)
  BY <1>1 DEF Characters, CeilDiv
<1>3. Characters(n) % 4 = IF r = 0 THEN 0 ELSE r + 1
  BY <1>1, <1>2
<1>4. CeilDiv(Characters(n), 4) = q + (IF r = 0 THEN 0 ELSE 1)
  BY <1>1, <1>2 DEF CeilDiv
<1> DEFINE c == Characters(n)
           d == CeilDiv(c, 4)
<1>5. c = 4 * q + (IF r = 0 THEN 0 ELSE r + 1) /\ (c % 4 = IF r = 0 THEN 0 ELSE r + 1)
      /\ d = q + (IF r = 0 THEN 0 ELSE 1)
  BY <1>2, <1>3, <1>4, Zenon
<1> HIDE DEF c, d
<1>6. c \in Nat
  BY <1>1, <1>5
<1>7. c - d = n
  BY <1>1, <1>5
<1>8. c % 4 # 1
  BY <1>1, <1>5
<1> QED BY <1>6, <1>7, <1>8 DEF c, d

ByteOf(b, i) == IF i <= Len(b) THEN b[i] ELSE 0

LEMMA ByteOfBytes ==
  ASSUME NEW b \in Seq(Byte), NEW i \in Nat \ {0}
  PROVE  ByteOf(b, i) \in 0 .. 255
<1>1. CASE i <= Len(b)
  <2>1. i \in 1 .. Len(b)
    BY <1>1
  <2>2. b[i] \in Byte
    BY <2>1, ElementOfSeq
  <2> QED BY <1>1, <2>2 DEF ByteOf, Byte
<1>2. CASE ~(i <= Len(b))
  BY <1>2 DEF ByteOf
<1> QED BY <1>1, <1>2

(* The first to the fourth character of a group of three bytes.            *)
Character(which, x, y, z) ==
  CASE which = 1 -> x \div 4
    [] which = 2 -> (x % 4) * 16 + (y \div 16)
    [] which = 3 -> (y % 16) * 4 + (z \div 64)
    [] OTHER     -> z % 64

LEMMA CharacterIsOne ==
  \A which \in 0 .. 3 : \A x, y, z \in 0 .. 255 : Character(which, x, y, z) \in 0 .. 63
<1> SUFFICES ASSUME NEW which \in 0 .. 3, NEW x \in 0 .. 255, NEW y \in 0 .. 255, NEW z \in 0 .. 255
             PROVE  Character(which, x, y, z) \in 0 .. 63
  OBVIOUS
<1>1. x \div 4 \in 0 .. 63 /\ x % 4 \in 0 .. 3
  OBVIOUS
<1>2. y \div 16 \in 0 .. 15 /\ y % 16 \in 0 .. 15
  OBVIOUS
<1>3. z \div 64 \in 0 .. 3 /\ z % 64 \in 0 .. 63
  OBVIOUS
<1> QED BY <1>1, <1>2, <1>3 DEF Character

(* The first to the third byte of a group of four characters.              *)
ByteFrom(which, a, b, c, d) ==
  CASE which = 1 -> a * 4 + (b \div 16)
    [] which = 2 -> (b % 16) * 16 + (c \div 4)
    [] OTHER     -> (c % 4) * 64 + d

Regrouped(x, y, z, c, d) ==
  /\ ByteFrom(1, Character(1, x, y, z), Character(2, x, y, z), c, d) = x
  /\ ByteFrom(2, Character(1, x, y, z), Character(2, x, y, z), Character(3, x, y, z), d) = y
  /\ ByteFrom(0, Character(1, x, y, z), Character(2, x, y, z), Character(3, x, y, z),
              Character(0, x, y, z)) = z

(* A group comes back; of a short one nobody looks at the rest.            *)
LEMMA GroupComesBack ==
  ASSUME NEW x \in 0 .. 255, NEW y \in 0 .. 255, NEW z \in 0 .. 255, NEW c, NEW d
  PROVE  Regrouped(x, y, z, c, d)
<1>1. (x \div 4) * 4 + (((x % 4) * 16 + (y \div 16)) \div 16) = x
  OBVIOUS
<1>2. (((x % 4) * 16 + (y \div 16)) % 16) * 16 + (((y % 16) * 4 + (z \div 64)) \div 4) = y
  <2>1. y \div 16 \in 0 .. 15 /\ y % 16 \in 0 .. 15 /\ y = (y \div 16) * 16 + (y % 16)
    OBVIOUS
  <2>2. x % 4 \in 0 .. 3 /\ z \div 64 \in 0 .. 3
    OBVIOUS
  <2>3. ((x % 4) * 16 + (y \div 16)) % 16 = y \div 16
    BY <2>1, <2>2
  <2>4. ((y % 16) * 4 + (z \div 64)) \div 4 = y % 16
    BY <2>1, <2>2
  <2> QED BY <2>1, <2>3, <2>4
<1>3. (((y % 16) * 4 + (z \div 64)) % 4) * 64 + (z % 64) = z
  OBVIOUS
<1>4. /\ Character(1, x, y, z) = x \div 4
      /\ Character(2, x, y, z) = (x % 4) * 16 + (y \div 16)
      /\ Character(3, x, y, z) = (y % 16) * 4 + (z \div 64)
      /\ Character(0, x, y, z) = z % 64
  BY DEF Character
<1>5. \A a, b, e, g : /\ ByteFrom(1, a, b, e, g) = a * 4 + (b \div 16)
                     /\ ByteFrom(2, a, b, e, g) = (b % 16) * 16 + (e \div 4)
                     /\ ByteFrom(0, a, b, e, g) = (e % 4) * 64 + g
  BY DEF ByteFrom
<1> QED BY <1>1, <1>2, <1>3, <1>4, <1>5 DEF Regrouped

CharacterAt(b, k) ==
  LET i == 3 * ((k - 1) \div 4) + 1
  IN Character(k % 4, ByteOf(b, i), ByteOf(b, i + 1), ByteOf(b, i + 2))

LEMMA TextIs ==
  ASSUME NEW b
  PROVE  ToBase64Url(b) = [k \in 1 .. Characters(Len(b)) |-> CharacterAt(b, k)]
BY DEF ToBase64Url, Characters, CharacterAt, Character, ByteOf

LEMMA TextOfBytes ==
  ASSUME NEW b \in Seq(Byte)
  PROVE  /\ ToBase64Url(b) \in Seq(0 .. 63)
         /\ Len(ToBase64Url(b)) = Characters(Len(b))
         /\ \A k \in 1 .. Characters(Len(b)) : ToBase64Url(b)[k] = CharacterAt(b, k)
<1>1. Characters(Len(b)) \in Nat
  BY CharactersOfBytes
<1>2. ASSUME NEW k \in 1 .. Characters(Len(b)) PROVE CharacterAt(b, k) \in 0 .. 63
  <2> DEFINE i == 3 * ((k - 1) \div 4) + 1
  <2>1. i \in Nat \ {0} /\ i + 1 \in Nat \ {0} /\ i + 2 \in Nat \ {0} /\ k % 4 \in 0 .. 3
    BY <1>1
  <2> HIDE DEF i
  <2>2. ByteOf(b, i) \in 0 .. 255 /\ ByteOf(b, i + 1) \in 0 .. 255 /\ ByteOf(b, i + 2) \in 0 .. 255
    BY <2>1, ByteOfBytes, Zenon
  <2>3. Character(k % 4, ByteOf(b, i), ByteOf(b, i + 1), ByteOf(b, i + 2)) \in 0 .. 63
    BY <2>1, <2>2, CharacterIsOne, Zenon
  <2> QED BY <2>3, Zenon DEF CharacterAt, i
<1>3. ToBase64Url(b) = [k \in 1 .. Characters(Len(b)) |-> CharacterAt(b, k)]
  BY TextIs, Zenon
<1> DEFINE m == Characters(Len(b))
<1> HIDE DEF m
<1>4. ToBase64Url(b) = [k \in 1 .. m |-> CharacterAt(b, k)] /\ m \in Nat
      /\ \A k \in 1 .. m : CharacterAt(b, k) \in 0 .. 63
  BY <1>1, <1>2, <1>3, Zenon DEF m
<1>5. /\ ToBase64Url(b) \in Seq(0 .. 63) /\ Len(ToBase64Url(b)) = m
      /\ \A k \in 1 .. m : ToBase64Url(b)[k] = CharacterAt(b, k)
  BY <1>4
<1> QED BY <1>5, Zenon DEF m

LEMMA BytesComeBack ==
  ASSUME NEW b \in Seq(Byte)
  PROVE  FromBase64Url(ToBase64Url(b)) = b
<1> DEFINE n == Len(b)
           m == Characters(n)
           text == ToBase64Url(b)
           from(j) == LET k == 4 * ((j - 1) \div 3) + 1
                      IN ByteFrom(j % 3, text[k], text[k + 1], text[k + 2], text[k + 3])
<1>1. text \in Seq(0 .. 63) /\ Len(text) = m /\ \A k \in 1 .. m : text[k] = CharacterAt(b, k)
  BY TextOfBytes, Zenon
<1>2. n \in Nat /\ m \in Nat /\ m % 4 # 1 /\ m - CeilDiv(m, 4) = n
  <2>1. n \in Nat
    OBVIOUS
  <2> QED BY <2>1, CharactersOfBytes, Zenon
<1> HIDE DEF text, m
<1>3. NoSuch \notin ToSet(text)
  <2>1. \A k \in 1 .. Len(text) : text[k] \in 0 .. 63
    BY <1>1, ElementOfSeq, Zenon
  <2>2. DOMAIN text = 1 .. Len(text)
    BY <1>1, LenProperties, Zenon
  <2>3. ToSet(text) \subseteq 0 .. 63
    BY <2>1, <2>2, Zenon DEF ToSet
  <2>4. 64 \notin 0 .. 63
    OBVIOUS
  <2> QED BY <2>3, <2>4, Zenon DEF NoSuch
<1>4. FromBase64Url(text) = [j \in 1 .. n |-> from(j)]
  <2>1. FromBase64Url(text) = [j \in 1 .. Len(text) - CeilDiv(Len(text), 4) |-> from(j)]
    <3>1. ~(Len(text) % 4 = 1 \/ NoSuch \in ToSet(text))
      BY <1>1, <1>2, <1>3
    <3> QED BY <3>1, Zenon DEF FromBase64Url, ByteFrom
  <2>2. Len(text) - CeilDiv(Len(text), 4) = n
    BY <1>1, <1>2, Zenon
  <2> QED BY <2>1, <2>2, Zenon
<1>5. ASSUME NEW q \in Nat, NEW s \in 1 .. 3, 3 * q + s <= n
      PROVE  from(3 * q + s) = b[3 * q + s]
  <2> DEFINE i == 3 * q + 1
             x == ByteOf(b, i)
             y == ByteOf(b, i + 1)
             z == ByteOf(b, i + 2)
  <2>1. x \in 0 .. 255 /\ y \in 0 .. 255 /\ z \in 0 .. 255
    <3>1. i \in Nat \ {0} /\ i + 1 \in Nat \ {0} /\ i + 2 \in Nat \ {0}
      OBVIOUS
    <3> HIDE DEF i
    <3> QED BY <3>1, ByteOfBytes, Zenon
  <2>2. 4 * q + 1 + s <= m
    BY <1>2, <1>5 DEF m, Characters, CeilDiv
  <2>3. ASSUME NEW l \in 0 .. 3, l <= s
        PROVE  text[4 * q + 1 + l] = Character((l + 1) % 4, x, y, z)
    <3>1. (4 * q + 1 + l - 1) \div 4 = q /\ (4 * q + 1 + l) % 4 = (l + 1) % 4
      OBVIOUS
    <3>2. 4 * q + 1 + l \in 1 .. m
      BY <1>2, <2>2, <2>3
    <3>3. text[4 * q + 1 + l] = CharacterAt(b, 4 * q + 1 + l)
      BY <1>1, <3>2, Zenon
    <3> QED BY <3>1, <3>3, SMT DEF CharacterAt
  <2>4. \/ s = 1 /\ b[3 * q + s] = x
        \/ s = 2 /\ b[3 * q + s] = y
        \/ s = 3 /\ b[3 * q + s] = z
    BY <1>2, <1>5 DEF ByteOf
  <2>5. (3 * q + s - 1) \div 3 = q /\ ((3 * q + s) % 3 = IF s = 3 THEN 0 ELSE s)
    OBVIOUS
  <2>6. from(3 * q + s) = ByteFrom(IF s = 3 THEN 0 ELSE s, text[4 * q + 1], text[4 * q + 1 + 1],
                                   text[4 * q + 1 + 2], text[4 * q + 1 + 3])
    BY <2>5
  <2>7. /\ text[4 * q + 1] = Character(1, x, y, z)
        /\ text[4 * q + 1 + 1] = Character(2, x, y, z)
        /\ s >= 2 => text[4 * q + 1 + 2] = Character(3, x, y, z)
        /\ s >= 3 => text[4 * q + 1 + 3] = Character(0, x, y, z)
    <3>1. 4 * q + 1 + 0 = 4 * q + 1 /\ (0 + 1) % 4 = 1 /\ (1 + 1) % 4 = 2 /\ (2 + 1) % 4 = 3 /\ (3 + 1) % 4 = 0
      OBVIOUS
    <3>2. 0 <= s /\ 1 <= s /\ (s >= 2 => 2 <= s) /\ (s >= 3 => 3 <= s)
          /\ 0 \in 0 .. 3 /\ 1 \in 0 .. 3 /\ 2 \in 0 .. 3 /\ 3 \in 0 .. 3
      OBVIOUS
    <3>3. \A l \in 0 .. 3 : l <= s => text[4 * q + 1 + l] = Character((l + 1) % 4, x, y, z)
      BY <2>3, Zenon
    <3> HIDE DEF x, y, z
    <3>4. /\ text[4 * q + 1 + 0] = Character((0 + 1) % 4, x, y, z)
          /\ text[4 * q + 1 + 1] = Character((1 + 1) % 4, x, y, z)
          /\ s >= 2 => text[4 * q + 1 + 2] = Character((2 + 1) % 4, x, y, z)
          /\ s >= 3 => text[4 * q + 1 + 3] = Character((3 + 1) % 4, x, y, z)
      BY <3>2, <3>3, Zenon
    <3> QED BY <3>1, <3>4, Zenon
  <2> DEFINE c == text[4 * q + 1 + 2]
             d == text[4 * q + 1 + 3]
  <2>8. Regrouped(x, y, z, c, d)
    <3> HIDE DEF x, y, z, c, d
    <3> QED BY <2>1, GroupComesBack, Zenon
  <2> HIDE DEF from, x, y, z
  <2> QED BY <2>4, <2>6, <2>7, <2>8 DEF Regrouped
<1>6. ASSUME NEW j \in 1 .. n PROVE from(j) = b[j]
  <2>1. PICK q \in Nat, s \in 1 .. 3 : j = 3 * q + s
    <3>1. /\ (j - 1) \div 3 \in Nat /\ (j - 1) % 3 \in 0 .. 2
          /\ j - 1 = 3 * ((j - 1) \div 3) + ((j - 1) % 3)
      <4>1. j - 1 \in Nat /\ 3 \in Nat \ {0}
        BY <1>2
      <4>2. 3 - 1 = 2
        OBVIOUS
      <4>3. /\ (j - 1) \div 3 \in Nat /\ (j - 1) % 3 \in 0 .. 3 - 1
            /\ j - 1 = 3 * ((j - 1) \div 3) + ((j - 1) % 3)
        BY <4>1, DivMod, Zenon
      <4> QED BY <4>2, <4>3
    <3>2. ((j - 1) % 3) + 1 \in 1 .. 3
      BY <3>1
    <3>3. j = 3 * ((j - 1) \div 3) + (((j - 1) % 3) + 1)
      BY <3>1
    <3> QED BY <3>1, <3>2, <3>3, Zenon
  <2>2. 3 * q + s <= n
    BY <2>1
  <2> HIDE DEF from, n
  <2>3. from(3 * q + s) = b[3 * q + s]
    BY <1>5, <2>2, Zenon
  <2> QED BY <2>1, <2>3, Zenon
<1>7. b = [j \in 1 .. n |-> b[j]]
  OBVIOUS
<1> HIDE DEF from
<1>8. FromBase64Url(text) = b
  BY <1>4, <1>6, <1>7
<1> QED BY <1>8 DEF text

(* A sequence cut in two is put together again.                            *)
LEMMA Rejoined ==
  ASSUME NEW S, NEW b \in Seq(S), NEW k \in Nat, NEW m \in Nat, k <= m, m <= Len(b)
  PROVE  SubSeq(b, 1, k) \o SubSeq(b, k + 1, m) = SubSeq(b, 1, m)
<1>1. SubSeq(b, 1, k) = [i \in 1 .. k |-> b[i]]
  OBVIOUS
<1>2. SubSeq(b, k + 1, m) = [i \in 1 .. m - k |-> b[k + i]]
  OBVIOUS
<1>3. SubSeq(b, 1, m) = [i \in 1 .. m |-> b[i]]
  OBVIOUS
<1> QED BY <1>1, <1>2, <1>3

LEMMA PieceOf ==
  ASSUME NEW S, NEW b \in Seq(S), NEW k \in Nat, NEW m \in Nat, k <= m, m <= Len(b)
  PROVE  SubSeq(b, k + 1, m) \in Seq(S) /\ Len(SubSeq(b, k + 1, m)) = m - k
<1>1. \A i \in k + 1 .. m : i \in 1 .. Len(b)
  OBVIOUS
<1>2. \A i \in k + 1 .. m : b[i] \in S
  BY <1>1, ElementOfSeq, Zenon
<1>3. k + 1 \in Int /\ m \in Int
  OBVIOUS
<1>4. /\ SubSeq(b, k + 1, m) \in Seq(S)
      /\ Len(SubSeq(b, k + 1, m)) = IF k + 1 <= m THEN m - (k + 1) + 1 ELSE 0
  BY <1>2, <1>3, SubSeqProperties, ZenonT(40)
<1> QED BY <1>4

(* What two sequences make together has them at its ends.                  *)
HasEnds(b, s, t) ==
  /\ Len(b) = Len(s) + Len(t)
  /\ SubSeq(b, Len(s) + 1, Len(s) + Len(t)) = t
  /\ \A k \in 1 .. Len(s) : b[k] = s[k]
  /\ \A k \in Nat : \A m \in 0 .. Len(s) : SubSeq(b, k + 1, m) = SubSeq(s, k + 1, m)

LEMMA TogetherHasEnds ==
  ASSUME NEW S, NEW s \in Seq(S), NEW t \in Seq(S)
  PROVE  s \o t \in Seq(S) /\ HasEnds(s \o t, s, t)
<1> DEFINE b == s \o t
<1>1. /\ b \in Seq(S) /\ Len(b) = Len(s) + Len(t)
      /\ \A k \in 1 .. Len(s) + Len(t) : b[k] = IF k <= Len(s) THEN s[k] ELSE t[k - Len(s)]
  BY ConcatProperties, Zenon
<1> HIDE DEF b
<1>2. \A k \in 1 .. Len(s) : b[k] = s[k]
  BY <1>1
<1>3. SubSeq(b, Len(s) + 1, Len(s) + Len(t)) = t
  <2>1. SubSeq(b, Len(s) + 1, Len(s) + Len(t)) = [i \in 1 .. Len(t) |-> b[Len(s) + i]]
    BY <1>1
  <2>2. \A i \in 1 .. Len(t) : b[Len(s) + i] = t[i]
    BY <1>1
  <2>3. t = [i \in 1 .. Len(t) |-> t[i]]
    OBVIOUS
  <2> QED BY <2>1, <2>2, <2>3
<1>4. ASSUME NEW k \in Nat, NEW m \in 0 .. Len(s)
      PROVE  SubSeq(b, k + 1, m) = SubSeq(s, k + 1, m)
  <2>1. SubSeq(b, k + 1, m) = [i \in 1 .. m - k |-> b[k + i]]
    BY <1>1
  <2>2. SubSeq(s, k + 1, m) = [i \in 1 .. m - k |-> s[k + i]]
    OBVIOUS
  <2>3. \A i \in 1 .. m - k : b[k + i] = s[k + i]
    BY <1>2
  <2> QED BY <2>1, <2>2, <2>3
<1>5. b \in Seq(S) /\ HasEnds(b, s, t)
  BY <1>1, <1>2, <1>3, <1>4, Zenon DEF HasEnds
<1> QED BY <1>5, Zenon DEF b

LEMMA ByteFromIsOne ==
  ASSUME NEW which \in 0 .. 2, NEW a \in 0 .. 63, NEW b \in 0 .. 63, NEW c, NEW d,
         which # 1 => c \in 0 .. 63, which = 0 => d \in 0 .. 63
  PROVE  ByteFrom(which, a, b, c, d) \in 0 .. 255
<1>1. CASE which = 1
  <2>1. ByteFrom(which, a, b, c, d) = a * 4 + (b \div 16)
    BY <1>1 DEF ByteFrom
  <2> QED BY <2>1
<1>2. CASE which = 2
  <2>1. ByteFrom(which, a, b, c, d) = (b % 16) * 16 + (c \div 4)
    BY <1>2 DEF ByteFrom
  <2> QED BY <1>2, <2>1
<1>3. CASE which = 0
  <2>1. ByteFrom(which, a, b, c, d) = (c % 4) * 64 + d
    BY <1>3 DEF ByteFrom
  <2> QED BY <1>3, <2>1
<1> QED BY <1>1, <1>2, <1>3

(* A text decodes to bytes.                                                *)
LEMMA BytesOfCharacters ==
  ASSUME NEW text \in Seq(0 .. NoSuch), FromBase64Url(text) # None
  PROVE  FromBase64Url(text) \in Seq(Byte)
<1> DEFINE m == Len(text)
           n == m - CeilDiv(m, 4)
           from(j) == LET k == 4 * ((j - 1) \div 3) + 1
                      IN ByteFrom(j % 3, text[k], text[k + 1], text[k + 2], text[k + 3])
<1>1. m \in Nat /\ DOMAIN text = 1 .. m /\ \A k \in 1 .. m : text[k] \in 0 .. 64
  BY LenProperties, ElementOfSeq DEF NoSuch
<1>2. m % 4 # 1 /\ NoSuch \notin ToSet(text)
  BY Zenon DEF FromBase64Url
<1>3. FromBase64Url(text) = [j \in 1 .. n |-> from(j)]
  BY <1>2, Zenon DEF FromBase64Url, ByteFrom
<1>4. \A k \in 1 .. m : text[k] \in 0 .. 63
  <2> SUFFICES ASSUME NEW k \in 1 .. m PROVE text[k] \in 0 .. 63
    OBVIOUS
  <2>1. text[k] \in ToSet(text)
    BY <1>1, Zenon DEF ToSet
  <2>2. text[k] # 64
    BY <1>2, <2>1, Zenon DEF NoSuch
  <2>3. text[k] \in 0 .. 64
    BY <1>1
  <2> QED BY <2>2, <2>3
<1>5. PICK q \in Nat, r \in 0 .. 3 : m = 4 * q + r
  <2>1. m = 4 * (m \div 4) + (m % 4) /\ m \div 4 \in Nat /\ m % 4 \in 0 .. 4 - 1
    <3>1. 4 \in Nat \ {0}
      OBVIOUS
    <3> QED BY <1>1, <3>1, DivMod, Zenon
  <2>2. m % 4 \in 0 .. 3
    BY <2>1
  <2> QED BY <2>1, <2>2, Zenon
<1>6. n = 3 * q + (IF r = 0 THEN 0 ELSE r - 1) /\ r # 1
  BY <1>2, <1>5 DEF CeilDiv
<1>7. ASSUME NEW j \in 1 .. n PROVE from(j) \in Byte
  <2> DEFINE h == (j - 1) \div 3
             s == j % 3
             k == 4 * h + 1
  <2>1. h \in Nat /\ s \in 0 .. 2 /\ j = 3 * h + (IF s = 0 THEN 3 ELSE s)
    BY <1>6
  <2>2. /\ k \in 1 .. m /\ k + 1 \in 1 .. m
        /\ s # 1 => k + 2 \in 1 .. m
        /\ s = 0 => k + 3 \in 1 .. m
    BY <1>5, <1>6, <2>1
  <2> HIDE DEF s, k
  <2>3. /\ text[k] \in 0 .. 63 /\ text[k + 1] \in 0 .. 63
        /\ s # 1 => text[k + 2] \in 0 .. 63
        /\ s = 0 => text[k + 3] \in 0 .. 63
    BY <1>4, <2>2, Zenon
  <2>5. ByteFrom(s, text[k], text[k + 1], text[k + 2], text[k + 3]) \in 0 .. 255
    <3> HIDE DEF s, k
    <3> QED BY <2>1, <2>3, ByteFromIsOne, Zenon
  <2> QED BY <2>5, Zenon DEF Byte, s, k
<1>8. n \in Nat
  BY <1>5, <1>6
<1> HIDE DEF n, from
<1>9. [j \in 1 .. n |-> from(j)] \in Seq(Byte)
  BY <1>7, <1>8
<1> QED BY <1>3, <1>9

Bytes(n) == {b \in Seq(Byte) : Len(b) = n}

LEMMA TwoBytes ==
  /\ BigEndian(1) = <<0, 1>>
  /\ \A b \in Bytes(2) : FromBigEndian(b) = 1 => b = <<0, 1>>
<1>1. BigEndian(1) = <<0, 1>>
  BY DEF BigEndian
<1>2. ASSUME NEW b \in Bytes(2), FromBigEndian(b) = 1 PROVE b = <<0, 1>>
  <2>1. b \in Seq(Byte) /\ Len(b) = 2
    BY DEF Bytes
  <2>2. b[1] \in Byte /\ b[2] \in Byte
    BY <2>1, ElementOfSeq, 1 \in 1 .. 2, 2 \in 1 .. 2
  <2>3. \A x, y \in 0 .. 255 : x * 256 + y = 1 => x = 0 /\ y = 1
    OBVIOUS
  <2>4. b[1] = 0 /\ b[2] = 1
    BY <1>2, <2>2, <2>3, Zenon DEF FromBigEndian, Byte
  <2> QED BY <2>1, <2>4
<1> QED BY <1>1, <1>2

LEMMA FirstThree == <<1>> \o <<0, 1>> = <<1, 0, 1>>
<1> DEFINE s == <<1>>
           t == <<0, 1>>
           all == <<1, 0, 1>>
<1>1. s \in Seq(Nat) /\ Len(s) = 1 /\ s[1] = 1
  OBVIOUS
<1>2. t \in Seq(Nat) /\ Len(t) = 2 /\ t[1] = 0 /\ t[2] = 1
  OBVIOUS
<1>3. all \in Seq(Nat) /\ Len(all) = 3 /\ all[1] = 1 /\ all[2] = 0 /\ all[3] = 1
  OBVIOUS
<1> HIDE DEF s, t, all
<1>4. /\ s \o t \in Seq(Nat) /\ Len(s \o t) = Len(s) + Len(t)
      /\ \A i \in 1 .. Len(s) + Len(t) : (s \o t)[i] = IF i <= Len(s) THEN s[i] ELSE t[i - Len(s)]
  BY <1>1, <1>2, ConcatProperties, Zenon
<1> DEFINE b == s \o t
<1> HIDE DEF b
<1>5. b \in Seq(Nat) /\ Len(b) = 3 /\ b[1] = 1 /\ b[2] = 0 /\ b[3] = 1
  BY <1>1, <1>2, <1>4 DEF b
<1>6. b = all
  <2>1. Len(b) = Len(all) /\ \A i \in 1 .. Len(b) : b[i] = all[i]
    BY <1>3, <1>5
  <2> QED BY <1>3, <1>5, <2>1, SeqEqual, Zenon
<1> QED BY <1>6, Zenon DEF b, s, t, all

(* encodeReceiveRequest and decodeReceiveRequest (src/spt/                 *)
(* receive-request.ts): every request is read back from its text, and of   *)
(* all texts that are read at all each is the one written for what is read.*)
THEOREM EveryRequestIsSpelledOneWay ==
  ASSUME None \notin Seq(Byte),
         NEW r \in [requestId : Bytes(RequestIdBytes), key : Bytes(PublicKeyBytes)]
  PROVE  SpelledOneWay(r, EncodeReceiveRequest, DecodeReceiveRequest, Seq(0 .. NoSuch))
<1> DEFINE front == <<1>> \o BigEndian(1)
           body(x) == front \o x.requestId \o x.key
<1>1. /\ r.requestId \in Seq(Byte) /\ Len(r.requestId) = 1
      /\ r.key \in Seq(Byte) /\ Len(r.key) = 4
      /\ r = [requestId |-> r.requestId, key |-> r.key]
  BY DEF Bytes, RequestIdBytes, PublicKeyBytes
<1>2. front = <<1, 0, 1>> /\ front \in Seq(Byte) /\ Len(front) = 3
  <2>1. front = <<1>> \o <<0, 1>>
    BY TwoBytes, Zenon
  <2>2. <<1>> \o <<0, 1>> = <<1, 0, 1>>
    BY FirstThree
  <2>3. <<1, 0, 1>> \in Seq(Byte) /\ Len(<<1, 0, 1>>) = 3
    BY DEF Byte
  <2> HIDE DEF front
  <2> QED BY <2>1, <2>2, <2>3, Zenon
<1> HIDE DEF front
<1>3. RequestBodyBytes = 8 /\ RequestTextChars = 11
  <2>1. RequestBodyBytes = 8
    BY DEF RequestBodyBytes, RequestIdBytes, PublicKeyBytes
  <2>2. (8 * 4 + 3 - 1) \div 3 = 11
    OBVIOUS
  <2> QED BY <2>1, <2>2, Zenon DEF RequestTextChars, CeilDiv
<1>4. DecodeReceiveRequest(EncodeReceiveRequest(r)) = Accepted(r)
  <2> DEFINE text == EncodeReceiveRequest(r)
             first == front \o r.requestId
  <2>1. /\ first \in Seq(Byte) /\ Len(first) = 4
        /\ SubSeq(first, 4, 4) = r.requestId
        /\ \A k \in 1 .. 3 : first[k] = front[k]
    <3>1. /\ first \in Seq(Byte) /\ Len(first) = Len(front) + Len(r.requestId)
          /\ SubSeq(first, Len(front) + 1, Len(front) + Len(r.requestId)) = r.requestId
          /\ \A k \in 1 .. Len(front) : first[k] = front[k]
      <4>1. first \in Seq(Byte) /\ HasEnds(first, front, r.requestId)
        BY <1>1, <1>2, TogetherHasEnds, Zenon
      <4> HIDE DEF first
      <4> QED BY <4>1, Zenon DEF HasEnds
    <3> HIDE DEF first
    <3> QED BY <1>1, <1>2, <3>1
  <2> HIDE DEF first
  <2>2. /\ body(r) \in Seq(Byte) /\ Len(body(r)) = 8
        /\ SubSeq(body(r), 5, 8) = r.key
        /\ \A k \in 1 .. 4 : body(r)[k] = first[k]
        /\ SubSeq(body(r), 4, 4) = SubSeq(first, 4, 4)
    <3> DEFINE all == first \o r.key
    <3>1. /\ all \in Seq(Byte) /\ Len(all) = Len(first) + Len(r.key)
          /\ SubSeq(all, Len(first) + 1, Len(first) + Len(r.key)) = r.key
          /\ \A k \in 1 .. Len(first) : all[k] = first[k]
          /\ \A k \in Nat : \A m \in 0 .. Len(first) : SubSeq(all, k + 1, m) = SubSeq(first, k + 1, m)
      <4>1. all \in Seq(Byte) /\ HasEnds(all, first, r.key)
        BY <1>1, <2>1, TogetherHasEnds, Zenon
      <4> HIDE DEF all
      <4> QED BY <4>1, Zenon DEF HasEnds
    <3>2. all = body(r)
      BY DEF first
    <3> HIDE DEF all
    <3>3. SubSeq(all, 3 + 1, 4) = SubSeq(first, 3 + 1, 4)
      BY <2>1, <3>1, 3 \in Nat, 4 \in 0 .. 4
    <3>4. /\ all \in Seq(Byte) /\ Len(all) = 8
          /\ SubSeq(all, 5, 8) = r.key
          /\ \A k \in 1 .. 4 : all[k] = first[k]
          /\ SubSeq(all, 4, 4) = SubSeq(first, 4, 4)
      BY <1>1, <2>1, <3>1, <3>3
    <3> QED BY <3>2, <3>4, Zenon
  <2>3. text = ToBase64Url(body(r))
    BY Zenon DEF EncodeReceiveRequest, front
  <2>4. text \in Seq(0 .. 63) /\ Len(text) = 11
    <3>1. text \in Seq(0 .. 63) /\ Len(text) = Characters(8)
      BY <2>2, <2>3, TextOfBytes
    <3> QED BY <3>1 DEF Characters, CeilDiv
  <2>5. BytesOfText(text) = body(r)
    <3>1. FromBase64Url(text) = body(r)
      BY <2>2, <2>3, BytesComeBack, Zenon
    <3>2. body(r) # None
      BY <2>2, Zenon
    <3> QED BY <2>3, <3>1, <3>2, Zenon DEF BytesOfText
  <2>6. NoSuch \notin ToSet(text)
    <3>1. \A k \in 1 .. Len(text) : text[k] \in 0 .. 63
      BY <2>4, ElementOfSeq, Zenon
    <3>2. DOMAIN text = 1 .. Len(text) /\ 64 \notin 0 .. 63
      BY <2>4
    <3> QED BY <3>1, <3>2, Zenon DEF ToSet, NoSuch
  <2>7. ParseRequestBody(body(r)) = Accepted(r)
    <3>1. body(r)[1] = 1 /\ body(r)[2] = 0 /\ body(r)[3] = 1
      BY <1>2, <2>1, <2>2, SMTT(30)
    <3>2. FromBigEndian(SubSeq(body(r), 2, 3)) = 1
      <4> HIDE DEF body
      <4>1. SubSeq(body(r), 2, 3) = [i \in 1 .. 2 |-> body(r)[1 + i]]
        BY <2>2
      <4> QED BY <3>1, <4>1 DEF FromBigEndian
    <3> HIDE DEF body
    <3>3. 3 + RequestIdBytes = 4 /\ 4 + RequestIdBytes = 5
      BY DEF RequestIdBytes
    <3>4. SubSeq(body(r), 4, 4) = r.requestId /\ SubSeq(body(r), 5, 8) = r.key
      BY <2>1, <2>2, Zenon
    <3>5. ParseRequestBody(body(r)) = Accepted([requestId |-> r.requestId, key |-> r.key])
      BY <1>3, <2>2, <3>1, <3>2, <3>3, <3>4, Zenon DEF ParseRequestBody
    <3> QED BY <1>1, <3>5, Zenon
  <2>8. DecodeReceiveRequest(text) = ParseRequestBody(body(r))
    <3>1. body(r) # None
      BY <2>2, Zenon
    <3> HIDE DEF body, text
    <3> QED BY <1>3, <2>4, <2>5, <2>6, <3>1, Zenon DEF DecodeReceiveRequest
  <2> QED BY <2>7, <2>8, Zenon
<1>5. ASSUME NEW text \in Seq(0 .. NoSuch), DecodeReceiveRequest(text).ok
      PROVE  EncodeReceiveRequest(DecodeReceiveRequest(text).as) = text
  <2> DEFINE b == BytesOfText(text)
  <2>1. \A reason : ~Refusal(reason).ok
    BY DEF Refusal
  <2>2. b # None /\ DecodeReceiveRequest(text) = ParseRequestBody(b)
    BY <1>5, <2>1, Zenon DEF DecodeReceiveRequest
  <2>3. b = FromBase64Url(text) /\ ToBase64Url(b) = text
    BY <2>2, Zenon DEF BytesOfText
  <2>4. b \in Seq(Byte)
    BY <2>2, <2>3, BytesOfCharacters, Zenon
  <2> HIDE DEF b
  <2>5. /\ Len(b) = 8 /\ b[1] = 1 /\ FromBigEndian(SubSeq(b, 2, 3)) = 1
        /\ ParseRequestBody(b) = Accepted([requestId |-> SubSeq(b, 4, 3 + RequestIdBytes),
                                           key |-> SubSeq(b, 4 + RequestIdBytes, RequestBodyBytes)])
    BY <1>3, <1>5, <2>1, <2>2, Zenon DEF ParseRequestBody
  <2> DEFINE as == [requestId |-> SubSeq(b, 4, 4), key |-> SubSeq(b, 5, 8)]
  <2>6. DecodeReceiveRequest(text).as = as
    <3>1. 3 + RequestIdBytes = 4 /\ 4 + RequestIdBytes = 5
      BY DEF RequestIdBytes
    <3>2. DecodeReceiveRequest(text) = Accepted(as)
      BY <1>3, <2>2, <2>5, <3>1, Zenon
    <3> HIDE DEF as
    <3> QED BY <3>2 DEF Accepted
  <2>7. front = SubSeq(b, 1, 3)
    <3>1. SubSeq(b, 2, 3) = <<0, 1>>
      <4>1. 1 \in Nat /\ 3 \in Nat /\ 1 <= 3 /\ 3 <= Len(b) /\ 1 + 1 = 2 /\ 3 - 1 = 2
        BY <2>5
      <4>2. SubSeq(b, 2, 3) \in Bytes(2)
        <5>1. SubSeq(b, 1 + 1, 3) \in Seq(Byte) /\ Len(SubSeq(b, 1 + 1, 3)) = 3 - 1
          BY <2>4, <4>1, PieceOf, Zenon
        <5>2. SubSeq(b, 2, 3) \in Seq(Byte) /\ Len(SubSeq(b, 2, 3)) = 2
          BY <4>1, <5>1
        <5> QED BY <5>2, Zenon DEF Bytes
      <4> QED BY <2>5, <4>2, TwoBytes, Zenon
    <3>2. SubSeq(b, 2, 3) = [i \in 1 .. 2 |-> b[1 + i]]
      BY <2>4, <2>5
    <3>3. b[2] = 0 /\ b[3] = 1
      <4>1. [i \in 1 .. 2 |-> b[1 + i]] = <<0, 1>>
        BY <3>1, <3>2, Zenon
      <4>2. [i \in 1 .. 2 |-> b[1 + i]][1] = b[2] /\ [i \in 1 .. 2 |-> b[1 + i]][2] = b[3]
        OBVIOUS
      <4>3. <<0, 1>>[1] = 0 /\ <<0, 1>>[2] = 1
        OBVIOUS
      <4> QED BY <4>1, <4>2, <4>3
    <3>4. SubSeq(b, 1, 3) = [i \in 1 .. 3 |-> b[i]]
      BY <2>4, <2>5
    <3> QED BY <1>2, <2>5, <3>3, <3>4
  <2>8. SubSeq(b, 1, 3) \o SubSeq(b, 4, 4) = SubSeq(b, 1, 4)
    <3>1. SubSeq(b, 1, 3) \o SubSeq(b, 3 + 1, 4) = SubSeq(b, 1, 4)
      BY <2>4, <2>5, Rejoined, 3 \in Nat, 4 \in Nat, 3 <= 4, 4 <= 8
    <3> QED BY <3>1
  <2>9. SubSeq(b, 1, 4) \o SubSeq(b, 5, 8) = SubSeq(b, 1, 8)
    <3>1. SubSeq(b, 1, 4) \o SubSeq(b, 4 + 1, 8) = SubSeq(b, 1, 8)
      BY <2>4, <2>5, Rejoined, 4 \in Nat, 8 \in Nat, 4 <= 8, 8 <= 8
    <3> QED BY <3>1
  <2>10. SubSeq(b, 1, 8) = b
    <3>1. SubSeq(b, 1, 8) = [i \in 1 .. 8 |-> b[i]]
      BY <2>4, <2>5
    <3>2. b = [i \in 1 .. 8 |-> b[i]]
      BY <2>4, <2>5
    <3> QED BY <3>1, <3>2
  <2>11. as.requestId = SubSeq(b, 4, 4) /\ as.key = SubSeq(b, 5, 8)
    OBVIOUS
  <2> HIDE DEF as
  <2>12. front \o as.requestId \o as.key = b
    BY <2>7, <2>8, <2>9, <2>10, <2>11, Zenon
  <2>13. EncodeReceiveRequest(as) = ToBase64Url(b)
    BY <2>12, Zenon DEF EncodeReceiveRequest, front
  <2> QED BY <2>3, <2>6, <2>13, Zenon
<1> QED BY <1>4, <1>5, Zenon DEF SpelledOneWay

(* A number below 256 as two bytes.                                        *)
LEMMA SmallNumbers ==
  ASSUME NEW n \in 0 .. 255
  PROVE  /\ BigEndian(n) \in Bytes(2) /\ FromBigEndian(BigEndian(n)) = n
         /\ \A b \in Bytes(2) : FromBigEndian(b) = n => b = BigEndian(n)
<1>1. BigEndian(n) = <<0, n>>
  <2>1. (n \div 256) % 256 = 0 /\ n % 256 = n
    OBVIOUS
  <2> QED BY <2>1, Zenon DEF BigEndian
<1> DEFINE s == <<0, n>>
<1>2. s \in Seq(Byte) /\ Len(s) = 2 /\ s[1] = 0 /\ s[2] = n
  BY DEF Byte
<1> HIDE DEF s
<1>3. ASSUME NEW b \in Bytes(2), FromBigEndian(b) = n PROVE b = s
  <2>1. b \in Seq(Byte) /\ Len(b) = 2
    BY DEF Bytes
  <2>2. b[1] \in Byte /\ b[2] \in Byte
    BY <2>1, ElementOfSeq, 1 \in 1 .. 2, 2 \in 1 .. 2
  <2>3. \A x, y \in 0 .. 255 : x * 256 + y = n => x = 0 /\ y = n
    OBVIOUS
  <2>4. b[1] = 0 /\ b[2] = n
    BY <1>3, <2>2, <2>3, Zenon DEF FromBigEndian, Byte
  <2>5. Len(b) = Len(s) /\ \A i \in 1 .. Len(b) : b[i] = s[i]
    BY <1>2, <2>1, <2>4
  <2> QED BY <1>2, <2>1, <2>5, SeqEqual, Zenon
<1>4. s \in Bytes(2) /\ FromBigEndian(s) = n
  <2>1. 0 * 256 + n = n
    OBVIOUS
  <2> QED BY <1>2, <2>1, Zenon DEF FromBigEndian, Bytes
<1>5. BigEndian(n) = s
  BY <1>1, Zenon DEF s
<1> QED BY <1>3, <1>4, <1>5, Zenon

LEMMA Whole ==
  ASSUME NEW S, NEW b \in Seq(S)
  PROVE  SubSeq(b, 1, Len(b)) = b
<1>1. SubSeq(b, 1, Len(b)) = [i \in 1 .. Len(b) |-> b[i]]
  OBVIOUS
<1>2. b = [i \in 1 .. Len(b) |-> b[i]]
  OBVIOUS
<1> QED BY <1>1, <1>2, Zenon

LEMMA PackageSizes ==
  /\ HeaderBytes = 10 /\ LengthBytes = 2 /\ TagBytes = 1 /\ MaxPlaintextBytes = 2
  /\ Len(Magic) = 2 /\ HeaderFieldsBytes = 3 /\ Magic \in Seq(Byte)
BY DEF HeaderBytes, LengthBytes, TagBytes, MaxPlaintextBytes, Magic, HeaderFieldsBytes, Byte

(* The package as its parts stand in it.                                   *)
Packed(front, fields, n, ciphertext, tag) ==
  front \o fields \o BigEndian(n) \o ciphertext \o tag

HasParts(b, front, fields, n, ciphertext, tag) ==
  /\ Len(b) = 11 + n
  /\ SubSeq(b, 1, 5) = front /\ SubSeq(b, 6, 8) = fields
  /\ SubSeq(b, 9, 10) = BigEndian(n)
  /\ SubSeq(b, 11, 10 + n) = ciphertext
  /\ SubSeq(b, 11 + n, 11 + n) = tag

LEMMA PackedHasItsParts ==
  ASSUME NEW front \in Bytes(5), NEW fields \in Bytes(3), NEW ciphertext \in Seq(Byte),
         NEW tag \in Bytes(1), Len(ciphertext) <= 2
  PROVE  LET b == Packed(front, fields, Len(ciphertext), ciphertext, tag)
         IN b \in Seq(Byte) /\ HasParts(b, front, fields, Len(ciphertext), ciphertext, tag)
<1> DEFINE n == Len(ciphertext)
           s1 == front \o fields
           s2 == s1 \o BigEndian(n)
           s3 == s2 \o ciphertext
           s4 == s3 \o tag
<1>0. /\ front \in Seq(Byte) /\ Len(front) = 5 /\ fields \in Seq(Byte) /\ Len(fields) = 3
      /\ tag \in Seq(Byte) /\ Len(tag) = 1 /\ n \in 0 .. 2
      /\ BigEndian(n) \in Seq(Byte) /\ Len(BigEndian(n)) = 2
  <2>1. n \in 0 .. 255 /\ n \in 0 .. 2
    <3>1. n \in Nat /\ n <= 2
      OBVIOUS
    <3> HIDE DEF n
    <3> QED BY <3>1
  <2> HIDE DEF n
  <2>2. BigEndian(n) \in Bytes(2)
    BY <2>1, SmallNumbers, Zenon
  <2> QED BY <2>1, <2>2, Zenon DEF Bytes
<1> HIDE DEF n
<1>1. /\ s1 \in Seq(Byte) /\ Len(s1) = 8
      /\ SubSeq(s1, 6, 8) = fields /\ SubSeq(s1, 1, 5) = front
  <2>1. /\ s1 \in Seq(Byte) /\ Len(s1) = Len(front) + Len(fields)
        /\ SubSeq(s1, Len(front) + 1, Len(front) + Len(fields)) = fields
        /\ \A k \in Nat : \A m \in 0 .. Len(front) : SubSeq(s1, k + 1, m) = SubSeq(front, k + 1, m)
    <3>1. s1 \in Seq(Byte) /\ HasEnds(s1, front, fields)
      BY <1>0, TogetherHasEnds, Zenon
    <3> HIDE DEF s1
    <3> QED BY <3>1, Zenon DEF HasEnds
  <2> HIDE DEF s1
  <2>2. SubSeq(s1, 0 + 1, 5) = SubSeq(front, 0 + 1, 5)
    BY <1>0, <2>1, 0 \in Nat, 5 \in 0 .. 5
  <2>3. SubSeq(front, 1, 5) = front
    BY <1>0, Whole
  <2> QED BY <1>0, <2>1, <2>2, <2>3
<1> HIDE DEF s1
<1>2. /\ s2 \in Seq(Byte) /\ Len(s2) = 10
      /\ SubSeq(s2, 9, 10) = BigEndian(n)
      /\ SubSeq(s2, 6, 8) = fields /\ SubSeq(s2, 1, 5) = front
  <2>1. /\ s2 \in Seq(Byte) /\ Len(s2) = Len(s1) + Len(BigEndian(n))
        /\ SubSeq(s2, Len(s1) + 1, Len(s1) + Len(BigEndian(n))) = BigEndian(n)
        /\ \A k \in Nat : \A m \in 0 .. Len(s1) : SubSeq(s2, k + 1, m) = SubSeq(s1, k + 1, m)
    <3>1. s2 \in Seq(Byte) /\ HasEnds(s2, s1, BigEndian(n))
      BY <1>0, <1>1, TogetherHasEnds, Zenon
    <3> HIDE DEF s2
    <3> QED BY <3>1, Zenon DEF HasEnds
  <2> HIDE DEF s2
  <2>2. /\ SubSeq(s2, 0 + 1, 5) = SubSeq(s1, 0 + 1, 5)
        /\ SubSeq(s2, 5 + 1, 8) = SubSeq(s1, 5 + 1, 8)
    BY <1>1, <2>1, 0 \in Nat, 5 \in Nat, 5 \in 0 .. 8, 8 \in 0 .. 8
  <2> QED BY <1>0, <1>1, <2>1, <2>2
<1> HIDE DEF s2
<1>3. /\ s3 \in Seq(Byte) /\ Len(s3) = 10 + n
      /\ SubSeq(s3, 11, 10 + n) = ciphertext
      /\ SubSeq(s3, 9, 10) = BigEndian(n)
      /\ SubSeq(s3, 6, 8) = fields /\ SubSeq(s3, 1, 5) = front
  <2>1. /\ s3 \in Seq(Byte) /\ Len(s3) = Len(s2) + n
        /\ SubSeq(s3, Len(s2) + 1, Len(s2) + n) = ciphertext
        /\ \A k \in Nat : \A m \in 0 .. Len(s2) : SubSeq(s3, k + 1, m) = SubSeq(s2, k + 1, m)
    <3>1. s3 \in Seq(Byte) /\ HasEnds(s3, s2, ciphertext)
      BY <1>2, TogetherHasEnds, Zenon
    <3> HIDE DEF s3
    <3> QED BY <3>1, Zenon DEF HasEnds, n
  <2> HIDE DEF s3
  <2>2. /\ SubSeq(s3, 0 + 1, 5) = SubSeq(s2, 0 + 1, 5)
        /\ SubSeq(s3, 5 + 1, 8) = SubSeq(s2, 5 + 1, 8)
        /\ SubSeq(s3, 8 + 1, 10) = SubSeq(s2, 8 + 1, 10)
    BY <1>2, <2>1, 0 \in Nat, 5 \in Nat, 8 \in Nat, 5 \in 0 .. 10, 8 \in 0 .. 10, 10 \in 0 .. 10
  <2> QED BY <1>0, <1>2, <2>1, <2>2, SMTT(30)
<1> HIDE DEF s3
<1>4. /\ s4 \in Seq(Byte) /\ Len(s4) = 11 + n
      /\ SubSeq(s4, 11 + n, 11 + n) = tag
      /\ SubSeq(s4, 11, 10 + n) = ciphertext
      /\ SubSeq(s4, 9, 10) = BigEndian(n)
      /\ SubSeq(s4, 6, 8) = fields /\ SubSeq(s4, 1, 5) = front
  <2>1. /\ s4 \in Seq(Byte) /\ Len(s4) = Len(s3) + Len(tag)
        /\ SubSeq(s4, Len(s3) + 1, Len(s3) + Len(tag)) = tag
        /\ \A k \in Nat : \A m \in 0 .. Len(s3) : SubSeq(s4, k + 1, m) = SubSeq(s3, k + 1, m)
    <3>1. s4 \in Seq(Byte) /\ HasEnds(s4, s3, tag)
      BY <1>0, <1>3, TogetherHasEnds, Zenon
    <3> HIDE DEF s4
    <3> QED BY <3>1, Zenon DEF HasEnds
  <2> HIDE DEF s4
  <2>2. /\ 5 \in 0 .. Len(s3) /\ 8 \in 0 .. Len(s3) /\ 10 \in 0 .. Len(s3) /\ 10 + n \in 0 .. Len(s3)
        /\ 0 \in Nat /\ 5 \in Nat /\ 8 \in Nat /\ 10 \in Nat
    BY <1>0, <1>3
  <2>3. /\ SubSeq(s4, 0 + 1, 5) = SubSeq(s3, 0 + 1, 5)
        /\ SubSeq(s4, 5 + 1, 8) = SubSeq(s3, 5 + 1, 8)
        /\ SubSeq(s4, 8 + 1, 10) = SubSeq(s3, 8 + 1, 10)
        /\ SubSeq(s4, 10 + 1, 10 + n) = SubSeq(s3, 10 + 1, 10 + n)
    BY <2>1, <2>2, Zenon
  <2> QED BY <1>0, <1>3, <2>1, <2>3, SMTT(30)
<1>5. s4 \in Seq(Byte) /\ HasParts(s4, front, fields, n, ciphertext, tag)
  BY <1>4, Zenon DEF HasParts
<1> QED BY <1>5, Zenon DEF Packed, n, s1, s2, s3, s4

LEMMA FrontOfPackage ==
  /\ Magic \o <<1>> \o BigEndian(1) \in Bytes(5)
  /\ \A b \in Seq(Byte) : 
       Len(b) >= 5 =>
         (SubSeq(b, 1, 5) = Magic \o <<1>> \o BigEndian(1)
            <=> SubSeq(b, 1, 2) = Magic /\ b[3] = 1 /\ FromBigEndian(SubSeq(b, 4, 5)) = 1)
<1> DEFINE m == Magic
           one == <<1>>
           e == BigEndian(1)
           s == m \o one
           f == s \o e
<1>1. m \in Seq(Byte) /\ Len(m) = 2
  BY PackageSizes
<1>2. one \in Seq(Byte) /\ Len(one) = 1 /\ one[1] = 1
  BY DEF Byte
<1>3. /\ e \in Seq(Byte) /\ Len(e) = 2 /\ FromBigEndian(e) = 1
      /\ \A b \in Bytes(2) : FromBigEndian(b) = 1 => b = e
  <2>1. 1 \in 0 .. 255
    OBVIOUS
  <2> HIDE DEF e
  <2>2. /\ e \in Bytes(2) /\ FromBigEndian(e) = 1
        /\ \A b \in Bytes(2) : FromBigEndian(b) = 1 => b = e
    BY <2>1, SmallNumbers, Zenon DEF e
  <2> QED BY <2>2, Zenon DEF Bytes
<1> HIDE DEF m, one, e
<1>4. s \in Seq(Byte) /\ HasEnds(s, m, one)
  BY <1>1, <1>2, TogetherHasEnds, Zenon
<1> HIDE DEF s
<1>5. f \in Seq(Byte) /\ HasEnds(f, s, e)
  BY <1>3, <1>4, TogetherHasEnds, Zenon
<1> HIDE DEF f
<1>6. Len(s) = 3 /\ SubSeq(s, 3, 3) = one /\ SubSeq(s, 0 + 1, 2) = SubSeq(m, 0 + 1, 2)
  <2>1. 0 \in Nat /\ 2 \in 0 .. Len(m)
    BY <1>1
  <2> QED BY <1>1, <1>2, <1>4, <2>1 DEF HasEnds
<1>7. /\ Len(f) = 5 /\ SubSeq(f, 4, 5) = e
      /\ SubSeq(f, 0 + 1, 2) = SubSeq(s, 0 + 1, 2) /\ SubSeq(f, 2 + 1, 3) = SubSeq(s, 2 + 1, 3)
  <2>1. 0 \in Nat /\ 2 \in Nat /\ 2 \in 0 .. Len(s) /\ 3 \in 0 .. Len(s)
    BY <1>6
  <2> QED BY <1>3, <1>5, <1>6, <2>1 DEF HasEnds
<1>8. SubSeq(m, 1, 2) = m
  BY <1>1, Whole
<1>9. SubSeq(f, 1, 2) = m /\ f[3] = 1 /\ SubSeq(f, 4, 5) = e
  <2>1. SubSeq(f, 1, 2) = m /\ SubSeq(f, 3, 3) = one
    BY <1>6, <1>7, <1>8
  <2>2. SubSeq(f, 3, 3) = [i \in 1 .. 1 |-> f[2 + i]]
    BY <1>5, <1>7
  <2>3. [i \in 1 .. 1 |-> f[2 + i]][1] = f[3]
    OBVIOUS
  <2>4. f[3] = one[1]
    BY <2>1, <2>2, <2>3, Zenon
  <2> QED BY <1>2, <1>7, <2>1, <2>4, Zenon
<1>10. ASSUME NEW b \in Seq(Byte), Len(b) >= 5
       PROVE  SubSeq(b, 1, 5) = f
                <=> SubSeq(b, 1, 2) = m /\ b[3] = 1 /\ FromBigEndian(SubSeq(b, 4, 5)) = 1
  <2> DEFINE c == SubSeq(b, 1, 5)
  <2>1. /\ c \in Seq(Byte) /\ Len(c) = 5 /\ \A i \in 1 .. 5 : c[i] = b[i]
    <3>1. c = [i \in 1 .. 5 |-> b[i]]
      BY <1>10
    <3>2. 0 \in Nat /\ 5 \in Nat /\ 0 <= 5 /\ 5 <= Len(b)
      BY <1>10
    <3>3. SubSeq(b, 0 + 1, 5) \in Seq(Byte) /\ Len(SubSeq(b, 0 + 1, 5)) = 5 - 0
      BY <3>2, PieceOf, Zenon
    <3>4. 0 + 1 = 1 /\ 5 - 0 = 5
      OBVIOUS
    <3>5. c \in Seq(Byte) /\ Len(c) = 5
      BY <3>3, <3>4, Zenon
    <3> HIDE DEF c
    <3> QED BY <3>1, <3>5
  <2>2. SubSeq(b, 1, 2) = SubSeq(c, 1, 2) /\ SubSeq(b, 4, 5) = SubSeq(c, 4, 5)
    <3> HIDE DEF c
    <3>1. SubSeq(b, 1, 2) = [i \in 1 .. 2 |-> b[i]] /\ SubSeq(b, 4, 5) = [i \in 1 .. 2 |-> b[3 + i]]
      BY <1>10
    <3>2. SubSeq(c, 1, 2) = [i \in 1 .. 2 |-> c[i]] /\ SubSeq(c, 4, 5) = [i \in 1 .. 2 |-> c[3 + i]]
      BY <2>1
    <3> QED BY <2>1, <3>1, <3>2
  <2>3. SubSeq(c, 4, 5) \in Bytes(2)
    <3> HIDE DEF c
    <3>1. 3 \in Nat /\ 5 \in Nat /\ 3 <= 5 /\ 5 <= Len(c)
      BY <2>1
    <3>2. SubSeq(c, 3 + 1, 5) \in Seq(Byte) /\ Len(SubSeq(c, 3 + 1, 5)) = 5 - 3
      BY <2>1, <3>1, PieceOf, Zenon
    <3>3. 3 + 1 = 4 /\ 5 - 3 = 2
      OBVIOUS
    <3> QED BY <3>2, <3>3, Zenon DEF Bytes
  <2>4. b[3] = c[3]
    BY <2>1
  <2> HIDE DEF c
  <2>5. c = f => SubSeq(c, 1, 2) = m /\ c[3] = 1 /\ FromBigEndian(SubSeq(c, 4, 5)) = 1
    BY <1>3, <1>9, Zenon
  <2>6. ASSUME SubSeq(c, 1, 2) = m, c[3] = 1, FromBigEndian(SubSeq(c, 4, 5)) = 1
        PROVE  c = f
    <3>1. SubSeq(c, 4, 5) = SubSeq(f, 4, 5) /\ SubSeq(c, 1, 2) = SubSeq(f, 1, 2)
      BY <1>3, <1>9, <2>3, <2>6, Zenon
    <3>2. \A x \in Seq(Byte) : Len(x) = 5 =>
            /\ SubSeq(x, 1, 2) \o SubSeq(x, 3, 3) = SubSeq(x, 1, 3)
            /\ SubSeq(x, 1, 3) \o SubSeq(x, 4, 5) = SubSeq(x, 1, 5)
            /\ SubSeq(x, 1, 5) = x
            /\ SubSeq(x, 3, 3) = [i \in 1 .. 1 |-> x[3]]
      <4> SUFFICES ASSUME NEW x \in Seq(Byte), Len(x) = 5
                   PROVE  /\ SubSeq(x, 1, 2) \o SubSeq(x, 3, 3) = SubSeq(x, 1, 3)
                          /\ SubSeq(x, 1, 3) \o SubSeq(x, 4, 5) = SubSeq(x, 1, 5)
                          /\ SubSeq(x, 1, 5) = x
                          /\ SubSeq(x, 3, 3) = [i \in 1 .. 1 |-> x[3]]
        OBVIOUS
      <4>1. SubSeq(x, 1, 2) \o SubSeq(x, 2 + 1, 3) = SubSeq(x, 1, 3)
        BY Rejoined, 2 \in Nat, 3 \in Nat, 2 <= 3, 3 <= 5
      <4>2. SubSeq(x, 1, 3) \o SubSeq(x, 3 + 1, 5) = SubSeq(x, 1, 5)
        BY Rejoined, 3 \in Nat, 5 \in Nat, 3 <= 5, 5 <= 5
      <4>3. SubSeq(x, 1, 5) = x
        BY Whole
      <4>4. SubSeq(x, 3, 3) = [i \in 1 .. 1 |-> x[2 + i]]
        OBVIOUS
      <4>5. [i \in 1 .. 1 |-> x[2 + i]] = [i \in 1 .. 1 |-> x[3]]
        OBVIOUS
      <4> QED BY <4>1, <4>2, <4>3, <4>4, <4>5
    <3>3. /\ SubSeq(c, 1, 2) \o SubSeq(c, 3, 3) = SubSeq(c, 1, 3)
          /\ SubSeq(c, 1, 3) \o SubSeq(c, 4, 5) = SubSeq(c, 1, 5)
          /\ SubSeq(c, 1, 5) = c
          /\ SubSeq(c, 3, 3) = [i \in 1 .. 1 |-> c[3]]
      BY <2>1, <3>2, Zenon
    <3>4. /\ SubSeq(f, 1, 2) \o SubSeq(f, 3, 3) = SubSeq(f, 1, 3)
          /\ SubSeq(f, 1, 3) \o SubSeq(f, 4, 5) = SubSeq(f, 1, 5)
          /\ SubSeq(f, 1, 5) = f
          /\ SubSeq(f, 3, 3) = [i \in 1 .. 1 |-> f[3]]
      BY <1>5, <1>7, <3>2, Zenon
    <3>5. c[3] = f[3]
      BY <1>9, <2>6, Zenon
    <3>6. SubSeq(c, 3, 3) = SubSeq(f, 3, 3)
      BY <3>3, <3>4, <3>5, Zenon
    <3>7. SubSeq(c, 1, 3) = SubSeq(f, 1, 3)
      BY <3>1, <3>3, <3>4, <3>6
    <3> QED BY <3>1, <3>3, <3>4, <3>7
  <2> QED BY <2>2, <2>4, <2>5, <2>6, Zenon DEF c
<1>11. f \in Bytes(5)
  BY <1>5, <1>7, Zenon DEF Bytes
<1> QED BY <1>10, <1>11, Zenon DEF f, s, m, one, e

(* buildPackage and parseSealedPackage (src/spt/sealed-package.ts): every  *)
(* package is read back from its bytes, and of all byte strings that are   *)
(* read at all each is the one built for what is read.                     *)
THEOREM EveryPackageIsSpelledOneWay ==
  ASSUME NEW p \in [fields : Bytes(HeaderFieldsBytes),
                    ciphertext : {c \in Seq(Byte) : Len(c) <= MaxPlaintextBytes},
                    tag : Bytes(TagBytes)]
  PROVE  SpelledOneWay(p, BuildPackage, ParseSealedPackage, Seq(Byte))
<1> DEFINE front == Magic \o <<1>> \o BigEndian(1)
<1>1. front \in Bytes(5)
  BY FrontOfPackage, Zenon
<1>2. \A b \in Seq(Byte) : 
       Len(b) >= 5 =>
         (SubSeq(b, 1, 5) = front
            <=> SubSeq(b, 1, 2) = Magic /\ b[3] = 1 /\ FromBigEndian(SubSeq(b, 4, 5)) = 1)
  BY FrontOfPackage, Zenon
<1>3. \A x : BuildPackage(x) = Packed(front, x.fields, Len(x.ciphertext), x.ciphertext, x.tag)
  BY Zenon DEF BuildPackage, Packed
<1> HIDE DEF front
<1> DEFINE Read(b, n) == [fields |-> SubSeq(b, 6, 8), ciphertext |-> SubSeq(b, 11, 10 + n),
                          tag |-> SubSeq(b, 11 + n, 11 + n)]
           Fits(b, n) == /\ Len(b) = 11 + n /\ n <= 2 /\ FromBigEndian(SubSeq(b, 9, 10)) = n
                         /\ SubSeq(b, 1, 2) = Magic /\ b[3] = 1 /\ FromBigEndian(SubSeq(b, 4, 5)) = 1
<1>4. \A reason : ~Refusal(reason).ok
  BY DEF Refusal
<1>5. ASSUME NEW b \in Seq(Byte)
      PROVE  LET n == FromBigEndian(SubSeq(b, 9, 10))
             IN /\ n \in Nat /\ Fits(b, n) => ParseSealedPackage(b) = Accepted(Read(b, n))
                /\ ParseSealedPackage(b).ok /\ n \in Nat
                     => Fits(b, n) /\ ParseSealedPackage(b) = Accepted(Read(b, n))
                /\ ParseSealedPackage(b).ok => Len(b) >= 11
  <2> DEFINE n == FromBigEndian(SubSeq(b, 9, 10))
  <2>1. ParseSealedPackage(b) =
          IF Len(b) < 11 THEN Refusal("too-short")
          ELSE IF SubSeq(b, 1, 2) # Magic THEN Refusal("wrong-magic")
          ELSE IF b[3] # 1 THEN Refusal("unsupported-version")
          ELSE IF FromBigEndian(SubSeq(b, 4, 5)) # 1 THEN Refusal("unsupported-suite")
          ELSE IF n > 2 THEN Refusal("declared-length-too-large")
          ELSE IF ~(Len(b) = 10 + n + 1) THEN Refusal("length-mismatch")
          ELSE Accepted([fields |-> SubSeq(b, 6, 8), ciphertext |-> SubSeq(b, 11, 10 + n),
                         tag |-> SubSeq(b, 10 + n + 1, 10 + n + 1)])
    <3>1. 2 + 3 = 5 /\ 10 - 2 + 1 = 9 /\ 2 + 1 = 3 /\ 2 + 2 = 4 /\ 5 + 1 = 6 /\ 5 + 3 = 8
          /\ 10 + 1 = 11
      OBVIOUS
    <3>2. ParseSealedPackage(b) =
            LET length == FromBigEndian(SubSeq(b, 10 - 2 + 1, 10))
            IN IF Len(b) < 10 + 1 THEN Refusal("too-short")
               ELSE IF SubSeq(b, 1, 2) # Magic THEN Refusal("wrong-magic")
               ELSE IF b[2 + 1] # 1 THEN Refusal("unsupported-version")
               ELSE IF FromBigEndian(SubSeq(b, 2 + 2, 2 + 3)) # 1 THEN Refusal("unsupported-suite")
               ELSE IF length > 2 THEN Refusal("declared-length-too-large")
               ELSE IF ~(Len(b) = 10 + length + 1) THEN Refusal("length-mismatch")
               ELSE Accepted([fields |-> SubSeq(b, (2 + 3) + 1, (2 + 3) + 3),
                              ciphertext |-> SubSeq(b, 10 + 1, 10 + length),
                              tag |-> SubSeq(b, 10 + length + 1, 10 + length + 1)])
      <4> DEFINE h == HeaderBytes
                 l == LengthBytes
                 g == TagBytes
                 x == MaxPlaintextBytes
                 m == Len(Magic)
                 f == HeaderFieldsBytes
      <4>1. h = 10 /\ l = 2 /\ g = 1 /\ x = 2 /\ m = 2 /\ f = 3
        BY PackageSizes
      <4>2. ParseSealedPackage(b) =
            LET length == FromBigEndian(SubSeq(b, h - l + 1, h))
            IN IF Len(b) < h + g THEN Refusal("too-short")
               ELSE IF SubSeq(b, 1, m) # Magic THEN Refusal("wrong-magic")
               ELSE IF b[m + 1] # 1 THEN Refusal("unsupported-version")
               ELSE IF FromBigEndian(SubSeq(b, m + 2, m + 3)) # 1 THEN Refusal("unsupported-suite")
               ELSE IF length > x THEN Refusal("declared-length-too-large")
               ELSE IF ~(Len(b) = h + length + g) THEN Refusal("length-mismatch")
               ELSE Accepted([fields |-> SubSeq(b, (m + 3) + 1, (m + 3) + f),
                              ciphertext |-> SubSeq(b, h + 1, h + length),
                              tag |-> SubSeq(b, h + length + 1, h + length + g)])
        BY Zenon DEF ParseSealedPackage, LengthAgrees
      <4> HIDE DEF h, l, g, x, m, f
      <4> QED BY <4>1, <4>2
    <3> QED BY <3>1, <3>2
  <2> HIDE DEF n
  <2>2. ASSUME n \in Nat
        PROVE  10 + n + 1 = 11 + n /\ (n > 2 <=> ~(n <= 2)) /\ (Len(b) = 11 + n => ~(Len(b) < 11))
    BY <2>2
  <2>3. n \in Nat /\ Fits(b, n) => ParseSealedPackage(b) = Accepted(Read(b, n))
    BY <2>1, <2>2, Zenon DEF n
  <2>4. ParseSealedPackage(b).ok /\ n \in Nat
          => Fits(b, n) /\ ParseSealedPackage(b) = Accepted(Read(b, n))
    BY <1>4, <2>1, <2>2, Zenon DEF n
  <2>5. ParseSealedPackage(b).ok => ~(Len(b) < 11)
    BY <1>4, <2>1, Zenon
  <2> QED BY <2>3, <2>4, <2>5 DEF n
<1>6. ParseSealedPackage(BuildPackage(p)) = Accepted(p)
  <2> DEFINE n == Len(p.ciphertext)
             b == BuildPackage(p)
  <2>1. /\ p.fields \in Bytes(3) /\ p.ciphertext \in Seq(Byte) /\ Len(p.ciphertext) <= 2
        /\ p.tag \in Bytes(1)
        /\ p = [fields |-> p.fields, ciphertext |-> p.ciphertext, tag |-> p.tag]
    BY PackageSizes
  <2>2. n \in Nat /\ n \in 0 .. 255 /\ n <= 2
    <3>1. n \in Nat /\ n <= 2
      BY <2>1, LenProperties, Zenon
    <3> HIDE DEF n
    <3> QED BY <3>1
  <2>3. /\ b \in Seq(Byte) /\ Len(b) = 11 + n
        /\ SubSeq(b, 1, 5) = front /\ SubSeq(b, 6, 8) = p.fields
        /\ SubSeq(b, 9, 10) = BigEndian(n)
        /\ SubSeq(b, 11, 10 + n) = p.ciphertext
        /\ SubSeq(b, 11 + n, 11 + n) = p.tag
    <3>1. b = Packed(front, p.fields, n, p.ciphertext, p.tag)
      BY <1>3, Zenon
    <3>2. b \in Seq(Byte) /\ HasParts(b, front, p.fields, n, p.ciphertext, p.tag)
      BY <1>1, <2>1, <3>1, PackedHasItsParts, Zenon
    <3> HIDE DEF b, n
    <3> QED BY <3>2, Zenon DEF HasParts
  <2> HIDE DEF b, n
  <2>4. FromBigEndian(SubSeq(b, 9, 10)) = n
    BY <2>2, <2>3, SmallNumbers, Zenon
  <2>5. Len(b) >= 5
    BY <2>2, <2>3
  <2>6. Fits(b, n)
    BY <1>2, <2>2, <2>3, <2>4, <2>5, Zenon
  <2>7. ParseSealedPackage(b) = Accepted(Read(b, n))
    BY <1>5, <2>2, <2>3, <2>4, <2>6, Zenon
  <2>8. Read(b, n) = p
    BY <2>1, <2>3, Zenon
  <2> QED BY <2>7, <2>8, Zenon DEF b
<1>7. ASSUME NEW b \in Seq(Byte), ParseSealedPackage(b).ok
      PROVE  BuildPackage(ParseSealedPackage(b).as) = b
  <2> DEFINE n == FromBigEndian(SubSeq(b, 9, 10))
  <2>1. Len(b) >= 11
    BY <1>5, <1>7, Zenon
  <2>2. SubSeq(b, 9, 10) \in Bytes(2)
    <3>1. 8 \in Nat /\ 10 \in Nat /\ 8 <= 10 /\ 10 <= Len(b) /\ 8 + 1 = 9 /\ 10 - 8 = 2
      BY <2>1
    <3>2. SubSeq(b, 8 + 1, 10) \in Seq(Byte) /\ Len(SubSeq(b, 8 + 1, 10)) = 10 - 8
      BY <3>1, PieceOf, Zenon
    <3>3. SubSeq(b, 9, 10) \in Seq(Byte) /\ Len(SubSeq(b, 9, 10)) = 2
      BY <3>1, <3>2
    <3> QED BY <3>3, Zenon DEF Bytes
  <2>3. n \in Nat
    <3> DEFINE c == SubSeq(b, 9, 10)
    <3>1. c \in Seq(Byte) /\ Len(c) = 2
      BY <2>2, Zenon DEF Bytes
    <3> HIDE DEF c
    <3>2. c[1] \in Byte /\ c[2] \in Byte
      BY <3>1, ElementOfSeq, 1 \in 1 .. 2, 2 \in 1 .. 2
    <3>3. \A x, y \in Byte : x * 256 + y \in Nat
      BY DEF Byte
    <3>4. c[1] * 256 + c[2] \in Nat
      BY <3>2, <3>3, Zenon
    <3> QED BY <3>4, Zenon DEF c, FromBigEndian
  <2>4. Fits(b, n) /\ ParseSealedPackage(b) = Accepted(Read(b, n))
    BY <1>5, <1>7, <2>3, Zenon
  <2>5. SubSeq(b, 9, 10) = BigEndian(n)
    <3>1. \A k \in Nat : k <= 2 => k \in 0 .. 255
      OBVIOUS
    <3>2. n \in 0 .. 255
      BY <2>3, <2>4, <3>1, Zenon
    <3> QED BY <2>2, <3>2, SmallNumbers, Zenon
  <2>6. SubSeq(b, 1, 5) = front
    <3>1. Len(b) >= 5
      BY <2>1
    <3> QED BY <1>2, <2>4, <3>1, Zenon
  <2> HIDE DEF n
  <2>7. /\ SubSeq(b, 1, 5) \o SubSeq(b, 5 + 1, 8) = SubSeq(b, 1, 8)
        /\ SubSeq(b, 1, 8) \o SubSeq(b, 8 + 1, 10) = SubSeq(b, 1, 10)
        /\ SubSeq(b, 1, 10) \o SubSeq(b, 10 + 1, 10 + n) = SubSeq(b, 1, 10 + n)
        /\ SubSeq(b, 1, 10 + n) \o SubSeq(b, 10 + n + 1, 11 + n) = SubSeq(b, 1, 11 + n)
    <3>1. /\ 5 \in Nat /\ 8 \in Nat /\ 10 \in Nat /\ 10 + n \in Nat /\ 11 + n \in Nat
          /\ 5 <= 8 /\ 8 <= 10 /\ 10 <= 10 + n /\ 10 + n <= 11 + n
          /\ 8 <= Len(b) /\ 10 <= Len(b) /\ 10 + n <= Len(b) /\ 11 + n <= Len(b)
      BY <2>3, <2>4
    <3>2. SubSeq(b, 1, 5) \o SubSeq(b, 5 + 1, 8) = SubSeq(b, 1, 8)
      BY <3>1, Rejoined, Zenon
    <3>3. SubSeq(b, 1, 8) \o SubSeq(b, 8 + 1, 10) = SubSeq(b, 1, 10)
      BY <3>1, Rejoined, Zenon
    <3>4. SubSeq(b, 1, 10) \o SubSeq(b, 10 + 1, 10 + n) = SubSeq(b, 1, 10 + n)
      BY <3>1, Rejoined, Zenon
    <3>5. SubSeq(b, 1, 10 + n) \o SubSeq(b, 10 + n + 1, 11 + n) = SubSeq(b, 1, 11 + n)
      BY <3>1, Rejoined, Zenon
    <3> QED BY <3>2, <3>3, <3>4, <3>5
  <2>8. 5 + 1 = 6 /\ 8 + 1 = 9 /\ 10 + 1 = 11 /\ 10 + n + 1 = 11 + n
    BY <2>3
  <2>9. SubSeq(b, 1, 11 + n) = b
    BY <2>4, Whole
  <2>10. Packed(front, SubSeq(b, 6, 8), n, SubSeq(b, 11, 10 + n), SubSeq(b, 11 + n, 11 + n)) = b
    <3>1. /\ front \o SubSeq(b, 6, 8) = SubSeq(b, 1, 8)
          /\ SubSeq(b, 1, 8) \o BigEndian(n) = SubSeq(b, 1, 10)
          /\ SubSeq(b, 1, 10) \o SubSeq(b, 11, 10 + n) = SubSeq(b, 1, 10 + n)
          /\ SubSeq(b, 1, 10 + n) \o SubSeq(b, 11 + n, 11 + n) = b
      BY <2>5, <2>6, <2>7, <2>8, <2>9
    <3> QED BY <3>1, Zenon DEF Packed
  <2>11. Len(SubSeq(b, 11, 10 + n)) = n
    <3>1. 10 \in Nat /\ 10 + n \in Nat /\ 10 <= 10 + n /\ 10 + n <= Len(b) /\ (10 + n) - 10 = n
      BY <2>3, <2>4
    <3>2. Len(SubSeq(b, 10 + 1, 10 + n)) = (10 + n) - 10
      BY <3>1, PieceOf, Zenon
    <3> QED BY <2>8, <3>1, <3>2
  <2>12. ParseSealedPackage(b).as = Read(b, n)
    <3> HIDE DEF Read
    <3> QED BY <2>4 DEF Accepted
  <2>13. /\ Read(b, n).fields = SubSeq(b, 6, 8) /\ Read(b, n).ciphertext = SubSeq(b, 11, 10 + n)
         /\ Read(b, n).tag = SubSeq(b, 11 + n, 11 + n)
    OBVIOUS
  <2> HIDE DEF Read
  <2> QED BY <1>3, <2>10, <2>11, <2>12, <2>13, Zenon
<1> QED BY <1>6, <1>7, Zenon DEF SpelledOneWay

-----------------------------------------------------------------------------
(* The numbers of the compact envelope, written in groups of seven bits, and*)
(* the envelope itself (src/core/compact-envelope2.ts).                    *)

(* The groups of a number, if those of the smaller ones are known.         *)
UlebStep(g, v) == IF v < 128 THEN <<v>> ELSE <<(v % 128) + 128>> \o g[v \div 128]

LEMMA SameStep ==
  ASSUME NEW v \in Nat, NEW f, NEW g, v >= 128 => f[v \div 128] = g[v \div 128]
  PROVE  UlebStep(f, v) = UlebStep(g, v)
<1>1. v < 128 \/ v >= 128
  OBVIOUS
<1> QED BY <1>1, Zenon DEF UlebStep

(* The groups of every number up to one.                                   *)
UlebUpTo(n) ==
  LET groups[v \in 0 .. n] ==
        IF v < 128 THEN <<v>> ELSE <<(v % 128) + 128>> \o groups[v \div 128]
  IN groups

LEMMA SmallerGroup ==
  ASSUME NEW v \in Nat, v >= 128
  PROVE  v \div 128 \in Nat /\ v \div 128 < v /\ v \div 128 >= 1
OBVIOUS

LEMMA UlebUpToIs ==
  ASSUME NEW n \in Nat
  PROVE  UlebUpTo(n) = [v \in 0 .. n |-> UlebStep(UlebUpTo(n), v)]
<1> DEFINE Reached == {k \in Nat : \E g : g = [v \in 0 .. k |-> UlebStep(g, v)]}
<1>1. 0 \in Reached
  <2> DEFINE g == [v \in 0 .. 0 |-> <<0>>]
  <2>1. \A v \in 0 .. 0 : UlebStep(g, v) = <<0>>
    BY DEF UlebStep
  <2>2. g = [v \in 0 .. 0 |-> UlebStep(g, v)]
    BY <2>1
  <2> QED BY <2>2
<1>2. ASSUME NEW k \in Nat, k \in Reached PROVE k + 1 \in Reached
  <2>1. PICK g : g = [v \in 0 .. k |-> UlebStep(g, v)]
    BY <1>2
  <2> DEFINE h == [v \in 0 .. k + 1 |-> IF v <= k THEN g[v] ELSE UlebStep(g, k + 1)]
  <2>2. \A v \in 0 .. k + 1 : h[v] = UlebStep(h, v)
    <3> SUFFICES ASSUME NEW v \in 0 .. k + 1 PROVE h[v] = UlebStep(h, v)
      BY Zenon
    <3>1. v \in Nat /\ (v <= k \/ v = k + 1)
      OBVIOUS
    <3>2. v >= 128 => v \div 128 \in 0 .. k /\ v \div 128 \in 0 .. k + 1 /\ v \div 128 <= k
      BY <3>1, SmallerGroup
    <3>3. v >= 128 => h[v \div 128] = g[v \div 128]
      BY <3>2
    <3>4. CASE v <= k
      <4>1. h[v] = g[v] /\ g[v] = UlebStep(g, v)
        BY <2>1, <3>1, <3>4
      <4>2. UlebStep(g, v) = UlebStep(h, v)
        BY <3>1, <3>3, SameStep, Zenon
      <4> QED BY <4>1, <4>2, Zenon
    <3>5. CASE v = k + 1
      <4>1. h[v] = UlebStep(g, v)
        BY <3>5
      <4>2. UlebStep(g, v) = UlebStep(h, v)
        BY <3>1, <3>3, SameStep, Zenon
      <4> QED BY <4>1, <4>2, Zenon
    <3> QED BY <3>1, <3>4, <3>5, Zenon
  <2>3. h = [v \in 0 .. k + 1 |-> h[v]]
    OBVIOUS
  <2> HIDE DEF h
  <2>4. h = [v \in 0 .. k + 1 |-> UlebStep(h, v)]
    BY <2>2, <2>3
  <2> QED BY <2>4, k + 1 \in Nat
<1>3. n \in Reached
  <2> HIDE DEF Reached
  <2>1. Nat \subseteq Reached
    BY <1>1, <1>2, NatBySets, Zenon
  <2> QED BY <2>1
<1>4. \E g : g = [v \in 0 .. n |-> UlebStep(g, v)]
  BY <1>3
<1> QED BY <1>4, Zenon DEF UlebUpTo, UlebStep

LEMMA UlebAgree ==
  ASSUME NEW n \in Nat, NEW m \in Nat
  PROVE  \A v \in Nat : v <= n /\ v <= m => UlebUpTo(n)[v] = UlebUpTo(m)[v]
<1> DEFINE f == UlebUpTo(n)
           g == UlebUpTo(m)
           S == {k \in Nat : \A v \in Nat : v <= k /\ v <= n /\ v <= m => f[v] = g[v]}
<1>1. /\ \A v \in 0 .. n : f[v] = UlebStep(f, v)
      /\ \A v \in 0 .. m : g[v] = UlebStep(g, v)
  <2>1. f = [v \in 0 .. n |-> UlebStep(f, v)] /\ g = [v \in 0 .. m |-> UlebStep(g, v)]
    BY UlebUpToIs, Zenon
  <2> HIDE DEF f, g
  <2> QED BY <2>1
<1> HIDE DEF f, g
<1>2. 0 \in S
  <2>1. f[0] = <<0>> /\ g[0] = <<0>>
    <3>1. 0 \in 0 .. n /\ 0 \in 0 .. m /\ 0 < 128
      OBVIOUS
    <3> QED BY <1>1, <3>1, ZenonT(40) DEF UlebStep
  <2>2. \A v \in Nat : v <= 0 => v = 0
    OBVIOUS
  <2> QED BY <2>1, <2>2
<1>3. ASSUME NEW k \in Nat, k \in S PROVE k + 1 \in S
  <2> SUFFICES ASSUME NEW v \in Nat, v <= k + 1, v <= n, v <= m PROVE f[v] = g[v]
    OBVIOUS
  <2>1. f[v] = UlebStep(f, v) /\ g[v] = UlebStep(g, v)
    BY <1>1, v \in 0 .. n, v \in 0 .. m
  <2>2. ASSUME v >= 128 PROVE f[v \div 128] = g[v \div 128]
    <3>1. v \div 128 \in Nat /\ v \div 128 <= k /\ v \div 128 <= n /\ v \div 128 <= m
      BY <2>2, SmallerGroup
    <3> QED BY <1>3, <3>1
  <2> QED BY <2>1, <2>2, SameStep, Zenon
<1>4. Nat \subseteq S
  <2> HIDE DEF S
  <2> QED BY <1>2, <1>3, NatBySets, Zenon
<1>5. \A v \in Nat : v <= n /\ v <= m => f[v] = g[v]
  <2> SUFFICES ASSUME NEW v \in Nat, v <= n, v <= m PROVE f[v] = g[v]
    OBVIOUS
  <2>1. v \in S /\ v <= v
    BY <1>4
  <2> QED BY <2>1
<1> QED BY <1>5, Zenon DEF f, g

(* writeUleb128: a number below 128 is one group; of a larger one the      *)
(* least seven bits go first.                                              *)
LEMMA UlebSteps ==
  ASSUME NEW v \in Nat
  PROVE  WriteUleb128(v) = IF v < 128 THEN <<v>>
                           ELSE <<(v % 128) + 128>> \o WriteUleb128(v \div 128)
<1>1. \A k \in Nat : WriteUleb128(k) = UlebUpTo(k)[k]
  BY Zenon DEF WriteUleb128, UlebUpTo
<1> DEFINE f == UlebUpTo(v)
<1>2. f = [k \in 0 .. v |-> UlebStep(f, k)]
  BY UlebUpToIs, Zenon
<1> HIDE DEF f
<1>3. f[v] = UlebStep(f, v)
  BY <1>2
<1>4. v >= 128 => f[v \div 128] = WriteUleb128(v \div 128)
  <2> SUFFICES ASSUME v >= 128 PROVE f[v \div 128] = WriteUleb128(v \div 128)
    OBVIOUS
  <2> DEFINE w == v \div 128
  <2>1. w \in Nat /\ w <= v /\ w <= w
    BY SmallerGroup
  <2> HIDE DEF w
  <2>2. f[w] = UlebUpTo(w)[w]
    BY <2>1, UlebAgree, Zenon DEF f
  <2> QED BY <1>1, <2>1, <2>2, Zenon DEF w
<1>5. WriteUleb128(v) = f[v]
  BY <1>1, Zenon DEF f
<1>6. v < 128 \/ v >= 128
  OBVIOUS
<1> QED BY <1>3, <1>4, <1>5, <1>6, Zenon DEF UlebStep

ValueUpTo(groups) ==
  LET last[k \in 0 .. Len(groups)] ==
        IF k = 0 THEN 0 ELSE (groups[Len(groups) + 1 - k] % 128) + 128 * last[k - 1]
  IN last

ValueStep(groups, g, k) ==
  IF k = 0 THEN 0 ELSE (groups[Len(groups) + 1 - k] % 128) + 128 * g[k - 1]

LEMMA ValueSteps ==
  ASSUME NEW groups, Len(groups) \in Nat
  PROVE  \A k \in 0 .. Len(groups) : ValueUpTo(groups)[k] = ValueStep(groups, ValueUpTo(groups), k)
<1> DEFINE n == Len(groups)
           Reached == {k \in Nat : \E g : g = [i \in 0 .. k |-> ValueStep(groups, g, i)]}
<1>1. 0 \in Reached
  <2> DEFINE g == [i \in 0 .. 0 |-> 0]
  <2>1. \A i \in 0 .. 0 : ValueStep(groups, g, i) = 0
    BY DEF ValueStep
  <2>2. g = [i \in 0 .. 0 |-> ValueStep(groups, g, i)]
    BY <2>1
  <2> QED BY <2>2
<1>2. ASSUME NEW k \in Nat, k \in Reached PROVE k + 1 \in Reached
  <2>1. PICK g : g = [i \in 0 .. k |-> ValueStep(groups, g, i)]
    BY <1>2
  <2> DEFINE h == [i \in 0 .. k + 1 |-> IF i <= k THEN g[i] ELSE ValueStep(groups, g, k + 1)]
  <2>2. \A i \in 0 .. k + 1 : h[i] = ValueStep(groups, h, i)
    <3> SUFFICES ASSUME NEW i \in 0 .. k + 1 PROVE h[i] = ValueStep(groups, h, i)
      BY Zenon
    <3>1. i # 0 => h[i - 1] = g[i - 1]
      OBVIOUS
    <3>2. ValueStep(groups, h, i) = ValueStep(groups, g, i)
      <4> HIDE DEF h
      <4> QED BY <3>1, Zenon DEF ValueStep
    <3>3. h[i] = ValueStep(groups, g, i)
      <4>1. CASE i <= k
        BY <2>1, <4>1
      <4>2. CASE i = k + 1
        BY <4>2
      <4> QED BY <4>1, <4>2
    <3> QED BY <3>2, <3>3, Zenon
  <2>3. h = [i \in 0 .. k + 1 |-> ValueStep(groups, h, i)]
    <3>1. h = [i \in 0 .. k + 1 |-> h[i]]
      OBVIOUS
    <3> HIDE DEF h
    <3> QED BY <2>2, <3>1
  <2> HIDE DEF h
  <2> QED BY <2>3, k + 1 \in Nat
<1>3. n \in Reached
  <2> HIDE DEF Reached
  <2>1. Nat \subseteq Reached
    BY <1>1, <1>2, NatBySets, Zenon
  <2> QED BY <2>1
<1>4. PICK g : g = [i \in 0 .. n |-> ValueStep(groups, g, i)]
  BY <1>3
<1> DEFINE f == ValueUpTo(groups)
<1>5. f = [i \in 0 .. n |-> ValueStep(groups, f, i)]
  BY <1>4, Zenon DEF ValueUpTo, ValueStep
<1> HIDE DEF f
<1>6. \A k \in 0 .. n : f[k] = ValueStep(groups, f, k)
  BY <1>5
<1> QED BY <1>6, Zenon DEF f

(* The value of one to three groups.                                       *)
LEMMA ValueOfFew ==
  ASSUME NEW w, Len(w) \in 1 .. 3, \A i \in 1 .. Len(w) : w[i] \in 0 .. 255
  PROVE  /\ Len(w) = 1 => ValueOf(w) = w[1] % 128
         /\ Len(w) = 2 => ValueOf(w) = (w[1] % 128) + 128 * (w[2] % 128)
         /\ Len(w) = 3 => ValueOf(w) = (w[1] % 128) + 128 * ((w[2] % 128) + 128 * (w[3] % 128))
<1> DEFINE f == ValueUpTo(w)
           n == Len(w)
<1>1. n \in Nat /\ n \in 1 .. 3
  OBVIOUS
<1>2. ValueOf(w) = f[n]
  BY Zenon DEF ValueOf, ValueUpTo
<1>3. \A k \in 0 .. n : f[k] = ValueStep(w, f, k)
  BY <1>1, ValueSteps, Zenon
<1> HIDE DEF f
<1>4. /\ f[0] = 0
      /\ \A k \in 1 .. n : f[k] = (w[n + 1 - k] % 128) + 128 * f[k - 1]
  BY <1>1, <1>3 DEF ValueStep
<1>5. CASE n = 1
  <2>1. f[1] = (w[1] % 128) + 128 * 0
    BY <1>4, <1>5
  <2> QED BY <1>2, <1>5, <2>1
<1>6. CASE n = 2
  <2>1. f[1] = (w[2] % 128) + 128 * 0 /\ f[2] = (w[1] % 128) + 128 * f[1]
    BY <1>4, <1>6
  <2> QED BY <1>2, <1>6, <2>1
<1>7. CASE n = 3
  <2>1. /\ f[1] = (w[3] % 128) + 128 * 0 /\ f[2] = (w[2] % 128) + 128 * f[1]
        /\ f[3] = (w[1] % 128) + 128 * f[2]
    BY <1>4, <1>7
  <2> QED BY <1>2, <1>7, <2>1
<1> QED BY <1>1, <1>5, <1>6, <1>7

(* A group before others.                                                  *)
OneMore(w, x, t) ==
  /\ w \in Seq(Byte) /\ Len(w) = Len(t) + 1 /\ w[1] = x
  /\ \A i \in 1 .. Len(t) : w[i + 1] = t[i]

LEMMA ConsSeq ==
  ASSUME NEW x \in Byte, NEW t \in Seq(Byte)
  PROVE  OneMore(<<x>> \o t, x, t)
<1> DEFINE s == <<x>>
<1>1. s \in Seq(Byte) /\ Len(s) = 1 /\ s[1] = x
  OBVIOUS
<1> HIDE DEF s
<1>2. /\ s \o t \in Seq(Byte) /\ Len(s \o t) = Len(s) + Len(t)
      /\ \A i \in 1 .. Len(s) + Len(t) : (s \o t)[i] = IF i <= Len(s) THEN s[i] ELSE t[i - Len(s)]
  BY <1>1, ConcatProperties, Zenon
<1> DEFINE b == s \o t
<1> HIDE DEF b
<1>3. /\ b \in Seq(Byte) /\ Len(b) = Len(t) + 1 /\ b[1] = x
      /\ \A i \in 1 .. Len(t) : b[i + 1] = t[i]
  BY <1>1, <1>2 DEF b
<1> QED BY <1>3, Zenon DEF b, s, OneMore

LEMMA OneGroup ==
  ASSUME NEW x \in 0 .. 127
  PROVE  WriteUleb128(x) \in Seq(Byte) /\ Len(WriteUleb128(x)) = 1 /\ WriteUleb128(x)[1] = x
<1>1. WriteUleb128(x) = <<x>>
  BY UlebSteps, x \in Nat, x < 128
<1>2. <<x>> \in Seq(Byte) /\ Len(<<x>>) = 1 /\ <<x>>[1] = x
  BY DEF Byte
<1> QED BY <1>1, <1>2

LEMMA GroupBefore ==
  ASSUME NEW x \in 0 .. 127, NEW y \in Nat \ {0}, WriteUleb128(y) \in Seq(Byte)
  PROVE  OneMore(WriteUleb128(x + 128 * y), x + 128, WriteUleb128(y))
<1> DEFINE z == x + 128 * y
<1>1. z \in Nat /\ ~(z < 128) /\ z % 128 = x /\ z \div 128 = y
  OBVIOUS
<1> HIDE DEF z
<1>2. WriteUleb128(z) = <<x + 128>> \o WriteUleb128(y)
  BY <1>1, UlebSteps, Zenon
<1>3. x + 128 \in Byte
  BY DEF Byte
<1>4. OneMore(<<x + 128>> \o WriteUleb128(y), x + 128, WriteUleb128(y))
  BY <1>3, ConsSeq, Zenon
<1> QED BY <1>2, <1>4, Zenon DEF z

(* What is written for a number of one, two or three groups.               *)
TwoGroups(w, a, b) == w \in Seq(Byte) /\ Len(w) = 2 /\ w[1] = a + 128 /\ w[2] = b
ThreeGroups(w, a, b, c) ==
  w \in Seq(Byte) /\ Len(w) = 3 /\ w[1] = a + 128 /\ w[2] = b + 128 /\ w[3] = c

LEMMA TwoAreWritten ==
  ASSUME NEW a \in 0 .. 127, NEW b \in 1 .. 127
  PROVE  TwoGroups(WriteUleb128(a + 128 * b), a, b)
<1> DEFINE u == WriteUleb128(b)
           w == WriteUleb128(a + 128 * b)
<1>1. b \in 0 .. 127 /\ b \in Nat \ {0}
  OBVIOUS
<1>2. u \in Seq(Byte) /\ Len(u) = 1 /\ u[1] = b
  BY <1>1, OneGroup, Zenon
<1>3. OneMore(w, a + 128, u)
  BY <1>1, <1>2, GroupBefore, Zenon
<1> HIDE DEF u, w
<1>4. TwoGroups(w, a, b)
  BY <1>2, <1>3 DEF OneMore, TwoGroups
<1> QED BY <1>4, Zenon DEF w

LEMMA ThreeAreWritten ==
  ASSUME NEW a \in 0 .. 127, NEW b \in 0 .. 127, NEW c \in 1 .. 127
  PROVE  ThreeGroups(WriteUleb128(a + 128 * (b + 128 * c)), a, b, c)
<1> DEFINE y == b + 128 * c
           u == WriteUleb128(y)
           w == WriteUleb128(a + 128 * y)
<1>1. y \in Nat \ {0}
  OBVIOUS
<1>2. TwoGroups(u, b, c)
  BY TwoAreWritten, Zenon DEF y
<1> HIDE DEF y
<1>3. u \in Seq(Byte)
  BY <1>2, Zenon DEF TwoGroups
<1>4. OneMore(w, a + 128, u)
  BY <1>1, <1>3, GroupBefore, Zenon
<1> HIDE DEF u, w
<1>5. ThreeGroups(w, a, b, c)
  BY <1>2, <1>4 DEF OneMore, TwoGroups, ThreeGroups
<1> QED BY <1>5, Zenon DEF w, y

(* One to three groups as they are written: all but the last go on, and a  *)
(* last of several carries something.                                      *)
AreGroups(w) ==
  /\ w \in Seq(Byte) /\ Len(w) \in 1 .. 3
  /\ \A i \in 1 .. Len(w) - 1 : w[i] >= 128
  /\ w[Len(w)] < 128
  /\ Len(w) > 1 => w[Len(w)] # 0

Spells(w, v) == AreGroups(w) /\ v \in Nat /\ ValueOf(w) = v /\ WriteUleb128(v) = w

LEMMA BytesAre ==
  ASSUME NEW w \in Seq(Byte)
  PROVE  \A i \in 1 .. Len(w) : w[i] \in 0 .. 255
BY ElementOfSeq DEF Byte

LEMMA GroupsAreSpelled ==
  ASSUME NEW w, AreGroups(w)
  PROVE  Spells(w, ValueOf(w))
<1>1. /\ w \in Seq(Byte) /\ Len(w) \in 1 .. 3
      /\ \A i \in 1 .. Len(w) : w[i] \in 0 .. 255
  <2>1. w \in Seq(Byte) /\ Len(w) \in 1 .. 3
    BY DEF AreGroups
  <2> QED BY <2>1, ElementOfSeq DEF Byte
<1>2. /\ Len(w) = 1 => ValueOf(w) = w[1] % 128
      /\ Len(w) = 2 => ValueOf(w) = (w[1] % 128) + 128 * (w[2] % 128)
      /\ Len(w) = 3 => ValueOf(w) = (w[1] % 128) + 128 * ((w[2] % 128) + 128 * (w[3] % 128))
  BY <1>1, ValueOfFew, ZenonT(40)
<1> DEFINE v == ValueOf(w)
<1> HIDE DEF v
<1>3. CASE Len(w) = 1
  <2>1. w[1] \in 0 .. 127 /\ v = w[1]
    <3>1. w[1] \in 0 .. 255 /\ w[1] < 128
      BY <1>1, <1>3 DEF AreGroups
    <3>2. v = w[1] % 128
      BY <1>2, <1>3, Zenon DEF v
    <3> QED BY <3>1, <3>2
  <2>2. /\ WriteUleb128(v) \in Seq(Byte) /\ Len(WriteUleb128(v)) = 1 /\ WriteUleb128(v)[1] = v
    BY <2>1, OneGroup, Zenon
  <2> DEFINE u == WriteUleb128(v)
  <2> HIDE DEF u
  <2>3. u \in Seq(Byte) /\ Len(u) = 1 /\ u[1] = w[1]
    BY <2>1, <2>2, Zenon DEF u
  <2>4. u = w
    BY <1>1, <1>3, <2>3
  <2>5. v \in Nat
    BY <2>1
  <2> QED BY <2>4, <2>5, Zenon DEF Spells, u, v
<1>4. CASE Len(w) = 2
  <2> DEFINE a == w[1] % 128
             b == w[2] % 128
  <2>1. /\ a \in 0 .. 127 /\ b \in 1 .. 127 /\ w[1] = a + 128 /\ w[2] = b
        /\ w[1] \in 0 .. 255 /\ w[2] \in 0 .. 255
    <3>1. w[1] \in 0 .. 255 /\ w[2] \in 0 .. 255 /\ w[1] >= 128 /\ w[2] < 128 /\ w[2] # 0
      BY <1>1, <1>4 DEF AreGroups
    <3> QED BY <3>1
  <2> HIDE DEF a, b
  <2>2. v = a + 128 * b
    BY <1>2, <1>4 DEF v, a, b
  <2>3. TwoGroups(WriteUleb128(v), a, b)
    BY <2>1, <2>2, TwoAreWritten, Zenon
  <2> DEFINE u == WriteUleb128(v)
  <2> HIDE DEF u
  <2>4. TwoGroups(u, a, b)
    BY <2>3, Zenon DEF u
  <2>5. u = w
    BY <1>1, <1>4, <2>1, <2>4 DEF TwoGroups
  <2>6. v \in Nat
    BY <2>1, <2>2
  <2> QED BY <2>5, <2>6, Zenon DEF Spells, u, v
<1>5. CASE Len(w) = 3
  <2> DEFINE a == w[1] % 128
             b == w[2] % 128
             c == w[3] % 128
  <2>1. /\ a \in 0 .. 127 /\ b \in 0 .. 127 /\ c \in 1 .. 127
        /\ w[1] = a + 128 /\ w[2] = b + 128 /\ w[3] = c
    <3>1. /\ w[1] \in 0 .. 255 /\ w[2] \in 0 .. 255 /\ w[3] \in 0 .. 255
          /\ w[1] >= 128 /\ w[2] >= 128 /\ w[3] < 128 /\ w[3] # 0
      BY <1>1, <1>5 DEF AreGroups
    <3> QED BY <3>1
  <2> HIDE DEF a, b, c
  <2>2. v = a + 128 * (b + 128 * c)
    BY <1>2, <1>5 DEF v, a, b, c
  <2>3. ThreeGroups(WriteUleb128(v), a, b, c)
    BY <2>1, <2>2, ThreeAreWritten, ZenonT(40)
  <2> DEFINE u == WriteUleb128(v)
  <2> HIDE DEF u
  <2>4. ThreeGroups(u, a, b, c)
    BY <2>3, Zenon DEF u
  <2>5. u = w
    BY <1>1, <1>5, <2>1, <2>4 DEF ThreeGroups
  <2>6. v \in Nat
    BY <2>1, <2>2
  <2> QED BY <2>5, <2>6, Zenon DEF Spells, u, v
<1> QED BY <1>1, <1>3, <1>4, <1>5

LEMMA Digits ==
  ASSUME NEW v \in Nat, v < 128 * (128 * 128)
  PROVE  \E a, b, c \in 0 .. 127 : v = a + 128 * (b + 128 * c)
<1> DEFINE q == v \div 128
<1>1. v % 128 \in 0 .. 127 /\ v = (v % 128) + 128 * q /\ q \in Nat
  OBVIOUS
<1> HIDE DEF q
<1> DEFINE r == q \div 128
<1>2. q % 128 \in 0 .. 127 /\ q = (q % 128) + 128 * r /\ r \in Nat
  BY <1>1
<1> HIDE DEF r
<1>3. r \in 0 .. 127
  BY <1>1, <1>2
<1> DEFINE a == v % 128
           b == q % 128
<1>4. a \in 0 .. 127 /\ b \in 0 .. 127 /\ v = a + 128 * (b + 128 * r)
  BY <1>1, <1>2
<1> HIDE DEF a, b
<1> QED BY <1>3, <1>4, ZenonT(40)

LEMMA NumberIsSpelled ==
  ASSUME NEW v \in Nat, v < 128 * (128 * 128)
  PROVE  Spells(WriteUleb128(v), v)
<1>1. PICK a \in 0 .. 127, b \in 0 .. 127, c \in 0 .. 127 : v = a + 128 * (b + 128 * c)
  BY Digits, ZenonT(40)
<1> DEFINE w == WriteUleb128(v)
<1>2. CASE b = 0 /\ c = 0
  <2>1. v = a
    BY <1>1, <1>2
  <2>2. w \in Seq(Byte) /\ Len(w) = 1 /\ w[1] = a
    BY <2>1, OneGroup, Zenon
  <2> HIDE DEF w
  <2>3. AreGroups(w)
    BY <2>2 DEF AreGroups
  <2>4. ValueOf(w) = w[1] % 128
    <3>1. w \in Seq(Byte) /\ Len(w) \in 1 .. 3
      BY <2>2
    <3>2. \A i \in 1 .. Len(w) : w[i] \in 0 .. 255
      BY <3>1, BytesAre, Zenon
    <3> QED BY <2>2, <3>1, <3>2, ValueOfFew, Zenon
  <2>5. ValueOf(w) = v
    BY <2>1, <2>2, <2>4
  <2> QED BY <2>3, <2>5, Zenon DEF Spells, w
<1>3. CASE b # 0 /\ c = 0
  <2>1. v = a + 128 * b /\ b \in 1 .. 127
    BY <1>1, <1>3
  <2>2. TwoGroups(w, a, b)
    BY <2>1, TwoAreWritten, Zenon
  <2> HIDE DEF w
  <2>3. AreGroups(w)
    BY <2>1, <2>2 DEF AreGroups, TwoGroups
  <2>4. ValueOf(w) = (w[1] % 128) + 128 * (w[2] % 128)
    <3>1. w \in Seq(Byte) /\ Len(w) \in 1 .. 3 /\ Len(w) = 2
      BY <2>2 DEF TwoGroups
    <3>2. \A i \in 1 .. Len(w) : w[i] \in 0 .. 255
      BY <3>1, BytesAre, Zenon
    <3> QED BY <3>1, <3>2, ValueOfFew, Zenon
  <2>5. w[1] % 128 = a /\ w[2] % 128 = b
    BY <2>1, <2>2 DEF TwoGroups
  <2>6. ValueOf(w) = v
    BY <2>1, <2>4, <2>5
  <2> QED BY <2>3, <2>6, Zenon DEF Spells, w
<1>4. CASE c # 0
  <2>1. c \in 1 .. 127
    BY <1>4
  <2>2. ThreeGroups(w, a, b, c)
    BY <1>1, <2>1, ThreeAreWritten, Zenon
  <2> HIDE DEF w
  <2>3. AreGroups(w)
    BY <2>1, <2>2 DEF AreGroups, ThreeGroups
  <2>4. ValueOf(w) = (w[1] % 128) + 128 * ((w[2] % 128) + 128 * (w[3] % 128))
    <3>1. w \in Seq(Byte) /\ Len(w) \in 1 .. 3 /\ Len(w) = 3
      BY <2>2 DEF ThreeGroups
    <3>2. \A i \in 1 .. Len(w) : w[i] \in 0 .. 255
      BY <3>1, BytesAre, Zenon
    <3> QED BY <3>1, <3>2, ValueOfFew, ZenonT(40)
  <2>5. w[1] % 128 = a /\ w[2] % 128 = b /\ w[3] % 128 = c
    BY <2>1, <2>2 DEF ThreeGroups
  <2>6. ValueOf(w) = v
    BY <1>1, <2>4, <2>5
  <2> QED BY <2>3, <2>6, Zenon DEF Spells, w
<1> QED BY <1>2, <1>3, <1>4

StandsAt(bytes, at, w) ==
  at + Len(w) - 1 <= Len(bytes) /\ \A i \in 1 .. Len(w) : bytes[at + i - 1] = w[i]

LEMMA PieceStands ==
  ASSUME NEW bytes \in Seq(Byte), NEW at \in Nat \ {0}, NEW n \in Nat, at + n - 1 <= Len(bytes)
  PROVE  LET w == SubSeq(bytes, at, at + n - 1)
         IN w \in Seq(Byte) /\ Len(w) = n /\ StandsAt(bytes, at, w)
<1> DEFINE w == SubSeq(bytes, at, at + n - 1)
<1>1. w = [i \in 1 .. n |-> bytes[at + i - 1]]
  BY DEF SubSeq
<1>2. \A i \in 1 .. n : bytes[at + i - 1] \in Byte
  BY ElementOfSeq
<1>3. w \in Seq(Byte) /\ Len(w) = n
  <2> HIDE DEF w
  <2> QED BY <1>1, <1>2
<1>4. StandsAt(bytes, at, w)
  <2> HIDE DEF w
  <2> QED BY <1>1, <1>3 DEF StandsAt
<1> QED BY <1>3, <1>4

LEMMA StandsIsPiece ==
  ASSUME NEW bytes \in Seq(Byte), NEW at \in Nat \ {0}, NEW w \in Seq(Byte), StandsAt(bytes, at, w)
  PROVE  SubSeq(bytes, at, at + Len(w) - 1) = w
<1>1. SubSeq(bytes, at, at + Len(w) - 1) = [i \in 1 .. Len(w) |-> bytes[at + i - 1]]
  BY DEF SubSeq
<1>2. \A i \in 1 .. Len(w) : bytes[at + i - 1] = w[i]
  BY DEF StandsAt
<1>3. w = [i \in 1 .. Len(w) |-> w[i]]
  OBVIOUS
<1> QED BY <1>1, <1>2, <1>3

(* The groups that are found: up to the first that does not go on.         *)
GroupsEndAt(bytes, at, e) ==
  /\ e \in at .. at + 2 /\ e <= Len(bytes) /\ bytes[e] < 128
  /\ \A j \in at .. e - 1 : bytes[j] >= 128

LEMMA GoesOnOrNot ==
  \A x \in 0 .. 255 : (x < 128 \/ x >= 128) /\ ~(x < 128 /\ x >= 128)
OBVIOUS

LEMMA FirstEnd ==
  ASSUME NEW bytes \in Seq(Byte), NEW at \in Nat \ {0}
  PROVE  \/ UlebAt(bytes, at) = <<>>
         \/ \E e \in Nat : GroupsEndAt(bytes, at, e)
<1> DEFINE stops(i) == i <= Len(bytes) /\ bytes[i] < 128
           ends == {i \in at .. at + 3 - 1 : i <= Len(bytes) /\ bytes[i] < 128}
<1>1. ASSUME ends = {} PROVE UlebAt(bytes, at) = <<>>
  BY <1>1, Zenon DEF UlebAt, UlebGroups
<1>2. ASSUME ends # {} PROVE \E e \in Nat : GroupsEndAt(bytes, at, e)
  <2>1. /\ at \in Nat /\ at + 1 \in Nat /\ at + 2 \in Nat
        /\ at \in at .. at + 2 /\ at + 1 \in at .. at + 2 /\ at + 2 \in at .. at + 2
        /\ \A i \in at .. at + 3 - 1 : i = at \/ i = at + 1 \/ i = at + 2
        /\ \A i \in at .. at - 1 : FALSE
        /\ \A i \in at .. at + 1 - 1 : i = at
        /\ \A i \in at .. at + 2 - 1 : i = at \/ i = at + 1
    OBVIOUS
  <2>2. stops(at) \/ stops(at + 1) \/ stops(at + 2)
    BY <1>2, <2>1, Zenon
  <2>3. ASSUME NEW i \in {at, at + 1}, ~stops(i), NEW k \in {at + 1, at + 2}, i <= k, stops(k)
        PROVE  bytes[i] >= 128
    <3>1. k <= Len(bytes) /\ Len(bytes) \in Nat
      BY <2>3
    <3>2. i \in 1 .. Len(bytes) /\ i <= Len(bytes)
      BY <2>3, <3>1
    <3>3. bytes[i] \in 0 .. 255
      BY <3>2, BytesAre, Zenon
    <3> QED BY <2>3, <3>2, <3>3, GoesOnOrNot, Zenon
  <2>4. at <= at + 1 /\ at <= at + 2 /\ at + 1 <= at + 2
    OBVIOUS
  <2>5. CASE stops(at)
    BY <2>1, <2>5, Zenon DEF GroupsEndAt
  <2>6. CASE ~stops(at) /\ stops(at + 1)
    <3>1. bytes[at] >= 128
      BY <2>3, <2>4, <2>6, Zenon
    <3>2. \A j \in at .. (at + 1) - 1 : bytes[j] >= 128
      BY <2>1, <3>1
    <3>3. GroupsEndAt(bytes, at, at + 1)
      BY <2>1, <2>6, <3>2, Zenon DEF GroupsEndAt
    <3> QED BY <2>1, <3>3, Zenon
  <2>7. CASE ~stops(at) /\ ~stops(at + 1)
    <3>1. stops(at + 2)
      BY <2>2, <2>7, Zenon
    <3>2. bytes[at] >= 128 /\ bytes[at + 1] >= 128
      BY <2>3, <2>4, <2>7, <3>1, Zenon
    <3>3. \A j \in at .. (at + 2) - 1 : bytes[j] >= 128
      BY <2>1, <3>2
    <3>4. GroupsEndAt(bytes, at, at + 2)
      BY <2>1, <3>1, <3>3, Zenon DEF GroupsEndAt
    <3> QED BY <2>1, <3>4, Zenon
  <2> QED BY <2>5, <2>6, <2>7, Zenon
<1> QED BY <1>1, <1>2

LEMMA UlebAtIs ==
  ASSUME NEW bytes \in Seq(Byte), NEW at \in Nat \ {0}, NEW e \in Nat, GroupsEndAt(bytes, at, e)
  PROVE  UlebAt(bytes, at) = SubSeq(bytes, at, e)
<1> DEFINE ends == {i \in at .. at + 3 - 1 : i <= Len(bytes) /\ bytes[i] < 128}
           first(i) == i \in ends /\ \A j \in ends : i <= j
<1>1. first(e)
  <2>1. e \in ends
    BY DEF GroupsEndAt
  <2>2. ASSUME NEW j \in ends, ~(e <= j) PROVE FALSE
    <3>1. j \in at .. e - 1 /\ bytes[j] < 128 /\ j \in 1 .. Len(bytes)
      BY <2>2 DEF GroupsEndAt
    <3>2. bytes[j] >= 128
      BY <3>1, Zenon DEF GroupsEndAt
    <3>3. bytes[j] \in 0 .. 255
      BY <3>1, BytesAre, Zenon
    <3> QED BY <3>1, <3>2, <3>3, GoesOnOrNot, Zenon
  <2> QED BY <2>1, <2>2, Zenon
<1>2. \A i : first(i) => i = e
  BY <1>1
<1>3. ends # {}
  BY <1>1
<1>4. (CHOOSE i \in ends : \A j \in ends : i <= j) = e
  <2>1. (CHOOSE i : first(i)) = e
    <3> HIDE DEF first
    <3> QED BY <1>1, <1>2, Zenon
  <2> QED BY <2>1, Zenon
<1>5. UlebAt(bytes, at) = SubSeq(bytes, at, CHOOSE i \in ends : \A j \in ends : i <= j)
  BY <1>3, Zenon DEF UlebAt, UlebGroups
<1> QED BY <1>4, <1>5, Zenon

ReadsAs(bytes, at, v, w) ==
  /\ StandsAt(bytes, at, w) /\ Spells(w, v) /\ v <= MaxSafeInteger
  /\ ReadUleb128(bytes, at) = [value |-> v, next |-> at + Len(w)]

LEMMA ReadIs ==
  ASSUME NEW bytes, NEW at, NEW w, UlebAt(bytes, at) = w
  PROVE  ReadUleb128(bytes, at) =
           IF w = <<>> THEN None
           ELSE IF Len(w) > 1 /\ w[Len(w)] = 0 THEN None
           ELSE IF ValueOf(w) > MaxSafeInteger THEN None
           ELSE [value |-> ValueOf(w), next |-> at + Len(w)]
BY Zenon DEF ReadUleb128, Last

LEMMA SomethingRead ==
  ASSUME NEW bytes \in Seq(Byte), NEW at \in Nat \ {0}, ReadUleb128(bytes, at) # None
  PROVE  \E w \in Seq(Byte) : \E v \in Nat : ReadsAs(bytes, at, v, w)
<1>1. PICK e \in Nat : GroupsEndAt(bytes, at, e)
  <2>1. UlebAt(bytes, at) # <<>>
    BY ReadIs, Zenon
  <2> QED BY <2>1, FirstEnd, Zenon
<1> DEFINE w == UlebAt(bytes, at)
           n == e - at + 1
<1>2. w = SubSeq(bytes, at, at + n - 1) /\ n \in 1 .. 3 /\ at + n - 1 <= Len(bytes) /\ at + n - 1 = e
  <2>1. n \in 1 .. 3 /\ at + n - 1 = e /\ e <= Len(bytes)
    BY <1>1 DEF GroupsEndAt
  <2>2. w = SubSeq(bytes, at, e)
    BY <1>1, UlebAtIs, Zenon
  <2> QED BY <2>1, <2>2, Zenon
<1> HIDE DEF n, w
<1>3. w \in Seq(Byte) /\ Len(w) = n /\ StandsAt(bytes, at, w)
  <2>1. n \in Nat
    BY <1>2
  <2> QED BY <1>2, <2>1, PieceStands, Zenon
<1>4. /\ ~(Len(w) > 1 /\ w[Len(w)] = 0) /\ ~(ValueOf(w) > MaxSafeInteger)
      /\ ReadUleb128(bytes, at) = [value |-> ValueOf(w), next |-> at + Len(w)]
  BY ReadIs, Zenon DEF w
<1>5. AreGroups(w)
  <2>1. w[n] = bytes[e] /\ \A i \in 1 .. n - 1 : w[i] = bytes[at + i - 1] /\ at + i - 1 \in at .. e - 1
    BY <1>2, <1>3 DEF StandsAt
  <2>2. w[n] < 128 /\ \A i \in 1 .. n - 1 : w[i] >= 128
    BY <1>1, <2>1 DEF GroupsEndAt
  <2> QED BY <1>2, <1>3, <1>4, <2>2 DEF AreGroups
<1>6. Spells(w, ValueOf(w))
  BY <1>5, GroupsAreSpelled, Zenon
<1> DEFINE v == ValueOf(w)
<1>7. v \in Nat
  BY <1>6, Zenon DEF Spells
<1> HIDE DEF v
<1>8. v <= MaxSafeInteger
  <2>1. MaxSafeInteger \in Nat
    BY DEF MaxSafeInteger
  <2>2. ~(v > MaxSafeInteger)
    BY <1>4, Zenon DEF v
  <2> QED BY <1>7, <2>1, <2>2
<1>9. ReadsAs(bytes, at, v, w)
  BY <1>3, <1>4, <1>6, <1>8, Zenon DEF ReadsAs, v
<1> QED BY <1>3, <1>7, <1>9, Zenon

LEMMA GroupsAreFound ==
  ASSUME NEW bytes \in Seq(Byte), NEW at \in Nat \ {0}, NEW w, AreGroups(w), StandsAt(bytes, at, w)
  PROVE  /\ UlebAt(bytes, at) = w /\ w # <<>>
         /\ ~(Len(w) > 1 /\ w[Len(w)] = 0)
<1> DEFINE n == Len(w)
           e == at + n - 1
<1>1. w \in Seq(Byte) /\ n \in 1 .. 3
  BY Zenon DEF AreGroups
<1>2. e <= Len(bytes) /\ \A i \in 1 .. n : bytes[at + i - 1] = w[i]
  BY Zenon DEF StandsAt
<1>3. w # <<>>
  <2>1. Len(<<>>) = 0 /\ 0 \notin 1 .. 3
    OBVIOUS
  <2> QED BY <1>1, <2>1, Zenon
<1> HIDE DEF n
<1>4. e \in at .. at + 2 /\ e \in Nat /\ n \in 1 .. n
  BY <1>1
<1>5. bytes[e] < 128
  BY <1>2, <1>4, Zenon DEF AreGroups, n
<1>6. ASSUME NEW j \in at .. e - 1 PROVE bytes[j] >= 128
  <2>1. j - at + 1 \in 1 .. n - 1 /\ j - at + 1 \in 1 .. n /\ at + (j - at + 1) - 1 = j
    BY <1>1
  <2>2. bytes[at + (j - at + 1) - 1] = w[j - at + 1]
    BY <1>2, <2>1, Zenon
  <2>3. w[j - at + 1] >= 128
    BY <2>1, Zenon DEF AreGroups, n
  <2> QED BY <2>1, <2>2, <2>3, Zenon
<1>7. GroupsEndAt(bytes, at, e)
  BY <1>2, <1>4, <1>5, <1>6, Zenon DEF GroupsEndAt
<1>8. UlebAt(bytes, at) = SubSeq(bytes, at, e)
  BY <1>4, <1>7, UlebAtIs, Zenon
<1>9. SubSeq(bytes, at, e) = w
  BY <1>1, StandsIsPiece, Zenon DEF n
<1> QED BY <1>3, <1>8, <1>9, Zenon DEF AreGroups

LEMMA NumberIsRead ==
  ASSUME NEW bytes \in Seq(Byte), NEW at \in Nat \ {0}, NEW v \in Nat, v <= MaxSafeInteger,
         StandsAt(bytes, at, WriteUleb128(v))
  PROVE  WriteUleb128(v) \in Seq(Byte) /\ ReadsAs(bytes, at, v, WriteUleb128(v))
<1> DEFINE w == WriteUleb128(v)
<1>1. Spells(w, v)
  <2>1. v < 128 * (128 * 128)
    BY DEF MaxSafeInteger
  <2> QED BY <2>1, NumberIsSpelled, Zenon
<1>2. AreGroups(w) /\ ValueOf(w) = v /\ w \in Seq(Byte)
  BY <1>1, Zenon DEF Spells, AreGroups
<1>3. UlebAt(bytes, at) = w /\ w # <<>> /\ ~(Len(w) > 1 /\ w[Len(w)] = 0)
  BY <1>2, GroupsAreFound, Zenon
<1>4. ~(v > MaxSafeInteger)
  BY DEF MaxSafeInteger
<1>5. ReadUleb128(bytes, at) = [value |-> v, next |-> at + Len(w)]
  <2> HIDE DEF w
  <2> QED BY <1>2, <1>3, <1>4, ReadIs, Zenon
<1> QED BY <1>1, <1>2, <1>5, Zenon DEF ReadsAs

(* writeUleb128 and readUleb128 (src/core/compact-envelope2.ts): whatever  *)
(* the bytes are and whatever follows, those that are read as a number are *)
(* the ones written for it.                                                *)
THEOREM EveryNumberIsSpelledOneWay == \A bytes \in Seq(Byte) : NumbersSpelledOneWay(bytes)
<1> SUFFICES ASSUME NEW bytes \in Seq(Byte), ReadUleb128(bytes, 1) # None
             PROVE  WriteUleb128(ReadUleb128(bytes, 1).value)
                      = SubSeq(bytes, 1, ReadUleb128(bytes, 1).next - 1)
  BY Zenon DEF NumbersSpelledOneWay
<1>1. PICK w \in Seq(Byte), v \in Nat : ReadsAs(bytes, 1, v, w)
  <2>1. 1 \in Nat \ {0}
    OBVIOUS
  <2> QED BY <2>1, SomethingRead, Zenon
<1>2. /\ StandsAt(bytes, 1, w) /\ WriteUleb128(v) = w
      /\ ReadUleb128(bytes, 1) = [value |-> v, next |-> 1 + Len(w)]
  BY <1>1, Zenon DEF ReadsAs, Spells
<1>3. SubSeq(bytes, 1, 1 + Len(w) - 1) = w
  <2>1. 1 \in Nat \ {0}
    OBVIOUS
  <2> QED BY <1>2, <2>1, StandsIsPiece, Zenon
<1>4. ReadUleb128(bytes, 1).value = v /\ ReadUleb128(bytes, 1).next = 1 + Len(w)
  <2>1. \A x, n : [value |-> x, next |-> n].value = x /\ [value |-> x, next |-> n].next = n
    OBVIOUS
  <2> QED BY <1>2, <2>1, Zenon
<1>5. WriteUleb128(ReadUleb128(bytes, 1).value) = w
  BY <1>2, <1>4, Zenon
<1>6. SubSeq(bytes, 1, ReadUleb128(bytes, 1).next - 1) = w
  <2> DEFINE n == ReadUleb128(bytes, 1).next
  <2>1. n = 1 + Len(w)
    BY <1>4, Zenon
  <2> HIDE DEF n
  <2>2. SubSeq(bytes, 1, n - 1) = w
    BY <1>3, <2>1
  <2> QED BY <2>2, Zenon DEF n
<1> QED BY <1>5, <1>6, Zenon

(* What stands in a sequence stands in it when more follows.               *)
LEMMA StandsBefore ==
  ASSUME NEW s \in Seq(Byte), NEW t \in Seq(Byte), NEW w \in Seq(Byte), NEW at \in Nat \ {0},
         StandsAt(s, at, w)
  PROVE  StandsAt(s \o t, at, w)
<1> DEFINE b == s \o t
<1>1. /\ Len(b) = Len(s) + Len(t) /\ \A k \in 1 .. Len(s) : b[k] = s[k]
  <2>1. HasEnds(b, s, t)
    BY TogetherHasEnds, Zenon
  <2> HIDE DEF b
  <2> QED BY <2>1, Zenon DEF HasEnds
<1> HIDE DEF b
<1>2. at + Len(w) - 1 <= Len(s) /\ \A i \in 1 .. Len(w) : s[at + i - 1] = w[i]
  BY Zenon DEF StandsAt
<1>3. \A i \in 1 .. Len(w) : at + i - 1 \in 1 .. Len(s)
  BY <1>2
<1>4. at + Len(w) - 1 <= Len(b)
  BY <1>1, <1>2
<1>5. \A i \in 1 .. Len(w) : b[at + i - 1] = w[i]
  BY <1>1, <1>2, <1>3, Zenon
<1> QED BY <1>4, <1>5, Zenon DEF StandsAt, b

(* What is added stands at the end.                                        *)
LEMMA AddedStands ==
  ASSUME NEW s \in Seq(Byte), NEW t \in Seq(Byte)
  PROVE  /\ s \o t \in Seq(Byte) /\ Len(s \o t) = Len(s) + Len(t)
         /\ StandsAt(s \o t, Len(s) + 1, t)
<1> DEFINE b == s \o t
<1>1. /\ b \in Seq(Byte) /\ Len(b) = Len(s) + Len(t)
      /\ \A k \in 1 .. Len(s) + Len(t) : b[k] = IF k <= Len(s) THEN s[k] ELSE t[k - Len(s)]
  BY ConcatProperties, Zenon
<1> HIDE DEF b
<1>2. StandsAt(b, Len(s) + 1, t)
  BY <1>1 DEF StandsAt
<1> QED BY <1>1, <1>2, Zenon DEF b

(* What stands after a beginning, put after it, makes a longer beginning.  *)
LEMMA GrownBeginning ==
  ASSUME NEW b \in Seq(Byte), NEW k \in Nat, NEW w \in Seq(Byte), StandsAt(b, k + 1, w)
  PROVE  SubSeq(b, 1, k) \o w = SubSeq(b, 1, k + Len(w))
<1> DEFINE m == k + Len(w)
<1>1. m \in Nat /\ k <= m /\ m <= Len(b) /\ (k + 1) + Len(w) - 1 = m
  BY DEF StandsAt
<1>2. k + 1 \in Nat \ {0}
  OBVIOUS
<1>3. SubSeq(b, k + 1, (k + 1) + Len(w) - 1) = w
  BY <1>2, StandsIsPiece, Zenon
<1>4. SubSeq(b, 1, k) \o SubSeq(b, k + 1, m) = SubSeq(b, 1, m)
  BY <1>1, Rejoined, Zenon
<1> HIDE DEF m
<1>5. SubSeq(b, k + 1, m) = w
  BY <1>1, <1>3
<1> QED BY <1>4, <1>5, Zenon DEF m

(* decodeCompactEnvelope2 with the three numbers as they were read.        *)
DecodedWith(b, sequence, startOffset, length) ==
  IF Len(b) < 2 THEN Malformed
  ELSE IF b[1] # 1 THEN Malformed
  ELSE IF b[2] # 2 THEN IF b[2] = 1 THEN Refusal("envelope-v1") ELSE Malformed
  ELSE IF Len(b) < 4 THEN Malformed
  ELSE IF b[4] \notin {0, 1} \/ sequence = None THEN Malformed
  ELSE IF startOffset = None THEN Malformed
  ELSE IF length = None THEN Malformed
  ELSE IF length.value > 2 THEN Refusal("oversize-ciphertext")
  ELSE IF Len(b) - length.next + 1 # length.value + 1 THEN Malformed
  ELSE Accepted([pairId |-> SubSeq(b, 3, 3), direction |-> b[4],
                 sequence |-> sequence.value, startOffset |-> startOffset.value,
                 ciphertext |-> SubSeq(b, length.next, length.next + length.value - 1),
                 tag |-> SubSeq(b, length.next + length.value, Len(b))])

LEMMA DecodedIs ==
  ASSUME NEW b
  PROVE  LET sequence == ReadUleb128(b, 5)
             startOffset == ReadUleb128(b, sequence.next)
             length == ReadUleb128(b, startOffset.next)
         IN DecodeCompactBytes(b) = DecodedWith(b, sequence, startOffset, length)
<1> DEFINE p == PairIdBytes
           first == p + 4
           sequence == ReadUleb128(b, first)
           startOffset == ReadUleb128(b, sequence.next)
           length == ReadUleb128(b, startOffset.next)
           max == MaxCiphertextBytes
           tag == TagBytes
<1>1. p + 4 = 5 /\ p + 4 - 1 = 4 /\ p + 4 - 2 = 3 /\ max = 2 /\ tag = 1 /\ p = 1
  BY DEF PairIdBytes, MaxCiphertextBytes, TagBytes
<1>2. DecodeCompactBytes(b) =
        IF Len(b) < 2 THEN Malformed
        ELSE IF b[1] # 1 THEN Malformed
        ELSE IF b[2] # 2 THEN IF b[2] = 1 THEN Refusal("envelope-v1") ELSE Malformed
        ELSE IF Len(b) < first - 1 THEN Malformed
        ELSE IF b[first - 1] \notin {0, 1} \/ sequence = None THEN Malformed
        ELSE IF startOffset = None THEN Malformed
        ELSE IF length = None THEN Malformed
        ELSE IF length.value > max THEN Refusal("oversize-ciphertext")
        ELSE IF Len(b) - length.next + 1 # length.value + tag THEN Malformed
        ELSE Accepted([pairId |-> SubSeq(b, 3, first - 2), direction |-> b[first - 1],
                       sequence |-> sequence.value, startOffset |-> startOffset.value,
                       ciphertext |-> SubSeq(b, length.next, length.next + length.value - 1),
                       tag |-> SubSeq(b, length.next + length.value, Len(b))])
  BY Zenon DEF DecodeCompactBytes
<1> HIDE DEF first, max, tag
<1>3. first = 5 /\ first - 1 = 4 /\ first - 2 = 3 /\ max = 2 /\ tag = 1
  BY <1>1 DEF first
<1> HIDE DEF sequence, startOffset, length
<1>4. DecodeCompactBytes(b) = DecodedWith(b, sequence, startOffset, length)
  BY <1>2, <1>3 DEF DecodedWith
<1> QED BY <1>3, <1>4, Zenon DEF sequence, startOffset, length

(* The bytes of a compact envelope: four, three numbers, the ciphertext of *)
(* the length that the third says, and the tag.                            *)
CompactParts(b, v1, w1, v2, w2, n, w3) ==
  /\ b[1] = 1 /\ b[2] = 2 /\ b[4] \in {0, 1}
  /\ ReadsAs(b, 5, v1, w1)
  /\ ReadsAs(b, 5 + Len(w1), v2, w2)
  /\ ReadsAs(b, 5 + Len(w1) + Len(w2), n, w3)
  /\ n <= 2
  /\ Len(b) = 5 + Len(w1) + Len(w2) + Len(w3) + n

CompactFields(b, v1, v2, n, from) ==
  [pairId |-> SubSeq(b, 3, 3), direction |-> b[4], sequence |-> v1, startOffset |-> v2,
   ciphertext |-> SubSeq(b, from, from + n - 1), tag |-> SubSeq(b, from + n, Len(b))]

LEMMA PairFields ==
  \A x, n : [value |-> x, next |-> n].value = x /\ [value |-> x, next |-> n].next = n
OBVIOUS

LEMMA PartsAreRead ==
  ASSUME None \notin [value : Nat, next : Nat],
         NEW b \in Seq(Byte), NEW w1 \in Seq(Byte), NEW w2 \in Seq(Byte), NEW w3 \in Seq(Byte),
         NEW v1 \in Nat, NEW v2 \in Nat, NEW n \in Nat, CompactParts(b, v1, w1, v2, w2, n, w3)
  PROVE  DecodeCompactBytes(b)
           = Accepted(CompactFields(b, v1, v2, n, 5 + Len(w1) + Len(w2) + Len(w3)))
<1> DEFINE k2 == 5 + Len(w1)
           k3 == k2 + Len(w2)
           k4 == k3 + Len(w3)
           r1 == [value |-> v1, next |-> k2]
           r2 == [value |-> v2, next |-> k3]
           r3 == [value |-> n, next |-> k4]
<1>1. /\ ReadUleb128(b, 5) = r1 /\ ReadUleb128(b, k2) = r2 /\ ReadUleb128(b, k3) = r3
  BY Zenon DEF CompactParts, ReadsAs
<1>2. k2 \in Nat /\ k3 \in Nat /\ k4 \in Nat
  OBVIOUS
<1>3. /\ b[1] = 1 /\ b[2] = 2 /\ b[4] \in {0, 1} /\ n <= 2 /\ Len(b) = k4 + n
  BY Zenon DEF CompactParts
<1>4. k4 >= 5
  OBVIOUS
<1> HIDE DEF k2, k3, k4
<1>5. r1 # None /\ r2 # None /\ r3 # None
  <2>1. r1 \in [value : Nat, next : Nat] /\ r2 \in [value : Nat, next : Nat] /\ r3 \in [value : Nat, next : Nat]
    BY <1>2
  <2> QED BY <2>1, Zenon
<1>6. r1.next = k2 /\ r1.value = v1 /\ r2.next = k3 /\ r2.value = v2 /\ r3.next = k4 /\ r3.value = n
  BY PairFields, Zenon
<1> HIDE DEF r1, r2, r3
<1>7. DecodeCompactBytes(b) = DecodedWith(b, r1, r2, r3)
  BY <1>1, <1>6, DecodedIs, Zenon
<1>8. /\ ~(Len(b) < 2) /\ ~(Len(b) < 4) /\ ~(n > 2) /\ Len(b) - k4 + 1 = n + 1
  <2> DEFINE l == Len(b)
  <2>1. l \in Nat /\ l = k4 + n
    BY <1>3
  <2> HIDE DEF l
  <2>2. ~(l < 2) /\ ~(l < 4) /\ ~(n > 2) /\ l - k4 + 1 = n + 1
    BY <1>2, <1>3, <1>4, <2>1
  <2> QED BY <2>2, Zenon DEF l
<1>9. ~(b[1] # 1) /\ ~(b[2] # 2) /\ ~(b[4] \notin {0, 1})
  BY <1>3, Zenon
<1>10. DecodedWith(b, r1, r2, r3) = Accepted(CompactFields(b, v1, v2, n, k4))
  BY <1>5, <1>6, <1>8, <1>9, Zenon DEF DecodedWith, CompactFields
<1> QED BY <1>7, <1>10, Zenon DEF k2, k3, k4

LEMMA PartsOfAccepted ==
  ASSUME NEW b \in Seq(Byte), DecodeCompactBytes(b).ok
  PROVE  \E w1, w2, w3 \in Seq(Byte), v1, v2, n \in Nat :
           /\ CompactParts(b, v1, w1, v2, w2, n, w3)
           /\ DecodeCompactBytes(b)
                = Accepted(CompactFields(b, v1, v2, n, 5 + Len(w1) + Len(w2) + Len(w3)))
<1> DEFINE r1 == ReadUleb128(b, 5)
           r2 == ReadUleb128(b, r1.next)
           r3 == ReadUleb128(b, r2.next)
<1>1. DecodeCompactBytes(b) = DecodedWith(b, r1, r2, r3)
  BY DecodedIs, Zenon
<1>2. \A reason : ~Refusal(reason).ok
  BY DEF Refusal
<1> HIDE DEF r1, r2, r3
<1>3. ~Malformed.ok
  BY <1>2, Zenon DEF Malformed
<1>4. /\ b[1] = 1 /\ b[2] = 2 /\ b[4] \in {0, 1} /\ r1 # None /\ r2 # None /\ r3 # None
      /\ ~(r3.value > 2) /\ Len(b) - r3.next + 1 = r3.value + 1
      /\ DecodedWith(b, r1, r2, r3) = Accepted(CompactFields(b, r1.value, r2.value, r3.value, r3.next))
  <2>1. DecodedWith(b, r1, r2, r3).ok
    BY <1>1, Zenon
  <2>2. /\ b[1] = 1 /\ b[2] = 2 /\ b[4] \in {0, 1} /\ r1 # None /\ r2 # None /\ r3 # None
        /\ ~(r3.value > 2) /\ Len(b) - r3.next + 1 = r3.value + 1
    BY <1>2, <1>3, <2>1, Zenon DEF DecodedWith
  <2>3. ~(Len(b) < 2) /\ ~(Len(b) < 4)
    BY <1>2, <1>3, <2>1, Zenon DEF DecodedWith
  <2> QED BY <2>2, <2>3, Zenon DEF DecodedWith, CompactFields
<1>5. PICK w1 \in Seq(Byte), v1 \in Nat : ReadsAs(b, 5, v1, w1)
  <2>1. 5 \in Nat \ {0}
    OBVIOUS
  <2> QED BY <1>4, <2>1, SomethingRead, Zenon DEF r1
<1> DEFINE k2 == 5 + Len(w1)
<1>6. r1.next = k2 /\ r1.value = v1
  <2>1. r1 = [value |-> v1, next |-> k2]
    BY <1>5, Zenon DEF r1, ReadsAs
  <2> HIDE DEF k2
  <2> QED BY <2>1
<1>7. PICK w2 \in Seq(Byte), v2 \in Nat : ReadsAs(b, k2, v2, w2)
  <2>1. k2 \in Nat \ {0}
    OBVIOUS
  <2> HIDE DEF k2
  <2> QED BY <1>4, <1>6, <2>1, SomethingRead, Zenon DEF r2
<1> DEFINE k3 == k2 + Len(w2)
<1>8. r2.next = k3 /\ r2.value = v2
  <2>1. r2 = [value |-> v2, next |-> k3]
    BY <1>6, <1>7, Zenon DEF r2, ReadsAs
  <2> HIDE DEF k3
  <2> QED BY <2>1
<1>9. PICK w3 \in Seq(Byte), n \in Nat : ReadsAs(b, k3, n, w3)
  <2>1. k3 \in Nat \ {0}
    OBVIOUS
  <2> HIDE DEF k3
  <2> QED BY <1>4, <1>8, <2>1, SomethingRead, Zenon DEF r3
<1> DEFINE k4 == k3 + Len(w3)
<1>10. r3.next = k4 /\ r3.value = n
  <2>1. r3 = [value |-> n, next |-> k4]
    BY <1>8, <1>9, Zenon DEF r3, ReadsAs
  <2> HIDE DEF k4
  <2> QED BY <2>1
<1>11. n <= 2 /\ Len(b) = k4 + n
  <2> DEFINE l == Len(b)
  <2>1. k4 \in Nat /\ l \in Nat
    OBVIOUS
  <2>2. ~(n > 2) /\ l - k4 + 1 = n + 1
    BY <1>4, <1>10, Zenon
  <2> HIDE DEF k4, l
  <2>3. n <= 2 /\ l = k4 + n
    BY <2>1, <2>2
  <2> QED BY <2>3, Zenon DEF l
<1>12. CompactParts(b, v1, w1, v2, w2, n, w3)
  BY <1>4, <1>5, <1>7, <1>9, <1>11, Zenon DEF CompactParts
<1>13. DecodeCompactBytes(b) = Accepted(CompactFields(b, v1, v2, n, k4))
  BY <1>1, <1>4, <1>6, <1>8, <1>10, Zenon
<1> QED BY <1>12, <1>13, Zenon

(* All that stands in s stands in b.                                       *)
Extended(b, s) ==
  \A w \in Seq(Byte) : \A at \in Nat \ {0} : StandsAt(s, at, w) => StandsAt(b, at, w)

LEMMA AddedExtends ==
  ASSUME NEW s \in Seq(Byte), NEW t \in Seq(Byte)
  PROVE  /\ s \o t \in Seq(Byte) /\ Len(s \o t) = Len(s) + Len(t)
         /\ StandsAt(s \o t, Len(s) + 1, t) /\ Extended(s \o t, s)
<1>1. Extended(s \o t, s)
  BY StandsBefore, Zenon DEF Extended
<1> QED BY <1>1, AddedStands, Zenon

(* Where the parts of a compact envelope stand.                            *)
CompactStands(b, pairId, direction, w1, w2, w3, ciphertext, tag) ==
  /\ StandsAt(b, 1, <<1, 2>>) /\ StandsAt(b, 3, pairId) /\ StandsAt(b, 4, <<direction>>)
  /\ StandsAt(b, 5, w1) /\ StandsAt(b, 5 + Len(w1), w2) /\ StandsAt(b, 5 + Len(w1) + Len(w2), w3)
  /\ StandsAt(b, 5 + Len(w1) + Len(w2) + Len(w3), ciphertext)
  /\ StandsAt(b, 5 + Len(w1) + Len(w2) + Len(w3) + Len(ciphertext), tag)
  /\ Len(b) = 5 + Len(w1) + Len(w2) + Len(w3) + Len(ciphertext)

CompactBytes(pairId, direction, w1, w2, w3, ciphertext, tag) ==
  <<1, 2>> \o pairId \o <<direction>> \o w1 \o w2 \o w3 \o ciphertext \o tag

LEMMA FirstBytes ==
  /\ <<1, 2>> \in Seq(Byte) /\ Len(<<1, 2>>) = 2 /\ <<1, 2>>[1] = 1 /\ <<1, 2>>[2] = 2
  /\ \A d \in {0, 1} : <<d>> \in Seq(Byte) /\ Len(<<d>>) = 1 /\ <<d>>[1] = d
BY DEF Byte

LEMMA CompactBytesStand ==
  ASSUME NEW pairId \in Bytes(1), NEW direction \in {0, 1}, NEW w1 \in Seq(Byte),
         NEW w2 \in Seq(Byte), NEW w3 \in Seq(Byte), NEW ciphertext \in Seq(Byte), NEW tag \in Bytes(1)
  PROVE  LET b == CompactBytes(pairId, direction, w1, w2, w3, ciphertext, tag)
         IN b \in Seq(Byte) /\ CompactStands(b, pairId, direction, w1, w2, w3, ciphertext, tag)
<1> DEFINE s0 == <<1, 2>>
           d == <<direction>>
           s1 == s0 \o pairId
           s2 == s1 \o d
           s3 == s2 \o w1
           s4 == s3 \o w2
           s5 == s4 \o w3
           s6 == s5 \o ciphertext
           s7 == s6 \o tag
<1>0. /\ s0 \in Seq(Byte) /\ Len(s0) = 2 /\ d \in Seq(Byte) /\ Len(d) = 1
      /\ pairId \in Seq(Byte) /\ Len(pairId) = 1 /\ tag \in Seq(Byte) /\ Len(tag) = 1
  BY FirstBytes, Zenon DEF Bytes
<1>1. StandsAt(s0, 1, s0)
  BY DEF StandsAt
<1> HIDE DEF s0, d
<1>2. s1 \in Seq(Byte) /\ Len(s1) = Len(s0) + Len(pairId) /\ StandsAt(s1, Len(s0) + 1, pairId) /\ Extended(s1, s0)
  BY <1>0, AddedExtends, Zenon
<1> HIDE DEF s1
<1>3. s2 \in Seq(Byte) /\ Len(s2) = Len(s1) + Len(d) /\ StandsAt(s2, Len(s1) + 1, d) /\ Extended(s2, s1)
  BY <1>0, <1>2, AddedExtends, Zenon
<1> HIDE DEF s2
<1>4. s3 \in Seq(Byte) /\ Len(s3) = Len(s2) + Len(w1) /\ StandsAt(s3, Len(s2) + 1, w1) /\ Extended(s3, s2)
  BY <1>3, AddedExtends, Zenon
<1> HIDE DEF s3
<1>5. s4 \in Seq(Byte) /\ Len(s4) = Len(s3) + Len(w2) /\ StandsAt(s4, Len(s3) + 1, w2) /\ Extended(s4, s3)
  BY <1>4, AddedExtends, Zenon
<1> HIDE DEF s4
<1>6. s5 \in Seq(Byte) /\ Len(s5) = Len(s4) + Len(w3) /\ StandsAt(s5, Len(s4) + 1, w3) /\ Extended(s5, s4)
  BY <1>5, AddedExtends, Zenon
<1> HIDE DEF s5
<1>7. s6 \in Seq(Byte) /\ Len(s6) = Len(s5) + Len(ciphertext) /\ StandsAt(s6, Len(s5) + 1, ciphertext)
      /\ Extended(s6, s5)
  BY <1>6, AddedExtends, Zenon
<1> HIDE DEF s6
<1>8. s7 \in Seq(Byte) /\ Len(s7) = Len(s6) + Len(tag) /\ StandsAt(s7, Len(s6) + 1, tag) /\ Extended(s7, s6)
  BY <1>0, <1>7, AddedExtends, Zenon
<1> HIDE DEF s7
<1> DEFINE k2 == 5 + Len(w1)
           k3 == k2 + Len(w2)
           k4 == k3 + Len(w3)
           k5 == k4 + Len(ciphertext)
<1>9. /\ k2 \in Nat \ {0} /\ k3 \in Nat \ {0} /\ k4 \in Nat \ {0} /\ k5 \in Nat \ {0}
      /\ 1 \in Nat \ {0} /\ 3 \in Nat \ {0} /\ 4 \in Nat \ {0} /\ 5 \in Nat \ {0}
  OBVIOUS
<1>10. /\ Len(s0) + 1 = 3 /\ Len(s1) + 1 = 4 /\ Len(s2) + 1 = 5 /\ Len(s3) + 1 = k2
       /\ Len(s4) + 1 = k3 /\ Len(s5) + 1 = k4 /\ Len(s6) + 1 = k5 /\ Len(s7) = k5
  BY <1>0, <1>2, <1>3, <1>4, <1>5, <1>6, <1>7, <1>8
<1> HIDE DEF k2, k3, k4, k5
<1>11. /\ Extended(s7, s6) /\ Extended(s7, s5) /\ Extended(s7, s4) /\ Extended(s7, s3)
       /\ Extended(s7, s2) /\ Extended(s7, s1) /\ Extended(s7, s0)
  <2>1. \A a, b, c : Extended(a, b) /\ Extended(b, c) => Extended(a, c)
    BY Zenon DEF Extended
  <2> QED BY <1>2, <1>3, <1>4, <1>5, <1>6, <1>7, <1>8, <2>1, Zenon
<1>12. /\ StandsAt(s1, 3, pairId) /\ StandsAt(s2, 4, d) /\ StandsAt(s3, 5, w1)
       /\ StandsAt(s4, k2, w2) /\ StandsAt(s5, k3, w3) /\ StandsAt(s6, k4, ciphertext)
       /\ StandsAt(s7, k5, tag)
  BY <1>2, <1>3, <1>4, <1>5, <1>6, <1>7, <1>8, <1>10, Zenon
<1>13. StandsAt(s7, 1, s0) /\ StandsAt(s7, 3, pairId) /\ StandsAt(s7, 4, d)
  BY <1>0, <1>1, <1>9, <1>11, <1>12, Zenon DEF Extended
<1>14. StandsAt(s7, 5, w1) /\ StandsAt(s7, k2, w2) /\ StandsAt(s7, k3, w3) /\ StandsAt(s7, k4, ciphertext)
  BY <1>9, <1>11, <1>12, Zenon DEF Extended
<1>15. s7 \in Seq(Byte) /\ CompactStands(s7, pairId, direction, w1, w2, w3, ciphertext, tag)
  BY <1>8, <1>10, <1>12, <1>13, <1>14, Zenon DEF CompactStands, k2, k3, k4, k5, s0, d
<1> QED BY <1>15, Zenon DEF CompactBytes, s0, d, s1, s2, s3, s4, s5, s6, s7

LEMMA StandingBytesAreAll ==
  ASSUME NEW b \in Seq(Byte), NEW pairId \in Bytes(1), NEW direction \in {0, 1}, NEW w1 \in Seq(Byte),
         NEW w2 \in Seq(Byte), NEW w3 \in Seq(Byte), NEW ciphertext \in Seq(Byte), NEW tag \in Bytes(1),
         CompactStands(b, pairId, direction, w1, w2, w3, ciphertext, tag)
  PROVE  CompactBytes(pairId, direction, w1, w2, w3, ciphertext, tag) = b
<1> DEFINE s0 == <<1, 2>>
           d == <<direction>>
           k2 == 5 + Len(w1)
           k3 == k2 + Len(w2)
           k4 == k3 + Len(w3)
           k5 == k4 + Len(ciphertext)
<1>1. /\ StandsAt(b, 1, s0) /\ StandsAt(b, 3, pairId) /\ StandsAt(b, 4, d)
      /\ StandsAt(b, 5, w1) /\ StandsAt(b, k2, w2) /\ StandsAt(b, k3, w3)
      /\ StandsAt(b, k4, ciphertext) /\ StandsAt(b, k5, tag) /\ Len(b) = k5
  BY Zenon DEF CompactStands
<1>2. /\ s0 \in Seq(Byte) /\ Len(s0) = 2 /\ d \in Seq(Byte) /\ Len(d) = 1
      /\ pairId \in Seq(Byte) /\ Len(pairId) = 1 /\ tag \in Seq(Byte) /\ Len(tag) = 1
  BY FirstBytes, Zenon DEF Bytes
<1> HIDE DEF s0, d
<1> DEFINE Beginning(k) == SubSeq(b, 1, k)
<1>3. \A k \in Nat : \A w \in Seq(Byte) :
        StandsAt(b, k + 1, w) => Beginning(k) \o w = Beginning(k + Len(w))
  BY GrownBeginning, Zenon
<1>4. s0 = Beginning(2)
  <2>1. 1 \in Nat \ {0}
    OBVIOUS
  <2>2. SubSeq(b, 1, 1 + Len(s0) - 1) = s0
    BY <1>1, <1>2, <2>1, StandsIsPiece, Zenon
  <2>3. 1 + Len(s0) - 1 = 2
    BY <1>2
  <2> QED BY <2>2, <2>3
<1>5. /\ k2 - 1 \in Nat /\ k3 - 1 \in Nat /\ k4 - 1 \in Nat /\ k5 - 1 \in Nat
      /\ k2 - 1 = 4 + Len(w1) /\ k3 - 1 = (k2 - 1) + Len(w2) /\ k4 - 1 = (k3 - 1) + Len(w3)
      /\ k5 - 1 = (k4 - 1) + Len(ciphertext) /\ k5 = (k5 - 1) + Len(tag)
      /\ (k2 - 1) + 1 = k2 /\ (k3 - 1) + 1 = k3 /\ (k4 - 1) + 1 = k4 /\ (k5 - 1) + 1 = k5
      /\ 2 + Len(pairId) = 3 /\ 3 + Len(d) = 4
      /\ 2 + 1 = 3 /\ 3 + 1 = 4 /\ 4 + 1 = 5 /\ 2 \in Nat /\ 3 \in Nat /\ 4 \in Nat
  BY <1>2
<1> HIDE DEF k2, k3, k4, k5, Beginning
<1>6. Beginning(2) \o pairId = Beginning(3)
  <2>1. Beginning(2) \o pairId = Beginning(2 + Len(pairId))
    BY <1>1, <1>2, <1>3, <1>5, Zenon
  <2> QED BY <1>5, <2>1, Zenon
<1>7. Beginning(3) \o d = Beginning(4)
  <2>1. Beginning(3) \o d = Beginning(3 + Len(d))
    BY <1>1, <1>2, <1>3, <1>5, Zenon
  <2> QED BY <1>5, <2>1, Zenon
<1>8. Beginning(4) \o w1 = Beginning(k2 - 1)
  <2>1. Beginning(4) \o w1 = Beginning(4 + Len(w1))
    BY <1>1, <1>3, <1>5, Zenon
  <2> QED BY <1>5, <2>1, Zenon
<1>9. Beginning(k2 - 1) \o w2 = Beginning(k3 - 1)
  <2>1. Beginning(k2 - 1) \o w2 = Beginning((k2 - 1) + Len(w2))
    BY <1>1, <1>3, <1>5, Zenon
  <2> QED BY <1>5, <2>1, Zenon
<1>10. Beginning(k3 - 1) \o w3 = Beginning(k4 - 1)
  <2>1. Beginning(k3 - 1) \o w3 = Beginning((k3 - 1) + Len(w3))
    BY <1>1, <1>3, <1>5, Zenon
  <2> QED BY <1>5, <2>1, Zenon
<1>11. Beginning(k4 - 1) \o ciphertext = Beginning(k5 - 1)
  <2>1. Beginning(k4 - 1) \o ciphertext = Beginning((k4 - 1) + Len(ciphertext))
    BY <1>1, <1>3, <1>5, Zenon
  <2> QED BY <1>5, <2>1, Zenon
<1>12. Beginning(k5 - 1) \o tag = b
  <2>1. Beginning(k5 - 1) \o tag = Beginning((k5 - 1) + Len(tag))
    BY <1>1, <1>2, <1>3, <1>5, Zenon
  <2>2. Beginning(Len(b)) = b
    BY Whole, Zenon DEF Beginning
  <2> QED BY <1>1, <1>5, <2>1, <2>2, Zenon
<1>13. CompactBytes(pairId, direction, w1, w2, w3, ciphertext, tag)
         = s0 \o pairId \o d \o w1 \o w2 \o w3 \o ciphertext \o tag
  BY Zenon DEF CompactBytes, s0, d
<1> QED BY <1>4, <1>6, <1>7, <1>8, <1>9, <1>10, <1>11, <1>12, <1>13, Zenon

Envelopes ==
  [pairId : Bytes(PairIdBytes), direction : {0, 1}, sequence : 0 .. MaxSafeInteger,
   startOffset : 0 .. MaxSafeInteger,
   ciphertext : {c \in Seq(Byte) : Len(c) <= MaxCiphertextBytes}, tag : Bytes(TagBytes)]

BytesOfEnvelope(e) ==
  CompactBytes(e.pairId, e.direction, WriteUleb128(e.sequence), WriteUleb128(e.startOffset),
               WriteUleb128(Len(e.ciphertext)), e.ciphertext, e.tag)

LEMMA EnvelopeFields ==
  ASSUME NEW e \in Envelopes
  PROVE  /\ e.pairId \in Bytes(1) /\ e.direction \in {0, 1}
         /\ e.sequence \in Nat /\ e.sequence <= MaxSafeInteger
         /\ e.startOffset \in Nat /\ e.startOffset <= MaxSafeInteger
         /\ e.ciphertext \in Seq(Byte) /\ Len(e.ciphertext) <= 2 /\ e.tag \in Bytes(1)
         /\ Len(e.ciphertext) \in Nat /\ Len(e.ciphertext) <= MaxSafeInteger
         /\ e = [pairId |-> e.pairId, direction |-> e.direction, sequence |-> e.sequence,
                 startOffset |-> e.startOffset, ciphertext |-> e.ciphertext, tag |-> e.tag]
<1>1. PairIdBytes = 1 /\ TagBytes = 1 /\ MaxCiphertextBytes = 2
  BY DEF PairIdBytes, TagBytes, MaxCiphertextBytes
<1> DEFINE top == MaxSafeInteger
<1>2. top \in Nat /\ \A n \in Nat : n <= 2 => n <= top
  BY DEF MaxSafeInteger
<1> HIDE DEF top
<1>3. e \in [pairId : Bytes(1), direction : {0, 1}, sequence : 0 .. top, startOffset : 0 .. top,
             ciphertext : {c \in Seq(Byte) : Len(c) <= 2}, tag : Bytes(1)]
  BY <1>1, Zenon DEF Envelopes, top
<1>4. /\ e.pairId \in Bytes(1) /\ e.direction \in {0, 1} /\ e.sequence \in 0 .. top
      /\ e.startOffset \in 0 .. top
      /\ e.ciphertext \in Seq(Byte) /\ Len(e.ciphertext) <= 2 /\ e.tag \in Bytes(1)
      /\ e = [pairId |-> e.pairId, direction |-> e.direction, sequence |-> e.sequence,
              startOffset |-> e.startOffset, ciphertext |-> e.ciphertext, tag |-> e.tag]
  BY <1>3
<1>5. \A n \in 0 .. top : n \in Nat /\ n <= top
  BY <1>2
<1>6. Len(e.ciphertext) \in Nat
  BY <1>4, LenProperties, Zenon
<1> QED BY <1>2, <1>4, <1>5, <1>6, Zenon DEF top

LEMMA FewGroups ==
  ASSUME NEW v \in Nat, v <= MaxSafeInteger
  PROVE  WriteUleb128(v) \in Seq(Byte) /\ Len(WriteUleb128(v)) \in 1 .. 3
<1>1. v < 128 * (128 * 128)
  BY DEF MaxSafeInteger
<1>2. AreGroups(WriteUleb128(v))
  BY <1>1, NumberIsSpelled, Zenon DEF Spells
<1> QED BY <1>2, Zenon DEF AreGroups

LEMMA EnvelopeIsRead ==
  ASSUME None \notin [value : Nat, next : Nat], NEW e \in Envelopes
  PROVE  /\ BytesOfEnvelope(e) \in Seq(Byte) /\ Len(BytesOfEnvelope(e)) \in 1 .. 16
         /\ DecodeCompactBytes(BytesOfEnvelope(e)) = Accepted(e)
<1> DEFINE w1 == WriteUleb128(e.sequence)
           w2 == WriteUleb128(e.startOffset)
           n == Len(e.ciphertext)
           w3 == WriteUleb128(n)
           b == BytesOfEnvelope(e)
           k2 == 5 + Len(w1)
           k3 == k2 + Len(w2)
           k4 == k3 + Len(w3)
<1>1. /\ w1 \in Seq(Byte) /\ Len(w1) \in 1 .. 3 /\ w2 \in Seq(Byte) /\ Len(w2) \in 1 .. 3
      /\ w3 \in Seq(Byte) /\ Len(w3) \in 1 .. 3
  BY EnvelopeFields, FewGroups, Zenon
<1>2. b \in Seq(Byte) /\ CompactStands(b, e.pairId, e.direction, w1, w2, w3, e.ciphertext, e.tag)
  <2>1. /\ e.pairId \in Bytes(1) /\ e.direction \in {0, 1} /\ e.ciphertext \in Seq(Byte)
        /\ e.tag \in Bytes(1)
    BY EnvelopeFields, Zenon
  <2>2. b = CompactBytes(e.pairId, e.direction, w1, w2, w3, e.ciphertext, e.tag)
    BY Zenon DEF BytesOfEnvelope
  <2> HIDE DEF b, w1, w2, w3
  <2> QED BY <1>1, <2>1, <2>2, CompactBytesStand, Zenon
<1> HIDE DEF b
<1>3. /\ StandsAt(b, 1, <<1, 2>>) /\ StandsAt(b, 3, e.pairId) /\ StandsAt(b, 4, <<e.direction>>)
      /\ StandsAt(b, 5, w1) /\ StandsAt(b, k2, w2) /\ StandsAt(b, k3, w3)
      /\ StandsAt(b, k4, e.ciphertext) /\ StandsAt(b, k4 + n, e.tag) /\ Len(b) = k4 + n
  BY <1>2, Zenon DEF CompactStands
<1>4. ReadsAs(b, 5, e.sequence, w1) /\ ReadsAs(b, k2, e.startOffset, w2) /\ ReadsAs(b, k3, n, w3)
  <2>1. 5 \in Nat \ {0} /\ k2 \in Nat \ {0} /\ k3 \in Nat \ {0}
    <3> HIDE DEF w1, w2
    <3> QED BY <1>1
  <2> HIDE DEF k2, k3, n
  <2>2. n \in Nat /\ n <= MaxSafeInteger
    BY EnvelopeFields, Zenon DEF n
  <2> QED BY <1>2, <1>3, <2>1, <2>2, EnvelopeFields, NumberIsRead, Zenon
<1>5. n \in 0 .. 2
  <2>1. n \in Nat /\ n <= 2
    BY EnvelopeFields, Zenon
  <2> HIDE DEF n
  <2> QED BY <2>1
<1> HIDE DEF w1, w2, w3, n
<1>6. k2 \in Nat \ {0} /\ k3 \in Nat \ {0} /\ k4 \in Nat \ {0} /\ k4 + n \in Nat \ {0}
      /\ k4 + n \in 1 .. 16 /\ n \in Nat /\ n <= 2
  <2> DEFINE l1 == Len(w1)
             l2 == Len(w2)
             l3 == Len(w3)
  <2>1. l1 \in 1 .. 3 /\ l2 \in 1 .. 3 /\ l3 \in 1 .. 3 /\ n \in 0 .. 2
    BY <1>1, <1>5, Zenon
  <2> HIDE DEF l1, l2, l3
  <2>2. /\ 5 + l1 \in Nat \ {0} /\ 5 + l1 + l2 \in Nat \ {0} /\ 5 + l1 + l2 + l3 \in Nat \ {0}
        /\ 5 + l1 + l2 + l3 + n \in Nat \ {0} /\ 5 + l1 + l2 + l3 + n \in 1 .. 16
        /\ n \in Nat /\ n <= 2
    BY <2>1
  <2> QED BY <2>2, Zenon DEF l1, l2, l3
<1> HIDE DEF k2, k3, k4
<1>7. /\ b[1] = 1 /\ b[2] = 2 /\ b[4] = e.direction
  <2> DEFINE s0 == <<1, 2>>
             d == <<e.direction>>
  <2>1. Len(s0) = 2 /\ s0[1] = 1 /\ s0[2] = 2 /\ Len(d) = 1 /\ d[1] = e.direction
    BY FirstBytes, EnvelopeFields, Zenon
  <2>2. StandsAt(b, 1, s0) /\ StandsAt(b, 4, d)
    BY <1>3, Zenon
  <2> HIDE DEF s0, d
  <2>3. /\ \A i \in 1 .. 2 : b[1 + i - 1] = s0[i]
        /\ \A i \in 1 .. 1 : b[4 + i - 1] = d[i]
    BY <2>1, <2>2, Zenon DEF StandsAt
  <2>4. b[1] = s0[1] /\ b[2] = s0[2] /\ b[4] = d[1]
    BY <2>3
  <2> QED BY <2>1, <2>4, Zenon
<1>8. CompactParts(b, e.sequence, w1, e.startOffset, w2, n, w3)
  BY <1>3, <1>4, <1>6, <1>7, EnvelopeFields, Zenon DEF CompactParts, k2, k3, k4
<1>9. DecodeCompactBytes(b) = Accepted(CompactFields(b, e.sequence, e.startOffset, n, k4))
  BY <1>1, <1>2, <1>6, <1>8, EnvelopeFields, PartsAreRead, Zenon DEF k2, k3, k4
<1>10. /\ SubSeq(b, 3, 3) = e.pairId /\ SubSeq(b, k4, k4 + n - 1) = e.ciphertext
       /\ SubSeq(b, k4 + n, Len(b)) = e.tag
  <2>1. \A at \in Nat \ {0} : \A w \in Seq(Byte) :
          StandsAt(b, at, w) => SubSeq(b, at, at + Len(w) - 1) = w
    BY <1>2, StandsIsPiece, Zenon
  <2>2. /\ e.pairId \in Seq(Byte) /\ Len(e.pairId) = 1 /\ e.tag \in Seq(Byte) /\ Len(e.tag) = 1
        /\ e.ciphertext \in Seq(Byte)
    BY EnvelopeFields, Zenon DEF Bytes
  <2>3. 3 \in Nat \ {0} /\ 3 + 1 - 1 = 3 /\ (k4 + n) + 1 - 1 = k4 + n
    BY <1>6
  <2>4. SubSeq(b, 3, 3 + 1 - 1) = e.pairId
    BY <1>3, <2>1, <2>2, <2>3, Zenon
  <2>5. SubSeq(b, k4, k4 + n - 1) = e.ciphertext
    BY <1>3, <1>6, <2>1, <2>2, Zenon DEF n
  <2>6. SubSeq(b, k4 + n, (k4 + n) + 1 - 1) = e.tag
    BY <1>3, <1>6, <2>1, <2>2, Zenon
  <2> QED BY <1>3, <2>3, <2>4, <2>5, <2>6, Zenon
<1>11. CompactFields(b, e.sequence, e.startOffset, n, k4) = e
  BY <1>7, <1>10, EnvelopeFields, Zenon DEF CompactFields
<1> QED BY <1>2, <1>3, <1>6, <1>9, <1>11, Zenon DEF b

LEMMA EncodedIs ==
  ASSUME NEW e
  PROVE  EncodeCompactEnvelope2(e) = ToBase64Url(BytesOfEnvelope(e))
BY Zenon DEF EncodeCompactEnvelope2, BytesOfEnvelope, CompactBytes

LEMMA AcceptedIsWritten ==
  ASSUME NEW b \in Seq(Byte), DecodeCompactBytes(b).ok
  PROVE  BytesOfEnvelope(DecodeCompactBytes(b).as) = b
<1>1. PICK w1 \in Seq(Byte), w2 \in Seq(Byte), w3 \in Seq(Byte), v1 \in Nat, v2 \in Nat, n \in Nat :
        /\ CompactParts(b, v1, w1, v2, w2, n, w3)
        /\ DecodeCompactBytes(b)
             = Accepted(CompactFields(b, v1, v2, n, 5 + Len(w1) + Len(w2) + Len(w3)))
  BY PartsOfAccepted, Zenon
<1> DEFINE l1 == Len(w1)
           l2 == Len(w2)
           l3 == Len(w3)
           k2 == 5 + l1
           k3 == k2 + l2
           k4 == k3 + l3
           e == CompactFields(b, v1, v2, n, k4)
           first == SubSeq(b, 1, 2)
           d == <<b[4]>>
           l == Len(b)
<1>2. /\ b[1] = 1 /\ b[2] = 2 /\ b[4] \in {0, 1}
      /\ StandsAt(b, 5, w1) /\ StandsAt(b, k2, w2) /\ StandsAt(b, k3, w3)
      /\ WriteUleb128(v1) = w1 /\ WriteUleb128(v2) = w2 /\ WriteUleb128(n) = w3
      /\ n <= 2 /\ l = k4 + n
  BY <1>1, Zenon DEF CompactParts, ReadsAs, Spells
<1>3. DecodeCompactBytes(b).as = e
  <2> HIDE DEF e
  <2>1. DecodeCompactBytes(b) = Accepted(e)
    BY <1>1, Zenon DEF e, k2, k3, k4
  <2> QED BY <2>1 DEF Accepted
<1>4. l1 \in Nat /\ l2 \in Nat /\ l3 \in Nat /\ l \in Nat
  OBVIOUS
<1> HIDE DEF l1, l2, l3, l
<1>5. /\ k4 \in Nat \ {0} /\ k4 + n \in Nat \ {0} /\ k4 + n - 1 <= l /\ 4 <= l /\ k4 + n + 1 - 1 = l
      /\ k4 + n <= l /\ 5 <= l
  BY <1>2, <1>4
<1> HIDE DEF k4
<1>6. \A at \in Nat \ {0} : \A m \in Nat :
        at + m - 1 <= l => /\ SubSeq(b, at, at + m - 1) \in Seq(Byte)
                           /\ Len(SubSeq(b, at, at + m - 1)) = m
                           /\ StandsAt(b, at, SubSeq(b, at, at + m - 1))
  BY PieceStands, Zenon DEF l
<1>7. /\ SubSeq(b, 3, 3) \in Bytes(1) /\ StandsAt(b, 3, SubSeq(b, 3, 3))
  <2>1. 3 \in Nat \ {0} /\ 1 \in Nat /\ 3 + 1 - 1 = 3 /\ 3 <= l
    BY <1>5, <1>4
  <2>2. 3 + 1 - 1 <= l
    BY <2>1
  <2>3. /\ SubSeq(b, 3, 3 + 1 - 1) \in Seq(Byte) /\ Len(SubSeq(b, 3, 3 + 1 - 1)) = 1
        /\ StandsAt(b, 3, SubSeq(b, 3, 3 + 1 - 1))
    BY <1>6, <2>1, <2>2, Zenon
  <2> QED BY <2>1, <2>3 DEF Bytes
<1>8. /\ SubSeq(b, k4, k4 + n - 1) \in Seq(Byte) /\ Len(SubSeq(b, k4, k4 + n - 1)) = n
      /\ StandsAt(b, k4, SubSeq(b, k4, k4 + n - 1))
  BY <1>5, <1>6, Zenon
<1>9. SubSeq(b, k4 + n, l) \in Bytes(1) /\ StandsAt(b, k4 + n, SubSeq(b, k4 + n, l))
  <2> DEFINE k5 == k4 + n
  <2>1. 1 \in Nat /\ k5 \in Nat \ {0} /\ k5 + 1 - 1 = l /\ k5 + 1 - 1 <= l
    BY <1>4, <1>5
  <2> HIDE DEF k5
  <2>2. /\ SubSeq(b, k5, k5 + 1 - 1) \in Seq(Byte) /\ Len(SubSeq(b, k5, k5 + 1 - 1)) = 1
        /\ StandsAt(b, k5, SubSeq(b, k5, k5 + 1 - 1))
    BY <1>6, <2>1, Zenon
  <2>3. /\ SubSeq(b, k5, l) \in Seq(Byte) /\ Len(SubSeq(b, k5, l)) = 1
        /\ StandsAt(b, k5, SubSeq(b, k5, l))
    BY <2>1, <2>2
  <2> QED BY <2>3, Zenon DEF Bytes, k5
<1>10. StandsAt(b, 1, <<1, 2>>) /\ StandsAt(b, 4, <<b[4]>>)
  <2>1. 1 + 2 - 1 <= l /\ 4 + 1 - 1 <= l
    BY <1>4, <1>5
  <2>2. \A i \in 1 .. 2 : b[1 + i - 1] = <<1, 2>>[i]
    <3>1. <<1, 2>>[1] = 1 /\ <<1, 2>>[2] = 2
      BY FirstBytes, Zenon
    <3> DEFINE s0 == <<1, 2>>
    <3> HIDE DEF s0
    <3>2. \A i \in 1 .. 2 : b[1 + i - 1] = s0[i]
      BY <1>2, <3>1 DEF s0
    <3> QED BY <3>2, Zenon DEF s0
  <2>3. \A i \in 1 .. 1 : b[4 + i - 1] = <<b[4]>>[i]
    BY FirstBytes
  <2>4. Len(<<1, 2>>) = 2 /\ Len(<<b[4]>>) = 1
    BY FirstBytes
  <2> QED BY <2>1, <2>2, <2>3, <2>4, Zenon DEF StandsAt, l
<1>11. CompactStands(b, e.pairId, e.direction, w1, w2, w3, e.ciphertext, e.tag)
  <2>1. /\ e.pairId = SubSeq(b, 3, 3) /\ e.direction = b[4] /\ e.sequence = v1 /\ e.startOffset = v2
        /\ e.ciphertext = SubSeq(b, k4, k4 + n - 1) /\ e.tag = SubSeq(b, k4 + n, l)
    BY DEF CompactFields, l
  <2> HIDE DEF e
  <2> QED BY <1>2, <1>7, <1>8, <1>9, <1>10, <2>1, Zenon DEF CompactStands, l, k4, l1, l2, l3
<1>12. /\ e.pairId \in Bytes(1) /\ e.direction \in {0, 1} /\ e.sequence = v1 /\ e.startOffset = v2
       /\ e.ciphertext \in Seq(Byte) /\ Len(e.ciphertext) = n /\ e.tag \in Bytes(1)
  <2>1. /\ e.pairId = SubSeq(b, 3, 3) /\ e.direction = b[4] /\ e.sequence = v1 /\ e.startOffset = v2
        /\ e.ciphertext = SubSeq(b, k4, k4 + n - 1) /\ e.tag = SubSeq(b, k4 + n, l)
    BY DEF CompactFields, l
  <2> HIDE DEF e
  <2> QED BY <1>2, <1>7, <1>8, <1>9, <2>1, Zenon
<1> HIDE DEF e
<1>13. CompactBytes(e.pairId, e.direction, w1, w2, w3, e.ciphertext, e.tag) = b
  <2> DEFINE pairId == e.pairId
             direction == e.direction
             ciphertext == e.ciphertext
             tag == e.tag
  <2>1. /\ pairId \in Bytes(1) /\ direction \in {0, 1} /\ ciphertext \in Seq(Byte) /\ tag \in Bytes(1)
        /\ CompactStands(b, pairId, direction, w1, w2, w3, ciphertext, tag)
    BY <1>11, <1>12, Zenon
  <2> HIDE DEF pairId, direction, ciphertext, tag
  <2>2. CompactBytes(pairId, direction, w1, w2, w3, ciphertext, tag) = b
    BY <2>1, StandingBytesAreAll, SMTT(30)
  <2> QED BY <2>2, Zenon DEF pairId, direction, ciphertext, tag
<1>14. BytesOfEnvelope(e) = b
  BY <1>2, <1>12, <1>13, Zenon DEF BytesOfEnvelope
<1> QED BY <1>3, <1>14, Zenon

(* encodeCompactEnvelope2 and decodeCompactEnvelope2 (src/core/            *)
(* compact-envelope2.ts): every envelope is read back from its text, and   *)
(* of all texts that are read at all each is the one written for what is   *)
(* read.                                                                   *)
THEOREM EveryCompactEnvelopeIsSpelledOneWay ==
  ASSUME None \notin Seq(Byte), None \notin [value : Nat, next : Nat],
         NEW e \in Envelopes
  PROVE  SpelledOneWay(e, EncodeCompactEnvelope2, DecodeCompactEnvelope2, Seq(0 .. NoSuch))
<1>1. DecodeCompactEnvelope2(EncodeCompactEnvelope2(e)) = Accepted(e)
  <2> DEFINE b == BytesOfEnvelope(e)
             text == EncodeCompactEnvelope2(e)
             n == Len(b)
  <2>1. b \in Seq(Byte) /\ n \in 1 .. 16 /\ DecodeCompactBytes(b) = Accepted(e)
    BY EnvelopeIsRead, Zenon
  <2>2. text = ToBase64Url(b)
    BY EncodedIs, Zenon
  <2> HIDE DEF b, text
  <2>3. text \in Seq(0 .. 63) /\ Len(text) = Characters(n)
    BY <2>1, <2>2, TextOfBytes, Zenon
  <2> HIDE DEF n
  <2>4. MaxCompactChars = 22
    <3>1. (16 * 4 + 3 - 1) \div 3 = 22
      OBVIOUS
    <3>2. MaxCiphertextBytes + CompactRoom = 16
      BY DEF MaxCiphertextBytes, CompactRoom
    <3> QED BY <3>1, <3>2 DEF MaxCompactChars, CeilDiv
  <2>5. Characters(n) \in 1 .. 22
    BY <2>1 DEF Characters, CeilDiv
  <2>6. text # <<>> /\ ~(Len(text) > MaxCompactChars)
    <3>1. Len(<<>>) = 0 /\ 0 \notin 1 .. 22 /\ \A k \in 1 .. 22 : ~(k > 22)
      OBVIOUS
    <3> QED BY <2>3, <2>4, <2>5, <3>1, Zenon
  <2>7. BytesOfText(text) = b /\ b # None
    <3>1. FromBase64Url(text) = b
      BY <2>1, <2>2, BytesComeBack, Zenon
    <3>2. b # None
      BY <2>1, Zenon
    <3> QED BY <2>2, <3>1, <3>2, Zenon DEF BytesOfText
  <2>8. DecodeCompactEnvelope2(text) = DecodeCompactBytes(b)
    BY <2>6, <2>7, Zenon DEF DecodeCompactEnvelope2
  <2> QED BY <2>1, <2>8, Zenon DEF text
<1>2. ASSUME NEW text \in Seq(0 .. NoSuch), DecodeCompactEnvelope2(text).ok
      PROVE  EncodeCompactEnvelope2(DecodeCompactEnvelope2(text).as) = text
  <2> DEFINE b == BytesOfText(text)
  <2>1. ~Malformed.ok
    BY DEF Malformed, Refusal
  <2>2. b # None /\ DecodeCompactEnvelope2(text) = DecodeCompactBytes(b)
    BY <1>2, <2>1, Zenon DEF DecodeCompactEnvelope2
  <2>3. b = FromBase64Url(text) /\ ToBase64Url(b) = text
    BY <2>2, Zenon DEF BytesOfText
  <2>4. b \in Seq(Byte)
    BY <2>2, <2>3, BytesOfCharacters, Zenon
  <2> HIDE DEF b
  <2>5. BytesOfEnvelope(DecodeCompactBytes(b).as) = b
    BY <1>2, <2>2, <2>4, AcceptedIsWritten, Zenon
  <2>6. EncodeCompactEnvelope2(DecodeCompactBytes(b).as) = ToBase64Url(b)
    BY <2>5, EncodedIs, Zenon
  <2> QED BY <2>2, <2>3, <2>6, Zenon
<1> QED BY <1>1, <1>2, Zenon DEF SpelledOneWay

-----------------------------------------------------------------------------
(* The envelope as one line of text (src/core/envelope2.ts).               *)

(* A member of a line of JSON, of whatever name and value.                 *)
LineMembers ==
  [name : STRING, literal : BOOLEAN, kind : {"string", "number"}, value : Int, plain : BOOLEAN]

Names == {"formatVersion"} \cup Counters \cup Texts

LEMMA TheKeys ==
  /\ DOMAIN WireKeys = 1 .. 8 /\ Len(WireKeys) = 8
  /\ \A i \in 1 .. 8 : WireKeys[i] \in Names
  /\ \A i, j \in 1 .. 8 : WireKeys[i] = WireKeys[j] => i = j
  /\ ToSet(WireKeys) = Names
  /\ "label" \notin Names /\ "formatVersion" \notin Counters \cup Texts
<1>1. DOMAIN WireKeys = 1 .. 8 /\ Len(WireKeys) = 8
  BY DEF WireKeys
<1>2. \A i \in 1 .. 8 : WireKeys[i] \in Names
  BY DEF WireKeys, Names, Counters, Texts
<1>3. \A i, j \in 1 .. 8 : WireKeys[i] = WireKeys[j] => i = j
  BY DEF WireKeys
<1>4. ASSUME NEW name \in Names PROVE \E i \in 1 .. 8 : name = WireKeys[i]
  BY DEF WireKeys, Names, Counters, Texts
<1>5. ToSet(WireKeys) = Names
  BY <1>1, <1>2, <1>4, Zenon DEF ToSet
<1>6. "label" \notin Names /\ "formatVersion" \notin Counters \cup Texts
  BY DEF Names, Counters, Texts
<1> QED BY <1>1, <1>2, <1>3, <1>5, <1>6, Zenon

(* Of members of one name each the one that counts is that one.            *)
LEMMA TheOnlyOne ==
  ASSUME NEW line, NEW i \in DOMAIN line,
         \A j \in DOMAIN line : line[j].name = line[i].name => j = i, i <= i
  PROVE  Parsed(line, line[i].name) = line[i]
<1> DEFINE counts(k) == line[k].name = line[i].name /\ \A j \in DOMAIN line : line[j].name = line[i].name => j <= k
<1>1. counts(i) /\ \A k \in DOMAIN line : counts(k) => k = i
  BY Zenon
<1>2. (CHOOSE k \in DOMAIN line : counts(k)) = i
  <2> HIDE DEF counts
  <2>1. counts(CHOOSE k \in DOMAIN line : counts(k)) /\ (CHOOSE k \in DOMAIN line : counts(k)) \in DOMAIN line
    BY <1>1, Zenon
  <2> QED BY <1>1, <2>1, Zenon
<1>3. Parsed(line, line[i].name) = line[CHOOSE k \in DOMAIN line : counts(k)]
  BY Zenon DEF Parsed
<1> QED BY <1>2, <1>3, Zenon

LEMMA EncodedLine ==
  ASSUME NEW e
  PROVE  LET line == EncodeEnvelope2(e)
             value(name) == IF name = "formatVersion" THEN 2 ELSE e[name]
         IN /\ DOMAIN line = 1 .. 8
            /\ \A i \in 1 .. 8 : line[i] = Member(WireKeys[i], value(WireKeys[i]))
            /\ \A i \in 1 .. 8 : line[i].name = WireKeys[i]
            /\ ToSet(line) = {Member(name, value(name)) : name \in Names}
            /\ \A name \in Names : Parsed(line, name) = Member(name, value(name))
<1> DEFINE line == EncodeEnvelope2(e)
           value(name) == IF name = "formatVersion" THEN 2 ELSE e[name]
<1>1. line = [i \in 1 .. 8 |-> Member(WireKeys[i], value(WireKeys[i]))]
  BY TheKeys, Zenon DEF EncodeEnvelope2
<1> HIDE DEF line, value
<1>2. DOMAIN line = 1 .. 8 /\ \A i \in 1 .. 8 : line[i] = Member(WireKeys[i], value(WireKeys[i]))
  BY <1>1, Zenon
<1>3. \A i \in 1 .. 8 : line[i].name = WireKeys[i]
  BY <1>2 DEF Member
<1>4. ToSet(line) = {Member(name, value(name)) : name \in Names}
  <2>1. \A name \in Names : \E i \in 1 .. 8 : name = WireKeys[i]
    BY TheKeys, Zenon DEF ToSet
  <2>2. \A i \in 1 .. 8 : WireKeys[i] \in Names
    BY TheKeys, Zenon
  <2>3. ASSUME NEW m \in ToSet(line) PROVE m \in {Member(name, value(name)) : name \in Names}
    <3>1. PICK i \in 1 .. 8 : m = line[i]
      BY <1>2, Zenon DEF ToSet
    <3> QED BY <1>2, <2>2, <3>1, Zenon
  <2>4. ASSUME NEW name \in Names PROVE Member(name, value(name)) \in ToSet(line)
    <3>1. PICK i \in 1 .. 8 : name = WireKeys[i]
      BY <2>1, Zenon
    <3>2. line[i] = Member(name, value(name))
      BY <1>2, <3>1, Zenon
    <3> QED BY <1>2, <3>2, Zenon DEF ToSet
  <2> DEFINE all == {Member(name, value(name)) : name \in Names}
  <2>5. ToSet(line) \subseteq all
    BY <2>3, Zenon
  <2>6. all \subseteq ToSet(line)
    BY <2>4, Zenon
  <2> HIDE DEF all
  <2>7. ToSet(line) = all
    BY <2>5, <2>6, Zenon
  <2> QED BY <2>7, Zenon DEF all
<1>5. ASSUME NEW name \in Names PROVE Parsed(line, name) = Member(name, value(name))
  <2>1. PICK i \in 1 .. 8 : name = WireKeys[i]
    BY TheKeys, Zenon DEF ToSet
  <2>2. i <= i /\ i \in DOMAIN line
    BY <1>2
  <2>3. \A j \in DOMAIN line : line[j].name = line[i].name => j = i
    <3> SUFFICES ASSUME NEW j \in DOMAIN line, line[j].name = line[i].name PROVE j = i
      BY Zenon
    <3>1. j \in 1 .. 8
      BY <1>2, Zenon
    <3>2. line[j].name = WireKeys[j] /\ line[i].name = WireKeys[i]
      BY <1>3, <3>1, Zenon
    <3>3. WireKeys[j] = WireKeys[i]
      BY <3>2, Zenon
    <3> QED BY <3>1, <3>3, TheKeys, Zenon
  <2>4. Parsed(line, line[i].name) = line[i]
    BY <2>2, <2>3, TheOnlyOne, Zenon
  <2> QED BY <1>2, <1>3, <2>1, <2>4, Zenon
<1> QED BY <1>2, <1>3, <1>4, <1>5, Zenon DEF line, value

LEMMA MemberHas ==
  \A name, value :
    LET m == Member(name, value)
    IN m.name = name /\ m.literal = TRUE /\ m.kind = KindOf(name) /\ m.value = value /\ m.plain = TRUE
BY DEF Member

LEMMA EncodedIsRead ==
  ASSUME NEW e \in [Counters \cup Texts -> Nat],
         e.ciphertextLength <= MaxCiphertextBytes, e.ciphertext = e.ciphertextLength
  PROVE  DecodeEnvelope2(EncodeEnvelope2(e)) = Accepted(e)
<1> DEFINE line == EncodeEnvelope2(e)
           value(name) == IF name = "formatVersion" THEN 2 ELSE e[name]
<1>1. /\ DOMAIN line = 1 .. 8
      /\ \A i \in 1 .. 8 : line[i] = Member(WireKeys[i], value(WireKeys[i]))
      /\ \A i \in 1 .. 8 : line[i].name = WireKeys[i]
      /\ \A name \in Names : Parsed(line, name) = Member(name, value(name))
  BY EncodedLine, Zenon
<1> HIDE DEF line
<1>2. KeysOf(line) = Names
  <2>1. KeysOf(line) = {WireKeys[i] : i \in 1 .. 8}
    BY <1>1 DEF KeysOf
  <2>2. ToSet(WireKeys) = {WireKeys[i] : i \in 1 .. 8}
    BY TheKeys, Zenon DEF ToSet
  <2> QED BY <2>1, <2>2, TheKeys, Zenon
<1>3. OneSpelling(line)
  <2>1. \A i \in DOMAIN line : line[i].literal
    BY <1>1, MemberHas
  <2>2. \A i \in DOMAIN line : line[i].plain
    BY <1>1, MemberHas
  <2>3. \A i, j \in DOMAIN line : line[i].name = line[j].name => i = j
    <3> SUFFICES ASSUME NEW i \in 1 .. 8, NEW j \in 1 .. 8, line[i].name = line[j].name PROVE i = j
      BY <1>1, Zenon
    <3>1. WireKeys[i] = WireKeys[j]
      BY <1>1, Zenon
    <3> QED BY <3>1, TheKeys, Zenon
  <2> QED BY <2>1, <2>2, <2>3, Zenon DEF OneSpelling
<1>4. \A name \in Names : value(name) \in Nat /\ (name = "formatVersion" => value(name) = 2)
  BY DEF Names
<1>5. InDomain(line)
  <2> SUFFICES ASSUME NEW name \in Names
               PROVE  LET m == Parsed(line, name)
                      IN m.kind = KindOf(name) /\ m.value >= 0 /\ (name = "formatVersion" => m.value = 2)
    BY TheKeys, Zenon DEF InDomain
  <2>1. Parsed(line, name).kind = KindOf(name) /\ Parsed(line, name).value = value(name)
    BY <1>1, MemberHas
  <2>2. value(name) >= 0
    BY <1>4
  <2> QED BY <1>4, <2>1, <2>2, Zenon
<1>6. \A name \in Counters \cup Texts : Parsed(line, name).value = e[name]
  <2> SUFFICES ASSUME NEW name \in Counters \cup Texts PROVE Parsed(line, name).value = e[name]
    BY Zenon
  <2>1. name \in Names /\ name # "formatVersion"
    BY TheKeys, Zenon DEF Names
  <2>2. Parsed(line, name).value = value(name)
    BY <1>1, <2>1, MemberHas
  <2> QED BY <2>1, <2>2, Zenon
<1>7. /\ "ciphertextLength" \in Counters \cup Texts /\ "ciphertext" \in Counters \cup Texts
      /\ "formatVersion" \in Names /\ "label" \notin Names
  BY TheKeys DEF Counters, Texts, Names
<1>8. /\ Parsed(line, "ciphertextLength").value = e.ciphertextLength
      /\ Parsed(line, "ciphertext").value = e.ciphertext
  BY <1>6, <1>7, Zenon
<1>9. ~(e.ciphertextLength > MaxCiphertextBytes)
  <2>1. e.ciphertextLength \in Nat
    BY <1>7
  <2> QED BY <2>1 DEF MaxCiphertextBytes
<1>10. e = [name \in Counters \cup Texts |-> Parsed(line, name).value]
  BY <1>6
<1>11. KeysOf(line) = ToSet(WireKeys)
  BY <1>2, TheKeys, Zenon
<1>12. DecodeEnvelope2(line) = Accepted([name \in Counters \cup Texts |-> Parsed(line, name).value])
  BY <1>2, <1>3, <1>5, <1>7, <1>8, <1>9, <1>11, Zenon DEF DecodeEnvelope2
<1> QED BY <1>10, <1>12, Zenon DEF line

LEMMA AsManyAsKeys ==
  ASSUME NEW line, Len(line) \in Nat, DOMAIN line = 1 .. Len(line), KeysOf(line) = Names,
         \A i, j \in DOMAIN line : line[i].name = line[j].name => i = j
  PROVE  Len(line) = Len(WireKeys)
<1> DEFINE m == Len(line)
           f == [i \in 1 .. m |-> line[i].name]
           g == [i \in 1 .. 8 |-> WireKeys[i]]
<1>1. f \in Injection(1 .. m, Names) /\ f \in Surjection(1 .. m, Names)
  <2>1. \A i \in 1 .. m : f[i] \in Names
    BY Zenon DEF KeysOf
  <2>2. \A name \in Names : \E i \in 1 .. m : f[i] = name
    BY Zenon DEF KeysOf
  <2>3. \A i, j \in 1 .. m : f[i] = f[j] => i = j
    BY Zenon
  <2>4. f \in [1 .. m -> Names]
    BY <2>1
  <2> HIDE DEF f
  <2> QED BY <2>2, <2>3, <2>4 DEF Injection, Surjection, IsInjective
<1>2. g \in Injection(1 .. 8, Names) /\ g \in Surjection(1 .. 8, Names)
  <2>1. \A i \in 1 .. 8 : g[i] \in Names
    BY TheKeys, Zenon
  <2>2. \A name \in Names : \E i \in 1 .. 8 : g[i] = name
    BY TheKeys, Zenon DEF ToSet
  <2>3. \A i, j \in 1 .. 8 : g[i] = g[j] => i = j
    BY TheKeys, Zenon
  <2>4. g \in [1 .. 8 -> Names]
    BY <2>1
  <2> HIDE DEF g
  <2> QED BY <2>2, <2>3, <2>4 DEF Injection, Surjection, IsInjective
<1> HIDE DEF f, g
<1>3. /\ IsFiniteSet(1 .. m) /\ Cardinality(1 .. m) = m
      /\ IsFiniteSet(1 .. 8) /\ Cardinality(1 .. 8) = 8
  <2> HIDE DEF m
  <2>1. m \in Nat
    BY DEF m
  <2>2. 1 \in Int /\ m \in Int /\ 8 \in Int
    BY <2>1
  <2>3. /\ IsFiniteSet(1 .. m) /\ Cardinality(1 .. m) = IF 1 > m THEN 0 ELSE m - 1 + 1
        /\ IsFiniteSet(1 .. 8) /\ Cardinality(1 .. 8) = IF 1 > 8 THEN 0 ELSE 8 - 1 + 1
    <3>1. \A a, z \in Int : /\ IsFiniteSet(a .. z)
                             /\ Cardinality(a .. z) = IF a > z THEN 0 ELSE z - a + 1
      BY FS_Interval, Zenon
    <3> QED BY <2>2, <3>1, Zenon
  <2>4. (IF 1 > m THEN 0 ELSE m - 1 + 1) = m /\ (IF 1 > 8 THEN 0 ELSE 8 - 1 + 1) = 8
    BY <2>1
  <2> QED BY <2>3, <2>4
<1>4. Cardinality(Names) = Cardinality(1 .. m)
  BY <1>1, <1>3, FS_Surjection, Zenon
<1>5. Cardinality(Names) = Cardinality(1 .. 8)
  BY <1>2, <1>3, FS_Surjection, Zenon
<1> QED BY <1>3, <1>4, <1>5, TheKeys, Zenon

LEMMA AcceptedLine ==
  ASSUME NEW line, DecodeEnvelope2(line).ok
  PROVE  /\ OneSpelling(line) /\ KeysOf(line) = Names /\ InDomain(line)
         /\ DecodeEnvelope2(line) = Accepted([name \in Counters \cup Texts |-> Parsed(line, name).value])
<1>1. \A reason : ~Refusal(reason).ok
  BY DEF Refusal
<1>2. ~Malformed.ok
  BY <1>1, Zenon DEF Malformed
<1>3. ~("label" \in KeysOf(line) /\ "formatVersion" \notin KeysOf(line))
  BY <1>1, Zenon DEF DecodeEnvelope2
<1>4. ~(~OneSpelling(line) \/ KeysOf(line) # ToSet(WireKeys))
  BY <1>2, <1>3, Zenon DEF DecodeEnvelope2
<1>5. InDomain(line)
  BY <1>2, <1>3, <1>4, Zenon DEF DecodeEnvelope2
<1>6. DecodeEnvelope2(line) = Accepted([name \in Counters \cup Texts |-> Parsed(line, name).value])
  BY <1>1, <1>2, <1>3, <1>4, <1>5, Zenon DEF DecodeEnvelope2
<1> QED BY <1>4, <1>5, <1>6, TheKeys, Zenon

(* encodeEnvelope2 and decodeEnvelope2 (src/core/envelope2.ts): every      *)
(* envelope is read back from its line, and a line that is accepted,       *)
(* whatever it says and in whatever order, has the members the encoder     *)
(* writes for what is read, each once and each spelled in that way.        *)
THEOREM EveryLineIsSpelledOneWay ==
  ASSUME NEW e \in [Counters \cup Texts -> Nat],
         e.ciphertextLength <= MaxCiphertextBytes, e.ciphertext = e.ciphertextLength,
         NEW line \in Seq(LineMembers)
  PROVE  LinesSpelledOneWay(e, line)
<1>1. ASSUME DecodeEnvelope2(line).ok
      PROVE  /\ Len(line) = Len(WireKeys)
             /\ ToSet(line) = ToSet(EncodeEnvelope2(DecodeEnvelope2(line).as))
  <2> DEFINE as == [name \in Counters \cup Texts |-> Parsed(line, name).value]
             value(name) == IF name = "formatVersion" THEN 2 ELSE as[name]
  <2>1. /\ OneSpelling(line) /\ KeysOf(line) = Names /\ InDomain(line)
        /\ DecodeEnvelope2(line) = Accepted(as)
    BY <1>1, AcceptedLine, Zenon
  <2>2. DecodeEnvelope2(line).as = as
    <3> HIDE DEF as
    <3> QED BY <2>1 DEF Accepted
  <2>3. /\ \A i \in DOMAIN line : line[i].literal
        /\ \A i, j \in DOMAIN line : line[i].name = line[j].name => i = j
        /\ \A i \in DOMAIN line :
             line[i].kind = "string" \/ line[i].name \in Counters \cup {"formatVersion"} => line[i].plain
    BY <2>1, Zenon DEF OneSpelling
  <2>4. Len(line) \in Nat /\ DOMAIN line = 1 .. Len(line) /\ \A i \in 1 .. Len(line) : line[i] \in LineMembers
    BY LenProperties, ElementOfSeq, Zenon
  <2>5. Len(line) = Len(WireKeys)
    BY <2>1, <2>3, <2>4, AsManyAsKeys, Zenon
  <2>6. \A name \in Names :
          LET m == Parsed(line, name)
          IN m.kind = KindOf(name) /\ m.value >= 0 /\ (name = "formatVersion" => m.value = 2)
    BY <2>1, TheKeys, Zenon DEF InDomain
  <2>7. ASSUME NEW i \in DOMAIN line
        PROVE  line[i].name \in Names /\ line[i] = Member(line[i].name, value(line[i].name))
    <3> DEFINE name == line[i].name
    <3>1. name \in Names
      BY <2>1, Zenon DEF KeysOf
    <3>2. Parsed(line, name) = line[i]
      <4>1. i <= i
        BY <2>4
      <4>2. \A j \in DOMAIN line : line[j].name = line[i].name => j = i
        BY <2>3, Zenon
      <4> QED BY <4>1, <4>2, TheOnlyOne, Zenon
    <3>3. line[i].kind = KindOf(name) /\ (name = "formatVersion" => line[i].value = 2)
      BY <2>6, <3>1, <3>2, Zenon
    <3>4. line[i].literal = TRUE
      BY <2>3, <2>4 DEF LineMembers
    <3>5. line[i].plain = TRUE
      <4>1. line[i].kind = "string" \/ name \in Counters \cup {"formatVersion"}
        BY <3>1, <3>3, Zenon DEF Names, KindOf
      <4>2. line[i].plain
        BY <2>3, <4>1, Zenon
      <4> QED BY <2>4, <4>2 DEF LineMembers
    <3>6. line[i].value = value(name)
      <4>1. CASE name = "formatVersion"
        BY <3>3, <4>1, Zenon
      <4>2. CASE name # "formatVersion"
        <5>1. name \in Counters \cup Texts
          BY <3>1, <4>2, Zenon DEF Names
        <5>2. as[name] = Parsed(line, name).value
          BY <5>1, Zenon
        <5> QED BY <3>2, <4>2, <5>2, Zenon
      <4> QED BY <4>1, <4>2
    <3>7. line[i] = [name |-> line[i].name, literal |-> line[i].literal, kind |-> line[i].kind,
                     value |-> line[i].value, plain |-> line[i].plain]
      BY <2>4 DEF LineMembers
    <3>8. line[i] = Member(name, value(name))
      BY <3>3, <3>4, <3>5, <3>6, <3>7, Zenon DEF Member
    <3> QED BY <3>1, <3>8, Zenon
  <2>8. ToSet(EncodeEnvelope2(as)) = {Member(name, value(name)) : name \in Names}
    BY EncodedLine, Zenon
  <2> HIDE DEF value, as
  <2> DEFINE all == {Member(name, value(name)) : name \in Names}
  <2>9. ToSet(line) \subseteq all
    BY <2>7, Zenon DEF ToSet
  <2>10. all \subseteq ToSet(line)
    <3> SUFFICES ASSUME NEW name \in Names PROVE Member(name, value(name)) \in ToSet(line)
      BY Zenon
    <3>1. PICK i \in DOMAIN line : name = line[i].name
      BY <2>1, Zenon DEF KeysOf
    <3>2. line[i] = Member(name, value(name))
      BY <2>7, <3>1, Zenon
    <3> QED BY <3>2, Zenon DEF ToSet
  <2>11. ToSet(line) = ToSet(EncodeEnvelope2(as))
    <3> HIDE DEF all
    <3>1. ToSet(line) = all
      BY <2>9, <2>10, Zenon
    <3> QED BY <2>8, <3>1, Zenon DEF all
  <2> QED BY <2>2, <2>5, <2>11, Zenon
<1>2. DecodeEnvelope2(EncodeEnvelope2(e)) = Accepted(e)
  BY EncodedIsRead, Zenon
<1> QED BY <1>1, <1>2, Zenon DEF LinesSpelledOneWay

-----------------------------------------------------------------------------
(* The bytes that a tag is computed over (src/core/wc-one-time.ts).        *)

(* What a tag is computed over: messages with fields of the widths that    *)
(* the canonical form has, of any bytes.                                   *)
SignedMessages ==
  [pairId : Bytes(BlockBytes), direction : Byte, sequence : 0 .. 7, startOffset : 0 .. 7,
   ciphertext : {c \in Seq(Byte) : Len(c) <= 7}]

LEMMA BlockSizes == BlockBytes = 6 /\ NumberBytes = 3
BY DEF BlockBytes, NumberBytes, SmallField

LEMMA NumbersInThreeBits ==
  ASSUME NEW n \in 0 .. 7
  PROVE  /\ LittleEndian(n) \in Seq(Byte) /\ Len(LittleEndian(n)) = 3
         /\ \A k \in 0 .. 7 : LittleEndian(k) = LittleEndian(n) => k = n
<1>1. \A x \in 0 .. 7 : LittleEndian(x) = <<x % 2, (x \div 2) % 2, (x \div 4) % 2>>
  BY DEF LittleEndian, NumberBytes, BlockBytes, SmallField
<1> DEFINE s(x) == <<x % 2, (x \div 2) % 2, (x \div 4) % 2>>
<1>2. s(n) \in Seq(Byte) /\ Len(s(n)) = 3
  BY DEF Byte
<1>3. ASSUME NEW k \in 0 .. 7, s(k) = s(n) PROVE k = n
  <2>1. k % 2 = n % 2 /\ (k \div 2) % 2 = (n \div 2) % 2 /\ (k \div 4) % 2 = (n \div 4) % 2
    BY <1>3
  <2> QED BY <2>1
<1> HIDE DEF s
<1> QED BY <1>1, <1>2, <1>3, Zenon DEF s

(* Where the fields of a message stand in its canonical form.              *)
FieldsStand(b, m) ==
  /\ StandsAt(b, 7, m.pairId) /\ b[14] = m.direction
  /\ StandsAt(b, 16, LittleEndian(m.sequence)) /\ StandsAt(b, 19, LittleEndian(m.startOffset))
  /\ StandsAt(b, 22, LittleEndian(Len(m.ciphertext)))
  /\ StandsAt(b, 25, m.ciphertext)

LEMMA FormParts ==
  /\ Separator \in Seq(Byte) /\ Len(Separator) = 6
  /\ Zeros(NumberBytes - 2) \in Seq(Byte) /\ Len(Zeros(NumberBytes - 2)) = 1
  /\ \A d \in Byte : /\ <<FormatVersion, d>> \in Seq(Byte) /\ Len(<<FormatVersion, d>>) = 2
                     /\ <<FormatVersion, d>>[2] = d
<1>1. Separator \in Seq(Byte) /\ Len(Separator) = 6
  BY DEF Separator, Byte
<1>2. Zeros(NumberBytes - 2) \in Seq(Byte) /\ Len(Zeros(NumberBytes - 2)) = 1
  <2>1. Zeros(1) = [i \in 1 .. 1 |-> 0]
    BY DEF Zeros
  <2>2. [i \in 1 .. 1 |-> 0] \in Seq(Byte) /\ Len([i \in 1 .. 1 |-> 0]) = 1
    BY DEF Byte
  <2>3. NumberBytes - 2 = 1
    BY BlockSizes
  <2> QED BY <2>1, <2>2, <2>3, Zenon
<1>3. \A d \in Byte : /\ <<FormatVersion, d>> \in Seq(Byte) /\ Len(<<FormatVersion, d>>) = 2
                      /\ <<FormatVersion, d>>[2] = d
  BY DEF FormatVersion, Byte
<1> QED BY <1>1, <1>2, <1>3, Zenon

LEMMA FormIs ==
  ASSUME NEW m \in SignedMessages
  PROVE  CanonicalBytes(m) \in Seq(Byte) /\ FieldsStand(CanonicalBytes(m), m)
<1> DEFINE n == Len(m.ciphertext)
           v == <<FormatVersion, m.direction>>
           z == Zeros(NumberBytes - 2)
           l1 == LittleEndian(m.sequence)
           l2 == LittleEndian(m.startOffset)
           l3 == LittleEndian(n)
           p == Zeros(PaddedLength(n) - n)
           s0 == Separator
           s1 == s0 \o m.pairId
           s2 == s1 \o v
           s3 == s2 \o z
           s4 == s3 \o l1
           s5 == s4 \o l2
           s6 == s5 \o l3
           s7 == s6 \o m.ciphertext
           s8 == s7 \o p
<1>1. /\ m.pairId \in Seq(Byte) /\ Len(m.pairId) = 6 /\ m.direction \in Byte
      /\ m.sequence \in 0 .. 7 /\ m.startOffset \in 0 .. 7
      /\ m.ciphertext \in Seq(Byte) /\ n <= 7
  BY BlockSizes DEF SignedMessages, Bytes
<1>2. n \in 0 .. 7 /\ n \in Nat
  <2>1. n \in Nat
    BY <1>1, LenProperties, Zenon
  <2> HIDE DEF n
  <2> QED BY <1>1, <2>1
<1>3. p \in Seq(Byte)
  <2>1. PaddedLength(n) - n \in Nat
    <3> HIDE DEF n
    <3>1. ((n + 6 - 1) \div 6) * 6 - n \in Nat
      BY <1>2
    <3> QED BY <3>1, BlockSizes DEF PaddedLength
  <2> DEFINE k == PaddedLength(n) - n
  <2> HIDE DEF k
  <2>2. [i \in 1 .. k |-> 0] \in Seq(Byte)
    BY <2>1 DEF k, Byte
  <2> QED BY <2>2, Zenon DEF k, Zeros
<1> HIDE DEF n
<1>4. /\ s0 \in Seq(Byte) /\ Len(s0) = 6 /\ v \in Seq(Byte) /\ Len(v) = 2 /\ v[2] = m.direction
      /\ z \in Seq(Byte) /\ Len(z) = 1
  BY <1>1, FormParts, Zenon
<1>5. /\ l1 \in Seq(Byte) /\ Len(l1) = 3 /\ l2 \in Seq(Byte) /\ Len(l2) = 3
      /\ l3 \in Seq(Byte) /\ Len(l3) = 3
  BY <1>1, <1>2, NumbersInThreeBits, Zenon
<1> HIDE DEF s0, v, z, l1, l2, l3, p
<1>6. s1 \in Seq(Byte) /\ Len(s1) = Len(s0) + Len(m.pairId) /\ StandsAt(s1, Len(s0) + 1, m.pairId) /\ Extended(s1, s0)
  BY <1>1, <1>4, AddedExtends, Zenon
<1> HIDE DEF s1
<1>7. s2 \in Seq(Byte) /\ Len(s2) = Len(s1) + Len(v) /\ StandsAt(s2, Len(s1) + 1, v) /\ Extended(s2, s1)
  BY <1>4, <1>6, AddedExtends, Zenon
<1> HIDE DEF s2
<1>8. s3 \in Seq(Byte) /\ Len(s3) = Len(s2) + Len(z) /\ StandsAt(s3, Len(s2) + 1, z) /\ Extended(s3, s2)
  BY <1>4, <1>7, AddedExtends, Zenon
<1> HIDE DEF s3
<1>9. s4 \in Seq(Byte) /\ Len(s4) = Len(s3) + Len(l1) /\ StandsAt(s4, Len(s3) + 1, l1) /\ Extended(s4, s3)
  BY <1>5, <1>8, AddedExtends, Zenon
<1> HIDE DEF s4
<1>10. s5 \in Seq(Byte) /\ Len(s5) = Len(s4) + Len(l2) /\ StandsAt(s5, Len(s4) + 1, l2) /\ Extended(s5, s4)
  BY <1>5, <1>9, AddedExtends, Zenon
<1> HIDE DEF s5
<1>11. s6 \in Seq(Byte) /\ Len(s6) = Len(s5) + Len(l3) /\ StandsAt(s6, Len(s5) + 1, l3) /\ Extended(s6, s5)
  BY <1>5, <1>10, AddedExtends, Zenon
<1> HIDE DEF s6
<1>12. s7 \in Seq(Byte) /\ StandsAt(s7, Len(s6) + 1, m.ciphertext) /\ Extended(s7, s6)
  BY <1>1, <1>11, AddedExtends, Zenon
<1> HIDE DEF s7
<1>13. s8 \in Seq(Byte) /\ Extended(s8, s7)
  BY <1>3, <1>12, AddedExtends, Zenon
<1> HIDE DEF s8
<1>14. /\ Len(s0) + 1 = 7 /\ Len(s1) + 1 = 13 /\ Len(s3) + 1 = 16 /\ Len(s4) + 1 = 19
       /\ Len(s5) + 1 = 22 /\ Len(s6) + 1 = 25
  BY <1>1, <1>4, <1>5, <1>6, <1>7, <1>8, <1>9, <1>10, <1>11
<1>15. /\ Extended(s8, s6) /\ Extended(s8, s5) /\ Extended(s8, s4)
       /\ Extended(s8, s3) /\ Extended(s8, s2) /\ Extended(s8, s1)
  <2>1. \A a, b, c : Extended(a, b) /\ Extended(b, c) => Extended(a, c)
    BY Zenon DEF Extended
  <2> QED BY <1>7, <1>8, <1>9, <1>10, <1>11, <1>12, <1>13, <2>1, Zenon
<1>16. 7 \in Nat \ {0} /\ 13 \in Nat \ {0} /\ 16 \in Nat \ {0} /\ 19 \in Nat \ {0} /\ 22 \in Nat \ {0} /\ 25 \in Nat \ {0}
  OBVIOUS
<1>17. /\ StandsAt(s1, 7, m.pairId) /\ StandsAt(s2, 13, v) /\ StandsAt(s4, 16, l1)
       /\ StandsAt(s5, 19, l2) /\ StandsAt(s6, 22, l3) /\ StandsAt(s7, 25, m.ciphertext)
  BY <1>6, <1>7, <1>9, <1>10, <1>11, <1>12, <1>14, Zenon
<1>18. StandsAt(s8, 7, m.pairId) /\ StandsAt(s8, 13, v) /\ StandsAt(s8, 16, l1)
  BY <1>1, <1>4, <1>5, <1>15, <1>16, <1>17, Zenon DEF Extended
<1>19. StandsAt(s8, 19, l2) /\ StandsAt(s8, 22, l3) /\ StandsAt(s8, 25, m.ciphertext)
  BY <1>1, <1>5, <1>13, <1>15, <1>16, <1>17, Zenon DEF Extended
<1>20. s8[14] = m.direction
  <2>1. 2 \in 1 .. 2 /\ 13 + 2 - 1 = 14
    OBVIOUS
  <2>2. s8[13 + 2 - 1] = v[2]
    BY <1>4, <1>18, <2>1, Zenon DEF StandsAt
  <2> QED BY <1>4, <2>1, <2>2, Zenon
<1>21. s8 = CanonicalBytes(m)
  <2>1. CanonicalBytes(m) =
          (((((((s0 \o m.pairId) \o v) \o z) \o l1) \o l2) \o l3) \o m.ciphertext) \o p
    BY Zenon DEF CanonicalBytes, Header, s0, v, z, l1, l2, l3, p, n
  <2> QED BY <2>1, Zenon DEF s1, s2, s3, s4, s5, s6, s7, s8
<1>22. FieldsStand(s8, m)
  BY <1>18, <1>19, <1>20, Zenon DEF FieldsStand, l1, l2, l3, n
<1> QED BY <1>13, <1>21, <1>22, Zenon

(* The canonical form that a tag is computed over (src/core/wc-one-time.ts,*)
(* canonical bytes): two messages never have one form, whatever the padding*)
(* and wherever a field ends.                                              *)
THEOREM EveryFormIsOneMessage ==
  \A m, other \in SignedMessages : CanonicalBytes(m) = CanonicalBytes(other) => m = other
<1> SUFFICES ASSUME NEW m \in SignedMessages, NEW other \in SignedMessages,
                    CanonicalBytes(m) = CanonicalBytes(other)
             PROVE  m = other
  OBVIOUS
<1> DEFINE b == CanonicalBytes(m)
<1>1. b \in Seq(Byte) /\ FieldsStand(b, m) /\ FieldsStand(b, other)
  BY FormIs, Zenon
<1> HIDE DEF b
<1>2. \A at : \A s, t \in Seq(Byte) :
        StandsAt(b, at, s) /\ StandsAt(b, at, t) /\ Len(s) = Len(t) => s = t
  <2> SUFFICES ASSUME NEW at, NEW s \in Seq(Byte), NEW t \in Seq(Byte),
                      StandsAt(b, at, s), StandsAt(b, at, t), Len(s) = Len(t)
               PROVE  s = t
    BY Zenon
  <2>1. \A i \in 1 .. Len(s) : s[i] = t[i]
    BY Zenon DEF StandsAt
  <2> QED BY <2>1, SeqEqual, Zenon
<1>3. \A x \in SignedMessages :
        /\ x.pairId \in Seq(Byte) /\ Len(x.pairId) = 6
        /\ x.sequence \in 0 .. 7 /\ x.startOffset \in 0 .. 7
        /\ x.ciphertext \in Seq(Byte) /\ Len(x.ciphertext) \in 0 .. 7
        /\ x = [pairId |-> x.pairId, direction |-> x.direction, sequence |-> x.sequence,
                startOffset |-> x.startOffset, ciphertext |-> x.ciphertext]
  <2> SUFFICES ASSUME NEW x \in SignedMessages
               PROVE  /\ x.pairId \in Seq(Byte) /\ Len(x.pairId) = 6
                      /\ x.sequence \in 0 .. 7 /\ x.startOffset \in 0 .. 7
                      /\ x.ciphertext \in Seq(Byte) /\ Len(x.ciphertext) \in 0 .. 7
                      /\ x = [pairId |-> x.pairId, direction |-> x.direction, sequence |-> x.sequence,
                              startOffset |-> x.startOffset, ciphertext |-> x.ciphertext]
    BY Zenon
  <2>1. /\ x.pairId \in Seq(Byte) /\ Len(x.pairId) = 6
        /\ x.sequence \in 0 .. 7 /\ x.startOffset \in 0 .. 7
        /\ x.ciphertext \in Seq(Byte) /\ Len(x.ciphertext) <= 7
        /\ x = [pairId |-> x.pairId, direction |-> x.direction, sequence |-> x.sequence,
                startOffset |-> x.startOffset, ciphertext |-> x.ciphertext]
    BY BlockSizes DEF SignedMessages, Bytes
  <2> DEFINE l == Len(x.ciphertext)
  <2>2. l \in Nat /\ l <= 7
    BY <2>1, LenProperties, Zenon
  <2> HIDE DEF l
  <2>3. l \in 0 .. 7
    BY <2>2
  <2> QED BY <2>1, <2>3, Zenon DEF l
<1>4. m.pairId = other.pairId /\ m.direction = other.direction
  BY <1>1, <1>2, <1>3, ZenonT(40) DEF FieldsStand
<1>5. \A x, y \in 0 .. 7 : \A at :
        StandsAt(b, at, LittleEndian(x)) /\ StandsAt(b, at, LittleEndian(y)) => x = y
  BY <1>2, NumbersInThreeBits, Zenon
<1>6. m.sequence = other.sequence /\ m.startOffset = other.startOffset
      /\ Len(m.ciphertext) = Len(other.ciphertext)
  BY <1>1, <1>3, <1>5, ZenonT(40) DEF FieldsStand
<1>7. m.ciphertext = other.ciphertext
  BY <1>1, <1>2, <1>3, <1>6, ZenonT(40) DEF FieldsStand
<1> QED BY <1>3, <1>4, <1>6, <1>7, Zenon

-----------------------------------------------------------------------------
(* Multiplication in the field (src/core/gf128.ts).                        *)

(* A field the operators can be given: its polynomial has a degree, and    *)
(* the taps are the lower exponents.                                       *)
IsField(f) == f.degree \in Nat \ {0} /\ f.taps \in SUBSET (0 .. f.degree - 1)

(* One power from the top replaced by the taps.                            *)
Replaced(f, q, m) == IF m \in q THEN Xor(q \ {m}, {m - f.degree + t : t \in f.taps}) ELSE q

(* An element of any degree below twice the field's, reduced from the top. *)
Reduced(f, p) ==
  LET down[n \in f.degree - 1 .. 2 * f.degree] ==
        IF n = 2 * f.degree THEN p ELSE Replaced(f, down[n + 1], n + 1)
  IN down

LEMMA ReducedIs ==
  ASSUME NEW f, IsField(f), NEW p
  PROVE  Reduced(f, p)
           = [n \in f.degree - 1 .. 2 * f.degree |->
               IF n = 2 * f.degree THEN p ELSE Replaced(f, Reduced(f, p)[n + 1], n + 1)]
<1> DEFINE d == f.degree
           step(g, n) == IF n = 2 * d THEN p ELSE Replaced(f, g[n + 1], n + 1)
           Reachable == {k \in Nat : k <= d + 1 => \E g : g = [n \in (2 * d) - k .. 2 * d |-> step(g, n)]}
<1>0. d \in Nat \ {0}
  BY DEF IsField
<1> HIDE DEF d
<1>1. 0 \in Reachable
  <2>1. DEFINE g == [n \in (2 * d) - 0 .. 2 * d |-> p]
  <2>2. g = [n \in (2 * d) - 0 .. 2 * d |-> step(g, n)]
    BY <1>0
  <2> QED BY <2>2
<1>2. ASSUME NEW k \in Nat, k \in Reachable PROVE k + 1 \in Reachable
  <2> SUFFICES ASSUME k + 1 <= d + 1
               PROVE  \E h : h = [n \in (2 * d) - (k + 1) .. 2 * d |-> step(h, n)]
    OBVIOUS
  <2>1. PICK g : g = [n \in (2 * d) - k .. 2 * d |-> step(g, n)]
    BY <1>0, <1>2
  <2> DEFINE h == [n \in (2 * d) - (k + 1) .. 2 * d |->
                    IF n = (2 * d) - (k + 1) THEN Replaced(f, g[n + 1], n + 1) ELSE g[n]]
  <2>2. h = [n \in (2 * d) - (k + 1) .. 2 * d |-> step(h, n)]
    <3> SUFFICES ASSUME NEW n \in (2 * d) - (k + 1) .. 2 * d PROVE h[n] = step(h, n)
      BY Zenon
    <3>1. CASE n = (2 * d) - (k + 1)
      <4>1. n # 2 * d /\ n + 1 \in (2 * d) - (k + 1) .. 2 * d /\ n + 1 # (2 * d) - (k + 1)
        BY <1>0, <3>1
      <4>2. h[n + 1] = g[n + 1] /\ h[n] = Replaced(f, g[n + 1], n + 1)
        BY <3>1, <4>1, Zenon
      <4> QED BY <4>1, <4>2, Zenon
    <3>2. CASE n = 2 * d
      <4>1. n # (2 * d) - (k + 1) /\ n \in (2 * d) - k .. 2 * d
        BY <1>0, <3>2
      <4>2. h[n] = g[n]
        BY <4>1, Zenon
      <4>3. g[n] = step(g, n)
        BY <2>1, <4>1, Zenon
      <4> QED BY <3>2, <4>2, <4>3, Zenon
    <3>3. CASE n # (2 * d) - (k + 1) /\ n # 2 * d
      <4>1. /\ n \in (2 * d) - k .. 2 * d /\ n + 1 # (2 * d) - (k + 1)
            /\ n + 1 \in (2 * d) - (k + 1) .. 2 * d
        BY <1>0, <3>3
      <4>2. h[n] = g[n] /\ h[n + 1] = g[n + 1]
        BY <3>3, <4>1, Zenon
      <4>3. g[n] = step(g, n)
        BY <2>1, <4>1, Zenon
      <4> QED BY <3>3, <4>2, <4>3, Zenon
    <3> QED BY <3>1, <3>2, <3>3
  <2> HIDE DEF h
  <2> QED BY <2>2
<1>3. d + 1 \in Reachable
  <2> HIDE DEF Reachable
  <2>1. Nat \subseteq Reachable
    BY <1>1, <1>2, NatBySets
  <2> QED BY <1>0, <2>1
<1>4. \E g : g = [n \in d - 1 .. 2 * d |-> step(g, n)]
  <2>1. (2 * d) - (d + 1) = d - 1 /\ d + 1 <= d + 1
    BY <1>0
  <2> QED BY <1>3, <2>1
<1> QED BY <1>4, Zenon DEF Reduced, d

LEMMA ReducedSteps ==
  ASSUME NEW f, IsField(f), NEW p
  PROVE  /\ Reduced(f, p)[2 * f.degree] = p
         /\ \A n \in f.degree - 1 .. (2 * f.degree) - 1 :
              Reduced(f, p)[n] = Replaced(f, Reduced(f, p)[n + 1], n + 1)
<1> DEFINE d == f.degree
           r == Reduced(f, p)
<1>1. r = [n \in d - 1 .. 2 * d |-> IF n = 2 * d THEN p ELSE Replaced(f, r[n + 1], n + 1)]
  BY ReducedIs
<1>2. d \in Nat \ {0}
  BY DEF IsField
<1> HIDE DEF r, d
<1>3. 2 * d \in d - 1 .. 2 * d
      /\ \A n \in d - 1 .. (2 * d) - 1 : n \in d - 1 .. 2 * d /\ n # 2 * d
  BY <1>2
<1>4. r[2 * d] = p /\ \A n \in d - 1 .. (2 * d) - 1 : r[n] = Replaced(f, r[n + 1], n + 1)
  BY <1>1, <1>3, Zenon
<1> QED BY <1>4 DEF r, d

(* What holds of p and is kept by every replacement holds at every power.  *)
LEMMA ReducedByPowers ==
  ASSUME NEW f, IsField(f), NEW S,
         2 * f.degree \in S,
         \A n \in f.degree - 1 .. (2 * f.degree) - 1 : n + 1 \in S => n \in S
  PROVE  f.degree - 1 .. 2 * f.degree \subseteq S
<1> DEFINE d == f.degree
           K == {k \in Nat : k <= d + 1 => (2 * d) - k \in S}
<1>1. d \in Nat \ {0}
  BY DEF IsField
<1>2. 2 * d \in S /\ \A n \in d - 1 .. (2 * d) - 1 : n + 1 \in S => n \in S
  OBVIOUS
<1> HIDE DEF d
<1>3. 0 \in K
  BY <1>1, <1>2, (2 * d) - 0 = 2 * d
<1>4. ASSUME NEW k \in Nat, k \in K PROVE k + 1 \in K
  <2> SUFFICES ASSUME k + 1 <= d + 1 PROVE (2 * d) - (k + 1) \in S
    OBVIOUS
  <2> DEFINE n == (2 * d) - (k + 1)
  <2>1. n \in d - 1 .. (2 * d) - 1 /\ n + 1 = (2 * d) - k /\ k <= d + 1
    BY <1>1
  <2> QED BY <1>2, <1>4, <2>1
<1>5. Nat \subseteq K
  <2> HIDE DEF K
  <2> QED BY <1>3, <1>4, NatBySets
<1>6. ASSUME NEW n \in d - 1 .. 2 * d PROVE n \in S
  <2>1. (2 * d) - n \in Nat /\ (2 * d) - n <= d + 1 /\ (2 * d) - ((2 * d) - n) = n
    BY <1>1
  <2>2. (2 * d) - n \in K
    BY <1>5, <2>1
  <2> QED BY <2>1, <2>2
<1> QED BY <1>6 DEF d

UpOne(p) == {i + 1 : i \in p}

LEMMA ReplacedKeeps ==
  ASSUME NEW f, IsField(f), NEW m \in f.degree .. 2 * f.degree
  PROVE  /\ \A q \in SUBSET (0 .. m) : Replaced(f, q, m) \in SUBSET (0 .. m - 1)
         /\ \A q : m \notin q => Replaced(f, q, m) = q
         /\ \A p, q : Replaced(f, Xor(p, q), m) = Xor(Replaced(f, p, m), Replaced(f, q, m))
         /\ \A q \in SUBSET Nat : Replaced(f, UpOne(q), m + 1) = UpOne(Replaced(f, q, m))
<1> DEFINE d == f.degree
           T == f.taps
           low == {m - d + t : t \in T}
<1>1. d \in Nat \ {0} /\ T \in SUBSET (0 .. d - 1) /\ m \in Nat /\ m >= d
  BY DEF IsField
<1>2. low \in SUBSET (0 .. m - 1) /\ UpOne(low) = {(m + 1) - d + t : t \in T}
  <2> HIDE DEF d, T
  <2>1. \A t \in T : t \in 0 .. d - 1 /\ m - d + t \in 0 .. m - 1 /\ (m - d + t) + 1 = (m + 1) - d + t
    BY <1>1
  <2>2. low \in SUBSET (0 .. m - 1)
    BY <2>1
  <2>3. UpOne(low) = {(m - d + t) + 1 : t \in T}
    BY Zenon DEF UpOne
  <2> QED BY <2>1, <2>2, <2>3
<1>3. \A q : Replaced(f, q, m) = IF m \in q THEN Xor(q \ {m}, low) ELSE q
  BY Zenon DEF Replaced
<1>4. \A q : Replaced(f, q, m + 1) = IF m + 1 \in q THEN Xor(q \ {m + 1}, UpOne(low)) ELSE q
  BY <1>2, Zenon DEF Replaced
<1>5. m \notin low /\ \A i \in low : i \in Nat
  BY <1>1, <1>2
<1> HIDE DEF low
<1>6. ASSUME NEW q \in SUBSET (0 .. m) PROVE Replaced(f, q, m) \in SUBSET (0 .. m - 1)
  <2>1. \A i \in q \ {m} : i \in 0 .. m - 1
    BY <1>1
  <2>2. m \notin q => q \in SUBSET (0 .. m - 1)
    BY <1>1
  <2>3. Xor(q \ {m}, low) \in SUBSET (0 .. m - 1)
    BY <1>2, <2>1, Zenon DEF Xor
  <2> QED BY <1>3, <2>2, <2>3, Zenon
<1>7. ASSUME NEW p, NEW q PROVE Replaced(f, Xor(p, q), m) = Xor(Replaced(f, p, m), Replaced(f, q, m))
  <2>1. CASE m \in p /\ m \in q
    <3>1. Xor(p, q) = Xor(Xor(p \ {m}, low), Xor(q \ {m}, low)) /\ m \notin Xor(p, q)
      BY <2>1 DEF Xor
    <3> QED BY <1>3, <2>1, <3>1, Zenon
  <2>2. CASE m \in p /\ m \notin q
    <3>1. Xor(Xor(p, q) \ {m}, low) = Xor(Xor(p \ {m}, low), q) /\ m \in Xor(p, q)
      BY <2>2, <1>5 DEF Xor
    <3> QED BY <1>3, <2>2, <3>1, Zenon
  <2>3. CASE m \notin p /\ m \in q
    <3>1. Xor(Xor(p, q) \ {m}, low) = Xor(p, Xor(q \ {m}, low)) /\ m \in Xor(p, q)
      BY <2>3, <1>5 DEF Xor
    <3> QED BY <1>3, <2>3, <3>1, ZenonT(40)
  <2>4. CASE m \notin p /\ m \notin q
    <3>1. m \notin Xor(p, q)
      BY <2>4 DEF Xor
    <3> QED BY <1>3, <2>4, <3>1, Zenon
  <2> QED BY <2>1, <2>2, <2>3, <2>4
<1>8. ASSUME NEW q \in SUBSET Nat PROVE Replaced(f, UpOne(q), m + 1) = UpOne(Replaced(f, q, m))
  <2>1. m + 1 \in UpOne(q) <=> m \in q
    <3>1. \A i \in q : i + 1 = m + 1 <=> i = m
      BY <1>1
    <3> QED BY <3>1 DEF UpOne
  <2>2. Xor(UpOne(q) \ {m + 1}, UpOne(low)) = UpOne(Xor(q \ {m}, low))
    <3>1. UpOne(q) \ {m + 1} = UpOne(q \ {m})
      BY <1>1 DEF UpOne
    <3>2. q \ {m} \in SUBSET Nat /\ low \in SUBSET Nat
      BY <1>5
    <3>3. \A x, y \in SUBSET Nat : Xor(UpOne(x), UpOne(y)) = UpOne(Xor(x, y))
      <4> SUFFICES ASSUME NEW x \in SUBSET Nat, NEW y \in SUBSET Nat
                   PROVE  Xor(UpOne(x), UpOne(y)) = UpOne(Xor(x, y))
        OBVIOUS
      <4>1. \A i, j \in Nat : i + 1 = j + 1 => i = j
        OBVIOUS
      <4> QED BY <4>1 DEF Xor, UpOne
    <3> QED BY <3>1, <3>2, <3>3, Zenon
  <2> QED BY <1>3, <1>4, <2>1, <2>2, Zenon
<1>9. \A q : m \notin q => Replaced(f, q, m) = q
  BY <1>3, Zenon
<1> QED BY <1>6, <1>7, <1>8, <1>9, Zenon

(* What the reduction does to sums, to elements of a low degree, and to    *)
(* one more power of x.                                                    *)
LEMMA ReducedKeeps ==
  ASSUME NEW f, IsField(f), NEW p \in SUBSET (0 .. 2 * f.degree)
  PROVE  \A n \in f.degree - 1 .. 2 * f.degree : Reduced(f, p)[n] \in SUBSET (0 .. n)
<1> DEFINE d == f.degree
           r == Reduced(f, p)
           S == {n \in Nat : r[n] \in SUBSET (0 .. n)}
<1>1. d \in Nat \ {0}
  BY DEF IsField
<1>2. /\ r[2 * d] = p
      /\ \A n \in d - 1 .. (2 * d) - 1 : r[n] = Replaced(f, r[n + 1], n + 1)
  BY ReducedSteps
<1>3. \A m \in d .. 2 * d : \A q \in SUBSET (0 .. m) : Replaced(f, q, m) \in SUBSET (0 .. m - 1)
  <2> TAKE m \in d .. 2 * d
  <2> QED BY ReplacedKeeps, Zenon
<1>4. p \in SUBSET (0 .. 2 * d)
  OBVIOUS
<1> HIDE DEF r, d
<1>5. 2 * d \in S
  <2>1. 2 * d \in Nat
    BY <1>1
  <2> QED BY <2>1, <1>2, <1>4, Zenon
<1>6. ASSUME NEW n \in d - 1 .. (2 * d) - 1, n + 1 \in S PROVE n \in S
  <2>1. n + 1 \in d .. 2 * d /\ (n + 1) - 1 = n /\ n \in Nat
    BY <1>1
  <2>2. Replaced(f, r[n + 1], n + 1) \in SUBSET (0 .. n)
    BY <1>3, <1>6, <2>1
  <2> QED BY <1>2, <2>1, <2>2
<1>7. d - 1 .. 2 * d \subseteq S
  <2> HIDE DEF S
  <2> QED BY <1>5, <1>6, ReducedByPowers DEF d
<1> QED BY <1>7 DEF d, r

LEMMA ReducedIsLow ==
  ASSUME NEW f, IsField(f), NEW p \in SUBSET (0 .. f.degree - 1)
  PROVE  Reduced(f, p)[f.degree - 1] = p
<1> DEFINE d == f.degree
           r == Reduced(f, p)
           S == {n \in Nat : r[n] = p}
<1>1. d \in Nat \ {0} /\ p \in SUBSET (0 .. d - 1)
  BY DEF IsField
<1>2. /\ r[2 * d] = p
      /\ \A n \in d - 1 .. (2 * d) - 1 : r[n] = Replaced(f, r[n + 1], n + 1)
  BY ReducedSteps
<1>3. \A m \in d .. 2 * d : \A q : m \notin q => Replaced(f, q, m) = q
  BY ReplacedKeeps
<1> HIDE DEF r, d
<1>5. 2 * d \in S
  BY <1>1, <1>2
<1>6. ASSUME NEW n \in d - 1 .. (2 * d) - 1, n + 1 \in S PROVE n \in S
  <2>1. n + 1 \in d .. 2 * d /\ n \in Nat /\ n + 1 \notin p
    BY <1>1
  <2>2. Replaced(f, r[n + 1], n + 1) = p
    BY <1>3, <1>6, <2>1
  <2> QED BY <1>2, <2>1, <2>2
<1>7. d - 1 .. 2 * d \subseteq S
  <2> HIDE DEF S
  <2> QED BY <1>5, <1>6, ReducedByPowers DEF d
<1>8. d - 1 \in d - 1 .. 2 * d
  BY <1>1
<1> QED BY <1>7, <1>8 DEF d, r

LEMMA ReducedAdds ==
  ASSUME NEW f, IsField(f), NEW p, NEW q
  PROVE  Reduced(f, Xor(p, q))[f.degree - 1]
           = Xor(Reduced(f, p)[f.degree - 1], Reduced(f, q)[f.degree - 1])
<1> DEFINE d == f.degree
           r == Reduced(f, p)
           s == Reduced(f, q)
           t == Reduced(f, Xor(p, q))
           S == {n \in Nat : t[n] = Xor(r[n], s[n])}
<1>1. d \in Nat \ {0}
  BY DEF IsField
<1>2. /\ r[2 * d] = p /\ s[2 * d] = q /\ t[2 * d] = Xor(p, q)
      /\ \A n \in d - 1 .. (2 * d) - 1 :
           /\ r[n] = Replaced(f, r[n + 1], n + 1)
           /\ s[n] = Replaced(f, s[n + 1], n + 1)
           /\ t[n] = Replaced(f, t[n + 1], n + 1)
  BY ReducedSteps
<1>3. \A m \in d .. 2 * d : \A x, y :
        Replaced(f, Xor(x, y), m) = Xor(Replaced(f, x, m), Replaced(f, y, m))
  BY ReplacedKeeps
<1> HIDE DEF r, s, t, d
<1>5. 2 * d \in S
  BY <1>1, <1>2
<1>6. ASSUME NEW n \in d - 1 .. (2 * d) - 1, n + 1 \in S PROVE n \in S
  <2>1. n + 1 \in d .. 2 * d /\ n \in Nat /\ t[n + 1] = Xor(r[n + 1], s[n + 1])
    BY <1>1, <1>6
  <2>2. /\ r[n] = Replaced(f, r[n + 1], n + 1) /\ s[n] = Replaced(f, s[n + 1], n + 1)
        /\ t[n] = Replaced(f, t[n + 1], n + 1)
    BY <1>2, <1>6, Zenon
  <2>3. t[n + 1] = Xor(r[n + 1], s[n + 1])
    BY <2>1
  <2>4. Replaced(f, Xor(r[n + 1], s[n + 1]), n + 1)
          = Xor(Replaced(f, r[n + 1], n + 1), Replaced(f, s[n + 1], n + 1))
    BY <1>3, <2>1, Zenon
  <2>5. t[n] = Xor(r[n], s[n])
    BY <2>2, <2>3, <2>4
  <2> QED BY <2>1, <2>5
<1>7. d - 1 .. 2 * d \subseteq S
  <2> HIDE DEF S
  <2> QED BY <1>5, <1>6, ReducedByPowers DEF d
<1>8. d - 1 \in d - 1 .. 2 * d
  BY <1>1
<1>9. t[d - 1] = Xor(r[d - 1], s[d - 1])
  BY <1>7, <1>8
<1> QED BY <1>9 DEF d, r, s, t

LEMMA ReducedGoesUp ==
  ASSUME NEW f, IsField(f), NEW p \in SUBSET (0 .. (2 * f.degree) - 1)
  PROVE  Reduced(f, UpOne(p))[f.degree - 1] = TimesX(f, Reduced(f, p)[f.degree - 1])
<1> DEFINE d == f.degree
           r == Reduced(f, p)
           s == Reduced(f, UpOne(p))
           S == {n \in Nat : n < 2 * d => s[n + 1] = UpOne(r[n])}
<1>1. d \in Nat \ {0} /\ p \in SUBSET (0 .. (2 * d) - 1)
  BY DEF IsField
<1>2. /\ r[2 * d] = p /\ s[2 * d] = UpOne(p)
      /\ \A n \in d - 1 .. (2 * d) - 1 :
           /\ r[n] = Replaced(f, r[n + 1], n + 1)
           /\ s[n] = Replaced(f, s[n + 1], n + 1)
  BY ReducedSteps
<1>3. \A m \in d .. 2 * d :
        /\ \A q : m \notin q => Replaced(f, q, m) = q
        /\ \A q \in SUBSET Nat : Replaced(f, UpOne(q), m + 1) = UpOne(Replaced(f, q, m))
  BY ReplacedKeeps
<1>4. \A n \in d - 1 .. 2 * d : r[n] \in SUBSET (0 .. n)
  <2>1. p \in SUBSET (0 .. 2 * d)
    BY <1>1
  <2> QED BY <2>1, ReducedKeeps
<1>5. s[d - 1] = IF d \in s[d] THEN Xor(s[d] \ {d}, f.taps) ELSE s[d]
  <2>1. {d - d + i : i \in f.taps} = f.taps
    BY DEF IsField
  <2>2. d - 1 \in d - 1 .. (2 * d) - 1 /\ (d - 1) + 1 = d
    BY <1>1
  <2>3. s[d - 1] = Replaced(f, s[d], d)
    BY <1>2, <2>2
  <2> QED BY <2>1, <2>3, Zenon DEF Replaced
<1> HIDE DEF r, s, d
<1>6. 2 * d \in S
  BY <1>1
<1>7. ASSUME NEW n \in d - 1 .. (2 * d) - 1, n + 1 \in S PROVE n \in S
  <2>1. n + 1 \in d .. 2 * d /\ n \in Nat
    BY <1>1
  <2>2. CASE n + 1 = 2 * d
    <3>1. r[n] = p
      <4>1. 2 * d \notin p /\ 2 * d \in d .. 2 * d
        BY <1>1
      <4> QED BY <1>2, <1>3, <2>2, <4>1
    <3> QED BY <1>2, <2>1, <2>2, <3>1
  <2>3. CASE n + 1 # 2 * d
    <3>1. n + 1 < 2 * d /\ n + 1 \in d - 1 .. (2 * d) - 1
      BY <1>1, <2>1, <2>3
    <3>2. s[(n + 1) + 1] = UpOne(r[n + 1])
      BY <1>7, <3>1
    <3>3. s[n + 1] = Replaced(f, s[(n + 1) + 1], (n + 1) + 1)
      BY <1>2, <3>1, Zenon
    <3>4. r[n + 1] \in SUBSET Nat
      <4>1. r[n + 1] \in SUBSET (0 .. n + 1)
        BY <1>4, <3>1, <1>1
      <4> QED BY <4>1
    <3>5. s[n + 1] = UpOne(Replaced(f, r[n + 1], n + 1))
      BY <1>3, <2>1, <3>2, <3>3, <3>4, Zenon
    <3>6. s[n + 1] = UpOne(r[n])
      BY <1>2, <3>5, Zenon
    <3> QED BY <2>1, <3>6
  <2> QED BY <2>2, <2>3
<1>8. d - 1 .. 2 * d \subseteq S
  <2> HIDE DEF S
  <2> QED BY <1>6, <1>7, ReducedByPowers DEF d
<1>9. s[d] = UpOne(r[d - 1])
  <2>1. d - 1 \in d - 1 .. 2 * d /\ (d - 1) + 1 = d /\ d - 1 < 2 * d
    BY <1>1
  <2> QED BY <1>8, <2>1
<1>10. s[d - 1] = TimesX(f, r[d - 1])
  BY <1>5, <1>9, Zenon DEF TimesX, UpOne, d
<1> QED BY <1>10 DEF d, r, s

(* The pairs of exponents that add up to n, by the first of them.          *)
AddUp(a, b, n) == {i \in a : n >= i /\ n - i \in b}
Shifted(a, j) == {i + j : i \in a}

LEMMA ShiftedHas ==
  ASSUME NEW a \in SUBSET Nat, NEW j \in Nat
  PROVE  /\ Shifted(a, j) \subseteq Nat
         /\ \A n \in Nat : n \in Shifted(a, j) <=> n >= j /\ n - j \in a
<1>1. \A n : n \in Shifted(a, j) <=> \E i \in a : n = i + j
  BY DEF Shifted
<1>2. \A i \in a : i \in Nat /\ i + j \in Nat
  OBVIOUS
<1>3. ASSUME NEW n \in Nat PROVE (\E i \in a : n = i + j) <=> n >= j /\ n - j \in a
  <2>1. \A i \in a : n = i + j <=> n >= j /\ n - j = i
    BY <1>2
  <2> QED BY <2>1
<1>4. Shifted(a, j) \subseteq Nat
  BY <1>1, <1>2, Zenon
<1> QED BY <1>1, <1>3, <1>4, Zenon

LEMMA UnreducedHas ==
  ASSUME NEW a \in SUBSET Nat, IsFiniteSet(a), NEW b \in SUBSET Nat, NEW n
  PROVE  n \in Unreduced(a, b) <=> n \in Nat /\ Cardinality(AddUp(a, b, n)) % 2 = 1
<1>1. n \in Unreduced(a, b) <=> n \in {i + j : i \in a, j \in b} /\ Cardinality(AddUp(a, b, n)) % 2 = 1
  BY DEF Unreduced, AddUp
<1>2. n \in {i + j : i \in a, j \in b} => n \in Nat
  OBVIOUS
<1>3. n \in Nat /\ Cardinality(AddUp(a, b, n)) % 2 = 1 => n \in {i + j : i \in a, j \in b}
  <2> SUFFICES ASSUME n \in Nat, Cardinality(AddUp(a, b, n)) % 2 = 1
               PROVE  n \in {i + j : i \in a, j \in b}
    OBVIOUS
  <2>1. AddUp(a, b, n) # {}
    BY FS_EmptySet
  <2>2. PICK i \in a : n >= i /\ n - i \in b
    BY <2>1 DEF AddUp
  <2>3. n = i + (n - i)
    OBVIOUS
  <2> QED BY <2>2, <2>3
<1> QED BY <1>1, <1>2, <1>3

(* One more exponent in b adds the element moved up by it.                 *)
LEMMA UnreducedStep ==
  ASSUME NEW a \in SUBSET Nat, IsFiniteSet(a), NEW b \in SUBSET Nat, NEW j \in Nat \ b
  PROVE  Unreduced(a, b \cup {j}) = Xor(Unreduced(a, b), Shifted(a, j))
<1> DEFINE c == b \cup {j}
<1>1. ASSUME NEW n \in Nat
      PROVE  (Cardinality(AddUp(a, c, n)) % 2 = 1)
               <=> ~((Cardinality(AddUp(a, b, n)) % 2 = 1) <=> n \in Shifted(a, j))
  <2> DEFINE x == AddUp(a, b, n)
             y == AddUp(a, c, n)
  <2>1. IsFiniteSet(x) /\ x \subseteq a
    BY FS_Subset DEF AddUp
  <2>2. Cardinality(x) \in Nat
    BY <2>1, FS_CardinalityType
  <2>3. CASE n \in Shifted(a, j)
    <3>1. n >= j /\ n - j \in a /\ n - (n - j) = j
      <4>1. n >= j /\ n - j \in a
        BY <2>3, ShiftedHas
      <4> QED BY <4>1
    <3>2. n - j \notin x
      BY <3>1 DEF AddUp
    <3>3. y = x \cup {n - j}
      <4>1. \A i \in a : n >= i /\ n - i = j <=> i = n - j
        BY <3>1
      <4>2. \A i : i \in y <=> i \in a /\ n >= i /\ (n - i \in b \/ n - i = j)
        BY DEF AddUp
      <4>3. \A i : i \in x <=> i \in a /\ n >= i /\ n - i \in b
        BY DEF AddUp
      <4> HIDE DEF x, y
      <4>4. \A i : i \in y <=> i \in x \/ i = n - j
        BY <4>1, <4>2, <4>3, <3>1, Zenon
      <4> QED BY <4>4
    <3> HIDE DEF x, y
    <3>4. Cardinality(y) = Cardinality(x) + 1
      BY <2>1, <3>2, <3>3, FS_AddElement
    <3>5. Cardinality(y) % 2 = 1 <=> ~(Cardinality(x) % 2 = 1)
      BY <2>2, <3>4
    <3> QED BY <2>3, <3>5 DEF x, y
  <2>4. CASE n \notin Shifted(a, j)
    <3>1. \A i \in a : n >= i => n - i # j
      <4>1. ~(n >= j /\ n - j \in a)
        BY <2>4, ShiftedHas
      <4>2. \A i \in a : i \in Nat /\ (n >= i /\ n - i = j => n >= j /\ n - j = i)
        OBVIOUS
      <4> QED BY <4>1, <4>2
    <3>2. y = x
      BY <3>1 DEF AddUp
    <3> QED BY <2>4, <3>2
  <2> QED BY <2>3, <2>4
<1>2. c \in SUBSET Nat
  OBVIOUS
<1>3. Shifted(a, j) \subseteq Nat
  BY ShiftedHas
<1>4. \A n : n \in Unreduced(a, b) <=> n \in Nat /\ Cardinality(AddUp(a, b, n)) % 2 = 1
  BY UnreducedHas
<1>5. \A n : n \in Unreduced(a, c) <=> n \in Nat /\ Cardinality(AddUp(a, c, n)) % 2 = 1
  BY <1>2, UnreducedHas
<1> HIDE DEF c
<1>6. \A n : n \in Unreduced(a, c) <=> n \in Xor(Unreduced(a, b), Shifted(a, j))
  BY <1>1, <1>3, <1>4, <1>5, Zenon DEF Xor
<1> QED BY <1>6 DEF c

LEMMA UnreducedBounds ==
  ASSUME NEW d \in Nat \ {0}, NEW a \in SUBSET (0 .. d - 1), NEW b \in SUBSET (0 .. d - 1)
  PROVE  /\ Unreduced(a, b) \in SUBSET (0 .. (2 * d) - 1)
         /\ Unreduced(a, {}) = {} /\ Unreduced({}, b) = {}
         /\ \A j \in 0 .. d : Shifted(a, j) \in SUBSET (0 .. (2 * d) - 1)
         /\ \A j \in Nat : UpOne(Shifted(a, j)) = Shifted(a, j + 1)
         /\ Shifted(a, 0) = a
<1>1. \A i \in a, j \in b : i + j \in 0 .. (2 * d) - 1
  OBVIOUS
<1>2. Unreduced(a, b) \in SUBSET (0 .. (2 * d) - 1)
  BY <1>1 DEF Unreduced
<1>3. Unreduced(a, {}) = {} /\ Unreduced({}, b) = {}
  BY DEF Unreduced
<1>4. \A j \in 0 .. d : Shifted(a, j) \in SUBSET (0 .. (2 * d) - 1)
  BY DEF Shifted
<1>5. ASSUME NEW j \in Nat PROVE UpOne(Shifted(a, j)) = Shifted(a, j + 1)
  <2>1. \A i \in a : (i + j) + 1 = i + (j + 1)
    OBVIOUS
  <2> QED BY <2>1 DEF UpOne, Shifted
<1>6. Shifted(a, 0) = a
  <2>1. \A i \in a : i + 0 = i
    OBVIOUS
  <2> QED BY <2>1 DEF Shifted
<1> QED BY <1>2, <1>3, <1>4, <1>5, <1>6

(* The running sum and the running a * x^i.                                *)
Running(f, a, b) ==
  LET upTo[i \in 0 .. f.degree] ==
        IF i = 0 THEN [result |-> {}, shifted |-> a]
        ELSE LET was == upTo[i - 1]
             IN [result |-> IF i - 1 \in b THEN Xor(was.result, was.shifted) ELSE was.result,
                 shifted |-> TimesX(f, was.shifted)]
  IN upTo

RunningStep(f, a, b, g, i) ==
  IF i = 0 THEN [result |-> {}, shifted |-> a]
  ELSE [result |-> IF i - 1 \in b THEN Xor(g[i - 1].result, g[i - 1].shifted) ELSE g[i - 1].result,
        shifted |-> TimesX(f, g[i - 1].shifted)]

LEMMA RunningSteps ==
  ASSUME NEW f, IsField(f), NEW a, NEW b
  PROVE  \A i \in 0 .. f.degree : Running(f, a, b)[i] = RunningStep(f, a, b, Running(f, a, b), i)
<1> DEFINE d == f.degree
           step(g, i) == RunningStep(f, a, b, g, i)
           Reachable == {k \in Nat : \E g : g = [i \in 0 .. k |-> step(g, i)]}
<1>0. d \in Nat
  BY DEF IsField
<1>1. 0 \in Reachable
  <2> DEFINE g == [i \in 0 .. 0 |-> [result |-> {}, shifted |-> a]]
  <2>1. g = [i \in 0 .. 0 |-> step(g, i)]
    <3>1. \A i \in 0 .. 0 : step(g, i) = [result |-> {}, shifted |-> a]
      BY DEF RunningStep
    <3> QED BY <3>1, Zenon
  <2> QED BY <2>1
<1>2. ASSUME NEW k \in Nat, k \in Reachable PROVE k + 1 \in Reachable
  <2>1. PICK g : g = [i \in 0 .. k |-> step(g, i)]
    BY <1>2
  <2> DEFINE h == [i \in 0 .. k + 1 |-> IF i = k + 1 THEN step(g, i) ELSE g[i]]
  <2>2. h = [i \in 0 .. k + 1 |-> step(h, i)]
    <3>1. ASSUME NEW i \in 0 .. k + 1 PROVE h[i] = step(h, i)
      <4>1. i # 0 => i - 1 \in 0 .. k + 1 /\ i - 1 # k + 1
        OBVIOUS
      <4>2. i # 0 => h[i - 1] = g[i - 1]
        BY <4>1, Zenon
      <4>3. step(h, i) = step(g, i)
        <5> HIDE DEF h
        <5> QED BY <4>2, Zenon DEF RunningStep
      <4>4. i # k + 1 => g[i] = step(g, i)
        <5>1. i # k + 1 => i \in 0 .. k
          OBVIOUS
        <5> QED BY <2>1, <5>1, Zenon
      <4>5. h[i] = IF i = k + 1 THEN step(g, i) ELSE g[i]
        BY Zenon
      <4> HIDE DEF h, step
      <4> QED BY <4>3, <4>4, <4>5, Zenon
    <3> QED BY <3>1, Zenon
  <2> HIDE DEF h
  <2> QED BY <2>2
<1>3. \E g : g = [i \in 0 .. d |-> step(g, i)]
  <2>1. Nat \subseteq Reachable
    <3> HIDE DEF Reachable
    <3> QED BY <1>1, <1>2, NatBySets
  <2> QED BY <1>0, <2>1
<1>4. \E g : g = [i \in 0 .. d |->
                   IF i = 0 THEN [result |-> {}, shifted |-> a]
                   ELSE [result |-> IF i - 1 \in b THEN Xor(g[i - 1].result, g[i - 1].shifted)
                                    ELSE g[i - 1].result,
                         shifted |-> TimesX(f, g[i - 1].shifted)]]
  BY <1>3, Zenon DEF RunningStep
<1>5. Running(f, a, b) = [i \in 0 .. d |-> step(Running(f, a, b), i)]
  BY <1>4, Zenon DEF Running, RunningStep
<1> HIDE DEF step
<1>6. \A i \in 0 .. d : Running(f, a, b)[i] = step(Running(f, a, b), i)
  BY <1>5, Zenon
<1> QED BY <1>6 DEF step

LEMMA ProductIsReduced ==
  ASSUME NEW f, IsField(f), NEW a, NEW b
  PROVE  Product(f, a, b) = Reduced(f, Unreduced(a, b))[f.degree - 1]
BY Zenon DEF Product, Reduced, Replaced

(* What the loop has after i bits of b.                                    *)
AfterBits(f, a, b, i) ==
  /\ Running(f, a, b)[i].shifted = Reduced(f, Shifted(a, i))[f.degree - 1]
  /\ Running(f, a, b)[i].result = Reduced(f, Unreduced(a, b \cap (0 .. i - 1)))[f.degree - 1]

LEMMA LoopMultiplies ==
  ASSUME NEW f, IsField(f), NEW a \in SUBSET (0 .. f.degree - 1), NEW b \in SUBSET (0 .. f.degree - 1)
  PROVE  AfterBits(f, a, b, f.degree)
<1> DEFINE d == f.degree
           R(p) == Reduced(f, p)[d - 1]
           run == Running(f, a, b)
           S == {i \in Nat : i <= d => AfterBits(f, a, b, i)}
<1>1. d \in Nat \ {0} /\ a \in SUBSET (0 .. d - 1) /\ b \in SUBSET (0 .. d - 1)
  BY DEF IsField
<1>2. a \in SUBSET Nat /\ IsFiniteSet(a)
  <2>1. IsFiniteSet(0 .. d - 1)
    BY <1>1, FS_Interval
  <2>2. IsFiniteSet(a)
    <3> HIDE DEF d
    <3> QED BY <1>1, <2>1, FS_Subset
  <2> QED BY <1>1, <2>2
<1>3. \A i \in 0 .. d : run[i] = RunningStep(f, a, b, run, i)
  BY RunningSteps, Zenon
<1>4. 0 \in S
  <2>1. run[0].result = {} /\ run[0].shifted = a
    <3>1. run[0] = RunningStep(f, a, b, run, 0)
      BY <1>1, <1>3
    <3>2. run[0] = [result |-> {}, shifted |-> a]
      BY <3>1 DEF RunningStep
    <3> HIDE DEF run
    <3> QED BY <3>2
  <2>2. b \cap (0 .. 0 - 1) = {}
    OBVIOUS
  <2>3. Unreduced(a, {}) = {} /\ Shifted(a, 0) = a
    BY <1>1, UnreducedBounds
  <2>4. R({}) = {} /\ R(a) = a
    BY ReducedIsLow
  <2> QED BY <2>1, <2>2, <2>3, <2>4, Zenon DEF AfterBits
<1>5. ASSUME NEW i \in Nat, i \in S PROVE i + 1 \in S
  <2> SUFFICES ASSUME i + 1 <= d PROVE AfterBits(f, a, b, i + 1)
    OBVIOUS
  <2> DEFINE low == b \cap (0 .. i - 1)
             more == b \cap (0 .. (i + 1) - 1)
  <2>1. i \in 0 .. d /\ i + 1 \in 0 .. d /\ (i + 1) - 1 = i /\ i + 1 # 0
    BY <1>1
  <2>2. AfterBits(f, a, b, i)
    BY <1>5, <2>1
  <2>3. run[i].shifted = R(Shifted(a, i)) /\ run[i].result = R(Unreduced(a, low))
    BY <2>2, Zenon DEF AfterBits
  <2>4. /\ run[i + 1].result = IF i \in b THEN Xor(run[i].result, run[i].shifted) ELSE run[i].result
        /\ run[i + 1].shifted = TimesX(f, run[i].shifted)
    <3>1. run[i + 1] = RunningStep(f, a, b, run, i + 1)
      BY <1>3, <2>1, Zenon
    <3> QED BY <2>1, <3>1 DEF RunningStep
  <2>5. Shifted(a, i) \in SUBSET (0 .. (2 * d) - 1) /\ UpOne(Shifted(a, i)) = Shifted(a, i + 1)
    BY <1>1, <2>1, UnreducedBounds
  <2>6. run[i + 1].shifted = R(Shifted(a, i + 1))
    <3>1. R(UpOne(Shifted(a, i))) = TimesX(f, R(Shifted(a, i)))
      BY <2>5, ReducedGoesUp
    <3> HIDE DEF run, R
    <3> QED BY <2>3, <2>4, <2>5, <3>1, Zenon
  <2>7. run[i + 1].result = R(Unreduced(a, more))
    <3>1. CASE i \in b
      <4>1. more = low \cup {i} /\ i \notin low /\ low \in SUBSET Nat
        BY <1>1, <2>1, <3>1
      <4>2. Unreduced(a, low \cup {i}) = Xor(Unreduced(a, low), Shifted(a, i))
        BY <1>2, <4>1, UnreducedStep
      <4>3. R(Xor(Unreduced(a, low), Shifted(a, i))) = Xor(R(Unreduced(a, low)), R(Shifted(a, i)))
        BY ReducedAdds, Zenon
      <4> HIDE DEF run, R, low, more
      <4> QED BY <2>3, <2>4, <3>1, <4>1, <4>2, <4>3, Zenon
    <3>2. CASE i \notin b
      <4>1. more = low
        BY <1>1, <2>1, <3>2
      <4> HIDE DEF run, R, low, more
      <4> QED BY <2>3, <2>4, <3>2, <4>1, Zenon
    <3> QED BY <3>1, <3>2
  <2> QED BY <2>6, <2>7, Zenon DEF AfterBits
<1>6. d \in S
  <2>1. Nat \subseteq S
    <3> HIDE DEF S
    <3> QED BY <1>4, <1>5, NatBySets
  <2> QED BY <1>1, <2>1
<1> QED BY <1>1, <1>6

(* gfMul (src/core/gf128.ts): the product of any two elements of any field *)
(* the operators are given, that of RFC 8452 with its 128 bits among them, *)
(* is the product of the polynomials reduced by the field's.               *)
THEOREM EveryProductIsTheFields ==
  ASSUME NEW f, f.degree \in Nat \ {0}, f.taps \in SUBSET (0 .. f.degree - 1)
  PROVE  \A a, b \in SUBSET (0 .. f.degree - 1) : FieldAgrees(f, a, b)
<1> SUFFICES ASSUME NEW a \in SUBSET (0 .. f.degree - 1), NEW b \in SUBSET (0 .. f.degree - 1)
             PROVE  FieldAgrees(f, a, b)
  OBVIOUS
<1> DEFINE d == f.degree
<1>1. IsField(f) /\ d \in Nat \ {0}
  BY DEF IsField
<1>2. GfMul(f, a, b) = IF a = {} THEN {} ELSE Running(f, a, b)[d].result
  BY Zenon DEF GfMul, Running
<1>3. Product(f, a, b) = Reduced(f, Unreduced(a, b))[d - 1]
  BY <1>1, ProductIsReduced, Zenon
<1>4. CASE a = {}
  <2>1. Unreduced(a, b) = {}
    BY <1>1, <1>4, UnreducedBounds
  <2>2. Reduced(f, {})[d - 1] = {}
    BY <1>1, ReducedIsLow
  <2> QED BY <1>2, <1>3, <1>4, <2>1, <2>2, Zenon DEF FieldAgrees
<1>5. CASE a # {}
  <2>1. b \cap (0 .. d - 1) = b
    OBVIOUS
  <2>2. AfterBits(f, a, b, d)
    BY <1>1, LoopMultiplies
  <2> QED BY <1>2, <1>3, <1>5, <2>1, <2>2, Zenon DEF FieldAgrees, AfterBits
<1> QED BY <1>4, <1>5

(* In particular those of the code's constants.                            *)
COROLLARY CodeMultipliesInItsField ==
  \A a, b \in SUBSET (0 .. 127) : FieldAgrees(Rfc8452, a, b)
<1>1. Rfc8452.degree = 128 /\ Rfc8452.taps = {0, 121, 126, 127}
  BY DEF Rfc8452
<1>2. Rfc8452.degree \in Nat \ {0} /\ Rfc8452.taps \in SUBSET (0 .. Rfc8452.degree - 1)
  BY <1>1
<1>3. Rfc8452.degree - 1 = 127
  BY <1>1
<1>4. \A a, b \in SUBSET (0 .. Rfc8452.degree - 1) : FieldAgrees(Rfc8452, a, b)
  BY <1>2, EveryProductIsTheFields, Zenon
<1> QED BY <1>3, <1>4, Zenon

LEMMA MoreTaps ==
  ASSUME NEW a \in SUBSET Nat, IsFiniteSet(a), NEW b \in SUBSET Nat, NEW j \in Nat \ b,
         NEW p, Unreduced(a, b) = p
  PROVE  Unreduced(a, b \cup {j}) = Xor(p, Shifted(a, j))
BY UnreducedStep

(* The constant of dot (src/core/gf128.ts): with the quotient shown, it    *)
(* is the inverse of x^128 in the code's field.                            *)
THEOREM CodeDividesByItsPower == BackUndoes(Rfc8452, {0, 121, 126, 127})
<1> DEFINE a == {0, 121, 126, 127}
<1>1. a \in SUBSET Nat /\ IsFiniteSet(a)
  <2>1. IsFiniteSet({}) /\ IsFiniteSet({0}) /\ IsFiniteSet({0, 121}) /\ IsFiniteSet({0, 121, 126})
    <3>1. IsFiniteSet({})
      BY FS_EmptySet
    <3>2. IsFiniteSet({} \cup {0})
      BY <3>1, FS_AddElement
    <3>3. {} \cup {0} = {0} /\ {0} \cup {121} = {0, 121} /\ {0, 121} \cup {126} = {0, 121, 126}
      OBVIOUS
    <3>4. IsFiniteSet({0})
      BY <3>2, <3>3
    <3>5. IsFiniteSet({0, 121})
      BY <3>3, <3>4, FS_AddElement
    <3>6. IsFiniteSet({0, 121, 126})
      BY <3>3, <3>5, FS_AddElement
    <3> QED BY <3>1, <3>4, <3>5, <3>6
  <2>2. a = {0, 121, 126} \cup {127}
    OBVIOUS
  <2>3. IsFiniteSet(a)
    BY <2>1, <2>2, FS_AddElement
  <2> QED BY <2>3
<1>2. /\ Shifted(a, 0) = {0, 121, 126, 127}
      /\ Shifted(a, 121) = {121, 242, 247, 248}
      /\ Shifted(a, 126) = {126, 247, 252, 253}
      /\ Shifted(a, 127) = {127, 248, 253, 254}
      /\ Shifted(a, 128) = {128, 249, 254, 255}
  BY DEF Shifted
<1>3. Unreduced(a, {}) = {}
  BY DEF Unreduced
<1> HIDE DEF a
<1>4. Unreduced(a, {0}) = {0, 121, 126, 127}
  <2>1. Unreduced(a, {} \cup {0}) = Xor({}, Shifted(a, 0))
    BY <1>1, <1>3, MoreTaps
  <2>2. Xor({}, {0, 121, 126, 127}) = {0, 121, 126, 127} /\ {} \cup {0} = {0}
    BY DEF Xor
  <2> QED BY <1>2, <2>1, <2>2
<1>5. Unreduced(a, {0, 121}) = {0, 126, 127, 242, 247, 248}
  <2>1. Unreduced(a, {0} \cup {121}) = Xor({0, 121, 126, 127}, Shifted(a, 121))
    BY <1>1, <1>4, MoreTaps
  <2>2. /\ Xor({0, 121, 126, 127}, {121, 242, 247, 248}) = {0, 126, 127, 242, 247, 248}
        /\ {0} \cup {121} = {0, 121}
    BY DEF Xor
  <2> QED BY <1>2, <2>1, <2>2
<1>6. Unreduced(a, {0, 121, 126}) = {0, 127, 242, 248, 252, 253}
  <2>1. Unreduced(a, {0, 121} \cup {126}) = Xor({0, 126, 127, 242, 247, 248}, Shifted(a, 126))
    BY <1>1, <1>5, MoreTaps
  <2>2. /\ Xor({0, 126, 127, 242, 247, 248}, {126, 247, 252, 253}) = {0, 127, 242, 248, 252, 253}
        /\ {0, 121} \cup {126} = {0, 121, 126}
    BY DEF Xor
  <2> QED BY <1>2, <2>1, <2>2
<1>7. Unreduced(a, {0, 121, 126, 127}) = {0, 242, 252, 254}
  <2>1. Unreduced(a, {0, 121, 126} \cup {127}) = Xor({0, 127, 242, 248, 252, 253}, Shifted(a, 127))
    BY <1>1, <1>6, MoreTaps
  <2>2. /\ Xor({0, 127, 242, 248, 252, 253}, {127, 248, 253, 254}) = {0, 242, 252, 254}
        /\ {0, 121, 126} \cup {127} = {0, 121, 126, 127}
    BY DEF Xor
  <2> QED BY <1>2, <2>1, <2>2
<1>8. Unreduced(a, {0, 121, 126, 127} \cup {128}) = {0, 128, 242, 249, 252, 255}
  <2>1. Unreduced(a, {0, 121, 126, 127} \cup {128}) = Xor({0, 242, 252, 254}, Shifted(a, 128))
    BY <1>1, <1>7, MoreTaps
  <2>2. Xor({0, 242, 252, 254}, {128, 249, 254, 255}) = {0, 128, 242, 249, 252, 255}
    BY DEF Xor
  <2> QED BY <1>2, <2>1, <2>2
<1>9. Xor({0}, {0, 128, 242, 249, 252, 255}) = {128, 242, 249, 252, 255}
  BY DEF Xor
<1>10. {128 + i : i \in {0, 114, 121, 124, 127}} = {128, 242, 249, 252, 255}
  OBVIOUS
<1>11. /\ Rfc8452.degree = 128 /\ Rfc8452.taps = {0, 121, 126, 127}
       /\ Rfc8452.back = {0, 114, 121, 124, 127}
  BY DEF Rfc8452
<1>12. {Rfc8452.degree + i : i \in Rfc8452.back} = {128, 242, 249, 252, 255}
  BY <1>10, <1>11
<1>13. Unreduced({0, 121, 126, 127}, Rfc8452.taps \cup {Rfc8452.degree}) = {0, 128, 242, 249, 252, 255}
  BY <1>8, <1>11 DEF a
<1> QED BY <1>9, <1>12, <1>13 DEF BackUndoes
=============================================================================
