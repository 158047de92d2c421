----------------------------- MODULE FieldHash ------------------------------
(***************************************************************************)
(* The one-time authenticator: POLYVAL of the canonical bytes of a message *)
(* (src/core/gf128.ts, wc-one-time.ts).                                    *)
(*                                                                         *)
(* A field element is the set of the exponents of its polynomial. The      *)
(* operators take the field as a parameter: Rfc8452 has the constants of   *)
(* the code, SmallField has its shape and is small enough to multiply and  *)
(* to count keys in. In SmallField a byte is one bit, a block six bytes    *)
(* and a number three; the layout is that of the code.                     *)
(***************************************************************************)
EXTENDS Naturals, FiniteSets, SequencesExt

CONSTANT Signed  \* the messages compared with one another

(* Mutant: a tap of the inverse one too low.                               *)
Rfc8452Miscopied == [degree |-> 128, taps |-> {0, 121, 126, 127}, back |-> {0, 113, 121, 124, 127}]
Rfc8452 == [degree |-> 128, taps |-> {0, 121, 126, 127}, back |-> {0, 114, 121, 124, 127}]
SmallField == [degree |-> 6, taps |-> {0, 5}, back |-> {0, 4, 5}]

Xor(a, b) == (a \ b) \cup (b \ a)
TimesX(f, a) ==
  LET up == {i + 1 : i \in a}
  IN IF f.degree \in up THEN Xor(up \ {f.degree}, f.taps) ELSE up

(* Mutant: the product is not reduced in the last step.                    *)
GfMulShort(f, a, b) ==
  LET upTo[i \in 0 .. f.degree] ==
        IF i = 0 THEN [result |-> {}, shifted |-> a]
        ELSE LET was == upTo[i - 1]
             IN [result |-> IF i - 1 \in b THEN Xor(was.result, was.shifted) ELSE was.result,
                 shifted |-> IF i = f.degree - 1 THEN {j + 1 : j \in was.shifted} \ {f.degree}
                             ELSE TimesX(f, was.shifted)]
  IN IF a = {} THEN {} ELSE upTo[f.degree].result

(* gfMul: bit by bit, the running a * x^i kept reduced; zero times b is    *)
(* zero without the sum.                                                   *)
GfMul(f, a, b) ==
  LET upTo[i \in 0 .. f.degree] ==
        IF i = 0 THEN [result |-> {}, shifted |-> a]
        ELSE LET was == upTo[i - 1]
             IN [result |-> IF i - 1 \in b THEN Xor(was.result, was.shifted) ELSE was.result,
                 shifted |-> TimesX(f, was.shifted)]
  IN IF a = {} THEN {} ELSE upTo[f.degree].result

Dot(f, a, b) == GfMul(f, GfMul(f, a, b), f.back)

Polyval(f, h, blocks) == FoldLeft(LAMBDA s, x : Dot(f, Xor(s, x), h), {}, blocks)
----------------------------------------------------------------------------
BlockBytes == SmallField.degree
NumberBytes == BlockBytes \div 2
Separator == <<1, 0, 1, 1, 0, 0>>
FormatVersion == 1

(* u64le.                                                                  *)
LittleEndian(n) == [i \in 1 .. NumberBytes |-> (n \div 2 ^ (i - 1)) % 2]

Zeros(n) == [i \in 1 .. n |-> 0]
PaddedLength(n) == ((n + BlockBytes - 1) \div BlockBytes) * BlockBytes

Header(msg, length) ==
  Separator \o msg.pairId
    \o <<FormatVersion, msg.direction>> \o Zeros(NumberBytes - 2)
    \o LittleEndian(msg.sequence) \o LittleEndian(msg.startOffset) \o LittleEndian(length)

(* Mutant: the length of the ciphertext is left to the padding.            *)
CanonicalWithoutLength(msg) ==
  Header(msg, 0) \o msg.ciphertext \o Zeros(PaddedLength(Len(msg.ciphertext)) - Len(msg.ciphertext))

CanonicalBytes(msg) ==
  Header(msg, Len(msg.ciphertext))
    \o msg.ciphertext \o Zeros(PaddedLength(Len(msg.ciphertext)) - Len(msg.ciphertext))

Blocks(bytes) ==
  [j \in 1 .. Len(bytes) \div BlockBytes |->
    {i \in 0 .. BlockBytes - 1 : bytes[BlockBytes * (j - 1) + i + 1] = 1}]

Elements == SUBSET (0 .. SmallField.degree - 1)

WcHash(key, msg) == Polyval(SmallField, key, Blocks(CanonicalBytes(msg)))
----------------------------------------------------------------------------
(* The product by its definition: the exponents an odd number of pairs add *)
(* up to, then every power from the top replaced by the taps.              *)
Unreduced(a, b) ==
  {n \in {i + j : i \in a, j \in b} : Cardinality({i \in a : n >= i /\ n - i \in b}) % 2 = 1}
Product(f, a, b) ==
  LET down[n \in f.degree - 1 .. 2 * f.degree] ==
        IF n = 2 * f.degree THEN Unreduced(a, b)
        ELSE LET p == down[n + 1]
             IN IF n + 1 \in p THEN Xor(p \ {n + 1}, {(n + 1) - f.degree + t : t \in f.taps}) ELSE p
  IN down[f.degree - 1]

(* gfMul multiplies in the field.                                          *)
FieldAgrees(f, a, b) == GfMul(f, a, b) = Product(f, a, b)

(* back is the inverse of x^degree: the two multiply to 1 and a multiple,  *)
(* by quotient, of the field's polynomial.                                 *)
BackUndoes(f, quotient) ==
  {f.degree + i : i \in f.back} = Xor({0}, Unreduced(quotient, f.taps \cup {f.degree}))

(* Whoever does not know the key and the mask can swap a message for       *)
(* another with any chosen change of the tag for no more keys than the     *)
(* longer one has blocks: two messages never have one canonical form.      *)
HardToForge(msg) ==
  \A other \in Signed \ {msg} :
    LET changes == {<<key, Xor(WcHash(key, msg), WcHash(key, other))>> : key \in Elements}
        longest == IF Len(msg.ciphertext) > Len(other.ciphertext) THEN msg ELSE other
    IN \A change \in {c[2] : c \in changes} :
         Cardinality({c \in changes : c[2] = change}) <= Len(Blocks(CanonicalBytes(longest)))
=============================================================================
