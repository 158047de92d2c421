---------------------------- MODULE MCAlgorithms ----------------------------
(***************************************************************************)
(* The pure algorithms, each asked of every input from a bounded set: one  *)
(* step chooses what is asked.                                             *)
(***************************************************************************)
EXTENDS FieldHash, Material, Wire, Integers

VARIABLE asked

AMessage == [pairId |-> <<0, 1, 1, 0, 0, 1>>, direction |-> 0, sequence |-> 1, startOffset |-> 5,
             ciphertext |-> <<1, 0, 1, 1, 0, 0>>]
MCSigned ==
  {AMessage, [AMessage EXCEPT !.pairId = <<0, 1, 1, 0, 0, 0>>], [AMessage EXCEPT !.direction = 1],
   [AMessage EXCEPT !.sequence = 5, !.startOffset = 1], [AMessage EXCEPT !.ciphertext = <<>>],
   [AMessage EXCEPT !.ciphertext = <<1, 0, 1, 1>>], [AMessage EXCEPT !.ciphertext = <<1, 0, 1, 1, 0, 0, 0>>]}

Bits(n) == UNION {[1 .. k -> {0, 1}] : k \in 0 .. n}
SomeBytes == {0, 1, 2, 4, 77, 127, 128, 129, 156, 255}
AnEnvelope ==
  [pairId |-> 1, direction |-> 1, sequence |-> 3, startOffset |-> 0, ciphertextLength |-> 2,
   ciphertext |-> 2, tag |-> 0]
Members ==
  {[name |-> n, literal |-> l, kind |-> k, value |-> v, plain |-> p] :
     n \in ToSet(WireKeys) \cup {"label", "other"}, l \in BOOLEAN,
     k \in {"string", "number"}, v \in {-1, 0, 2, 3}, p \in BOOLEAN}

AlgorithmsInit == asked = <<"nothing">>

Ask ==
  /\ asked = <<"nothing">>
  /\ \/ \E a, b \in Elements : asked' = <<"field", SmallField, a, b>>
     \/ asked' = <<"constants", Rfc8452, {0, 121, 126, 127}>>
     \/ asked' = <<"constants", SmallField, {0, 5}>>
     \/ \E m \in Signed : asked' = <<"tag", m>>
     \/ \E r \in {LetterRange, ByteRange} : asked' = <<"symbols", r>>
     \/ \E r \in {LetterRange, 2} : asked' = <<"cipher", r>>
     \/ \E e, n \in 0 .. 3 : asked' = <<"parts", e, n>>
     \/ \E k \in 0 .. 3, n \in 0 .. 2 : \E ss \in [1 .. k -> Bits(2)] : asked' = <<"sources", ss, n>>
     \/ \E p \in Bits(4), n \in 0 .. 9 : asked' = <<"frame", p, n>>
     \/ \E b \in 0 .. 8, n \in 0 .. 4, f \in 0 .. 3, m \in 1 .. 3 : asked' = <<"meters", b, n, f, m>>
     \/ \E d \in {0, 1}, q \in {0, 300}, o \in {127, MaxSafeInteger}, c \in {<<>>, <<0>>, <<128, 1>>} :
          asked' = <<"compact", [pairId |-> <<9>>, direction |-> d, sequence |-> q, startOffset |-> o,
                                 ciphertext |-> c, tag |-> <<7>>]>>
     \/ \E n \in 1 .. 4 : \E b \in [1 .. n -> SomeBytes] : asked' = <<"number", b>>
     \/ \E l \in Neighbours(EncodeEnvelope2(AnEnvelope), Members) : asked' = <<"line", l>>
     \/ \E i \in {<<0>>, <<255>>}, k \in {<<3, 4, 5, 6>>, <<255, 255, 255, 255>>} :
          asked' = <<"request", [requestId |-> i, key |-> k]>>
     \/ \E f \in {<<1, 2, 3>>, <<84, 80, 1>>}, c \in {<<>>, <<1>>, <<1, 1>>}, t \in {<<0>>, <<1>>} :
          asked' = <<"package", [fields |-> f, ciphertext |-> c, tag |-> t]>>

(* Each algorithm agrees with what it is for, as stated at its definition: *)
(* the field is a field and a tag hard to forge; symbols are uniform,      *)
(* material is divided once, frames and meters are exact; every message    *)
(* has one spelling and every spelling one message.                        *)
AlgorithmsAgree ==
  CASE asked[1] = "nothing" -> TRUE
    [] asked[1] = "field"   -> FieldAgrees(asked[2], asked[3], asked[4])
    [] asked[1] = "constants" -> BackUndoes(asked[2], asked[3])
    [] asked[1] = "tag"     -> HardToForge(asked[2])
    [] asked[1] = "symbols" -> SymbolsAreUniform(asked[2])
    [] asked[1] = "cipher"  -> CipherHides(asked[2])
    [] asked[1] = "parts"   -> DividedOnce(asked[2], asked[3])
    [] asked[1] = "sources" -> OneGoodSourceIsEnough(asked[2], asked[3])
    [] asked[1] = "frame"   -> FramesCarry(asked[2], asked[3])
    [] asked[1] = "meters"  -> MetersAreTrue(asked[2], asked[3], asked[4], asked[5])
    [] asked[1] = "compact" -> CompactSpelledOneWay(asked[2], SomeBytes)
    [] asked[1] = "number"  -> NumbersSpelledOneWay(asked[2])
    [] asked[1] = "line"    -> LinesSpelledOneWay(AnEnvelope, asked[2])
    [] asked[1] = "request" -> RequestSpelledOneWay(asked[2], SomeBytes)
    [] asked[1] = "package" -> PackageSpelledOneWay(asked[2], SomeBytes)
=============================================================================
