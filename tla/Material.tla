------------------------------ MODULE Material ------------------------------
(***************************************************************************)
(* What becomes of key material and of the bytes of a message: sampling,   *)
(* combining and dividing sources, the fixed-size frame, the two           *)
(* combiners, and the meters (src/core/pad.ts, partition2.ts, frame2.ts,   *)
(* cipher-otp.ts; meters of src/cli/v2/truepad2.ts).                       *)
(*                                                                         *)
(* Byte strings are sequences. Where a byte is only moved or combined by   *)
(* exclusive or it has one bit; the symbols of a v1 pad have their range.  *)
(***************************************************************************)
EXTENDS FileStates, Naturals, SequencesExt

KeyBytes == 2                      \* 16 in the code; so is the mask
AuthRecordBytes == 2 * KeyBytes
LengthPrefixBytes == 4
LetterRange == 26
ByteRange == 256

(* uniformInt: which byte gives which symbol; None where it is redrawn.    *)
(* Mutant: every byte is folded into the range.                            *)
SymbolFolded(range, byte) == byte % range
SymbolOf(range, byte) ==
  IF byte < ByteRange - (ByteRange % range) THEN byte % range ELSE None

(* encryptLetters, decryptLetters; with range 2 one bit of encryptBytes.   *)
Encrypted(range, plain, key) == (plain + key) % range
Decrypted(range, cipher, key) == (cipher + range - key) % range
----------------------------------------------------------------------------
RequiredSourceLength(capacity, records) == 2 * (capacity + AuthRecordBytes * records)

(* Byte p of the sources, combined one source after another.               *)
CombinedAt(sources, p) ==
  LET upTo[i \in 0 .. Len(sources)] ==
        IF i = 0 THEN 0 ELSE (upTo[i - 1] + sources[i][p]) % 2
  IN upTo

CombineSources(sources, length) ==
  IF sources = <<>> \/ \E i \in DOMAIN sources : Len(sources[i]) < length THEN None
  ELSE [p \in 1 .. length |-> CombinedAt(sources, p)[Len(sources)]]

(* Mutant: the second direction starts right after the first one's         *)
(* encryption slice.                                                       *)
PartitionOverlapping(combined, capacity, records) ==
  LET auth == AuthRecordBytes * records
      take(from, count) == SubSeq(combined, from + 1, from + count)
  IN IF Len(combined) # RequiredSourceLength(capacity, records) THEN None
     ELSE [abEnc |-> take(0, capacity), abAuth |-> take(capacity, auth),
           baEnc |-> take(capacity, capacity), baAuth |-> take(2 * capacity, auth)]

Partition(combined, capacity, records) ==
  LET auth == AuthRecordBytes * records
      take(from, count) == SubSeq(combined, from + 1, from + count)
  IN IF Len(combined) # RequiredSourceLength(capacity, records) THEN None
     ELSE [abEnc |-> take(0, capacity), abAuth |-> take(capacity, auth),
           baEnc |-> take(capacity + auth, capacity), baAuth |-> take(2 * capacity + auth, auth)]

AuthRecordAt(slice, sequence) ==
  LET start == sequence * AuthRecordBytes
  IN IF start + AuthRecordBytes > Len(slice) THEN None
     ELSE [key |-> SubSeq(slice, start + 1, start + KeyBytes),
           mask |-> SubSeq(slice, start + KeyBytes + 1, start + AuthRecordBytes)]
----------------------------------------------------------------------------
(* setUint32, getUint32, little end first.                                 *)
Prefix(n) == <<n % 2, (n \div 2) % 2, (n \div 4) % 2, (n \div 8) % 2>>
Declared(frame) == frame[1] + 2 * frame[2] + 4 * frame[3] + 8 * frame[4]

BuildFrame(plain, size) ==
  IF size < LengthPrefixBytes \/ Len(plain) > size - LengthPrefixBytes THEN None
  ELSE Prefix(Len(plain)) \o plain \o [i \in 1 .. size - LengthPrefixBytes - Len(plain) |-> 0]

(* Mutant: a length that runs past the end is cut to what there is.        *)
ParseFrameCut(frame) ==
  IF Len(frame) < LengthPrefixBytes THEN None
  ELSE LET n == IF Declared(frame) > Len(frame) - LengthPrefixBytes
                THEN Len(frame) - LengthPrefixBytes ELSE Declared(frame)
       IN SubSeq(frame, LengthPrefixBytes + 1, LengthPrefixBytes + n)

ParseFrame(frame) ==
  IF Len(frame) < LengthPrefixBytes \/ Declared(frame) > Len(frame) - LengthPrefixBytes
  THEN None
  ELSE SubSeq(frame, LengthPrefixBytes + 1, LengthPrefixBytes + Declared(frame))
----------------------------------------------------------------------------
(* The meters of a half that has so many bytes and records left. fixed is  *)
(* the size of its frames, 0 when they vary up to most.                    *)
AffordableByBytes(bytes, records, fixed) == IF fixed > 0 THEN bytes \div fixed ELSE records

(* Mutant: what it was before frames: records alone.                       *)
SendsByRecords(bytes, records, fixed) == records

MaxRemainingSends(bytes, records, fixed) ==
  LET n == AffordableByBytes(bytes, records, fixed) IN IF records < n THEN records ELSE n

LimitedBy(bytes, records, fixed, most) ==
  IF records <= IF fixed > 0 THEN AffordableByBytes(bytes, records, fixed)
                ELSE (bytes + most - 1) \div most
  THEN "AUTHENTICATION" ELSE "ENCRYPTION"
----------------------------------------------------------------------------
(* A sampled symbol is uniform: every symbol comes of equally many bytes.  *)
SymbolsAreUniform(range) ==
  \A s \in 1 .. range - 1 :
    Cardinality({b \in 0 .. ByteRange - 1 : SymbolOf(range, b) = s})
      = Cardinality({b \in 0 .. ByteRange - 1 : SymbolOf(range, b) = 0})

(* What is encrypted with a symbol is recovered with it and, over all      *)
(* symbols, may have been anything.                                        *)
CipherHides(range) ==
  \A plain, cipher \in 0 .. range - 1 :
    \E key \in 0 .. range - 1 :
      /\ \A other \in 0 .. range - 1 : Encrypted(range, plain, other) = cipher <=> other = key
      /\ Decrypted(range, cipher, key) = plain

(* Every byte of the material gets to one place: an encryption slice, or a *)
(* key or a mask of one record of one direction. There are no more records.*)
DividedOnce(capacity, records) ==
  LET length == RequiredSourceLength(capacity, records)
      parts == Partition([p \in 1 .. length |-> p], capacity, records)
      places == ({"abEnc", "baEnc"} \X {0} \X (1 .. capacity))
                  \cup ({"abAuth", "baAuth"} \X (0 .. records - 1) \X (1 .. AuthRecordBytes))
      byteAt(place) ==
        IF place[1] \in {"abEnc", "baEnc"} THEN parts[place[1]][place[3]]
        ELSE LET r == AuthRecordAt(parts[place[1]], place[2]) IN (r.key \o r.mask)[place[3]]
  IN /\ \A x, y \in places : byteAt(x) = byteAt(y) => x = y
     /\ {byteAt(x) : x \in places} = 1 .. length
     /\ Len(parts.abEnc) = capacity /\ Len(parts.baEnc) = capacity
     /\ AuthRecordAt(parts.abAuth, records) = None /\ AuthRecordAt(parts.baAuth, records) = None

(* Whatever the other sources are, every byte string can come out of the   *)
(* one that is uniform, of one value of it; what a source has too much is  *)
(* not used, and one that is too short is refused.                         *)
OneGoodSourceIsEnough(sources, length) ==
  LET combined == CombineSources(sources, length)
  IN IF combined = None
     THEN sources = <<>> \/ \E i \in DOMAIN sources : Len(sources[i]) < length
     ELSE \A i \in DOMAIN sources :
            /\ CombineSources(ReplaceAt(sources, i, combined), length) = SubSeq(sources[i], 1, length)
            /\ CombineSources(ReplaceAt(sources, i, Append(sources[i], 1)), length) = combined

(* A frame has its size and gives back its message. With any one bit       *)
(* changed it is refused just when the length it declares runs past its    *)
(* end, which no sender writes; the padding is not looked at.              *)
FramesCarry(plain, size) ==
  LET frame == BuildFrame(plain, size)
  IN IF frame = None THEN Len(plain) + LengthPrefixBytes > size
     ELSE /\ Len(frame) = size /\ ParseFrame(frame) = plain
          /\ \A i \in DOMAIN frame :
               LET other == [frame EXCEPT ![i] = 1 - @]
                   read == ParseFrame(other)
               IN read = None <=> Declared(other) + LengthPrefixBytes > size

(* The meter shows the longest run of sends burn accepts when each costs   *)
(* the least: a frame, or nothing where they vary. Records are short when  *)
(* sends of the largest size do not exhaust the bytes before the records.  *)
MetersAreTrue(bytes, records, fixed, most) ==
  /\ MaxRemainingSends(bytes, records, fixed)
       = CHOOSE n \in 0 .. records : n * fixed <= bytes /\ (n = records \/ (n + 1) * fixed > bytes)
  /\ LimitedBy(bytes, records, fixed, most) = "AUTHENTICATION"
       <=> \A n \in 0 .. records - 1 : IF fixed > 0 THEN (n + 1) * fixed <= bytes ELSE n * most < bytes
=============================================================================
