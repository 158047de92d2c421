-------------------------------- MODULE Wire --------------------------------
(***************************************************************************)
(* The spellings of what travels: Envelope v2 as a line of JSON and as a   *)
(* compact text, the receive request and the sealed package                *)
(* (src/core/envelope2.ts, compact-envelope2.ts, src/spt/bytes.ts,         *)
(* receive-request.ts, sealed-package.ts).                                 *)
(*                                                                         *)
(* Bytes are 0 .. 255 and base64url characters 0 .. 63, with 64 for any    *)
(* other. Not part of a text here are the two prefixes, and white space    *)
(* around a text, which is trimmed before anything is read                 *)
(* (compact-envelope2.ts:200, receive-request.ts:149). The sizes of fields,*)
(* and of the largest number, are small.                                   *)
(***************************************************************************)
EXTENDS FileStates, Naturals, SequencesExt

PairIdBytes == 1
TagBytes == 1
MaxCiphertextBytes == 2
MaxSafeInteger == 20000   \* 2^53 - 1 in the code
UlebGroups == 3           \* 10: a varint of 64 bits
CompactRoom == 14         \* 64: the fields before and after a ciphertext

NoSuch == 64
Refusal(reason) == [ok |-> FALSE, reason |-> reason]
Accepted(x) == [ok |-> TRUE, as |-> x]
Malformed == Refusal("malformed-envelope")
----------------------------------------------------------------------------
(* Unpadded base64url; the last group may be short.                        *)
CeilDiv(n, d) == (n + d - 1) \div d

ToBase64Url(bytes) ==
  LET byte(i) == IF i <= Len(bytes) THEN bytes[i] ELSE 0
  IN [k \in 1 .. Len(bytes) + CeilDiv(Len(bytes), 3) |->
       LET i == 3 * ((k - 1) \div 4) + 1
       IN CASE k % 4 = 1 -> byte(i) \div 4
            [] k % 4 = 2 -> (byte(i) % 4) * 16 + (byte(i + 1) \div 16)
            [] k % 4 = 3 -> (byte(i + 1) % 16) * 4 + (byte(i + 2) \div 64)
            [] OTHER     -> byte(i + 2) % 64]

FromBase64Url(text) ==
  IF Len(text) % 4 = 1 \/ NoSuch \in ToSet(text) THEN None
  ELSE [j \in 1 .. Len(text) - CeilDiv(Len(text), 4) |->
         LET k == 4 * ((j - 1) \div 3) + 1
         IN CASE j % 3 = 1 -> text[k] * 4 + (text[k + 1] \div 16)
              [] j % 3 = 2 -> (text[k + 1] % 16) * 16 + (text[k + 2] \div 4)
              [] OTHER     -> (text[k + 2] % 4) * 64 + text[k + 3]]

(* Mutant: the text is not compared with the spelling of its bytes.        *)
BytesOfAnyText(text) == FromBase64Url(text)

(* Decoded and spelled again: one text for the bytes.                      *)
BytesOfText(text) ==
  LET bytes == FromBase64Url(text)
  IN IF bytes = None THEN None ELSE IF ToBase64Url(bytes) # text THEN None ELSE bytes
----------------------------------------------------------------------------
(* Seven bits at a time, the least first; 128 says that more follow.       *)
WriteUleb128(value) ==
  LET groups[v \in 0 .. value] ==
        IF v < 128 THEN <<v>> ELSE <<(v % 128) + 128>> \o groups[v \div 128]
  IN groups[value]

ValueOf(groups) ==
  LET last[k \in 0 .. Len(groups)] ==
        IF k = 0 THEN 0 ELSE (groups[Len(groups) + 1 - k] % 128) + 128 * last[k - 1]
  IN last[Len(groups)]

(* The groups from a place on up to the first that does not go on.         *)
UlebAt(bytes, at) ==
  LET ends == {i \in at .. at + UlebGroups - 1 : i <= Len(bytes) /\ bytes[i] < 128}
  IN IF ends = {} THEN <<>>
     ELSE SubSeq(bytes, at, CHOOSE i \in ends : \A j \in ends : i <= j)

(* Mutant: a last group that carries nothing is let pass.                  *)
ReadUlebLoose(bytes, at) ==
  LET groups == UlebAt(bytes, at)
  IN IF groups = <<>> THEN None
     ELSE IF ValueOf(groups) > MaxSafeInteger THEN None
     ELSE [value |-> ValueOf(groups), next |-> at + Len(groups)]

ReadUleb128(bytes, at) ==
  LET groups == UlebAt(bytes, at)
  IN IF groups = <<>> THEN None
     ELSE IF Len(groups) > 1 /\ Last(groups) = 0 THEN None
     ELSE IF ValueOf(groups) > MaxSafeInteger THEN None
     ELSE [value |-> ValueOf(groups), next |-> at + Len(groups)]
----------------------------------------------------------------------------
MaxCompactChars == CeilDiv((MaxCiphertextBytes + CompactRoom) * 4, 3)

EncodeCompactEnvelope2(e) ==
  ToBase64Url(<<1, 2>> \o e.pairId \o <<e.direction>>
    \o WriteUleb128(e.sequence) \o WriteUleb128(e.startOffset)
    \o WriteUleb128(Len(e.ciphertext)) \o e.ciphertext \o e.tag)

DecodeCompactBytes(b) ==
  LET first == PairIdBytes + 4
      sequence == ReadUleb128(b, first)
      startOffset == ReadUleb128(b, sequence.next)
      length == ReadUleb128(b, startOffset.next)
      from == length.next
  IN IF Len(b) < 2 THEN Malformed
     ELSE IF b[1] # 1 THEN Malformed
     ELSE IF b[2] # 2 THEN IF b[2] = 1 THEN Refusal("envelope-v1") ELSE Malformed
     ELSE IF Len(b) < first - 1 THEN Malformed
     ELSE IF b[first - 1] \notin {0, 1} \/ sequence = None THEN Malformed
     ELSE IF startOffset = None THEN Malformed
     ELSE IF length = None THEN Malformed
     ELSE IF length.value > MaxCiphertextBytes THEN Refusal("oversize-ciphertext")
     ELSE IF Len(b) - from + 1 # length.value + TagBytes THEN Malformed
     ELSE Accepted([pairId |-> SubSeq(b, 3, first - 2), direction |-> b[first - 1],
                    sequence |-> sequence.value, startOffset |-> startOffset.value,
                    ciphertext |-> SubSeq(b, from, from + length.value - 1),
                    tag |-> SubSeq(b, from + length.value, Len(b))])

DecodeCompactEnvelope2(text) ==
  IF text = <<>> \/ Len(text) > MaxCompactChars THEN Malformed
  ELSE LET b == BytesOfText(text) IN IF b = None THEN Malformed ELSE DecodeCompactBytes(b)
----------------------------------------------------------------------------
(* A line of JSON is the sequence of its members: a name, whether it is    *)
(* written without escapes, the kind and the value (-1: outside the        *)
(* domain of that name; a ciphertext is its length), and whether the value *)
(* has its one spelling: no escapes, or plain decimal digits.              *)
Counters == {"sequence", "startOffset", "ciphertextLength"}
Texts == {"pairId", "direction", "ciphertext", "tag"}
WireKeys == <<"formatVersion", "pairId", "direction", "sequence", "startOffset",
              "ciphertextLength", "ciphertext", "tag">>
KindOf(name) == IF name \in Texts \cup {"label"} THEN "string" ELSE "number"
Member(name, value) ==
  [name |-> name, literal |-> TRUE, kind |-> KindOf(name), value |-> value, plain |-> TRUE]

EncodeEnvelope2(e) ==
  [i \in DOMAIN WireKeys |->
    Member(WireKeys[i], IF WireKeys[i] = "formatVersion" THEN 2 ELSE e[WireKeys[i]])]

KeysOf(line) == {line[i].name : i \in DOMAIN line}

(* JSON.parse: of two members of one name the later counts.                *)
Parsed(line, name) ==
  line[CHOOSE i \in DOMAIN line :
         line[i].name = name /\ \A j \in DOMAIN line : line[j].name = name => j <= i]

InDomain(line) ==
  \A name \in ToSet(WireKeys) :
    LET m == Parsed(line, name)
    IN m.kind = KindOf(name) /\ m.value >= 0 /\ (name = "formatVersion" => m.value = 2)

(* Mutant: the lexical scan looks at the names only.                       *)
OneSpellingNamesOnly(line) ==
  /\ \A i \in DOMAIN line : line[i].literal
  /\ \A i, j \in DOMAIN line : line[i].name = line[j].name => i = j

(* The scan of the raw text, which JSON.parse hides: names without         *)
(* escapes, none twice, strings without escapes, numbers as digits.        *)
OneSpelling(line) ==
  /\ \A i \in DOMAIN line : line[i].literal
  /\ \A i, j \in DOMAIN line : line[i].name = line[j].name => i = j
  /\ \A i \in DOMAIN line :
       line[i].kind = "string" \/ line[i].name \in Counters \cup {"formatVersion"} => line[i].plain

DecodeEnvelope2(line) ==
  LET is(name) == Parsed(line, name).value
  IN IF "label" \in KeysOf(line) /\ "formatVersion" \notin KeysOf(line) THEN Refusal("envelope-v1")
     ELSE IF ~OneSpelling(line) \/ KeysOf(line) # ToSet(WireKeys) THEN Malformed
     ELSE IF ~InDomain(line) THEN Malformed
     ELSE IF is("ciphertextLength") > MaxCiphertextBytes THEN Refusal("oversize-ciphertext")
     ELSE IF is("ciphertext") # is("ciphertextLength") THEN Malformed
     ELSE Accepted([name \in Counters \cup Texts |-> is(name)])
----------------------------------------------------------------------------
(* The receive request and the sealed package, with fields of small sizes. *)
RequestIdBytes == 1
PublicKeyBytes == 4
RequestBodyBytes == 3 + RequestIdBytes + PublicKeyBytes
RequestTextChars == CeilDiv(RequestBodyBytes * 4, 3)

BigEndian(n) == <<(n \div 256) % 256, n % 256>>
FromBigEndian(bytes) == bytes[1] * 256 + bytes[2]

EncodeReceiveRequest(r) == ToBase64Url(<<1>> \o BigEndian(1) \o r.requestId \o r.key)

ParseRequestBody(body) ==
  IF Len(body) # RequestBodyBytes THEN Refusal("wrong-body-length")
  ELSE IF body[1] # 1 THEN Refusal("unsupported-version")
  ELSE IF FromBigEndian(SubSeq(body, 2, 3)) # 1 THEN Refusal("unsupported-suite")
  ELSE Accepted([requestId |-> SubSeq(body, 4, 3 + RequestIdBytes),
                 key |-> SubSeq(body, 4 + RequestIdBytes, RequestBodyBytes)])

DecodeReceiveRequest(text) ==
  IF NoSuch \in ToSet(text) THEN Refusal("not-base64url")
  ELSE IF Len(text) # RequestTextChars THEN Refusal("wrong-body-length")
  ELSE LET body == BytesOfText(text)
       IN IF body = None THEN Refusal("noncanonical-base64url") ELSE ParseRequestBody(body)

Magic == <<84, 80>>
LengthBytes == 2
HeaderFieldsBytes == 3            \* the request's id and hash, the KEM part and the nonce
HeaderBytes == Len(Magic) + 3 + HeaderFieldsBytes + LengthBytes
MaxPlaintextBytes == 2

BuildPackage(p) ==
  Magic \o <<1>> \o BigEndian(1) \o p.fields \o BigEndian(Len(p.ciphertext))
    \o p.ciphertext \o p.tag

(* Mutant: what follows the tag is passed over.                            *)
LengthFits(bytes, length) == Len(bytes) >= HeaderBytes + length + TagBytes
LengthAgrees(bytes, length) == Len(bytes) = HeaderBytes + length + TagBytes

ParseSealedPackage(bytes) ==
  LET fields == Len(Magic) + 3
      length == FromBigEndian(SubSeq(bytes, HeaderBytes - LengthBytes + 1, HeaderBytes))
  IN IF Len(bytes) < HeaderBytes + TagBytes THEN Refusal("too-short")
     ELSE IF SubSeq(bytes, 1, Len(Magic)) # Magic THEN Refusal("wrong-magic")
     ELSE IF bytes[Len(Magic) + 1] # 1 THEN Refusal("unsupported-version")
     ELSE IF FromBigEndian(SubSeq(bytes, Len(Magic) + 2, fields)) # 1 THEN Refusal("unsupported-suite")
     ELSE IF length > MaxPlaintextBytes THEN Refusal("declared-length-too-large")
     ELSE IF ~LengthAgrees(bytes, length) THEN Refusal("length-mismatch")
     ELSE Accepted([fields |-> SubSeq(bytes, fields + 1, fields + HeaderFieldsBytes),
                    ciphertext |-> SubSeq(bytes, HeaderBytes + 1, HeaderBytes + length),
                    tag |-> SubSeq(bytes, HeaderBytes + length + 1, HeaderBytes + length + TagBytes)])
----------------------------------------------------------------------------
(* What differs from a spelling in one place.                              *)
Neighbours(s, values) ==
  {ReplaceAt(s, i, v) : i \in DOMAIN s, v \in values}
    \cup {InsertAt(s, i, v) : i \in 1 .. Len(s) + 1, v \in values}
    \cup {RemoveAt(s, i) : i \in DOMAIN s}

(* A message and its spelling determine each other: it is read back, and   *)
(* of the spellings next to it none but its own is read as any message.    *)
SpelledOneWay(x, Encode(_), Decode(_), near) ==
  /\ Decode(Encode(x)) = Accepted(x)
  /\ \A text \in near :
       LET read == Decode(text) IN read.ok => Encode(read.as) = text

CompactSpelledOneWay(e, bytes) ==
  LET text == EncodeCompactEnvelope2(e)
      plain == FromBase64Url(text)
  IN SpelledOneWay(e, EncodeCompactEnvelope2, DecodeCompactEnvelope2,
       {ToBase64Url(b) : b \in Neighbours(plain, bytes)} \cup Neighbours(text, 0 .. NoSuch))

(* The bytes that are read as a number are the ones written for it.        *)
NumbersSpelledOneWay(bytes) ==
  LET read == ReadUleb128(bytes, 1)
  IN read # None => WriteUleb128(read.value) = SubSeq(bytes, 1, read.next - 1)

(* A line that is accepted is the encoder's, up to the order of members.   *)
LinesSpelledOneWay(e, line) ==
  /\ DecodeEnvelope2(EncodeEnvelope2(e)) = Accepted(e)
  /\ LET read == DecodeEnvelope2(line)
     IN read.ok => /\ Len(line) = Len(WireKeys)
                   /\ ToSet(line) = ToSet(EncodeEnvelope2(read.as))

RequestSpelledOneWay(r, values) ==
  SpelledOneWay(r, EncodeReceiveRequest, DecodeReceiveRequest,
    Neighbours(EncodeReceiveRequest(r), 0 .. NoSuch)
      \cup {ToBase64Url(b) : b \in Neighbours(FromBase64Url(EncodeReceiveRequest(r)), values)})

PackageSpelledOneWay(p, values) ==
  SpelledOneWay(p, BuildPackage, ParseSealedPackage, Neighbours(BuildPackage(p), values))
=============================================================================
