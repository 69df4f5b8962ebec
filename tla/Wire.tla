-------------------------------- MODULE Wire --------------------------------
(***************************************************************************)
(* The wire format: the writer and the strict reader of satusd-rail        *)
(* encode.rs and the messages of the oracle built with them                *)
(* (satusd-oracle tlv.rs).  Bytes are the numbers below Byte, 256 in the   *)
(* code: widths are those of the code, so that a u16 is two bytes and a    *)
(* length is one, three, five or nine, while keys and signatures are       *)
(* shortened to KeyLen and SigLen bytes.                                   *)
(***************************************************************************)
EXTENDS Integers, SequencesExt

CONSTANTS Byte,                 \* 256
          KeyLen, SigLen,       \* 32 and 64
          TypeEvent, TypeAnnouncement, TypeAttestation, TypeDescriptor

ASSUME WireAssumption ==
    /\ Byte \in Nat /\ Byte >= 8
    /\ {KeyLen, SigLen} \subseteq Nat \ {0}
    /\ {TypeEvent, TypeAnnouncement, TypeAttestation, TypeDescriptor} \subseteq Nat
    /\ Cardinality({TypeEvent, TypeAnnouncement, TypeAttestation, TypeDescriptor}) = 4

(***************************************************************************)
(* Writing.                                                                *)
(***************************************************************************)
(* Byte ^ k, what the byte with k bytes after it counts.                   *)
Weight[k \in 0..8] == IF k = 0 THEN 1 ELSE Byte * Weight[k - 1]

(* A number of that many bytes; a negative one in two's complement.        *)
BigEndian(v, width) == [i \in 1..width |-> (v \div Weight[width - i]) % Byte]

U8(v) == BigEndian(v, 1)
U16(v) == BigEndian(v, 2)
U32(v) == BigEndian(v, 4)
U64(v) == BigEndian(v, 8)

(* The prefixes 253, 254 and 255 announce two, four and eight bytes.       *)
Prefix(width) == Byte - (CASE width = 2 -> 3 [] width = 4 -> 2 [] width = 8 -> 1)
Least(width) == CASE width = 2 -> Byte - 3 [] width = 4 -> Weight[2] [] width = 8 -> Weight[4]

BigSize(v) ==
    CASE v < Least(2) -> U8(v)
      [] v \in Least(2)..Least(4) - 1 -> <<Prefix(2)>> \o U16(v)
      [] v \in Least(4)..Least(8) - 1 -> <<Prefix(4)>> \o U32(v)
      [] v >= Least(8) -> <<Prefix(8)>> \o U64(v)

VarBytes(s) == BigSize(Len(s)) \o s

(* As many as are announced, one after the other.                          *)
Joined(items) == FlattenSeq(items)

(***************************************************************************)
(* Reading.  A reader returns <<what was read, the bytes after it>>, or    *)
(* the empty sequence when it refuses.                                     *)
(***************************************************************************)
Refused == <<>>

(* Bound of a run: what is read beyond six bytes' worth stays there, more  *)
(* than any type, and any length of what there is to take.                 *)
Number(s) == FoldLeft(LAMBDA acc, b : IF acc >= Weight[6] THEN acc ELSE acc * Byte + b, 0, s)

Take(s, n) == IF Len(s) < n THEN Refused ELSE <<SubSeq(s, 1, n), SubSeq(s, n + 1, Len(s))>>

(* Go on with what was read and the bytes after it.                        *)
Then(read, Go(_, _)) == IF read = Refused THEN Refused ELSE Go(read[1], read[2])

ReadNumber(s, width) == Then(Take(s, width), LAMBDA bytes, rest : <<Number(bytes), rest>>)

(* Mutant of ReadBigSize: a longer form than needed is accepted.           *)
ReadBigSizeLoose(s) ==
    Then(ReadNumber(s, 1), LAMBDA first, rest :
        IF first < Least(2) THEN <<first, rest>>
        ELSE ReadNumber(rest, CHOOSE w \in {2, 4, 8} : Prefix(w) = first))

ReadWide(s, width) ==
    Then(ReadNumber(s, width), LAMBDA v, rest : IF v < Least(width) THEN Refused ELSE <<v, rest>>)

ReadBigSize(s) ==
    Then(ReadNumber(s, 1), LAMBDA first, rest :
        IF first < Least(2) THEN <<first, rest>>
        ELSE ReadWide(rest, CHOOSE w \in {2, 4, 8} : Prefix(w) = first))

ReadVarBytes(s) == Then(ReadBigSize(s), LAMBDA n, rest : Take(rest, n))

(* Half of the bytes stand for those that are no text.                     *)
Text(s) == \A i \in DOMAIN s : s[i] < Byte \div 2
ReadString(s) ==
    Then(ReadVarBytes(s), LAMBDA v, rest : IF Text(v) THEN <<v, rest>> ELSE Refused)

(* Read(s) n times; each takes a byte at least.                            *)
ReadMany(s, n, Read(_)) ==
    LET step(acc, i) ==
            IF acc = Refused THEN Refused
            ELSE LET v == Read(acc[2])
                 IN IF v = Refused THEN Refused ELSE <<Append(acc[1], v[1]), v[2]>>
    IN IF n > Len(s) THEN Refused ELSE FoldLeft(step, <<<<>>, s>>, [i \in 1..n |-> i])

(* The value of a TLV of that type, and nothing after it.                  *)
Tlv(type, value) == BigSize(type) \o VarBytes(value)
ReadTlv(s, type) ==
    Then(ReadBigSize(s), LAMBDA t, rest : IF t = type THEN ReadVarBytes(rest) ELSE Refused)

(* What was read, when there is nothing after it.                          *)
Whole(read) == Then(read, LAMBDA v, rest : IF rest = <<>> THEN <<v, rest>> ELSE Refused)

(***************************************************************************)
(* The oracle's attestation.                                               *)
(***************************************************************************)
OracleAttestation(a) ==
    Tlv(TypeAttestation,
        VarBytes(a.event) \o a.key \o U16(Len(a.sigs)) \o Joined(a.sigs)
            \o Joined([i \in DOMAIN a.outcomes |-> VarBytes(a.outcomes[i])]))

ParseAttestationValue(s) ==
    Then(ReadString(s), LAMBDA event, s1 :
    Then(Take(s1, KeyLen), LAMBDA key, s2 :
    Then(ReadNumber(s2, 2), LAMBDA count, s3 :
    Then(ReadMany(s3, count, LAMBDA r : Take(r, SigLen)), LAMBDA sigs, s4 :
    Then(Whole(ReadMany(s4, count, ReadString)), LAMBDA outcomes, end :
        <<[event |-> event, key |-> key, sigs |-> sigs, outcomes |-> outcomes]>>)))))

ParseAttestation(s) ==
    Then(Whole(ReadTlv(s, TypeAttestation)), LAMBDA v, end : ParseAttestationValue(v))

(***************************************************************************)
(* The oracle's announcement.                                              *)
(***************************************************************************)
DigitDescriptor(d) ==
    Tlv(TypeDescriptor, U16(d.base) \o U8(IF d.signed THEN 1 ELSE 0) \o VarBytes(d.unit)
                            \o U32(d.precision) \o U16(d.digits))

OracleEvent(a) ==
    Tlv(TypeEvent, U16(Len(a.nonces)) \o Joined(a.nonces) \o U32(a.maturity)
                       \o DigitDescriptor(a.descriptor) \o VarBytes(a.event))

OracleAnnouncement(a) == Tlv(TypeAnnouncement, a.sig \o a.key \o OracleEvent(a))

(* The descriptor is skipped, whatever it holds.                           *)
ParseEvent(s) ==
    Then(ReadNumber(s, 2), LAMBDA count, s1 :
    Then(ReadMany(s1, count, LAMBDA r : Take(r, KeyLen)), LAMBDA nonces, s2 :
    Then(ReadNumber(s2, 4), LAMBDA maturity, s3 :
    Then(ReadTlv(s3, TypeDescriptor), LAMBDA skipped, s4 :
    Then(Whole(ReadString(s4)), LAMBDA event, end :
        <<[nonces |-> nonces, maturity |-> maturity, event |-> event]>>)))))

ParseAnnouncement(s) ==
    Then(Whole(ReadTlv(s, TypeAnnouncement)), LAMBDA v, end :
    Then(Take(v, SigLen), LAMBDA sig, s1 :
    Then(Take(s1, KeyLen), LAMBDA key, s2 :
    Then(Whole(ReadTlv(s2, TypeEvent)), LAMBDA inner, none :
        LET event == ParseEvent(inner)
        IN IF event = Refused THEN Refused
           ELSE <<[sig |-> sig, key |-> key] @@ event[1]>>))))
=============================================================================
