-------------------------------- MODULE Asn1 --------------------------------
(***************************************************************************)
(* asn1.c: the BER items that the SNMP client and the trap listener read   *)
(* and write.                                                              *)
(*                                                                         *)
(* Octets are numbers 0..255 and a buffer is a sequence of them.  Values   *)
(* of 32 bits are sequences of four octets, because TLC's integers are     *)
(* signed words themselves.  The arcs of an object identifier are numbers  *)
(* up to ARC_MAX, coded in at most ARC_BYTES groups of seven bits: 2^32-1  *)
(* and 5 in the code, a smaller word of the same shape in the runs.        *)
(* A decoder returns the value and the place behind it, or Reject.         *)
(***************************************************************************)
EXTENDS Integers, Sequences, SequencesExt

CONSTANTS Octets, Arcs,       \* the octets and arcs the buffers are made of
          MaxOctets, MaxArcs,
          ARC_MAX, ARC_BYTES, OID_CAP

ASSUME ArcWord == ARC_MAX >= 2^7 /\ 2^(7 * ARC_BYTES) > ARC_MAX

VARIABLES octets, arcs

INTEGER == 2
OCTET_STRING == 4
OBJECT_ID == 6
IPADDRESS == 64
COUNTER32 == 65

Reject == [ok |-> FALSE, val |-> <<>>, next |-> 0]
Accept(v, i) == [ok |-> TRUE, val |-> v, next |-> i]
High(b) == b >= 128
Bytes(s, i, n) == SubSeq(s, i, i + n - 1)

\* n octets from place i lie within the buffer
ASN_FITS(s, i, n) == i + n - 1 <= Len(s)

RECURSIVE BigEndian(_)
BigEndian(s) == IF s = <<>> THEN 0 ELSE 256 * BigEndian(Front(s)) + Last(s)

\* A word of four octets from the fewest that were sent, with its sign or with zeroes
Word(s, sign) == [k \in 1..4 - Len(s) |-> sign] \o s

(***************************************************************************)
(* Decoders.                                                               *)
(***************************************************************************)
DecodeLengthLax(s, i) ==                       \* mutant: a long form of a short length
    IF ~ASN_FITS(s, i, 1) THEN Reject
    ELSE IF s[i] < 128 THEN Accept(s[i], i + 1)
    ELSE LET num == s[i] - 128 IN
         IF num \notin 1..8 \/ ~ASN_FITS(s, i + 1, num) THEN Reject
         ELSE Accept(BigEndian(Bytes(s, i + 1, num)), i + 1 + num)

asn1_decode_length(s, i) ==
    IF ~ASN_FITS(s, i, 1) THEN Reject
    ELSE IF s[i] < 128 THEN Accept(s[i], i + 1)
    ELSE LET num == s[i] - 128 IN
         IF num \notin 1..8 \/ ~ASN_FITS(s, i + 1, num) \/ (num > 1 /\ s[i + 1] = 0) THEN Reject
         ELSE LET n == BigEndian(Bytes(s, i + 1, num))
              IN IF n < 128 THEN Reject ELSE Accept(n, i + 1 + num)

\* The contents of an item with the given tag and an admitted length
Contents(s, tag, lengths) ==
    IF ~ASN_FITS(s, 1, 1) \/ (Len(s) > 0 /\ s[1] # tag) THEN Reject
    ELSE LET l == asn1_decode_length(s, 2)
         IN IF ~l.ok \/ l.val \notin lengths \/ ~ASN_FITS(s, l.next, l.val) THEN Reject
            ELSE Accept(Bytes(s, l.next, l.val), l.next + l.val)

asn1_decode_integer(s) ==
    LET c == Contents(s, INTEGER, 1..4) IN
    IF ~c.ok THEN Reject
    ELSE IF Len(c.val) > 1 /\ (\/ c.val[1] = 0 /\ ~High(c.val[2])
                               \/ c.val[1] = 255 /\ High(c.val[2])) THEN Reject
    ELSE Accept(Word(c.val, IF High(c.val[1]) THEN 255 ELSE 0), c.next)

asn1_decode_unsigned(s) ==
    LET c == Contents(s, COUNTER32, 1..5) IN
    IF ~c.ok THEN Reject
    ELSE IF Len(c.val) > 1 /\ c.val[1] = 0
         THEN IF High(c.val[2]) THEN Accept(Word(Tail(c.val), 0), c.next) ELSE Reject
    ELSE IF Len(c.val) = 5 THEN Reject
    ELSE Accept(Word(c.val, 0), c.next)

asn1_decode_ip(s) == Contents(s, IPADDRESS, {4})

\* A string longer than its buffer of max octets is cut, and the place is behind all of it
asn1_decode_string(s, max) ==
    LET c == Contents(s, OCTET_STRING, Nat) IN
    IF ~c.ok THEN Reject
    ELSE Accept(SubSeq(c.val, 1, IF Len(c.val) < max - 1 THEN Len(c.val) ELSE max - 1), c.next)

\* The arcs of s from place i, val being the bits of the current one so far, n its octets
RECURSIVE ArcsFrom(_, _, _, _, _)
ArcsFrom(s, i, val, n, out) ==
    IF i > Len(s) \/ Len(out) = OID_CAP
    THEN IF i <= Len(s) \/ n # 0 THEN Reject ELSE Accept(out, i)
    ELSE IF n + 1 > ARC_BYTES \/ val > ARC_MAX \div 128 THEN Reject
    ELSE LET v == 128 * val + (s[i] % 128)
         IN IF High(s[i]) THEN ArcsFrom(s, i + 1, v, n + 1, out)
            ELSE ArcsFrom(s, i + 1, 0, 0, Append(out, v))

\* The first number holds two arcs
Split(first) ==
    CASE first < 40 -> <<0, first>> [] first \in 40..79 -> <<1, first - 40>>
      [] OTHER -> <<2, first - 80>>

RECURSIVE FirstVal(_, _, _)
FirstVal(s, i, val) ==
    CASE i > Len(s) -> Reject
      [] i <= Len(s) /\ High(s[i]) -> FirstVal(s, i + 1, 128 * val + (s[i] % 128))
      [] OTHER -> Accept(128 * val + (s[i] % 128), i + 1)

asn1_decode_oid(s) ==
    LET c == Contents(s, OBJECT_ID, Nat \ {0})
        f == FirstVal(c.val, 1, 0)
    IN IF ~c.ok \/ ~f.ok \/ f.val - 80 > ARC_MAX THEN Reject
       ELSE LET r == ArcsFrom(c.val, f.next, 0, 0, Split(f.val))
            IN IF r.ok THEN Accept(r.val, c.next) ELSE Reject

(***************************************************************************)
(* Encoders, into a buffer with enough room.                               *)
(***************************************************************************)
RECURSIVE Digits(_, _)
Digits(n, base) == IF n = 0 THEN <<>> ELSE Append(Digits(n \div base, base), n % base)

asn1_encode_length(n) ==
    IF n < 128 THEN <<n>> ELSE <<128 + Len(Digits(n, 256))>> \o Digits(n, 256)

\* The fewest octets of w that say the same: leading ones that Idle admits are dropped
Shortened(w, Idle(_, _)) ==
    LET starts == {k \in DOMAIN w : k = Len(w) \/ ~Idle(w[k], w[k + 1])}
    IN SubSeq(w, CHOOSE k \in starts : \A j \in starts : k <= j, Len(w))

asn1_encode_integer(w) ==
    LET Idle(a, b) == (a = 0 /\ ~High(b)) \/ (a = 255 /\ High(b))
        s == Shortened(w, Idle)
    IN <<INTEGER, Len(s)>> \o s

asn1_encode_unsigned(w) ==
    LET Idle(a, b) == a = 0 /\ ~High(b)
        s == Shortened(<<0>> \o w, Idle)
    IN <<COUNTER32, Len(s)>> \o s

asn1_encode_ip(w) == <<IPADDRESS, 4>> \o w

asn1_encode_string(s) == <<OCTET_STRING>> \o asn1_encode_length(Len(s)) \o s

\* Groups of seven bits, all but the last marked as continued
Base128(n) ==
    LET d == IF n < 128 THEN <<n>> ELSE Digits(n, 128)
    IN [k \in DOMAIN d |-> IF k < Len(d) THEN d[k] + 128 ELSE d[k]]

EncodableOid(a) == Len(a) >= 2 /\ a[1] <= 2 /\ (a[1] < 2 => a[2] < 40)

asn1_encode_oid(a) ==
    LET body == Base128(40 * a[1] + a[2]) \o FlattenSeq([k \in 1..Len(a) - 2 |-> Base128(a[k + 2])])
    IN <<OBJECT_ID>> \o asn1_encode_length(Len(body)) \o body

(***************************************************************************)
(* Every buffer of octets, and every identifier, up to the bounds.         *)
(***************************************************************************)
asn1Vars == <<octets, arcs>>
Asn1Init == octets = <<>> /\ arcs = <<>>
AddOctet == /\ arcs = <<>> /\ Len(octets) < MaxOctets
            /\ \E b \in Octets : octets' = Append(octets, b)
            /\ UNCHANGED arcs
AddArc == /\ octets = <<>> /\ Len(arcs) < MaxArcs
          /\ \E a \in Arcs : arcs' = Append(arcs, a)
          /\ UNCHANGED octets
Asn1Next == AddOctet \/ AddArc

\* What the SNMP client sends is what a decoder reads: every integer, counter, address,
\* string, length and identifier comes back from its encoding, which is consumed whole.
\* And an integer or a length has one encoding only: what a decoder accepts is, octet for
\* octet, what the encoder writes for the value it was read as.  A counter has at most
\* two, since asn1_decode_unsigned also takes one that lacks the zero for its sign.
Asn1Exact ==
    LET Whole(d, v, s) == d = Accept(v, Len(s) + 1)
        n == BigEndian(SubSeq(octets, 1, IF Len(octets) < 2 THEN Len(octets) ELSE 2))
        Same(d, e) == d.ok => SubSeq(octets, 1, d.next - 1) = e
        int == asn1_decode_integer(octets)
        uns == asn1_decode_unsigned(octets)
        len == asn1_decode_length(octets, 1)
    IN /\ Len(octets) = 4 =>
            /\ Whole(asn1_decode_integer(asn1_encode_integer(octets)), octets, asn1_encode_integer(octets))
            /\ Whole(asn1_decode_unsigned(asn1_encode_unsigned(octets)), octets, asn1_encode_unsigned(octets))
            /\ Whole(asn1_decode_ip(asn1_encode_ip(octets)), octets, asn1_encode_ip(octets))
       /\ Whole(asn1_decode_string(asn1_encode_string(octets), MaxOctets + 1), octets, asn1_encode_string(octets))
       /\ Whole(asn1_decode_length(asn1_encode_length(n), 1), n, asn1_encode_length(n))
       /\ EncodableOid(arcs) => Whole(asn1_decode_oid(asn1_encode_oid(arcs)), arcs, asn1_encode_oid(arcs))
       /\ Same(int, asn1_encode_integer(int.val))
       /\ uns.ok => \/ Same(uns, asn1_encode_unsigned(uns.val))
                    \/ asn1_encode_unsigned(uns.val) = <<COUNTER32, octets[2] + 1, 0>> \o
                                                       SubSeq(octets, 3, uns.next - 1)
       /\ Same(len, asn1_encode_length(len.val))
=============================================================================
