----------------------------- MODULE MCFraming -------------------------------
(***************************************************************************)
(* Octets of four bits, the fewest that hold three flags and a version.    *)
(* The buffers are every one of up to three octets and the distinct kinds  *)
(* of four; those of two to four TLVs with every flag, lengths around the  *)
(* right one and a tail; messages of up to three TLVs with good and bad    *)
(* bodies; EAP packets with every flag and a Length around the right one;  *)
(* stored profiles, whole, cut short, too long, and miscounted; and ticket *)
(* records and raw signatures, the longer of which need the long form of a *)
(* DER length.                                                             *)
(***************************************************************************)
EXTENDS Records

Short == UNION {[1..n -> Octet] : n \in 0..3} \cup [1..4 -> {0, 1, 4, 8, 15}]

Header == {<<b0, b1, 0, len>> : b0 \in {0, 4, 8, 15}, b1 \in 0..1, len \in 0..2}
Value  == {<<>>, <<3>>, <<1, 2>>}

Long == {a \o v \o b \o w : a \in Header, v \in Value, b \in Header, w \in Value}
          \cup {<<0, 1, 0, 0>> \o a \o v \o b : a \in Header, v \in Value, b \in Header}
          \cup {<<0, 1, 0, 0, 0, 1, 0, 0, 0, 1, 0, 0>> \o a : a \in Header}

Raw(m, type, value) == EncodeTlv([mandatory |-> m, type |-> type, value |-> value])

\* Version, received version, sub-type, one octet of nonce and the MACs.
Bound(macs) == <<7, 1, 1, 1, 6>> \o macs
Enclosed    == {<<>>, Raw(TRUE, CRYPTO_BINDING, Bound(<<0, 5>>)),
                Raw(FALSE, CRYPTO_BINDING, Bound(<<0, 4>>)) \o Raw(TRUE, NAK, <<3>>), <<0, 6, 0>>}

Vocabulary ==
    {Raw(TRUE, IDENTITY_TYPE, v) : v \in {<<0, 1>>, <<0, 2>>, <<0>>}}
    \cup {Raw(m, RESULT, v) : m \in BOOLEAN, v \in {<<0, 1>>, <<0, 2>>}}
    \cup {Raw(TRUE, INTERMEDIATE_RESULT, <<0, 1>> \o e) : e \in Enclosed}
    \cup {Raw(TRUE, CRYPTO_BINDING, Bound(macs)) : macs \in {<<>>, <<0, 3>>, <<0, 3, 2>>}}
    \cup {Raw(TRUE, VENDOR_SPECIFIC, v) : v \in {<<0, 0, 1, 1, 5>>, <<0, 0, 1, 2>>, <<0, 0, 1>>}}
    \cup {Raw(FALSE, NAK, <<0, 0, 0, 0, 0, 7>> \o e) : e \in Enclosed}
    \cup {Raw(TRUE, ERROR, <<0, 1, 2, 3>>), Raw(TRUE, EAP_PAYLOAD, <<2>>)}

TeapType == 5

Payloads == {<<>>, <<9>>} \cup {<<TeapType, f>> \o d : f \in Octet,
                                   d \in {<<>>, <<3>>, <<0, 0, 1>>, <<0, 0, 1, 2>>, <<0, 0, 1, 2, 7>>}}

Packets == {<<code, 6, 0, 4 + Len(d) + n>> \o d : code \in 0..5, d \in Payloads, n \in 0..2}
             \cup {<<code, 6, 0, 3 + Len(d)>> \o d : code \in 0..5, d \in Payloads}

Profile(machine, roots, mat) ==
    [machine |-> machine, vendor |-> 9, fragment |-> 20, serverName |-> <<1, 2>>,
     subject |-> <<3>>, roots |-> roots, mat |-> mat]

Whole == {ToBytes(Profile(machine, roots, mat)) : machine \in BOOLEAN,
              roots \in {<<>>, <<<<4, 0, 1>>>>, <<<<5>>, <<>>>>}, mat \in {{}, {<<>>}, {<<8, 1>>}}}

\* Every octet replaced, the last one missing, one too many.
Profiles == Whole \cup {Front(b) : b \in Whole} \cup {Append(b, 0) : b \in Whole}
              \cup {[b EXCEPT ![i] = v] : b \in Whole, i \in 1..28, v \in {0, 1, 2, 9}}

MCMatMagic == <<13, 10, 4, 1>>

Stored(n, ticket) == MCMatMagic \o <<0, 0, 0, 0, 0, 3, 2, 9>> \o <<0, 0, 0, n>> \o ticket

Tickets == {Stored(n, t) : n \in 0..5, t \in UNION {[1..k -> {6, 15}] : k \in 0..4}}

Signatures == [1..4 -> {0, 1, 7, 8, 15}]
                \cup {r \o [i \in 1..3 |-> 0] \o s : r, s \in {<<0, 0, 9>>, <<9, 0, 0>>, <<15, 15, 15>>}}
                \cup {[i \in 1..n |-> 1] \o <<8>> : n \in {5, 9, 13}}

MCMagic == <<13, 11, 7, 12>>

MCBuffers == Tickets \cup Signatures \cup Packets \cup Profiles \cup Short \cup Long \cup Vocabulary \cup {a \o b : a, b \in Vocabulary}
               \cup {a \o b \o c : a, b, c \in Vocabulary}
=============================================================================
