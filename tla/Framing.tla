------------------------------- MODULE Framing -------------------------------
(***************************************************************************)
(* The other formats the client reads octet by octet: the EAP packet       *)
(* (crates/teap/src/eap.rs), the TEAP message in it (outer.rs) and the     *)
(* profile EAPHost stores for us (crates/eaphost/src/config.rs).           *)
(*                                                                         *)
(* As in TlvMessage, a decoder returns the set of what it decodes, {} for  *)
(* an error.  A text is well-formed if its octets are below half of Base;  *)
(* the longer forms of UTF-8 are not among the inputs.                     *)
(***************************************************************************)
EXTENDS TlvMessage

CONSTANT Magic  \* MAGIC of the profile

ASSUME FramingAssumption == Magic \in Seq(Octet) /\ Len(Magic) = 4

-----------------------------------------------------------------------------
(* EapPacket.                                                               *)

EapHeaderLen == 4
EapCode(v)   == IF v \in 1..4 THEN <<"Request", "Response", "Success", "Failure">>[v] ELSE "Unknown"
CarriesType  == {"Request", "Response"}

\* "Trailing bytes are a malformed frame."
Declares(b) == U16(b, 2) >= EapHeaderLen /\ U16(b, 2) = Len(b)

DecodeEap(b) ==
    IF Len(b) < EapHeaderLen \/ ~Declares(b) THEN {}
    ELSE IF EapCode(b[1]) \notin CarriesType
         THEN {[code |-> b[1], id |-> b[2], type |-> <<>>, data |-> <<>>]}
    ELSE IF Len(b) = EapHeaderLen THEN {}
    ELSE {[code |-> b[1], id |-> b[2], type |-> <<b[5]>>, data |-> From(b, 5)]}

EncodeEap(p) ==
    LET total == EapHeaderLen + Len(p.type) + Len(p.data) IN
    IF total > MaxValue THEN {}
    ELSE {<<p.code, p.id>> \o BE(total) \o (IF p.type = <<>> THEN <<>> ELSE p.type \o p.data)}

-----------------------------------------------------------------------------
(* TeapOuter.                                                               *)

FlagL == Base \div 2
FlagM == Base \div 4
FlagS == Base \div 8
VersionMask == IF Base > 64 THEN 7 ELSE 1

\* The version and the flags are bits of one octet.
ASSUME FlagAssumption == Base % 8 = 0 /\ FlagS % (VersionMask + 1) = 0

IsSet(flags, bit) == (flags \div bit) % 2 = 1

ParseOuter(d) ==
    IF d = <<>> \/ (IsSet(d[1], FlagL) /\ Len(d) < 5) THEN {}
    ELSE LET long == IsSet(d[1], FlagL) IN
         {[more |-> IsSet(d[1], FlagM), start |-> IsSet(d[1], FlagS),
           version |-> d[1] % (VersionMask + 1),
           total |-> IF long THEN {U32(d, 1)} ELSE {},
           data |-> From(d, IF long THEN 5 ELSE 1)]}

FlagIf(set, bit) == IF set THEN bit ELSE 0

Written(o, long) ==
    <<FlagIf(long, FlagL) + FlagIf(o.more, FlagM) + FlagIf(o.start, FlagS) + (o.version % (VersionMask + 1))>>
      \o (IF o.total = {} THEN <<>> ELSE BE32(CHOOSE n \in o.total : TRUE)) \o o.data

\* The L flag goes with the length, whatever the other flags.
BuildOuter(o) == Written(o, o.total # {})

-----------------------------------------------------------------------------
(* SessionConfigBlob.                                                       *)

Version     == 1
FixedLen    == 14   \* magic, version, flags, vendor number, fragment size
LE32(n)     == Reverse(BE32(n))
U32LE(b, o) == U32(Reverse(SubSeq(b, o + 1, o + 4)), 0)
Utf8(s)     == \A i \in DOMAIN s : s[i] < Base \div 2

\* put_bytes and put_u32.
PutBytes(s)   == LE32(Len(s)) \o s
PutAll(ss)    == FlattenSeq([i \in DOMAIN ss |-> PutBytes(ss[i])])

ToBytes(c) ==
    Magic \o <<Version, IF c.machine THEN 1 ELSE 0>> \o LE32(c.vendor) \o LE32(c.fragment)
      \o PutBytes(c.serverName) \o PutBytes(c.subject)
      \o LE32(Len(c.roots)) \o PutAll(c.roots)
      \o (IF c.mat = {} THEN <<0>> ELSE <<1>> \o PutBytes(CHOOSE m \in c.mat : TRUE))

\* bytes, n times from offset o on: the slices and the offset after them.
Slices(b, n, o) ==
    LET Rest[k \in 0..n] == [i \in 0..Len(b) |->
          IF k = 0 THEN {[slices |-> <<>>, end |-> i]}
          ELSE IF i + 4 > Len(b) \/ i + 4 + U32LE(b, i) > Len(b) THEN {}
          ELSE {[slices |-> <<SubSeq(b, i + 5, i + 4 + U32LE(b, i))>> \o r.slices, end |-> r.end]
                   : r \in Rest[k - 1][i + 4 + U32LE(b, i)]}]
    IN Rest[n][o]

\* The mat at offset o: present unless its tag is 0.
Mats(b, o) ==
    IF o >= Len(b) THEN {}
    ELSE IF b[o + 1] = 0 THEN {[mat |-> {}, end |-> o + 1]}
    ELSE {[mat |-> {s.slices[1]}, end |-> s.end] : s \in Slices(b, 1, o + 1)}

\* "Reject trailing garbage."
Ends(b, end) == end = Len(b)

Names(b)    == {n \in Slices(b, 2, FixedLen) : Utf8(n.slices[1]) /\ Utf8(n.slices[2])}
Roots(b, o) == IF o + 4 > Len(b) THEN {} ELSE Slices(b, U32LE(b, o), o + 4)

FromBytes(b) ==
    LET Config(n, r, m) ==
          [machine |-> b[6] % 2 = 1, vendor |-> U32LE(b, 6), fragment |-> U32LE(b, 10),
           serverName |-> n.slices[1], subject |-> n.slices[2], roots |-> r.slices, mat |-> m.mat]
        Header == Len(b) >= FixedLen /\ SubSeq(b, 1, 5) = Append(Magic, Version)
    IN IF ~Header THEN {}
       ELSE UNION {UNION {{Config(n, r, m) : m \in {m \in Mats(b, r.end) : Ends(b, m.end)}}
                            : r \in Roots(b, n.end)}
                     : n \in Names(b)}

-----------------------------------------------------------------------------
\* What is read from the wire is written back as it was read: no octet of a TLV
\* body, of the TEAP message or of the EAP packet is lost, shared by two fields
\* or made up, and the TLS length is there exactly if the L flag says so.  Both
\* MACs of a Crypto-Binding have the same length, without which it could not be
\* sealed or sent.  Only Reserved bits and octets are lost, and what follows the
\* header of a packet that carries no type.
WireInverts ==
    /\ \A p \in DecodeEap(buf) :
          IF p.type = <<>> THEN EncodeEap(p) = {<<p.code, p.id, 0, EapHeaderLen>>}
          ELSE /\ EncodeEap(p) = {buf}
               /\ \A o \in ParseOuter(p.data) :
                    LET again == BuildOuter(o) IN
                    Tail(again) = Tail(p.data) /\ ParseOuter(again) = {o}
    /\ \A i \in DOMAIN tlvs : \A b \in Bodies(tlvs[i]) :
          LET type == tlvs[i].type  value == tlvs[i].value IN
          IF type = CRYPTO_BINDING
          THEN Tail(ValueOf(type, b)) = Tail(value) /\ Len(b.emsk) = Len(b.msk) /\ b.msk # <<>>
          ELSE Agrees(ValueOf(type, b), value)

\* A stored profile that is accepted is one that was written: no octet of it is
\* left over, read twice or made up, whatever counts and lengths it declares.
\* The flags other than machine and the tag before the MAT are not kept.  It is a
\* part of RecordsInvert.
ProfilesInvert == \A c \in FromBytes(buf) :
    /\ Len(ToBytes(c)) = Len(buf)
    /\ FromBytes(ToBytes(c)) = {c}
    /\ c.mat = {} => SubSeq(ToBytes(c), 7, Len(buf)) = SubSeq(buf, 7, Len(buf))
=============================================================================
