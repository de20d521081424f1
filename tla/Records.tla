------------------------------- MODULE Records -------------------------------
(***************************************************************************)
(* What the client writes for others to read: the ticket record            *)
(* (crates/pac/src/record.rs), the XML envelope of a profile               *)
(* (crates/eaphost/src/config_xml.rs), the DER form of a CNG signature     *)
(* (crates/creds/src/ecdsa.rs) and the text of the published status        *)
(* (crates/usg-status/src/lib.rs).                                         *)
(*                                                                         *)
(* Decoders return sets, as in Framing.  A character is an octet too, so   *)
(* the alphabets are small: a hex digit has HexBase values, a status key   *)
(* is one character, and so is each of the tokens.                         *)
(***************************************************************************)
EXTENDS Framing

CONSTANTS HexBase,    \* values of a hex digit, 16
          MatMagic,   \* MAGIC of the record
          MaxTicket,  \* MAX_TICKET_LEN
          CoordLens   \* the coordinate lengths of the approved curves

ASSUME RecordAssumption ==
    /\ HexBase \in Nat /\ Base = HexBase * HexBase /\ MaxTicket \in Nat
    /\ MatMagic \in Seq(Octet) /\ Len(MatMagic) = 4 /\ CoordLens \subseteq Nat \ {0}

-----------------------------------------------------------------------------
(* MatRecord.  The time of storing stays the eight octets it is.            *)

RecordHeaderLen == 16

EncodeMat(r) ==
    IF Len(r.ticket) > MaxTicket THEN {}
    ELSE {MatMagic \o r.stored \o BE32(Len(r.ticket)) \o r.ticket}

DecodeMat(b) ==
    IF Len(b) < RecordHeaderLen \/ SubSeq(b, 1, 4) # MatMagic THEN {}
    ELSE LET declared == U32(b, 12) IN
         IF declared > MaxTicket \/ ~Ends(b, RecordHeaderLen + declared) THEN {}
         ELSE {[stored |-> SubSeq(b, 5, 12), ticket |-> From(b, RecordHeaderLen)]}

-----------------------------------------------------------------------------
(* The envelope.  A digit has a lower and an upper case.                    *)

IsHexDigit(c) == c < 2 * HexBase
Blank         == 2 * HexBase
Lower(s)      == [i \in DOMAIN s |-> s[i] % HexBase]

Trim(s) ==
    LET solid == {i \in DOMAIN s : s[i] # Blank} IN
    IF solid = {} THEN <<>> ELSE SubSeq(s, Min(solid), Max(solid))

ToHex(b) == FlattenSeq([i \in DOMAIN b |-> <<b[i] \div HexBase, b[i] % HexBase>>])

FromHex(s) ==
    LET t == Trim(s) IN
    IF Len(t) % 2 = 1 \/ \E i \in DOMAIN t : ~IsHexDigit(t[i]) THEN {}
    ELSE {[i \in 1..(Len(t) \div 2) |->
              HexBase * (t[2 * i - 1] % HexBase) + (t[2 * i] % HexBase)]}

\* "An empty connection blob is never valid."
XmlTextToBlob(s) == FromHex(s) \ {<<>>}

-----------------------------------------------------------------------------
(* raw_to_der.                                                              *)

HighBit == Base \div 2

\* The octets of n without leading zeros.
Trimmed(n) == IF n < Base THEN <<n>> ELSE BE(n)

DerLen(n) == IF n < HighBit THEN <<n>> ELSE <<HighBit + Len(Trimmed(n))>> \o Trimmed(n)

Magnitude(coord) ==
    LET solid == {i \in DOMAIN coord : coord[i] # 0} IN
    IF solid = {} THEN <<0>> ELSE From(coord, Min(solid) - 1)

MutSigned(mag) == mag

\* "Prepend 0x00 so the integer stays positive."
Signed(mag) == IF mag[1] >= HighBit THEN <<0>> \o mag ELSE mag

DerInteger(coord) == LET v == Signed(Magnitude(coord)) IN <<2>> \o DerLen(Len(v)) \o v

SEQUENCE == 3 * (Base \div 16)   \* 0x30

RawToDer(raw, n) ==
    IF n \notin CoordLens \/ Len(raw) # 2 * n THEN {}
    ELSE LET body == DerInteger(SubSeq(raw, 1, n)) \o DerInteger(From(raw, n))
         IN {<<SEQUENCE>> \o DerLen(Len(body)) \o body}

-----------------------------------------------------------------------------
(* AuthStatus.  Subject and detail stand for all seven texts.               *)

NewLine == 1
Return  == 2
Space   == 0
Equals  == 3

Key == [version |-> 4, state |-> 5, identity |-> 6, subject |-> 7, detail |-> 8, updated |-> 9]
StateTokens    == {<<10>>, <<11>>}
IdentityTokens == {<<12>>, <<13>>}
Numbers        == {<<12>>, <<13>>}
Zero           == <<12>>
Texts          == {"subject", "detail"}

MutOneLine(s) == [i \in DOMAIN s |-> IF s[i] = NewLine THEN Space ELSE s[i]]

OneLine(s) == [i \in DOMAIN s |-> IF s[i] \in {NewLine, Return} THEN Space ELSE s[i]]

Line(field, value) == <<Key[field], Equals>> \o value \o <<NewLine>>

EncodeStatus(s) ==
    Line("version", <<13>>) \o Line("state", s.state) \o Line("identity", s.identity)
      \o Line("subject", OneLine(s.subject)) \o Line("detail", OneLine(s.detail))
      \o Line("updated", s.updated)

\* str::lines and split_once; of several lines with the key, the last counts.
FieldOf(text, field) ==
    LET starts == {a \in DOMAIN text : /\ a = 1 \/ text[a - 1] = NewLine
                                       /\ a < Len(text) /\ text[a] = Key[field]
                                       /\ text[a + 1] = Equals}
        from   == Max(starts) + 2
        ends   == {e \in from..Len(text) : text[e] = NewLine}
        value  == SubSeq(text, from, (IF ends = {} THEN Len(text) + 1 ELSE Min(ends)) - 1)
    IN IF starts = {} THEN <<>>
       ELSE IF ends # {} /\ value # <<>> /\ Last(value) = Return THEN Front(value)
       ELSE value

DecodeStatus(text) ==
    LET read == [field \in DOMAIN Key \ {"version"} |-> FieldOf(text, field)] IN
    IF read.state \in StateTokens /\ read.identity \in IdentityTokens
    THEN {[read EXCEPT !.updated = IF @ \in Numbers THEN @ ELSE Zero]}
    ELSE {}

-----------------------------------------------------------------------------
\* The reference reader of DER (X.690): the element at offset o with the given
\* tag, its length as short as it can be.
Element(b, o, tag) ==
    {e \in [start : (o + 2)..(o + 4), end : (o + 2)..Len(b)] :
        /\ e.start <= e.end /\ b[o + 1] = tag
        /\ SubSeq(b, o + 2, e.start) =
              LET n == e.end - e.start IN
              IF n < HighBit THEN <<n>>
              ELSE IF n < Base THEN <<HighBit + 1, n>> ELSE <<HighBit + 2>> \o BE(n)}

\* Its value is a positive integer without superfluous zeros, that of coord.
Holds(b, e, coord) ==
    LET v == SubSeq(b, e.start + 1, e.end)
        zeros == [i \in 1..(Len(coord) + 1) |-> 0] IN
    /\ v # <<>> /\ v[1] < HighBit
    /\ Len(v) > 1 /\ v[1] = 0 => v[2] >= HighBit
    /\ IsSuffix(coord, zeros \o v) /\ SubSeq(v, 1, Len(v) - Len(coord)) \in {<<>>, <<0>>}

\* Whatever the client writes for another to read is read as it was meant: an
\* accepted profile or ticket record is one that was written, octet for octet;
\* a profile's text is its octets, up to case and blanks around it; and every
\* raw signature, small or with its high bit set, becomes the one DER sequence of
\* the same two positive numbers, short or long as its lengths may be.
RecordsInvert == pos = 0 =>
    /\ ProfilesInvert
    /\ \A r \in DecodeMat(buf) : EncodeMat(r) = {buf}
    /\ \A blob \in XmlTextToBlob(buf) : ToHex(blob) = Lower(Trim(buf))
    /\ buf # <<>> => XmlTextToBlob(ToHex(buf)) = {buf}
    /\ \A n \in CoordLens : \A der \in RawToDer(buf, n) :
          \E s \in Element(der, 0, SEQUENCE) : s.end = Len(der) /\
            \E x \in Element(der, s.start, 2) : Holds(der, x, SubSeq(buf, 1, n)) /\
              \E y \in Element(der, x.end, 2) : Holds(der, y, From(buf, n)) /\ y.end = s.end

\* "Each field stays on one line" (lib.rs:10): a text that comes from the network
\* or a certificate can become no line, field or state of its own, nor change the
\* length of another; the reader sees every field as it was, line breaks apart.
StatusFieldsStayApart == pos = 0 =>
    \A i \in 0..Len(buf) :
        LET s == [state |-> <<10>>, identity |-> <<13>>, subject |-> SubSeq(buf, 1, i),
                  detail |-> From(buf, i), updated |-> <<13>>] IN
        \E t \in DecodeStatus(EncodeStatus(s)) :
            /\ \A field \in DOMAIN s \ Texts : t[field] = s[field]
            /\ \A field \in Texts :
                  /\ Len(t[field]) = Len(s[field])
                  /\ \A j \in DOMAIN s[field] :
                        t[field][j] = s[field][j] \/ s[field][j] \in {NewLine, Return}
=============================================================================
