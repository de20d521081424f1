------------------------------ MODULE TlvReader ------------------------------
(***************************************************************************)
(* The TLV codec (crates/teap/src/tlv/raw.rs): TlvReader::parse_all over a *)
(* buffer that anyone may have written, and RawTlv::encode_into.           *)
(*                                                                         *)
(* A TLV is M | R | Type(14) | Length(16) | Value.  Base is the number of  *)
(* values of an octet, 256 in the program: the flags and the type are the  *)
(* top two bits and the rest of a word of two octets, whatever the Base.   *)
(***************************************************************************)
EXTENDS Naturals, Sequences, SequencesExt

CONSTANTS Base,     \* values of an octet
          MaxTlvs,  \* MAX_TLVS
          Buffers   \* the buffers read

Octet == 0..(Base - 1)

ASSUME BaseAssumption   == Base \in Nat \ {0} /\ Base % 4 = 0
ASSUME LimitAssumption  == MaxTlvs \in Nat
ASSUME BufferAssumption == \A b \in Buffers : b \in Seq(Octet)

HeaderLen    == 4
MandatoryBit == (Base * Base) \div 2
ReservedBit  == (Base * Base) \div 4
TypeMask     == 0..(ReservedBit - 1)
MaxValue     == Base * Base - 1

VARIABLES buf,     \* buf
          pos,     \* pos: octets consumed
          tlvs,    \* what parse_all has collected
          result   \* "Reading", "Parsed" or the error

vars == <<buf, pos, tlvs, result>>

Tlv == [mandatory : BOOLEAN, type : TypeMask, value : Seq(Octet)]

Init ==
    /\ buf \in Buffers
    /\ pos = 0
    /\ tlvs = <<>>
    /\ result = "Reading"

-----------------------------------------------------------------------------
(* next_tlv.                                                                *)

\* from_be_bytes of the two octets at offset i.
U16At(i) == Base * buf[i + 1] + buf[i + 2]

HasHeader  == pos + HeaderLen <= Len(buf)
Word       == U16At(pos)
Declared   == U16At(pos + 2)
Mandatory  == Word >= MandatoryBit

\* The Reserved bit is ignored.
TypeOf(word) == word % ReservedBit

ValueStart == pos + HeaderLen
ValueEnd   == ValueStart + Declared
ValueFits  == ValueEnd <= Len(buf)

Reading == result = "Reading" /\ pos < Len(buf)

BelowLimit == Len(tlvs) < MaxTlvs

Stop(error) == result' = error /\ UNCHANGED <<buf, pos, tlvs>>

TooManyTlvs     == Reading /\ ~BelowLimit /\ Stop("TooManyTlvs")
TruncatedHeader == Reading /\ BelowLimit /\ ~HasHeader /\ Stop("TruncatedHeader")
ReservedType    == /\ Reading /\ BelowLimit /\ HasHeader /\ TypeOf(Word) = 0
                   /\ Stop("ReservedType")
TruncatedValue  == /\ Reading /\ BelowLimit /\ HasHeader /\ TypeOf(Word) # 0 /\ ~ValueFits
                   /\ Stop("TruncatedValue")

NextTlv ==
    /\ Reading /\ BelowLimit /\ HasHeader /\ TypeOf(Word) # 0 /\ ValueFits
    /\ pos' = ValueEnd
    /\ tlvs' = Append(tlvs, [mandatory |-> Mandatory, type |-> TypeOf(Word),
                             value |-> SubSeq(buf, ValueStart + 1, ValueEnd)])
    /\ UNCHANGED <<buf, result>>

MutFinished == pos >= Len(buf) \/ (tlvs # <<>> /\ ~HasHeader)

\* is_empty.
Finished == pos >= Len(buf)

Finish ==
    /\ result = "Reading" /\ Finished
    /\ result' = "Parsed"
    /\ UNCHANGED <<buf, pos, tlvs>>

Next == \/ TooManyTlvs \/ TruncatedHeader \/ ReservedType \/ TruncatedValue
        \/ NextTlv \/ Finish

Spec == Init /\ [][Next]_vars

-----------------------------------------------------------------------------
(* encode_into and encode_all.                                              *)

BE(n) == <<n \div Base, n % Base>>

Encodable(t) == t.type \in TypeMask \ {0} /\ Len(t.value) <= MaxValue

EncodeTlv(t) ==
    BE(t.type + (IF t.mandatory THEN MandatoryBit ELSE 0)) \o BE(Len(t.value)) \o t.value

EncodeAll(ts) == FlattenSeq([i \in DOMAIN ts |-> EncodeTlv(ts[i])])

-----------------------------------------------------------------------------
\* A string is s up to the Reserved bit, which sits in the first octet of a TLV.
Agrees(s, t) ==
    /\ Len(s) = Len(t)
    /\ \A i \in DOMAIN s : s[i] = t[i] \/ s[i] + Base \div 4 = t[i]

\* The reference: n TLVs cover the buffer from offset i on.  It is computed
\* from the end of the buffer, where parse_all goes from its start.
Covers[i \in Nat] ==
    IF i = Len(buf) THEN {0}
    ELSE {n + 1 : n \in
            UNION {Covers[j] : j \in {j \in (i + HeaderLen)..Len(buf) :
                      /\ TypeOf(U16At(i)) # 0
                      /\ j = i + HeaderLen + U16At(i + 2)}}}

\* parse_all accepts exactly the buffers that TLVs cover from end to end, with
\* no octet over ("a trailing partial TLV is an error"), and no more than
\* MaxTlvs of them; the limit is never what refuses a shorter message.  What it
\* has read stands for exactly the octets consumed: none is skipped, read twice
\* or shared by two TLVs, and every TLV read can be encoded again.
AcceptsExactlyTlvs ==
    /\ \A i \in DOMAIN tlvs : Encodable(tlvs[i])
    /\ Agrees(EncodeAll(tlvs), SubSeq(buf, 1, pos))
    /\ result = "Parsed" => Covers[0] = {Len(tlvs)} /\ Len(tlvs) <= MaxTlvs
    /\ result = "TooManyTlvs" => Covers[0] \cap 0..MaxTlvs = {}
    /\ result \in {"TruncatedHeader", "ReservedType", "TruncatedValue"} => Covers[0] = {}
=============================================================================
