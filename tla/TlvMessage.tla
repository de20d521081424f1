----------------------------- MODULE TlvMessage ------------------------------
(***************************************************************************)
(* What the TLVs of one inbound message say (crates/teap/src/tlv/body.rs   *)
(* and the find functions of crates/teap/src/session.rs): the typed bodies *)
(* and, from them, the record TeapSession calls a message.                 *)
(*                                                                         *)
(* A decoder returns the set of what it decodes: {} for BadBodyLength or a *)
(* bad enclosed TLV.  Status and Identity-Type bodies are kept as numbers, *)
(* as the Unknown variants of the code do.                                 *)
(***************************************************************************)
EXTENDS TlvReader

CONSTANTS NonceLen,  \* octets of the nonce, 32
          VendorId   \* our enterprise number, cfg.mat_vendor_id

ASSUME BodyAssumption == NonceLen \in Nat /\ VendorId \in Nat

IDENTITY_TYPE       == 2
RESULT              == 3
NAK                 == 4
ERROR               == 5
VENDOR_SPECIFIC     == 9
EAP_PAYLOAD         == 11
INTERMEDIATE_RESULT == 12
CRYPTO_BINDING      == 14

CriticalTypes == {IDENTITY_TYPE, INTERMEDIATE_RESULT, CRYPTO_BINDING, RESULT}

-----------------------------------------------------------------------------
(* from_value of each body.                                                 *)

U16(v, off) == Base * v[off + 1] + v[off + 2]
U32(v, off) == Base * Base * U16(v, off) + U16(v, off + 2)
From(v, off) == SubSeq(v, off + 1, Len(v))

\* parse_all on the octets enclosed in a body.
ParseAll(b) ==
    LET Rest[i \in 0..Len(b)] ==
          IF i = Len(b) THEN {<<>>}
          ELSE IF i + HeaderLen > Len(b) THEN {}
          ELSE LET end == i + HeaderLen + U16(b, i + 2)
                   t   == [mandatory |-> U16(b, i) >= MandatoryBit, type |-> TypeOf(U16(b, i)),
                           value |-> SubSeq(b, i + HeaderLen + 1, end)]
               IN IF t.type = 0 \/ end > Len(b) THEN {} ELSE {<<t>> \o ts : ts \in Rest[end]}
    IN {ts \in Rest[0] : Len(ts) <= MaxTlvs}

StatusBody(v) == IF Len(v) = 2 THEN {U16(v, 0)} ELSE {}

ErrorBody(v) == IF Len(v) = 4 THEN {U32(v, 0)} ELSE {}

IntermediateResultBody(v) ==
    IF Len(v) < 2 THEN {} ELSE [status : {U16(v, 0)}, tlvs : ParseAll(From(v, 2))]

NakBody(v) ==
    IF Len(v) < 6 THEN {}
    ELSE [vendor : {U32(v, 0)}, nakType : {U16(v, 4)}, tlvs : ParseAll(From(v, 6))]

VendorBody(v) ==
    IF Len(v) < 4 THEN {} ELSE {[vendor |-> U32(v, 0), data |-> From(v, 4)]}

PrefixLen == 4 + NonceLen

SplitBinding(v) ==
    LET half == (Len(v) - PrefixLen) \div 2 IN
    [version |-> v[2], received |-> v[3], subType |-> v[4],
     nonce |-> SubSeq(v, 5, PrefixLen),
     emsk |-> SubSeq(v, PrefixLen + 1, PrefixLen + half), msk |-> From(v, PrefixLen + half)]

MutBindingBody(v) == IF Len(v) <= PrefixLen THEN {} ELSE {SplitBinding(v)}

\* The MACs are what is left after the prefix: there must be some, and an even
\* number of octets of it.
BindingBody(v) ==
    IF Len(v) <= PrefixLen \/ (Len(v) - PrefixLen) % 2 = 1 THEN {} ELSE {SplitBinding(v)}

Bodies(t) ==
    CASE t.type \in {IDENTITY_TYPE, RESULT} -> StatusBody(t.value)
      [] t.type = ERROR                     -> ErrorBody(t.value)
      [] t.type = NAK                       -> NakBody(t.value)
      [] t.type = VENDOR_SPECIFIC           -> VendorBody(t.value)
      [] t.type = INTERMEDIATE_RESULT       -> IntermediateResultBody(t.value)
      [] t.type = CRYPTO_BINDING            -> BindingBody(t.value)
      [] OTHER                              -> {t.value}

(* to_tlv of each body: the value it makes.                                 *)

BE32(n) == BE(n \div (Base * Base)) \o BE(n % (Base * Base))

ValueOf(type, b) ==
    CASE type \in {IDENTITY_TYPE, RESULT} -> BE(b)
      [] type = ERROR                     -> BE32(b)
      [] type = NAK                       -> BE32(b.vendor) \o BE(b.nakType) \o EncodeAll(b.tlvs)
      [] type = VENDOR_SPECIFIC           -> BE32(b.vendor) \o b.data
      [] type = INTERMEDIATE_RESULT       -> BE(b.status) \o EncodeAll(b.tlvs)
      [] type = CRYPTO_BINDING            ->
           <<0, b.version, b.received, b.subType>> \o b.nonce \o b.emsk \o b.msk
      [] OTHER                            -> b

-----------------------------------------------------------------------------
(* What step finds in a message.                                            *)

\* The positions of the TLVs of a type; code that filters by type sees them in order.
Having(ts, type) == {i \in DOMAIN ts : ts[i].type = type}

MutFramed(ts) == \A type \in CriticalTypes :
    LET seen == Having(ts, type) IN seen # {} => ts[Min(seen)].mandatory

\* No critical TLV twice or without its Mandatory bit.
Framed(ts) == \A type \in CriticalTypes :
    LET seen == Having(ts, type) IN
    seen # {} => ts[Min(seen)].mandatory /\ seen = {Min(seen)}

Absent == [found |-> FALSE, body |-> {}]

\* find, then from_value: what was found, with no body if it does not decode.
Find(ts, type) ==
    LET found == Having(ts, type) IN
    IF found = {} THEN Absent ELSE [found |-> TRUE, body |-> Bodies(ts[Min(found)])]

\* find_crypto_binding: the message's own TLV first, else the one enclosed.
FindCryptoBinding(ts, ir) ==
    LET top == Find(ts, CRYPTO_BINDING) IN
    IF top.found THEN top ELSE Find(ir.tlvs, CRYPTO_BINDING)

\* find_mat stops at the first Vendor-Specific TLV that is ours or malformed.
FindMat(ts) ==
    LET Ours(i) == \E b \in Bodies(ts[i]) : b.vendor = VendorId
        stops   == {i \in Having(ts, VENDOR_SPECIFIC) : Bodies(ts[i]) = {} \/ Ours(i)}
    IN IF stops = {} THEN "Absent" ELSE IF Ours(Min(stops)) THEN "Ours" ELSE "Undecodable"

\* What a step may act on: the critical TLVs it finds, and the binding that
\* goes with the Intermediate-Result.
ActedOn(ts) ==
    LET ir == Find(ts, INTERMEDIATE_RESULT) IN
    [idt |-> Find(ts, IDENTITY_TYPE), ir |-> ir, result |-> Find(ts, RESULT),
     binding |-> {FindCryptoBinding(ts, b) : b \in ir.body}]

-----------------------------------------------------------------------------
\* A step acts on "exactly the one whose framing was validated" (session.rs:26):
\* in a message that passes the framing test, a reader that takes the last TLV
\* of a type sees what the code, which takes the first, sees.
FramedIsUnambiguous ==
    result = "Parsed" /\ Framed(tlvs) => ActedOn(Reverse(tlvs)) = ActedOn(tlvs)
=============================================================================
