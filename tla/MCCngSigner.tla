---------------------------- MODULE MCCngSigner -----------------------------
(***************************************************************************)
(* Stores of up to three certificates, in every order, of: the right one,  *)
(* with each kind of key; one for another purpose; one of somebody else;   *)
(* and one that does not parse.  The selectors are the one that            *)
(* begin_session builds, a pinned one, and a pinned one with an issuer.    *)
(***************************************************************************)
EXTENDS CngSigner

Cert(key) == [pinned |-> FALSE, parses |-> TRUE, eku |-> TRUE, subject |-> TRUE,
              issuer |-> TRUE, key |-> key]

Kinds == {Cert(k) : k \in {"P256", "P384", "RSA", "other"}}
           \cup {[Cert("RSA") EXCEPT !.eku = FALSE],
                 [Cert("P256") EXCEPT !.subject = FALSE],
                 [Cert("P256") EXCEPT !.issuer = FALSE],
                 [Cert("other") EXCEPT !.parses = FALSE]}

Plain == UNION {[1..n -> Kinds] : n \in 0..3}

\* A thumbprint is that of one certificate at most.
MCStores == Plain \cup {[s EXCEPT ![1].pinned = TRUE] : s \in Plain \ {<<>>}}
             \cup {[s EXCEPT ![Len(s)].pinned = TRUE] : s \in Plain \ {<<>>}}

Criteria(pin, eku, subject, issuer) ==
    [pin |-> pin, eku |-> eku, subject |-> subject, issuer |-> issuer]

MCSelectors == {Criteria(FALSE, TRUE, TRUE, FALSE), Criteria(TRUE, FALSE, FALSE, FALSE),
                Criteria(TRUE, FALSE, FALSE, TRUE)}

MCOffers == {{"RSA_PSS_SHA256"}, {"ECDSA_P256_SHA256"},
             {"ECDSA_P384_SHA384", "RSA_PSS_SHA256"}, {"ECDSA_P256_SHA256", "ECDSA_P384_SHA384"}}
=============================================================================
