----------------------------- MODULE CngSigner ------------------------------
(***************************************************************************)
(* The credential of a session (crates/creds: cng.rs, selection.rs,        *)
(* keyinfo.rs, adapter.rs): the store is enumerated for the one            *)
(* certificate that satisfies the selector, its key handle is acquired,    *)
(* the inner handshake presents the certificate and signs with the key,    *)
(* and everything is released when the last owner drops the signer.        *)
(*                                                                         *)
(* What the module keeps of Windows is the accounting: a certificate       *)
(* context lives while its store is open or a reference to it is held; a   *)
(* key that is not the caller's to free lives as long as its context.      *)
(***************************************************************************)
EXTENDS Integers, FiniteSets, Sequences

CONSTANTS Stores,    \* what a store may hold: sequences of certificates
          Selectors, \* which criteria the selector may set
          Offers,    \* the signature schemes a server may offer
          Threads    \* threads that may sign at the same time

\* What of a certificate the selection goes by; pinned says that its thumbprint
\* is the selector's.  Any other key is a curve or algorithm we do not sign with.
CertificateType == [pinned : BOOLEAN, parses : BOOLEAN, eku : BOOLEAN,
                    subject : BOOLEAN, issuer : BOOLEAN,
                    key : {"RSA", "P256", "P384", "other"}]

ASSUME StoreAssumption == \A s \in Stores : s \in Seq(CertificateType)

VARIABLES store, selector,
          phase,     \* "new", "open" (enumerating), "build", "ready" or "gone"
          prev,      \* the iterator's last context, 0 for null
          chosen,    \* the duplicate we hold, 0 for none
          matches,
          refs,      \* Windows: the references held to each context
          handles,   \* Windows: the key handles we are to free
          callerFree,
          result,    \* what open_and_select returned
          offered,   \* what the server offered when we presented, {} if we did not
          signing    \* the threads inside of NCryptSignHash

found == <<store, selector, prev, chosen, matches>>
owned == <<refs, handles, callerFree>>
use   == <<offered, signing>>
vars  == <<found, phase, owned, result, use>>

Certificates == 1..Len(store)

Init ==
    /\ store \in Stores /\ selector \in Selectors
    /\ phase = "new" /\ prev = 0 /\ chosen = 0 /\ matches = 0
    /\ refs = [i \in Certificates |-> 0]
    /\ handles = 0 /\ callerFree = FALSE
    /\ result = "Pending" /\ offered = {} /\ signing = {}

-----------------------------------------------------------------------------
(* Certificates.                                                            *)

\* CertSelector::matches: {} when a criterion needs a certificate that does not
\* parse.
Matches(c) ==
    IF selector.pin /\ ~c.pinned THEN {FALSE}
    ELSE IF ~selector.eku /\ ~selector.subject /\ ~selector.issuer THEN {TRUE}
    ELSE IF ~c.parses THEN {}
    ELSE {/\ selector.eku     => c.eku
          /\ selector.subject => c.subject
          /\ selector.issuer  => c.issuer}

\* scheme_for_cert; it parses the certificate on its own account.
SchemeOf(c) ==
    CASE ~c.parses      -> {}
      [] c.key = "RSA"  -> {"RSA_PSS_SHA256"}
      [] c.key = "P256" -> {"ECDSA_P256_SHA256"}
      [] c.key = "P384" -> {"ECDSA_P384_SHA384"}
      [] OTHER          -> {}      \* another curve or algorithm, RSA below 2048

Algorithm(scheme) == IF scheme = "RSA_PSS_SHA256" THEN "RSA" ELSE "ECDSA"

Scheme == CHOOSE s \in SchemeOf(store[chosen]) : TRUE

\* CertFreeCertificateContext, and the drop of what holds one.
Free(r, i) == IF i = 0 THEN r ELSE [r EXCEPT ![i] = @ - 1]
Take(r, i) == [r EXCEPT ![i] = @ + 1]

ContextLives(i) == phase \in {"open", "build"} \/ refs[i] > 0

Fail(error) == phase' = "gone" /\ result' = error

-----------------------------------------------------------------------------
(* open_and_select.                                                         *)

Open ==
    /\ phase = "new"
    /\ \/ phase' = "open" /\ UNCHANGED result
       \/ Fail("StoreFailure")
    /\ UNCHANGED <<found, owned, use>>

\* CertEnumCertificatesInStore frees the previous context and hands out the next.
Enumerated == Take(Free(refs, prev), prev + 1)

Examine ==
    /\ phase = "open" /\ prev < Len(store)
    /\ LET ctx == prev + 1  m == Matches(store[ctx]) IN
       \/ /\ m = {FALSE}
          /\ prev' = ctx /\ refs' = Enumerated
          /\ UNCHANGED <<phase, chosen, matches, result>>
       \/ /\ m = {TRUE}
          /\ prev' = ctx /\ matches' = matches + 1 /\ chosen' = ctx
          /\ refs' = Take(Free(Enumerated, chosen), ctx)
          /\ UNCHANGED <<phase, result>>
       \/ /\ m = {}
          /\ Fail("BadCertificate")    \* the iterator drops, the duplicate stays
          /\ refs' = Free(Enumerated, ctx)
          /\ UNCHANGED <<prev, chosen, matches>>
    /\ UNCHANGED <<store, selector, handles, callerFree, use>>

MutUnique == matches >= 1

Unique == matches = 1

\* The last call frees the previous context and returns null, which leaves prev
\* as it was; the iterator then drops.
AtEnd ==
    LET r == Free(Free(refs, prev), prev) IN
    /\ phase = "open" /\ prev = Len(store)
    /\ IF Unique
       THEN phase' = "build" /\ refs' = r /\ UNCHANGED result
       ELSE /\ Fail(IF matches = 0 THEN "NoMatchingCert" ELSE "AmbiguousMatch")
            /\ refs' = Free(r, chosen)
    /\ UNCHANGED <<found, handles, callerFree, use>>

Build ==
    /\ phase = "build"
    /\ \/ /\ SchemeOf(store[chosen]) # {}
          /\ phase' = "ready" /\ result' = "Signer"
          /\ callerFree' \in BOOLEAN
          /\ handles' = IF callerFree' THEN handles + 1 ELSE handles
          /\ UNCHANGED refs
       \/ /\ SchemeOf(store[chosen]) = {}
          /\ Fail(IF store[chosen].parses THEN "UnsupportedKey" ELSE "BadCertificate")
          /\ refs' = Free(refs, chosen)
          /\ UNCHANGED <<handles, callerFree>>
       \/ /\ SchemeOf(store[chosen]) # {}
          /\ Fail("StoreFailure")      \* CryptAcquireCertificatePrivateKey
          /\ refs' = Free(refs, chosen)
          /\ UNCHANGED <<handles, callerFree>>
    /\ UNCHANGED <<found, use>>

-----------------------------------------------------------------------------
(* The signer in use.                                                       *)

\* RemoteCertResolver::resolve goes by the exact scheme.
Presents(offer) == Scheme \in offer

\* The server asks for our certificate.
Resolve == \E offer \in Offers :
    /\ phase = "ready"
    /\ offered' = IF Presents(offer) THEN offer ELSE {}
    /\ UNCHANGED <<found, phase, owned, result, signing>>

\* choose_scheme: rustls signs only with a scheme that the server offered.
Chooses == Scheme \in offered

\* ncrypt_sign: the lock is held only while the handle is copied.
Sign(t) ==
    /\ phase = "ready" /\ t \notin signing /\ Chooses
    /\ signing' = signing \cup {t}
    /\ UNCHANGED <<found, phase, owned, result, offered>>

Signed(t) ==
    /\ t \in signing
    /\ signing' = signing \ {t}
    /\ UNCHANGED <<found, phase, owned, result, offered>>

MutKeyFreed == handles - 1

KeyFreed == IF callerFree THEN handles - 1 ELSE handles

\* The last Arc is dropped: nobody signs any more.
Drop ==
    /\ phase = "ready" /\ signing = {}
    /\ phase' = "gone" /\ offered' = {}
    /\ handles' = KeyFreed
    /\ refs' = Free(refs, chosen)
    /\ UNCHANGED <<found, callerFree, result, signing>>

Next ==
    \/ Open \/ Examine \/ AtEnd \/ Build \/ Resolve \/ Drop
    \/ \E t \in Threads : Sign(t) \/ Signed(t)

Spec == Init /\ [][Next]_vars

-----------------------------------------------------------------------------
\* "An ambiguous match must never silently pick one" (selection.rs:76): a signer
\* is for the only certificate of the store that satisfies the selector, and a
\* store with none, with several, or with one that cannot be judged is told so,
\* in whatever order they are enumerated.  It is presented only if the handshake
\* can be finished with it: what the resolver agreed to, choose_scheme does not
\* turn down (adapter.rs:105).
SelectionIsUnique ==
    LET good == {i \in Certificates : Matches(store[i]) = {TRUE}}
        bad  == {i \in Certificates : Matches(store[i]) = {}} IN
    /\ phase = "ready" => bad = {} /\ good = {chosen}
    /\ result = "NoMatchingCert" => bad = {} /\ good = {}
    /\ result = "AmbiguousMatch" => bad = {} /\ Cardinality(good) > 1
    /\ offered # {} => Chooses

\* A key handle that is ours to free is open for as long as the signer is there
\* and freed once, on whatever path we got there; one that is its context's is
\* never freed by us.
KeyIsReleasedOnce ==
    /\ phase # "ready" => handles = 0
    /\ phase = "ready" => handles = (IF callerFree THEN 1 ELSE 0)

\* "The context must outlive every signing call" (cng.rs:68): the duplicate that
\* the signer owns keeps the certificate, and a key that belongs to it, alive.
ContextOutlivesSigning == phase = "ready" => ContextLives(chosen)
=============================================================================
