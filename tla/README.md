# A verification project for the USG supplicant

The USG supplicant is a TEAP (RFC 9930) peer method for Windows EAPHost. It is a DLL that takes EAP
packets from the host and answers them: a TLS 1.3 tunnel with FIPS-only parameters, in it a Phase-2
session of TLVs, in those a second, mutually authenticated TLS handshake (the inner EAP-TLS method),
and at the end a Crypto-Binding that ties the two together. A status file carries what happens to a
tray application.

This directory holds TLA+ modules translated from the Rust source, TLC configurations that check them
on small instances, and TLAPS proofs, for every value of the constants, of all that the passing runs check
and that is not about liveness.
Paths below are relative to `src/`; `crates/` is left out where it is obvious.

Contents: [1 the system](#1-the-system) · [2 the modules](#2-the-modules) · [3 the runs](#3-the-runs) ·
[4 fairness, deadlock, symmetry](#4-fairness-deadlock-symmetry) · [5 the proofs](#5-the-proofs) ·
[6 findings](#6-findings) · [7 disagreements with the documentation](#7-disagreements-with-the-documentation) ·
[8 what is not modelled](#8-what-is-not-modelled) · [9 plan](#9-plan)

To use it, in this directory: `tlc -config TeapSession.cfg MCTeapSession.tla` (every `X.cfg` goes with
`MCX.tla`; `StatusFile_restart.cfg` and `CngSigner_context.cfg` go with `MCStatusFile.tla` and
`MCCngSigner.tla`), and `tlapm XProofs.tla` for `X` any of `TeapDriver`, `PeerSession`, `EapExchange`, `Peer`,
`MachineFiles`, `CngSigner`, `Desktop` and `Records`: each takes from half a minute to a few minutes from nothing.

## 1. The system

    EAPHost threads ──► peer.rs entry points ──► session registry ──► PeerSession
                             │ publish_status                             │ TeapDriver   (outer EAP, tunnel, fragments)
                             ▼                                            │   └ TeapSession  (Phase-2 TLVs, keys)
                        status file ◄── tray, status window               │       └ EapTlsInner (inner TLS, fragments)
                                                                          │           └ CngSigner (certificate, key)

| Component | State | Operations | What is hard about it | What makes it correct |
|---|---|---|---|---|
| Phase-2 session, `teap/src/session.rs` | captured IMSK, key schedule, CMK, MAT sent, terminated | `step` on the TLVs of one message | sections that push answers and set keys before later ones fail; errors that end nothing; a server that repeats TLVs or methods | keys, answers and grants only under the chain that a Crypto-Binding proved; one MAT; one verdict |
| Reassembly, `teap/src/outer.rs` | buffer, declared total, fragment count | `push`, `fragment` | the limits, empty fragments, use for the next message | bounded memory, whole messages |
| Outer driver, `supplicant/src/driver.rs` | phase, tunnel, session, fragment queue, pending outcome, rounds | `step` on one EAP packet | acknowledgement or empty fragment, rounds, partial failure in the last step, Success and Failure in any phase | nothing before the FIPS check, an outcome only when confirmed, no endless exchange |
| Inner EAP-TLS, `supplicant/src/inner_tls.rs` | phase, engine, queue, commitment seen, failed | `process` on one inner packet | the protected commitment, empty messages, sticky failure | the key leaves once, after a whole handshake |
| Peer session, `eaphost/src/session.rs` | driver, buffered response, result | `process_request`, `take_response`, `result` | errors become verdicts | one final result, on all the evidence |
| Entry points and registry, `eaphost/src/peer.rs`, `session_registry.rs` | sessions by handle, metadata, last certificates | the EAPHost callbacks | each takes several locks in turn; calls of two threads in between | no false success, nothing leaked, nothing published late |
| Status file, `usg-status/src/lib.rs`, `eaphost/src/status_security.rs` | the file, staging files, remembered certificates | `publish_status`, `write_status`, `read_status` | several processes, crashes, reads that miss, the hardening at first use | whole files, certificates kept |
| Tray, `usg-tray` | last state, icon, toast window, child | window messages | a file that changes between reads, missed reads, GDI handles | no duplicate toast, none for ever, no leak, catches up |
| Status window, `usg-status-window` | what is shown, the temporary certificate files | poll, the two "View" buttons | viewers are processes of their own and read their file late | each viewer shows a certificate of its identity |
| TLV codec, EAP and TEAP headers, profile, `teap/src/tlv`, `eap.rs`, `outer.rs`, `eaphost/src/config.rs`, `config_xml.rs` | none | decode, encode | lengths at the boundary, counts, duplicates | what is accepted is exactly what is well-formed, and it is read one way only |
| Credentials, `creds` | store iterator, context references, key handle | select, sign, drop | reference counts, the order of the store, two threads signing | one certificate or none, freed once, alive while used |
| Machine ticket store, `pac` | one sealed record on disk | `save`, `load`, `clear` | writes in place and without a lock; nothing calls it yet | no mixed ticket, and no old one once a save or a clear is through |
| Test server, `teap-test-harness` | two TLS servers, phase | `handle` | panics where it cannot go on; the client's limits | the other end of a whole session |
| FIPS TLS backend, `fips-tls` | rustls connection | the parameter check | a library under it | the `established` gate is part of the modules that use it |
| Registration, profile conversion, OS FIPS policy, CLI, known-answer tests | none or input/output | | | not modelled (section 8) |

### Hazards

`PROJECT.json` lists each hazard with the line where it bites and the properties that catch it. They
fall in these groups:

- *sequences of legal calls*: a server chooses freely what TLVs to send, when to repeat them, when to
  restart the inner method, and a caller may go on after an error;
- *partial failure*: the client's state is ahead of what it has sent, or the other way round;
- *interleaving*: between the locks of one entry point another thread ends, begins or finishes a session;
- *crash and restart, missed reads*: the status file and the ticket have several writers and no lock, and a
  certificate's temporary file is read by another process, later;
- *loss and repetition* of EAP packets with a fragment queue on both sides;
- *limits and boundaries*: rounds, fragments, bytes, TLVs, lengths, references.

## 2. The modules

| Module | Models | Extends or instantiates |
|---|---|---|
| `Authentication` | abstract: a verdict and the evidence for it | |
| `TeapSession` | `TeapSession::step` | `Authentication` (refinement) |
| `Reassembler` | `Reassembler::push` | |
| `TeapDriver` | `TeapDriver::step`, with a session in it | `TeapSession` |
| `TeapDriverProofs` | theorems about both | `TeapDriver` |
| `InnerTls` | `EapTlsInner::process` | |
| `PeerSession` | `PeerSession` over the assembled driver | `TeapDriver`, `InnerTls`, `Authentication` (refinement) |
| `FullSession` | `PeerSession` against anything, or the test server and the loop of the full-session test | `PeerSession` |
| `PeerSessionProofs` | theorems about `PeerSession` and `FullSession` | `FullSession`, `TeapDriverProofs` as `Below` |
| `Peer` | the entry points, by critical section | |
| `PeerProofs` | theorems about them | `Peer` |
| `StatusFile` | publish and the staged write, several processes | |
| `MatStore` | `save`, `load` and `clear` of the ticket's file, several processes | |
| `MachineFiles` | both files, one at a time | `StatusFile`, `MatStore` |
| `MachineFilesProofs` | theorems about both | `MachineFiles` |
| `Conversation` | abstract: two sides that take turns, and each gets all messages | |
| `EapExchange` | driver fragmentation, EAPHost, link and server | `Reassembler`, `Conversation` (refinement) |
| `EapExchangeProofs` | theorems about `Reassembler` and `EapExchange` | `EapExchange` |
| `TlvReader` | `TlvReader::next` | |
| `TlvMessage` | TLV encoding, bodies, the session's `find` functions | `TlvReader` |
| `Framing` | EAP packets, TEAP messages, profiles | `TlvMessage` |
| `Records` | ticket records, the XML envelope, DER signatures, the text of a status | `Framing` |
| `RecordsProofs` | theorems about the four modules of formats | `Records` |
| `CngSigner` | selection, signing and drop of a credential | |
| `CngSignerProofs` | theorems about it | `CngSigner` |
| `Tray` | the tray's window messages | |
| `StatusWindow` | the window's timer and buttons, the viewers it opens | |
| `Desktop` | tray and window, one at a time | `Tray`, `StatusWindow` |
| `DesktopProofs` | theorems about both | `Desktop` |

How state and actions correspond to the code:

**TeapSession.** The variables are the fields of `TeapSession` that `step` changes, `reply` is what it
returned, and `bound`, `mats`, `erred`, `verdict` are history. A key chain `<<k1, ...>>` stands for the
key schedule after absorbing those IMSKs, for the CMK and for the MSK derived from it; two chains are
equal exactly if the keys are. A Crypto-Binding carries the chain its sender computed the MAC under, so
`cryptobind::verify` is a comparison of chains: the MAC and the key schedule are taken to be perfect.
`step` runs through five sections; each predicate (`AtPayload`, `AtIntermediate`, `AtInnerSuccess`,
`AtResult`, ...) says that a message gets as far as that section, and the exits are the actions
`DecodeError` (the `?`), `Fail` (`fail_step`), `Accept` and `Continue`. All of them share `Sections`:
what the sections they passed left behind, which is where partial failure shows. The run uses a caller
that may call `step` again whatever it returned.

**Reassembler.** `Push` has one exit per check, in their order. `HostedSpec` is a caller that stops for good at
an error, as both callers do (PeerSession turns an error into a verdict, EapTlsInner sets `failed`);
`Spec` is any caller. Both are proved about.

**TeapDriver.** `Outer` covers the packets handled before Phase 2 and those that are not data of Phase
2; `Phase2` composes a whole `Step` of the session with the encryption and framing of what it returned. TLS is
three states: handshaking, up, or finished with parameters that the check refuses. A flight is the
number of its fragments. In the composed modules a push is what it returns (more, error, message).

**InnerTls, PeerSession.** `InnerTls` takes every exit of `process`. `PeerSession` connects its result to
the Phase-2 step (an EAP-Payload TLV runs it, its answer is `x`), and adds `process_request`'s handling of
errors, the buffered response and the result.

**FullSession.** `opposite` chooses once who is at the other end. `Anything` is `PeerSession`'s own next-state
relation: every packet at every point. Otherwise the test server answers: one action per phase of
`TeapServer::handle`, which returns the next `inbound`, and `Client` is `process_request` on just that
packet. The client's actions are those of `TeapDriver`, `TeapSession` and `InnerTls`, restricted to what
the server sent; what the two TLS connections of a method agree on is the key `exported`. Certificates are
two flags (each end trusts the other's, or not), and the server may ask for the other identity.

**Peer.** A session is its verdict, its tunnel flag and its response. Each entry point is cut at its locks:
every action is one critical section of the registry or of the status metadata, and a thread has a program
counter between them. The host makes any calls in any order. A publish may fail: the directory cannot be
hardened, or the write's result, which is ignored, is an error (`peer.rs:129-131`, `159`); then the snapshot stays
what it was, so a result that was reported need not ever be shown. `late` is a history variable: the calls that were
under way when a result of their session was last shown; `VerdictStaysShown` says that only those can paint over it.

**StatusFile.** `publish_status` step by step: `secure_status_dir` (once per process, deletes the file),
the read, the merge, the write to a staging file named for the pid, the rename. A process may crash between any two
steps and starts again with nothing remembered. The status-metadata lock makes publishes of one process
sequential; nothing does so between processes.

**MatStore, MachineFiles.** A file is a sequence of blocks, each marked with the save it is of, and a path is
apart from the file it names, so that a handle outlives `clear`. `save` opens with truncation and writes at
its own position, block by block, and may be given up at any of them. A load reads block by block and
succeeds exactly if what it has read is all that one save sealed (DPAPI authenticates, and the record has its
length). The variables after `result` are history. `MachineFiles` adds the store to the status file without
interleaving the two: neither reads what the other writes.

**EapExchange.** The client side is `TeapDriver`'s: `Drains` is the bare-acknowledgement test, and the
reassembler is the module `Reassembler` itself, extended: a data fragment that arrives is one `Push`. Every request
that gets past `Drains` counts towards the limit on rounds of its phase, before it is looked into; the last message
of the handshake starts the count anew, and past the limit the step is an error, at which PeerSession stops for good
(`StopAtLimit`, `Stopped`). The limits are in a variable that is chosen once, so that one run has a server
that meets them and one that oversteps them. EAPHost (answers a repeated identifier from what it kept), the link
and the server are external, modelled from RFC 3748's lock step.

**TlvReader, TlvMessage, Framing.** Octets of `Base` values; the widths of words are in octets, so numeric
limits scale with `Base`. `TlvReader` is a state machine with one step per `next`; the decoders are
operators that return the set of what they decode, `{}` for an error. The run's invariants are evaluated on
every buffer the run enumerates.

**Records.** As the decoders of `Framing`. A hex digit has `HexBase` values in two cases, a status key and each token
is one character, and two of the status's seven texts stand for all. DER is read back by a reference reader
(`Element`, `Holds`) that is written from X.690, not from `ecdsa.rs`.

**CngSigner.** Windows is modelled by its accounting: a context lives while its store is open or a
reference to it is held; the enumeration call releases the context it is given, on its last call too.

**Tray.** One action per window message, on one thread; the file changes in between and any read may miss. `news`
is a history variable: the file was written (possibly before the tray started) since startup or a poll last read it.
A click reads the file too, but shows what it read on demand and leaves `LAST_STATE` alone, so it does not count.

**StatusWindow, Desktop.** A click looks the identity's certificate up by thumbprint, then by subject, and
may fall through at every step; finding one truncates the temporary file, the next step completes it
and starts a viewer, which reads the file at any time after that. `Desktop` runs the tray or the
window: they share only the published file, which each reads for itself.

## 3. The runs

| Run | States | Properties | What it shows |
|---|---|---|---|
| `TeapSession` | 2.8 k | `TypeOK`, `AnswerIsBound`, `GrantIsBound`, `MatOnce`, `ChainIsFixed`, `VerdictIsLast`, `ImplementsAuthentication` | one session, every message, a caller that goes on after errors |
| `Reassembler` | 16 k | `Bounded`, `Intact` | any stream of fragments |
| `TeapDriver` | 25 k | `GrantIsConfirmed`, `NoGrantAfterVerdict`, `AnswersUseUpTheSession` | the driver with a session in it, a caller that goes on after errors and verdicts |
| `PeerSession` | 14 k | `ResultIsEarned`, `BothEndsAgree`, `ImplementsAuthentication`, `SessionCompletes` | the assembled stack as EAPHost runs it, against anything and against the test server |
| `Peer` | 412 k | `SuccessIsTrue`, `MetaFollowsSession`, `ResponseIsThere`, `VerdictStaysShown`, `NothingAfterEnd` | two threads, two sessions, any calls, publishes that fail |
| `StatusFile` | 237 k | `FileIsWhole`, `CertsArePaired`, `KnownCertKept`, `TicketIsCurrent` | two processes on either file: crashes, restarts, failed and abandoned writes |
| `EapExchange` | 4.3 k | `NoFalseAlarm`, `FlightsGoOutWhole`, `CarriesConversation` | a whole exchange over a link that loses and repeats, and one that the client stops |
| `Framing` | 103 k | `AcceptsExactlyTlvs`, `FramedIsUnambiguous`, `WireInverts`, `RecordsInvert`, `StatusFieldsStayApart` | the formats, octet by octet |
| `CngSigner` | 84 k | `SelectionIsUnique`, `KeyIsReleasedOnce` | a credential's life, two threads |
| `Tray` | 134 k | `IconsAreFreed`, `ViewersShowTheirs`, `ToastsAreChanges`, `ToastIsDismissed`, `CatchesUp` | the tray, and the window with its viewers, against a changing file |
| `StatusFile_restart` | violated | `PublishedCertKept` | finding 1 |
| `CngSigner_context` | violated | `ContextOutlivesSigning` | finding 2 |

The bounds, and why they are enough:

- `TeapSession`: two keys (one to be bound, one to be exported later), and every value of every field that
  `step` reads; fields behind the TLV that ends the step are left absent. Chains have one key in
  fact (`ChainIsFixed`), but nothing bounds them. The state space is finite without a bound.
- `Reassembler`: `MaxTotal` 4, `MaxFragments` 3, fragments of up to two octets with every total from none
  to one beyond the limit: each limit is met exactly, passed by one, and met by empty fragments.
- `TeapDriver`: `HandshakeRounds` 2, `Phase2Rounds` 3, `MaxPieces` 2; the counter saturates at `MaxCount`
  4, one above the larger limit, as only the comparison is read. One message per way a Phase-2 step can
  end.
- `PeerSession`: `HandshakeRounds` 2, `Phase2Rounds` 5, so that a full inner handshake and its binding fit, and
  also run out. Against the test server, both identities, both keys and both answers about each certificate.
- `Peer`: two threads and two handles: two calls about one session or about two. Handles are
  never reused in the code (the counter only grows).
- `StatusFile`: two processes, two credentials and one without a subject filter, three publishes begun in
  all: one before, one during, one after a restart. For the ticket, records of one and of two blocks (a shorter one
  over a longer one), three saves and any number of loads, clears and abandoned calls.
- `EapExchange`: four messages each way with a fragment size of 2: flights of three fragments, one that just fits, one a
  single octet over, an empty one; three losses, four packets in flight. The server meets each limit of the client exactly
  (5 octets, 3 fragments, 4 rounds of handshake, 2 of Phase 2), or passes that of one phase by one.
- `Framing`: octets of four bits (the fewest that hold the three flags and a version); every
  buffer of up to three octets, selected ones beyond; up to three TLVs with good and bad bodies, the limit on
  TLVs (4096 in the code) at 3; packets, profiles and ticket records with every length around the right one (tickets up to
  three octets). Coordinates of 2, 4, 5 and 7 octets: the sequence's length then lies below, at and beyond the
  short form's limit, which with these octets is 8. Short buffers are also hex texts and the texts of a status.
- `CngSigner`: stores of up to three certificates of eight kinds in every order (a match first, in between, last, twice), three
  selectors, four offers, two signing threads.
- `Tray`: the toast hides after 2 ticks instead of 133; three publishes, so that a state can change and come
  back between two polls; two clicks. For the window, two views (of one identity or of both) and stores in which
  certificates share a subject within a store and across the two.

For each property `PROJECT.json` names a mutant: a plausible bug in a mapped definition (a dropped guard, a
missing reset, an off-by-one) under which the same run finds the property violated. The `Mut...` definitions
in the modules are those mutated forms; nothing else uses them.

## 4. Fairness, deadlock, symmetry

`EapExchange` assumes weak fairness of `ClientReceives` and `HostRepeats` (EAPHost delivers a packet that
arrived to the method or answers it again), of `ServerReceives` (the server reads), and of `Retransmit` (an EAP
server repeats a request that has no answer; RFC 3748 section 4.3). Loss is not fair and is bounded by
`MaxLosses`: a link that loses everything carries nothing.

`PeerSession` assumes weak fairness of `Client \/ Server`, for `SessionCompletes` only: the test's loop is one thread that
hands each side's packet to the other. Nothing is assumed when the other end is a network.

`Tray` assumes weak fairness of the toast's timer (Windows keeps sending `WM_TIMER` while the timer is set) and
of a poll that reads the file: a file that is there is not missed for ever. Neither clicking nor
publishing is fair.

The other modules state safety only: what the network and the host do, and whether they do it at all, is
theirs to decide, and the code sets no timer of its own.

Deadlock is not checked where the system really stops: a caller that stops at an error
(`Reassembler`), publishes that are all done (`StatusFile`), an exchange whose last flight has arrived or whose
client has stopped (`EapExchange`), a reader at its end (`Framing`), a signer that is dropped (`CngSigner`), a tray that
was exited (`Tray`). It is checked in `TeapSession`, `TeapDriver`, `PeerSession` and `Peer` (where it also shows that
the locks are never waited for in a circle). `Peer` uses symmetry in its threads, and checks no liveness.

## 5. The proofs

Every property of the passing runs of section 3 has a theorem, except the four about liveness. A theorem
holds for all values of the constants of its module: any number of keys, threads, processes, certificates or
publishes, any limit, buffers of any length and octets of any size.

| Module | Theorem | Property | Establishes |
|---|---|---|---|
| `TeapDriverProofs` | `TypeCorrect` | `TypeOK` | every variable of a session keeps its type |
| | `AnswersAreBound` | `AnswerIsBound` | our Binding Response goes out only under a chain that was proved in that message |
| | `MatGoesOutOnce` | `MatOnce` | at most one MAT, only from a user session that holds one |
| | `ChainStaysFixed` | `ChainIsFixed` | once derived, the chain never moves |
| | `VerdictStaysLast` | `VerdictIsLast` | after the verdict nothing is sent and the verdict stays |
| | `GrantsAreBound` | `GrantIsBound` | a grant of a session without an error exports the keys of the chain that was verified |
| | `SessionImplementsAuthentication` | `ImplementsAuthentication` | a session implements `Authentication` |
| | `GrantsAreConfirmed` | `GrantIsConfirmed` | a reported success was granted by the session, in a tunnel that passed the FIPS check |
| | `TheVerdictIsFinal` | `NoGrantAfterVerdict` | once a step has finished, no later one grants |
| | `AnswersUseUp` | `AnswersUseUpTheSession` | every answer moves on: a later phase, round or fragment, each of them bounded |
| `PeerSessionProofs` | `TypeCorrect` | | every variable of the assembled supplicant keeps its type |
| | `ResultsAreEarned` | `ResultIsEarned` | a granted result rests on the whole chain of evidence |
| | `ResultsAreFinal` | | it never changes |
| | `TheEndsAgree` | `BothEndsAgree` | client and test server hold the same keys and trust each other |
| | `PeerImplementsAuthentication` | `ImplementsAuthentication` | the assembled supplicant implements `Authentication` |
| `EapExchangeProofs` | `MemoryIsBounded` | `Bounded` | `Reassembler`, any caller: at most `MaxTotal` octets and `MaxFragments` fragments |
| | `MessagesAreIntact` | `Intact` | a caller that stops at an error gets its fragments, in order, of the declared length |
| | `NoFragmentIsDropped` | `FlightsGoOutWhole` | a flight is not replaced before its last fragment is out |
| | `MessagesTakeTurns` | | the steps of `Conversation`: each message whole, in order, in turn, once |
| | `NoAlarmIsFalse` | `NoFalseAlarm` | the client stops only for a server that overstepped a limit of the reassembler, or the limit on rounds of the phase |
| `PeerProofs` | `NoFalseSuccess` | `SuccessIsTrue` | no one is told of a success that was not granted |
| | `MetaLifetime` | `MetaFollowsSession` | metadata lives as long as its session |
| | `NoLatePublication` | `NothingAfterEnd` | nothing is published after EndSession has returned |
| | `ResponseKept` | `ResponseIsThere` | a response stays until it is taken |
| | `VerdictKept` | `VerdictStaysShown` | for any host: a result that is shown is replaced, within its session, only by a call that was under way then, or after the session was removed |
| `MachineFilesProofs` | `NeverTorn` | `FileIsWhole` | no half-written status is ever read |
| | `AlwaysPaired` | `CertsArePaired` | a published identity's fields are of one certificate |
| | `NeverForgets` | `KnownCertKept` | no publish loses a certificate its process run has known |
| | `AlwaysCurrent` | `TicketIsCurrent` | no load returns a ticket from before the last save or clear |
| `RecordsProofs` | `ReaderAcceptsExactlyTlvs` | `AcceptsExactlyTlvs` | the strict reader accepts exactly the buffers that TLVs cover from end to end, within the limit |
| | `ReaderFramedIsUnambiguous` | `FramedIsUnambiguous` | in a framed message, the first TLV of a critical type is the last one too |
| | `ReaderWireInverts` | `WireInverts` | packets, messages and bodies are written back as they were read |
| | `ReaderRecordsInvert` | `RecordsInvert` | profiles, ticket records, hex texts and DER signatures are read as they were meant |
| | `ReaderStatusFieldsStayApart` | `StatusFieldsStayApart` | no text of a status becomes a line or a field of its own |
| `CngSignerProofs` | `TheSelectionIsUnique` | `SelectionIsUnique` | a signer is for the only match, or says why there is none |
| | `TheKeyIsReleasedOnce` | `KeyIsReleasedOnce` | a key handle of ours is freed once |
| `DesktopProofs` | `IconsStayFreed` | `IconsAreFreed` | icon handles neither leak nor die in use |
| | `ViewersKeepToTheirs` | `ViewersShowTheirs` | a viewer shows a certificate of its identity |
| | `ToastsStayChanges` | `ToastsAreChanges` | a toast pops only for what was written since startup or a poll last read the file |

Each module also has the theorem that its inductive invariant holds (`Invariance`, `DriverInvariance`,
`StatusInvariance`, `TicketInvariance`, `ExchangeInvariance`, `ReaderInvariance`). TLC checked every one of
these invariants on the run of its component before it was proved.

**Assumptions.** They are the `ASSUME`s of the modules, which TLC evaluates in the runs: `NoKey` is not a key;
messages, fragments, scripts and stores are of their types; limits are natural numbers, where the code has an
unsigned constant; sizes of flights, of fragments and of records are positive; a round counter saturates above
its limits. Octets have a number of values that is a multiple of 8 and a square, and a version mask that fits
under the flags, as 256, 16 and 7 do; the two magics have four octets. Nothing is assumed of the buffers but
that they are octet strings. One theorem is about a caller that the code constrains:
`MessagesAreIntact` is about callers that stop at an error, as both do. The link, the server and EAPHost of
`EapExchange` are constrained by what that module says of them.

### The arguments

**A session.** None of the properties is inductive alone. `IInv` is `TypeOK`, `ChainInv`, `MatInv` and
`AnswerIsBound`. The heart is `ChainInv`: the key schedule and the CMK move together; a verified binding is a
binding to the current chain; and, which is the point of the fail-closed exits, *a chain that was derived but
not verified has ended the session, or the caller has seen an error*. That last conjunct is why a success
Result, which only asks whether there is a CMK (`session.rs:412`), is nevertheless safe, and it is false
without the history variable `erred`: the code relies on its caller. The proof goes by the four exits; lemmas
state what `Sections` does to the chain, once. Authentication's steps follow from the invariant: evidence only
grows, and a grant comes with both parts of it.

**The driver over the session.** The lemmas about one `step` are stated for every message that there can be
and not for the session's own next-state relation. As `TeapDriver` extends `TeapSession`, they can be cited as
they are for the call that `Phase2` makes (`SessionStep`, `SessionMoves`); nothing about the session is proved
twice. The driver's own part of the invariant is short. `TunnelInv`: Phase 2 runs in a tunnel that was verified, which is
why a grant implies the FIPS check, made two phases earlier. `PendingInv`: an outcome waits for EAP-Success
only in a terminated driver. `ReportInv`: once told, nothing is left to tell; without it EAP-Success after
EAP-Failure could report what was pending.

**The assembled supplicant.** `PeerSessionProofs` does the same one level up (`Below`), and adds what is known
only when all three parts run together: an open session has met no error (`OpenInv`, which discharges the
"unless it erred" of the two levels below); the chain is exactly the one key of an inner method that has run
its course (`KeyInv`). That gives `ResultIsEarned`. The refinement maps each `process` to one step of
`Authentication`, and the driver's rounds and the server's steps to stutters. For `BothEndsAgree`, `AgreeInv`
says what a client in each of its phases knows of the server it got there with, and `InboundInv` what each
packet says of the server that sent it: the packet's contents outlive the server's phase by one step, which is
why both are needed.

**Reassembly.** The bound needs only the types and the counters. `Intact` needs `InProgress`: between two
pushes the buffer is exactly what was received of the message in progress, and the total is the one declared.

**The exchange.** `ExchangeInv` says where the two ends are. `TurnInv`: the script is at one message, and
either its k-th piece is the server's current request and the reassembler has the k - 1 or k pieces before it,
or the j-th piece of the client's flight went out last and the server has heard what precedes. `LinkInv`:
whatever was lost or repeated, the link has at most one new request and one new response; any other packet is
a repetition of one already answered, and cannot move either end. The arithmetic of `Pieces` is in lemmas
(`RoundedUp`, `PiecesCarryTheMessage`): the first k pieces carry the first k·chunk octets, and the last one
the rest, whether or not it is full. The crux is `Drains`: a client that is sending takes any empty fragment
for an acknowledgement, which is right because by `TurnInv` the server has then nothing of its own to say. No
limit enters this: an error only stops the client. `NoAlarmIsFalse` says when it may. Its invariant
is `RoundsInv`: until the client stops, its count is the number of distinct pieces of this phase that it has taken
(`PieceCounts`, `MessageCounted`, `NothingCounted`), so no repetition, no acknowledgement of the client's own
fragments and nothing of another phase has used up a round; and a piece that the reassembler refuses is of a
message beyond its limits (`PieceIsAccepted`).

**The entry points.** The property that is hardest to keep is `SuccessIsTrue`, since a thread copies a verdict
under one lock and publishes it under another. `TruthInv` follows the copy: in a thread's local, in what the
host was told, on the tray. It holds because a granted session has no way back. `HandlesInv` says who may know
a handle; it is why a call that is late, or the thread still inside BeginSession, cannot bring back metadata
that EndSession dropped. `LateInv` is for `VerdictStaysShown`: while a result is shown, no call about its
session that is not late is on its way to publish progress, and one that has read no result finds the session gone;
what a result reads is the session's verdict by `TruthInv`. The proof of `ResponseIsThere` uses none of it: the test-and-take under one lock is enough.

**The files.** For the status, `StagingInv`: what a process has filled under its own name is what it merged,
and nobody else writes that name; then the rename is all that readers see. `Paired` is closed under the merge
field by field, which is the lemma `MergePaired`. For the ticket there is no rename, and writers may run into
each other. `AloneInv`, `SettledInv` and `NewerInv` say what a file holds when its writer has met no other,
what it holds once settled, and that blocks older than a completed save or clear are gone from the path for
good: later writers, and handles opened before, can only add newer ones.

**The formats.** The state machine is the TLV reader, and `ReaderInv` is about it: `ReadInv`, that the TLVs read,
encoded again, are the octets consumed; `CountInv`, that the whole buffer is covered by n TLVs more than what
is left of it, where n have been read; `OutcomeInv`, why it stopped. `Covers` is counted from the buffer's end and
the reader goes from its start, so `CountInv` is what joins the two. The other four properties hold of any
buffer of octets, and of any TLVs that can be encoded: given `ReaderInv` they are lemmas about the operators.

Those operators recurse over data, and there is no induction rule to cite whose hypothesis is an operator. But
a statement can be made a *set*, that of the naturals for which it holds, and for sets the rule is a
lemma of first order: `LeastNatural` gets the least element of a set of naturals from the library's theorem
that strict inclusion is well-founded on finite sets, and `Induction` follows. With it, `CoversIs`,
`ParseAllIs`, `SlicesTable` and `FlattenJoins` show that the recursive functions exist and are unfolded once per
step; what each computes is then one more induction (`ParseAllBack`, `SlicesBack`, `FlattenPairs`).

The inverses go by position: four lemmas (`Part`, `Meet`, `Whole`, `FromRest`) say what pieces of a string are
and that adjacent ones join, and each decoder's result is the string cut in adjacent pieces. An accepted profile
may have reserved flags set and a tag other than 1, which are lost. `Rewritten` is the octet string
with just these two replaced; `ProfileBack` shows that it is read as the same profile (`SlicesSame`: the same
octets are cut in the same way) and is what `ToBytes` writes (`ProfileCanonical`). For DER, `SignedIs` says
what stands for a coordinate, and `ElementAt` that the reference reader finds an element wherever one was
written, in all three forms of its length. In a status, `FieldOnItsLine` is the crux: between
lines that are not its own (`Apart`), a field's line is the only one that starts with its key, as texts
have no line breaks once they went through `OneLine`.

**Credentials.** `CountInv` relates the counter to the set of matches among the certificates seen so far
(`GoodGrows`: the set grows by at most the one just judged). Uniqueness for the whole store follows at its
end, and the two error answers need that no certificate was passed over that could not be judged.

**The desktop.** `IconInv`: the icon in use is the only generated one alive, or the stock one. `NewsInv`: if there is
no news, `LAST_STATE` is what the file holds; a poll then finds no change. `ViewerInv`
needs `TempInv` and `JobInv`, since a viewer reads late: whatever the file is truncated or overwritten with
until then, it is of the same identity.

### What is only model-checked

- *Liveness*: `SessionCompletes`, `ToastIsDismissed`, `CatchesUp`, and of `CarriesConversation` that the
  conversation reaches its end. They need `ENABLED` and fairness, for which the provers used here have no
  rules. `AnswersUseUp` is the safety half of termination of the driver, and is proved: each answer uses up
  one of boundedly many phases, rounds and fragments.
- The two runs of section 6 refute what they check.

## 6. Findings

1. **A process's first publish loses the other identity's certificate** (`StatusFile_restart`).
   `secure_status_dir` deletes the status file (`eaphost/src/status_security.rs:60`) before `publish_status`
   reads it (`peer.rs:129`, `137`). `peer.rs:110-112` says the machine and user credentials "both survive
   across the one-at-a-time machine/user sessions. The published status file is the cross-process channel". The
   counterexample: one process publishes, another publishes for the first time; the first one's certificate is
   in no later snapshot of the second.
2. **The iterator's drop releases a reference that the signer owns** (`CngSigner_context`).
   `CertEnumCertificatesInStore` frees the context it is given on its last call too, but `next` leaves
   `prev` set when it returns null (`creds/src/cng.rs:398`), so `CertStoreIter::drop` frees that context a second time. If the match
   is the store's last certificate, the reference that goes is the duplicate, of which
   `cng.rs:65-68` says that it "must outlive every signing call".

## 7. Disagreements with the documentation

Met while modelling; the modules follow the code.

- `teap/src/session.rs:410-411` says that verification of the Crypto-Binding "is what sets `cmk`"; it is set
  before, at line 335. `GrantIsBound` shows that this is harmless for a caller that stops at an error.
- `SERVER-CONTRACT.md:59` wants the MAT sent before the user Intermediate-Result; `session.rs:259-266` sends it only
  in answer to an Identity-Type TLV, which a server may leave out.
- `session.rs:25-27` says duplicates and a cleared M bit of critical TLVs are rejected; TLVs nested in the
  Intermediate-Result (`455-467`) are not looked at.
- `supplicant/src/driver.rs:29-30` speaks of handshake flights; line 193 counts inbound fragments too.
- `driver.rs:123` says `is_established` means "Phase 2 reached or terminated"; a driver terminated by
  EAP-Failure before the tunnel counts as established as well.
- `teap/src/eap.rs:116`: "Success/Failure must be header-only", but `decode` accepts a longer one and drops
  the rest.
- `usg-status/src/lib.rs:59-60` says the thumbprint makes it possible to "open the exact cert"; with a
  profile that sets no subject filter, `peer.rs:137-153` keeps an earlier certificate's subject beside the new
  thumbprint. `CertsArePaired` shows that this is the only way the two can come apart.
- `usg-status/src/lib.rs:29` says "Authenticated (MSK delivered)"; the delivery is a TODO (`peer.rs:697`).
- `peer.rs:713-714` speaks of the terminal verdict that stays on disk; a session ended before it has one
  leaves its in-progress snapshot there.
- `usg-tray/src/tray.rs:89-90` says the seed keeps a stale persisted status from popping a toast, "only genuine
  in-session changes do"; the seed is whatever one read returned (line 91), and if that read misses, the first poll that
  reads the file (303-304) announces the stale status. `ToastsAreChanges` allows just that, and no more.
- `usg-tray/src/toast.rs:5` says an in-progress toast "persists"; lines 39-40 and 151-159 dismiss it too.
- `creds/src/cng.rs:74` says the mutex serialises signing; the guard is a temporary of line 294 and is dropped before
  `NCryptSignHash` is called.
- `cng.rs:151`: an error of `matches` returns through `?` without freeing a duplicate already held, which the
  paths after it (line 164) do.

## 8. What is not modelled

- **TLS, MACs, key derivation, certificate validation** (rustls, `fips-tls`, `keyschedule.rs`, `cryptobind.rs`
  arithmetic): primitives, taken to be perfect; the modules have the state and the checks around them.
- **Of the ticket store** (`pac`): DPAPI, taken to authenticate what it seals; the in-memory store, one value under
  a mutex; `is_fresh`, one comparison. Nothing calls the store yet: the DLL takes the ticket from its profile.
- **Registration** (`register.rs`): a fixed list of registry values. **Profile conversion** (`profile.rs`): a mapping of
  fields. **OS FIPS policy** (`os_fips.rs`): one registry value that is read. None keeps state, or has an order of
  steps that something could come between; the XML envelope is in `Records`, but not the DOM around it.
- **The command-line tool** (`eaphost-cli`) makes one EAPHost call per subcommand and prints what it returns; the
  **known-answer tests** (`usg-kat`) compare fixed vectors of primitives that are external here.
- **Of the test server**: its certificates and its TLS connections; it is modelled by its phases.
- **Drawing, GDI+, labels and layout** of the tray and the window.
- **Formatting and logging** everywhere, and of `peer.rs` the entry points that only fill output parameters
  or answer `NOT_SUPPORTED`.
- **Panics** inside a lock: the code recovers poisoned locks, and no path of it is known to panic.

## 9. Plan

Done, in the order of importance: the Phase-2 session with its abstract specification and proofs; reassembly
with its proofs; driver, inner method and the assembled session; the entry points; the status file; the
exchange over the link; the tray; the formats; the credentials; the whole session against the test server; the
machine ticket store; the status window; the records, signatures and the status text.

What is left of the model is refinement of what is there: the key schedule and the Crypto-Binding as terms
(who can compute which MAC) in place of equal chains, and `Peer` with `PeerSession` under it. Once the DLL calls the ticket store, `TeapSession`'s MAT and `MatStore`
meet.

Proved: every safety and action property that a passing run checks, and the steps of both refinements
(section 5). What is left of the proofs is liveness. Its variants could still be stated as action properties:
what each fair step of the exchange, and of a session with the test server, decreases, as
`AnswersUseUpTheSession` does for the driver.
