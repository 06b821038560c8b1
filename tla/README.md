# TLA+ models of the Convro-6 protocol

This directory holds TLA+ specifications of the code in this repository, TLC
configurations that check them on small instances, and TLAPS proofs. Paths below are
relative to the root of the repository. `PROJECT.json` ties every definition to the
lines it models, lists the runs, and keeps the register of hazards with the properties
that cover them.

- `tlc -workers 2 -config X.cfg M` checks a configuration (table in section 4),
- `tlapm M.tla` checks the proofs of `SkipWindowBitmapProofs`, `DirectMessageProofs`,
  `KeyScheduleProofs`, `HandshakeProofs`, `AccountsProofs`, `PrekeysProofs`,
  `ContactsProofs` and `InboxProofs`.

## 1. The system

Convro is an end-to-end encrypted messenger: Rust crates for the protocol, a UniFFI
bridge, a SwiftUI app and an axum/PostgreSQL server that stores ciphertext.

| Component | State it keeps | Operations | What makes it correct |
|---|---|---|---|
| Skip-window, `rust/c6p-sessions/src/replay.rs` | `recv_expected`, 32 x u64 bitmap | `can_accept`, `mark_consumed`, `advance_window`, `slide_bitmap` | a counter is accepted once, inside the window only; slides lose no mark |
| DM stream, `rust/c6p-sessions/src/{state,ratchet,aead}.rs` | chain key, send counter, window | `advance_send`, `prepare_receive`, `mark_received`, `encrypt_and_send`, `receive_and_decrypt` | no key or counter twice; replays and forgeries change nothing; genuine messages open in any order; old keys are gone |
| Key schedule, `rust/c6p-crypto` | none | derivation of root, chain, message keys and nonces | a key, nonce, tag or signature belongs to one use, session, stream and counter |
| Identity encodings, `rust/c6p-identity` | none | ids, checksums, fingerprints | pure functions |
| Handshake, `rust/c6p-handshake` | none across calls | bundle validation, offer, accept, KC1 and KC2 | both ends derive the same keys, or one of them refuses |
| Bridge, `rust/c6p-ios` | a session: two streams behind a mutex each | `encrypt`, `decrypt`, `create_offer`, `accept_offer`, `verify_accept`, key generators | the same as the stream and the handshake below it |
| iOS managers, `HandshakeCoordinator`, `C6PManager`, `DeviceIdentityManager` | Keychain (identity, one signed prekey, one-time prekeys), `activeSessions` | registration, offer, respond, verify, rotation, replenishing | a one-time prekey is used once; a session in use is known to the peer |
| iOS networking and chat | message list on the screen, local store, session of the chat, poll timer | poll, take an offer, receive, load, acknowledge, send | every message of the session opened and handed to the store, none lost by a crash or a lost answer |
| Server: accounts and devices | rows of users and devices, tokens in clients' hands | registration in four statements, login, refresh, deactivation | names, numbers and devices unique; an answered registration complete; tokens with their owner; a device left |
| Server: prekeys | rows of bundles and one-time prekeys | upload, fetch, consume | a one-time prekey handed to one client |
| Server: messages, sealed inbox | rows with a delivery state | store, page, mark, clean up | nothing leaves before it was delivered; one size |
| Server: contacts | rows of contacts | add, list, verify, delete | the person typed is the person added; one entry each |
| Server: websocket hub | a map from user to connection | register, unregister | nothing reads it yet |
| Server: conversations, middleware, utilities; schema | none; rows | one reading route; checks of tokens, padding, numbers | constraints of the schema |
| Vectors, benches, scripts, web site | none | generators and packaging | not part of the product's state |

How they interact: the app registers a device (identity, one signed prekey, one-time
prekeys) with the server; an initiator fetches a bundle, `create_offer` derives the
session keys and the offer travels through the server; the responder's `accept_offer`
derives the same keys and answers with a confirmation tag that `verify_accept` checks.
The session keys initialise one stream per direction on either side, and messages go
through `encrypt` and `decrypt` of the bridge. The Rust crates are synchronous values
under `&mut self` or a mutex; the app is single-threaded on the main actor and
interleaves at every `await`; the server runs one task per request and interleaves at
every SQL statement.

The hard behaviours are therefore: any order, loss, duplication and alteration of
messages and handshake packets; the two ends of the u64 counter range and of the window;
errors after half of a state change; prekeys that rotate or are consumed while an offer
is on its way; and, in the app and the server, re-entrancy, lost replies, restarts and
statements that race. The register of hazards names each at its line.

A statement of the server's pool is a transaction of its own, so what a service does
between two awaits is atomic and nothing else is; a handler that is dropped keeps what
its statements have committed. The app's view models run on the main actor: between two
awaits nothing else of the app runs.

## 2. Modules

| Module | Models | How |
|---|---|---|
| `SkipWindow` | `replay.rs`, as a value | `recv_expected` and the set of consumed counters; `CanAccept`, `MarkConsumed`, `AdvanceWindow` are operators on that record |
| `SkipWindowBitmap` | `replay.rs`, at its bitmap | array of machine words, each a set of bit numbers, with the word-aligned and bit-aligned shifts of `slide_bitmap`; variables and actions of its own |
| `AcceptOnce` | no code: the promise of replay protection | a counter is accepted at most once, not below the first gap, not a window beyond it |
| `StreamState` | `state.rs`, `ratchet.rs`, `aead.rs` | operators from a stream to a stream and a result; extends `SkipWindow` |
| `DirectMessage` | a session of two devices | two streams per device, a network, and one action per call and outcome; extends `StreamState` |
| `BridgeSession` | `rust/c6p-ios/src/session.rs`, `C6PManager.swift` | the calls the app makes, which are not those of `receive_and_decrypt`, and the session object that takes the place of another under its id; extends `DirectMessage` |
| `Handshake`, `MCHandshake` | `rust/c6p-handshake`, `rust/c6p-ios/src/handshake.rs`, the managers of the app | offers, accepts, confirmation, Keychain and `activeSessions`; `MCHandshake` adds the symmetry of the devices |
| `Agreement` | no code: the promise of the handshake | whoever joins was asked, with the secret of who asked and a token of its own; nobody knows of a session that was not joined |
| `KeySchedule` | `rust/c6p-crypto`, `c6p-handshake/src/{offer,accept,crypto}.rs`, `c6p-sessions/src/ratchet.rs`, `c6p-identity` | every byte string that is hashed, signed or expanded, as the tuple of its fields; pure operators, so there is nothing for TLC to run |
| `Tables` | repositories of the server, `schema.sql`, `convro_number.rs` | one operator per SQL statement, a table is a set of rows |
| `Accounts`, `MCAccounts` | `auth_service.rs`, `device_service.rs`, their routes, tokens | one action per statement, several handlers at once; extends `Tables` |
| `Prekeys` | `prekey_service.rs` and its routes | one action per operation, each one transaction; extends `Tables` |
| `Contacts`, `MCContacts` | `contact_service.rs` and its routes | one action per statement; extends `Tables` |
| `Inbox` | `sealed_message_service.rs`, `message_service.rs`, `ChatViewModel.swift` | the composition of the mailbox of a user on the server and the app that polls it |
| `SkipWindowBitmapProofs` | | theorems on the bitmap |
| `DirectMessageProofs` | | theorems on the window and a stream; on a session, which cite them, and its refinement of `AcceptOnce`; on the session object of the bridge |
| `KeyScheduleProofs` | | theorems on the encodings |
| `HandshakeProofs` | | theorems on the handshake and its refinement of `Agreement` |
| `AccountsProofs`, `PrekeysProofs`, `ContactsProofs`, `InboxProofs` | | theorems on the module each is named for |

**Streams.** `Send` is `encrypt_and_send` that returns an envelope, `SendFails` the same
call with an error, in which the ratchet has moved nonetheless. `Receive` is one call of
`receive_and_decrypt`: `can_accept`, the key derived over the gap, the AEAD, and
`mark_received` with the ratchet over what the window moved past. `Genuine`,
`Misdelivered` and `Tampered` choose what arrives: an envelope of the stream, any sealed
message of either stream under a counter or in a stream that is not its own, or an
envelope with a changed byte. The set `sent` never shrinks, so every envelope may arrive
never, late, or many times.

**Bridge.** The session object of the bridge is the session of `DirectMessage` under
other calls: `Encrypt` is `advance_send` and `encrypt_message`, with an envelope or an
error, and `Decrypt` checks the window, derives the key, opens, and marks nothing.
`AcceptAgain` is `acceptHandshakeOffer` with an offer that was accepted before: a new
object is made of the same keys, so the responder's streams start over under the id of
the live session. Such an offer is one without a one-time prekey, since any other is
refused the second time (`AnsweredOnce`).

**Cryptography is symbolic.** A chain key is the initial key of its stream and the
sequence of ratchet inputs applied to it, and two derivations are the same key exactly
when they are equal; a sealed message opens under the key and the associated data it was
sealed with, if intact. In the handshake `Dh(x, y)` is the unordered pair of its key
pairs, a signature is its signer and its message, a hash is what it was computed from.
The models say nothing of the strength of X25519, HKDF, Ed25519 or ChaCha20-Poly1305.
That two derivations with different inputs do hash different bytes is not taken for
granted: `KeySchedule` writes every one of them field by field, as the code concatenates
it, and `KeyScheduleProofs` derives from the labels, the fixed widths and the order of
the fields that the terms may be identified as `StreamState` and `Handshake` do. What it
assumes is that SHA-256, HKDF, HMAC and signatures have no collisions, that no label is
a prefix of another and that fields have the widths of the wire formats.

**Counter range.** `recv_expected + SKIP_WINDOW_DM_V1` is an unchecked u64 addition. The
models take the release profile, where it wraps (`Wrap64`); a debug build would panic
there instead. A receiver in the last window of the range refuses every counter from
then on, and the properties say so instead of excluding that state.

**Handshake.** What is optional is a set of at most one element. `Respond` is
`respondToHandshakeOffer` with everything it calls: look-up of the prekeys,
`accept_offer`, deletion of the one-time prekey, and the entry in `activeSessions`. The
fields of the responder in the transcript come from its Keychain, as `offer_from_wire`
has it. The server is outside the module: it hands out any bundle it was given, with any
one field of another bundle in it, and delivers offers and accepts in any order,
repeatedly, to anyone, with any one field altered. Rotation is two steps, since the
Keychain is written before the upload, and the upload may never happen. Assumptions:
Keychain operations succeed, random ids do not collide, and the suite is the one the app
sends. `RotateSpk` stops at `MaxSpk` and `CreateOffer` at `MaxOffers`; both are bounds
of the model.

**Accounts.** A request is a record in `req`: `number` and `create` look for a free
number and insert the user, `device` and `prekeys` insert the device and its prekeys,
`touch` updates the login, `deactivate` clears a device after the check that another is
active. The look-up of a name happens in `Register`, long before the constraint on it
decides in `CreateUser`. `Drop` ends a handler at any await: a failed statement, a
client that went away, a restart. The history variable `raced` holds the users for whom
two deactivations overlapped.

**Prekeys and contacts.** A row of a contact is read before its device, so both the
table and the devices may change between the answer's two statements. A number is a pair
of printed groups, each with its width: the server prints the second group without
padding, so one number has several texts.

**Inbox.** Messages are numbered by their insertion, which follows a random delay, so
they are stored in any order. Each of the overlapping polls works on the page it has
fetched, one await per action: `Receive` decrypts a message, puts it on the screen and
hands it to the store, since the chat and the store are both on the main actor;
`Acknowledge` may be lost; `Reload` is the poll inside a poll after an offer was taken.
`Restart` is a crash at any point; the store survives it, the session does not, because
the bridge cannot export one. One chat and its mailbox are modelled; the mailbox also
holds the messages of other chats (`of = 0`) and of sessions that are gone, which never
open. The table of sealed messages is the one after migration 003; `schema.sql` alone
would refuse the rows of a handshake.

The store is not trusted. `MessageStorage` keeps all messages in one encoded array, and
no error of it reaches the chat, which acknowledges regardless. An array that does not
encode is not written; one that does not decode reads as empty, and the next save writes
a new one over it. The array belongs to the user who logged in last, and an app that
starts with valid tokens reads another one. So `Load` finds any part of `saved`
(`Readings`), `SaveMessage` leaves `saved` as it was or adds the message to any part of
it, `SaveOther` is the same for what is sent or received in other chats, and the history
variable `lost` holds what a write dropped or failed to add. `saved` is what is in an
array of the app, whether or not the next reader looks into that one.

## 3. What is checked, and why these properties

- **`dm_session`.** `AtMostOnce`, `OnlyOwnStream` and `CountersAndKeysUsedOnce` are the
  security of a stream as its state machine can break it. `GenuineOpens` is the hard
  case of a receiver that ratchets with messages missing: after any history of losses,
  replays and forgeries every unopened envelope in the window opens. `ForwardSecrecy`
  states that the stored chain keys derive no key that was used (sender) or that the
  window has passed (receiver). `KeepsPromise` is the refinement of `AcceptOnce`, where
  a counter is accepted as often as its plaintext was returned. `EverythingOpens` is
  liveness.
- **`bitmap`.** `BitmapIsHistory` relates every bit to the history of accepted counters;
  `AcceptsExactlyTheWindow` relates each verdict to that history, with the bound of
  `can_accept` and its test (the documents have another one, `header_rule`);
  `ComputesMarkConsumed` shows that a step of the bitmap is a step of `SkipWindow` under
  the mapping from bits to counters, which carries what is shown of `SkipWindow` over to
  the code's data structure; `KeepsPromise` is the refinement of `AcceptOnce`.
- **`handshake`.** `AcceptAuthentic`: what a responder accepts was offered to it by the
  device it names, which holds the other end of the session. `ConfirmedAgree`: once
  `verify_accept` succeeds, both ends of the session are in use and stay in use.
  `OtpUsedOnce`: no one-time prekey enters two sessions, although the server hands it to
  many. `AnsweredOnce`: an offer that cost one is never accepted again, late, twice,
  altered or by another device. `GenuineAccepted`: an unaltered offer whose prekeys are
  still there is accepted and its accept verifies. `RefusalKeepsOtps`: a refused offer
  costs nothing. `ImplementsAgreement` is the refinement of `Agreement`: the first
  three, and the order in which they come about.
- **`bridge_session`.** What is left of the promises of a session under the calls of the
  bridge. `FirstWindowOpens`: every message of the first window opens, any number of
  times. `KeysUsedOnceUnlessRepeated`: counters and keys are used once unless an offer
  was accepted again, and the initiator's always. `SenderForgets`: the sending key
  derives nothing that was sent since the object was made.
- **`prekeys`.** `BundleIsOfOneDevice`: the parts of a bundle, which a query joins from
  four tables, are of one device of the person asked for, and remain so while rows are
  uploaded, deactivated and consumed. `OtpsMoveOneWay`: of several users who were given
  one prekey the first to consume it keeps it; a consumed prekey is not given out, and a
  bundle comes without one only when its device has none left.
- **`accounts`.** `UniqueRows` is the race of checks and inserts; `RegisteredIsComplete`
  the four transactions behind one answer; `TokensOnlyToOwner` says that losing a race
  gives no token of the winner. `KeepsADevice` is as much of "you cannot remove your
  last device" as the code keeps: two requests that overlap leave none, and only they
  do. `RequestsEnd` is about a loop that other registrations feed.
- **`contacts`.** `ContactIsWhoWasTyped` is about numbers compared as unpadded text,
  `OneEntryPerPerson` about two requests for one person, `AnswersShowTheContact` about
  an answer put together from two reads, `EntriesKeepTheirPerson` about the verified
  mark across deletion and re-adding.
- **`inbox`.** `NothingLost` relates the server's rows to the store of the app across
  crashes, overlapping polls, acknowledgements that are lost and writes that fail: a
  message leaves the mailbox after it was handed to the store or its offer was taken, so
  the store is the only place where it can be lost. That it is lost there is possible,
  and section 5 says how. `EveryMessageTaken` is the liveness of the whole way: what the
  chat can read reaches the store. A message of the session counts as readable at any
  counter; that the bridge opens those below 2048 only is the subject of
  `bridge_session` and of finding 2.

## 4. Runs

| Run | Module, configuration | Result |
|---|---|---|
| `bitmap` | `SkipWindowBitmap`, `MCSkipWindowBitmap.cfg` | passes |
| `dm_session` | `DirectMessage`, `DirectMessage.cfg` | passes, with liveness |
| `handshake` | `MCHandshake`, `Handshake.cfg` | passes |
| `bridge_session` | `BridgeSession`, `BridgeSession.cfg` | passes |
| `prekeys` | `Prekeys`, `Prekeys.cfg` | passes |
| `accounts` | `MCAccounts`, `Accounts.cfg` | passes |
| `contacts` | `MCContacts`, `Contacts.cfg` | passes |
| `inbox` | `Inbox`, `Inbox.cfg` | passes, with liveness |
| `header_rule` | `SkipWindowBitmap`, `SkipWindowEdge.cfg` | `HeaderRule` violated |
| `failed_send` | `DirectMessage`, `FailedSend.cfg` | `FailedSendKeepsState` violated |
| `bridge_replay` | `BridgeSession`, `BridgeReplay.cfg` | `ReplayProtection` violated |
| `otp_reserved` | `Prekeys`, `OtpReserved.cfg` | `OtpGivenOnce` violated |

Each property of a passing run has a mutant in `PROJECT.json`: a slip in one definition
(`AdvanceByOne`, `SlideWithinWords`, `ReceiveMarksFirst`, `OtpsAfterEager`, ...) that
makes TLC report the property violated. The slips stand in the modules next to what they
change, under the comment "A plausible slip" or "Mutant", and no other definition uses
them.

**Bounds.** `bitmap`: three words of three bits, so that shifts within a word, across a
word boundary, by whole words and of the whole window all occur; 25 counters, so that a
window created at 0 slides over its own size twice and one created at 14 meets the wrap
at the end of the range. `header_rule`: two words of two bits, counters to 15.
`dm_session`: a window of 3 over counters 0 to 6 and five calls per direction, so that a
stream runs out of the window, out of calls, or out of counters; the streams are created
at 0 or 3 (`with_counter`), and either suite id is negotiated, of which one is not
implemented. `handshake`: two devices that may each be initiator and responder, two
offers, one rotation and one one-time prekey per device, so that two offers compete for
a prekey, name an old one, and have their packets mixed up. Devices are symmetric: no
definition tells one from the other. `accounts`: two handlers, persons, names, numbers
and device keys and two rows per table, so that two registrations meet on a name, on a
number and on a device, and each loses at either statement; two draws of a number, so
that the loop is both repeated and given up (230 892 states). `contacts`: two users
whose numbers differ in the digit that a missing pad would hide, two handlers, two rows
(49 547 states). `inbox`: three messages, two overlapping polls and a page of two, so
that one page does not hold all, with one message too long to be padded less its prefix,
one that is padded and one of the final length (381 352 states). `bridge_session`: a
window of 2 over counters 0 to 3, four calls of `encrypt` per direction and two returned
plaintexts of each, so that a stream starts in or runs into the last counters and an
offer comes again before, between and after messages (36 890 states). `prekeys` and
`otp_reserved`: two users, two rows per table, two one-time prekeys, so that a user may
have two devices, a device two uploads, and two users compete for a prekey (450 909
states).

**Fairness.** Liveness is checked under `FairSpec`: weak fairness, per direction, of the
delivery of some envelope that opens. The server keeps a message until it was fetched
and acknowledged and the app polls, so a receiver that stays up is eventually handed one
it can open, while one exists. Nothing is assumed of the order of deliveries, of the
sender, or of the forgeries in between. In `inbox`, weak fairness of each poll's `Work`:
the timer fires again and a request that is under way is answered or fails; no single
acknowledgement and no write of the store is assumed to succeed, nor any offer to be
accepted. `EveryMessageTaken` has two premises. `Settles` says that the chat stays with
one session: without it a chat that restarts or takes new offers for ever reads nothing.
`FewStuck` says that fewer messages than a page are left lying because the chat cannot
take them: the page always starts at the oldest pending message, so a full page of such
messages hides all later ones. TLC finds a violation when either premise is dropped. No
other run has fairness. Deadlock checking is off where the system stops because the
bounded number of calls, offers, rows or messages is used up.

## 5. Disagreements found

1. **`failed_send`**: `advance_send` replaces the chain key before the increment can
   fail, and `encrypt_and_send` advances before the AEAD can fail, against "Encryption
   failure: Abort, do not advance state" (`docs/Sessions/dm-ratchet-state-machine.md`,
   line 93).
2. **`bridge_replay`**: `decrypt` of the bridge never marks a counter as received,
   against its documentation (`rust/c6p-ios/src/session.rs`, line 184). A message
   delivered twice is returned twice. Since `recv_expected` stays where it was, no
   counter from 2048 on can be decrypted and the receive chain key is never replaced.
   `FirstWindowOpens` of the run that passes says exactly what opens instead.
3. **`header_rule`**: `can_accept` accepts the counters below `recv_expected + 2048`, as
   its test `test_window_edge` has it, against "`R < c <= R + 2048`: Accept out-of-order
   if not consumed" in the header of `rust/c6p-sessions/src/replay.rs` (line 20) and the
   same bound in `docs/crypto/c6p-replay-and-skip-window.md` (lines 86, 98 and 157),
   `docs/crypto/c6p-nonce-policy.md` (line 200) and
   `docs/Sessions/dm-ratchet-state-machine.md` (lines 121 to 123). A bitmap of 2048 bits
   has no place for that counter. The properties of the other runs have the bound of the
   code.
4. **`otp_reserved`**: the query of a bundle joins an unused one-time prekey and marks
   nothing, so two clients are given the same (in the run one of them is its owner; the
   route does not tell them apart), against "atomically consumed (server authority)"
   (`docs/identity/prekeys-lifecycle.md`). No route calls the function that consumes
   one. `OtpUsedOnce` holds nevertheless: the responder's Keychain decides, and the
   second client's offer is refused.

Noticed while modelling and not the subject of a run, in the crates: version, transcript
hash, signed prekey and the high byte of the suite id of an offer are never compared
with anything, against "fail-closed on any deviation" (`rust/c6p-handshake/src/wire.rs`,
line 13), but they enter no key, and `AcceptAuthentic` holds all the same; the responder
id of an accept is not compared (`verify_accept`; the tag binds it); of an offer a
device makes to itself the responder's session replaces the initiator's in
`activeSessions`; `derive_per_message` of `c6p-crypto`, of which `key_schedule.rs` (line
150) says that both paths must use it, never gives a key of the ratchet they do use
(theorem `RatchetsApart`); `validate_bundle` of the bridge concatenates the id and the
key of a prekey without checking their lengths.

In the app: the session is entered in `activeSessions` when the offer is created
(`HandshakeCoordinator.swift`, line 50) and nothing calls `verifyHandshakeAccept`,
against "Initiator MUST NOT mark session active until KC2 verifies exactly."
(`rust/c6p-handshake/src/accept.rs`, line 291); a single `CreateOffer` shows it. A
message is acknowledged whether or not it was saved: `saveMessage` only logs the error
of an encoder, and after an error of the decoder it writes an array of the one new
message over all others (`MessageStorage.swift`, lines 52 to 67 and 89 to 97;
`ChatViewModel.swift`, lines 282 to 287), so the server gives out no more what the app
does not have. The store is keyed by the user of the last login (`LoginViewModel.swift`,
line 39), so an app that starts with valid tokens reads and writes another array, and
what was saved before is not shown. An offer without a one-time prekey that is handled
twice, by overlapping polls or after a lost acknowledgement, makes a new session object
of the same keys (`C6PManager.swift`, line 141), whose first message is sealed under the
key and nonce the old object used first, against "Implementations MUST make reuse
impossible by construction" (`docs/crypto/c6p-nonce-policy.md`, line 22);
`KeysUsedOnceUnlessRepeated` makes that one exception, and TLC finds the reuse when it
is dropped. At this commit the accept after it is refused, so the responder's chat does
not send in such a session; nothing in the session manager excludes it. The accept is
addressed to the empty number (`HandshakeCoordinator.swift`, line 141), which the server
refuses, so the responder's chat never takes the session over; `APIManager` cuts the
server's row id to eight bytes and uses it as the id of a one-time prekey, which no
Keychain entry has; a rotation uploads no one-time prekeys, and the server refuses a
body without any; a chat takes any offer of the inbox, whoever it is from; what was not
read before a restart never opens again.

In the server: numbers with a short second group print as "+99 100 5", which
`is_valid_format` refuses when it is typed back, so such a user is found by the six
digits only; the tests of `convro_number.rs` expect "+99 100 000" instead, of
`generate_sequential(0)` and of `normalize("100000")` (lines 102 and 148); a collision
on the number is answered "Username already exists"; a failed registration leaves rows
that keep the name taken; two overlapping deactivations leave no active device
(`device_service.rs`, line 107); the verified mark stays on when the contact registers a
newer device, which is then the one shown; logout is always refused, because the public
router never decodes a token; `POST /prekeys` ignores whose device it is; the fetch cuts
the id of a one-time prekey to four bytes; an old bundle stays available after a
rotation; the time of a sealed message is not rounded, against the comment on its route;
clean-up decodes an INTEGER as `i64`; the schema's clean-up after thirty days takes
delivered messages only (`schema.sql`, lines 596 to 608 and 900 to 914), as its comment
(line 914) and `database/SECURITY_COMPLIANCE.md` (line 491) say, against "Server deletes
messages after 30 days for privacy" (`schema.sql`, line 317), "Undelivered messages
expire after 30 days and are deleted" (`docs/api/API_SPECIFICATION.md`, line 606) and
the other statement that `database/SECURITY_COMPLIANCE.md` (line 311) quotes:
`NothingLost` follows the statement that runs, and either of the others would violate
it; a connection that closes removes the registration of a newer one of the same user
(`hub.rs`, line 36), which nothing reads yet.

## 6. What is proved

For every window size, counter range, set of starting counters and number of calls:

| Theorem | Module | Says |
|---|---|---|
| `MarkConsumedFacts` | `DirectMessageProofs` | `mark_consumed` keeps the type, never moves back, consumes exactly its counter |
| `ReceiveAndDecryptFacts` | `DirectMessageProofs` | a message that opens had a fresh counter, uses up that one only and is refused from then on; any other leaves the stream as it was |
| `InductiveInvariant` | `DirectMessageProofs` | `Spec => []IInv` |
| `TypeCorrect` | `DirectMessageProofs` | `Spec => []TypeOK` |
| `NoReplay` | `DirectMessageProofs` | `Spec => []AtMostOnce` |
| `StreamSeparation` | `DirectMessageProofs` | `Spec => []OnlyOwnStream` |
| `NoKeyReuse` | `DirectMessageProofs` | `Spec => []CountersAndKeysUsedOnce` |
| `KeysInStep` | `DirectMessageProofs` | `Spec => []KeyInv` |
| `GenuineMessagesOpen` | `DirectMessageProofs` | `Spec => []GenuineOpens` |
| `OldKeysAreGone` | `DirectMessageProofs` | `Spec => []ForwardSecrecy` |
| `ImplementsAcceptOnce` | `DirectMessageProofs` | `Spec => KeepsPromise` |
| `BridgeInvariant` | `DirectMessageProofs` | `BridgeSpec => []BridgeInv` |
| `BridgeTypeCorrect` | `DirectMessageProofs` | `BridgeSpec => []BridgeTypeOK` |
| `BridgeStreamSeparation` | `DirectMessageProofs` | `BridgeSpec => []OnlyOwnStream` |
| `OnlyFirstWindowOpens` | `DirectMessageProofs` | `BridgeSpec => []FirstWindowOpens` |
| `NoKeyReuseUnlessRepeated` | `DirectMessageProofs` | `BridgeSpec => []KeysUsedOnceUnlessRepeated` |
| `SenderForgetsKeys` | `DirectMessageProofs` | `BridgeSpec => []SenderForgets` |

For every size of the machine words and of the window:

| Theorem | Module | Says |
|---|---|---|
| `BitmapTypes` | `SkipWindowBitmapProofs` | `Spec => []TypeOK` |
| `BitmapRecordsHistory` | `SkipWindowBitmapProofs` | `Spec => []BitmapIsHistory` |
| `WindowIsExact` | `SkipWindowBitmapProofs` | `Spec => []AcceptsExactlyTheWindow` |
| `BitmapComputesWindow` | `SkipWindowBitmapProofs` | `Spec => ComputesMarkConsumed` |
| `BitmapImplementsAcceptOnce` | `SkipWindowBitmapProofs` | `Spec => KeepsPromise` |

For every number of handlers, persons, names, devices, rows and draws; and of users,
polls, messages and pages:

| Theorem | Module | Says |
|---|---|---|
| `TypeCorrectness` | `AccountsProofs` | `Spec => []TypeOK` |
| `RowsAreUnique` | `AccountsProofs` | `Spec => []UniqueRows` |
| `RegistrationIsWhole` | `AccountsProofs` | `Spec => []RegisteredIsComplete` |
| `TokensBelongToOwner` | `AccountsProofs` | `Spec => []TokensOnlyToOwner` |
| `LastDeviceStays` | `AccountsProofs` | `Spec => []KeepsADevice` |
| `OwnerDeactivates` | `AccountsProofs` | `Spec => OnlyOwnerDeactivates` |
| `RequestsComeToAnEnd` | `AccountsProofs` | `Spec => RequestsEnd` |
| `PrekeyTypes` | `PrekeysProofs` | `Spec => []TypeOK` |
| `BundlesAreOfOneDevice` | `PrekeysProofs` | `Spec => []BundleIsOfOneDevice` |
| `OneWayOtps` | `PrekeysProofs` | `Spec => OtpsMoveOneWay` |
| `ContactTypes` | `ContactsProofs` | `Spec => []TypeOK` |
| `TypedIsFound` | `ContactsProofs` | `Spec => []ContactIsWhoWasTyped` |
| `PersonsOnce` | `ContactsProofs` | `Spec => []OneEntryPerPerson` |
| `AnswersAreRight` | `ContactsProofs` | `Spec => []AnswersShowTheContact` |
| `EntriesStay` | `ContactsProofs` | `Spec => EntriesKeepTheirPerson` |
| `MailboxTypes` | `InboxProofs` | `Spec => []TypeOK` |
| `SealedSizesAgree` | `InboxProofs` | `Spec => []OneSize` |
| `NoMessageLost` | `InboxProofs` | `Spec => NothingLost` |

For every session, device, key, counter and stream (`KeyScheduleProofs`, lemmas about
functions, not about behaviours):

| Theorem | Says |
|---|---|
| `RatchetStepNamesMessage` | a message key and the chain key behind it belong to one chain key, counter, session, transcript and stream |
| `InitialChainKeyNamesStream` | an initial chain key belongs to one root key, transcript, session and stream |
| `KeysApart` | root, confirmation, initial chain, message and later chain keys never coincide |
| `RatchetsApart` | the ratchets of `c6p-crypto` and `c6p-sessions` never give the same key |
| `NonceNamesMessage` | a nonce belongs to one message of one session |
| `SuiteKeyNamesMessage` | two messages sealed under one AEAD key are the same message |
| `SignaturesApart` | the signature of a prekey is none of an offer |
| `KcTagsName` | a confirmation tag names its direction, key, session and transcript |
| `KcPayloadsAgree` | the two computations of the confirmation payload agree |
| `TranscriptNamesHandshake` | equal transcript hashes mean equal parties, keys and prekeys |
| `ChainKeyNamesHandshake` | a chain key belongs to one handshake and one stream |
| `SessionKeysMirror` | once an accept is constructed each side sends under the key the other receives under |
| `GenuineOfferAccepted` | an offer from the responder's own bundle is accepted after its way over the wire |
| `VerifiedAcceptAgrees` | an accept that verifies was constructed for that offer |

And, for every set of devices and any number of offers, rotations and one-time prekeys:

| Theorem | Module | Says |
|---|---|---|
| `HandshakeInvariant` | `HandshakeProofs` | `Spec => []HInv` |
| `HandshakeTypes` | `HandshakeProofs` | `Spec => []TypeOK` |
| `AcceptedIsAuthentic` | `HandshakeProofs` | `Spec => []AcceptAuthentic` |
| `ConfirmedSessionsAgree` | `HandshakeProofs` | `Spec => []ConfirmedAgree` |
| `OneSessionPerOtp` | `HandshakeProofs` | `Spec => []OtpUsedOnce` |
| `AnsweredOffersRefused` | `HandshakeProofs` | `Spec => []AnsweredOnce` |
| `GenuineOffersAccepted` | `HandshakeProofs` | `Spec => []GenuineAccepted` |
| `RefusalsCostNoOtp` | `HandshakeProofs` | `Spec => RefusalKeepsOtps` |
| `HandshakeImplementsAgreement` | `HandshakeProofs` | `Spec => ImplementsAgreement` |

The assumptions are `SkipWindowAssumption` (a positive window that fits the counter
range) and `DirectMessageAssumption` (the starting counters are counters, the number of
calls is a natural number), and `HandshakeAssumption` (the value of a damaged field is
no device, the bounds are natural numbers), together with the symbolic cryptography. For
the bitmap, `BitmapAssumption`: the window is a whole number of words. For the server,
`MaxRowsIsNat`, `AttemptsAssumption`, `NumbersAssumption` and `NoneAssumption`; in
`Contacts` that different users have different numbers of six digits
(`NumberAssumption`, which is `RowsAreUnique` of `Accounts`) and `NobodyAssumption`; in
`Prekeys` that no row has the absent key and nobody is no user (`OtpKeysAreRows`,
`NobodyIsNoUser`); in `Inbox` natural numbers for sizes and bounds and a recipient who
is none of the others.

**Replay.** `AtMostOnce` is not inductive: a plaintext returned once could be returned
again if its envelope were accepted under a counter the window does not hold as used, or
if two envelopes carried it. `IInv` adds what excludes both. `SentInv` says what every
envelope in the network is: sealed for its stream, its counter and its suite, with the
plaintext of an earlier call, at a counter below the sender's. `DistinctInv` says that
two envelopes of a stream differ in counter and in plaintext. `OpenedInv` says that a
plaintext was returned at most once and then its counter is used in the receiver's
window, where used means below `recv_expected` or consumed. A delivery that opens is an
envelope of `sent` under its own counter (`OpenedWasSent`), and that counter was not
used (`AcceptedIsFresh`) and now is (`MarkConsumedFacts`), so the plaintext had not been
returned. `FirstUnconsumed` is a `CHOOSE`; that the counter it names exists follows from
the well-foundedness of the naturals (`FirstUnconsumedFacts`).

**Keys.** `GenuineOpens` needs more than that the window lets a counter through: the key
the receiver derives over the gap must be the one the sender used. `KeyInv` pins both
down by `ChainAt(d, n)`, the initial key of stream d ratcheted over the counters below
n. `SendKeyInv` and `RecvKeyInv` put the two stored keys at the send counter and at
`recv_expected`, `SentKeyInv` puts every envelope at its counter, and `UsedInv` says
that no forgery uses up the counter of a genuine message. The lemmas on `RatchetRange`
show that two ranges after one another are one range, which is what makes a receiver
that skips agree with a sender that does not. A sender whose last counter is used up
keeps ratcheting without counting (finding 1), so `SendKeyInv` has a second case in
which the key is only known to be far enough. `ForwardSecrecy` follows from the number
of steps in a key.

**Refinement.** `AcceptOnce` knows of each stream how often a counter was accepted;
`DirectMessage` implements it with the counters its windows hold as used, each accepted
once. `GapInv` says that `recv_expected` itself is never consumed, so it is the first
gap of the history that the promise bounds the window by; it is the normalisation
`advance_window` ends with. Each delivery that opens maps to `Accept`, and every other
step to a stutter.

**Bridge.** `IInv` and `KeyInv` do not hold of the session object: a plaintext is
returned any number of times, and after `AcceptAgain` the responder's send counter lies
below the counters it has used. `BridgeInv` is what is left of them. `SealedInv`,
`SendKeyInv` and `SentKeyInv` say what every envelope is and where the keys stand;
`OrderInv`, that envelopes lie behind the send counter with a counter each, is claimed
only of streams that were not restarted; and `StillInv` says that a receiving stream is
the one it was created as, which is why the first window is all that ever opens. Its
envelopes open by the lemma that serves `GenuineOpens` (`UnusedEnvelopeOpens`), and the
lemmas about one `encrypt` are those of `Send` and `SendFails`.

**Bitmap.** Between two accepted counters the bits move, and nothing in a word says
which counter it stands for. `IInv` is `TypeOK`, `BitmapIsHistory`, `NothingBeyond` (no
counter beyond the window was accepted) and `StartBehind` (the window never moves back
behind where it was created). The core is `SlideFacts`: after a slide by any distance
the bit at place o is the one that was at o plus the distance, across words and with
zeros coming in at the end; it follows from the place of a bit being determined by its
quotient and remainder. That the loop of `advance_window` stops at the first gap is what
`MarkConsumed` of `SkipWindow` says with a `CHOOSE`, and `OneEnd` shows that there is
one such counter.

**Accounts.** `IInv` is `TablesOK`, `TokensOK`, `ReqsOK`, `DeactOK` and `KeepsADevice`:
rows are unique and below the next key, every token is one its account's person got,
every request in flight names a user whose password is that of its person and a device
of that user, and a deactivation in flight that no other overlaps was let through with
another active device there, which is there still. The last part is what the check in
`device_service.rs` establishes and only a second deactivation breaks.

**Prekeys.** A bundle names rows that go on changing after it was given out. `IInv` adds
to the types and to `BundleIsOfOneDevice` that a key is of one row (`UniqueRows`): an
upload inserts keys of its own and no statement moves a row, so the rows a bundle names
stay the rows they were. That a bundle without a prekey means that none is left needs
the oldest of the prekeys to exist, which is the well-foundedness of the naturals again
(`OldestOfSome`).

**Contacts.** The unique constraint is on the text of a number, the promise is about
persons. `NumbersOK` ties them: the number of a row is the one printed for its user.
`EntriesName` shows that printing loses nothing that matters: the groups are printed
without zeros in front, so the text has no fixed width, but equal groups are equal
numbers. `RequestsOK` says that the rows a request has read are of the list of whoever
asked; that keys of deleted rows are not used again keeps marks where they were.

**Inbox.** `IInv` adds to the types that the number of a message is used once (`RowsOK`)
and that a poll which works on a message saw it in the mailbox, of the type it took it
for, and has handed it to the store by the time it acknowledges, which has it or lost it
(`PollsOK`). `StoreGrows` says that what the store was given is never forgotten: a write
that drops a message puts it into `lost`. That numbers are never used again is what
makes a late acknowledgement of an overlapping poll harmless.

**Encodings.** A hash is a free constructor, so an equation between two keys is one
between two tuples, field by field. `Be64` and `Be16` are injective by arithmetic; of
the suite id only the low byte enters some of them, and the theorems say so where it
shows.

**Handshake.** None of the properties is inductive. `HInv` says that every offer in the
state is what `Offer` makes of some bundle, under a session id of its own (`OfferInv`);
every acceptance answers an offer with that offer's keys, tag and one-time prekey
(`AcceptInv`); the sessions in use are those of offers and acceptances and none is lost
(`ActiveInv`); a one-time prekey that went into a session is gone (`OtpInv`); and a
confirmed offer has an acceptance with its tag (`ConfirmInv`). The core is
`AcceptedWasOffered`. Of an offer that arrives at most one field was altered, so either
its signature or its tag is that of some offer (`ArrivesAuthenticated`). Either one
fixes the transcript, and so the session id, the keys of the initiator and the prekeys;
the responder's four secrets then equal the initiator's because `Dh` is symmetric.
Offers with the same secret are the same offer (`SamePrk`), so an acceptance that
carries the tag of an offer answers that offer. `AnsweredOnce` follows: a second
acceptance under a session id would answer the same offer, with the same one-time prekey
in its transcript, and that one is gone.

**Agreement.** The sessions that were asked for, joined and known are those of the
results of `create_offer`, `accept_offer` and `verify_accept`, and the secret is the one
all keys are expanded from. `CreateOffer` maps to `Ask`, because a session id is fresh
and in the secret (`SecretHasSid`); an acceptance maps to `Join`, because it was offered
and its one-time prekey was still in the Keychain, where those of earlier acceptances
are not; `VerifyAccept` maps to `Learn`, because only the acceptance of the same offer
has its tag; rotations, uploads and refusals map to stutters. `ImplementsAgreement` says
more than the invariants of the same behaviours: it orders the three.

`BridgeTypeOK`, `OnlyOwnStream` of the session object, `TypeOK` of `Prekeys`,
`OnlyOwnerDeactivates` and `OneSize` are proved for every value of the constants and
left out of the runs. `OwnerDeactivates` covers identifiers in the path of a request,
`SealedSizesAgree` what the padding promises.

Checked by TLC and not proved: the liveness properties `EverythingOpens` and
`EveryMessageTaken`, and the runs of section 5. Liveness under fairness and `ENABLED`
are beyond the prover, as are induction over data and recursive operators; no module
here declares one.

## 7. What is left

Everything of the first plan is written: the client became the second half of `Inbox`,
accounts, devices, prekeys and contacts have modules, and all of them are proved about.
In this order:

1. The hub and the socket, once `send_to_user` sends something.
2. A route that consumes one-time prekeys, once there is one: `ConsumeOtp` stands for
   whoever was given the prekey.

## 8. What is not modelled

The websocket hub and the app's socket: `send_to_user` and `broadcast` write a log line
and nothing decides anything by the map of connections. Conversations: one reading route
over a view of a table into which nothing is inserted. The history of messages, logout,
look-ups of users and health routes read only. Middleware, headers, configuration, rate
limits and password hashing keep no state; a password is the person who knows it and a
token is what it says, unforgeable. Screens, Core Data wrappers, packaging, scripts,
vectors and the web site have no protocol state. Convro-id checksums and hexadecimal
forms are pure functions with known-answer tests. `export_state` and `import_state` of
the bridge return an error; what follows from it is `Restart` of `Inbox`. The message
type of the AAD is DM in every call and is left out of `StreamState`; `KeySchedule` has
it. Replenishing one-time prekeys and deleting an identity have no caller in the app.
