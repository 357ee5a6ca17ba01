# Verification of sigstore-js

TLA+ models of sigstore-js, the TLC runs that check them on small instances, and TLAPS proofs of what
matters most for every instance. All paths below are relative to `src/packages/` of the repository unless
they begin with `src/`. `PROJECT.json` lists components, runs, hazards and theorems, and maps every
definition to the lines it models.

## The system

sigstore-js signs artifacts without long-lived keys and verifies what was signed. A *bundle* carries a
signature, the certificate (or the hint of the key) it verifies under, entries of transparency logs, and
RFC 3161 timestamps. The packages:

| Component | State it keeps | Operations | Talks to |
| --- | --- | --- | --- |
| `sign`: HTTP client (`external/fetch.ts`) | attempts made, the promise of the request | `fetchWithRetry` | Fulcio, Rekor, timestamp authority |
| `sign`: builder, signer, witnesses | what `create()` awaits, the evidence so far | `create`, `sign`, `testify` | the HTTP client, identity providers |
| `sign`: identity (`identity/ci.ts`) | none | `getToken` | the CI's token service, the environment |
| `oci` | the position of `addArtifact` in a sequence of up to a dozen requests; headers of the client | `addArtifact`, `getDigest` | a container registry |
| `verify` | the options and trust material of a `Verifier`; all else is local to a call | `verify` | the key finder |
| `tuf` | a cache directory, shared by processes | `initTUF`, `getTrustedRoot`: create, seed, refresh, read | a mirror, tuf-js |
| `bundle` | none | build, validate, serialize | |
| `core` | the position in a byte stream | ASN.1, X.509, RFC 3161, PEM, JSON, hashing | |
| `client` | none | `sign`, `attest`, `verify`, `createVerifier` | `sign`, `verify`, `tuf`, `bundle` |
| `cli` | the OAuth callback server and its sockets | commands; the OAuth sign-in | the browser, `client`, `oci` |
| `mock`, `mock-server`, `jest`, `conformance`, `rekor-types` | test doubles, harnesses, generated types | | |

They interact through promises, HTTP and the file system only. `client` configures `sign` (a `FulcioSigner`,
a `RekorWitness` and a `TSAWitness`, two retries, a timeout of 5 seconds) and `verify` (thresholds and
policy); what `sign` makes is what `verify` checks; the logs, authorities, registries and the cache directory
are what concurrent callers share.

What is hard, and what makes each part correct:

- **HTTP client.** An attempt that has timed out may still reach the service and act there; retries repeat
  requests that are not idempotent. Correct: the retry policy is kept, an answer belongs to the attempt that
  is awaited, a request settles once, and with a timeout it settles.
- **Bundle builder.** Witnesses run in parallel and any of them may fail while the others go on; a retried
  submission meets its own earlier copy as a conflict. Correct: the evidence in a bundle is about that
  bundle's signature and certificate, all there, in order; a failure is reported as what it was; what
  `create()` came to is final.
- **Identity.** The first request of any kind ends the callback server; the browser keeps connections open;
  the providers of a CI race. Correct: a token comes of the login of the call that gets it, nothing of the
  server is left, a provider that fails or never answers hides no other, and what has
  begun ends if nobody has to be waited for.
- **OCI.** The referrers index is read, changed and written back by concurrent callers. Correct: an artifact
  whose attachment has resolved stays attached, nothing listed is missing, nothing is listed twice.
- **Verifier.** Evidence is checked in steps that know little of each other (moments, keys, contents,
  identity). Correct: what is accepted holds together as a whole, what is in order is not rejected, and the
  thresholds count different pieces of evidence.
- **Bundles from end to end.** The options of `sign()` decide the form of the key, the media type and the kind of
  entry in different places, and `verify()` undoes all that. Correct: both ends agree on every bundle that is
  intact, and a bundle put together of two passes for nothing that was not signed.
- **TUF cache.** Several processes and crashes between writes that are not atomic. Correct: a process that has
  the cache for itself succeeds whatever is left there, and reads what is current.
- **Inclusion proofs.** A proof is walked from the leaf to the root by the bits of an index, without the tree.
  Correct: what is accepted is in the tree, and the log's own proofs are accepted whatever the tree's shape.
- **Documents.** Certificates, timestamps and SCTs are read from bytes, and signatures are verified of bytes that
  are put together again. Correct: what is read is what was written, and what is verified is what was signed.

## Modules

| Module | Models | Built on |
| --- | --- | --- |
| `FetchRetry` | `sign/src/external/fetch.ts` and the wire; `oci/src/fetch.ts` retries alike | |
| `SignBundle` | `create()` with signer, witnesses and clients; Fulcio, Rekor, timestamp authority | EXTENDS `FetchRetry` |
| `BundleCreation` | abstract: what `create()` promises its callers | INSTANCE in `SignBundle` |
| `IdentityToken` | `getToken()` of the OAuth login and of the CI providers; callback server, browser | |
| `OCIAttach` | `addArtifact()`, `RegistryClient`, and the registry | EXTENDS `FetchRetry` |
| `CertChain` | the search for the path of a certificate (`verify/src/key/certificate.ts`) | |
| `VerifyBundle` | `Verifier.verify()` and all checks below it; the trust material | EXTENDS `CertChain` |
| `BundleFormat` | building, serializing and validating bundles, proposing entries, reading both back | |
| `RoundTrip` | `sign()` or `attest()`, the bundle kept and perhaps mixed up, `verify()` | EXTENDS `BundleFormat`, INSTANCE `VerifyBundle` |
| `TUFCache` | `tuf/src`: processes that share a cache directory, and crash | |
| `ASN1` | `core/src/asn1`, `core/src/stream.ts`: DER, over bytes | |
| `X509` | `core/src/x509`: certificates, extensions, SCTs | EXTENDS `ASN1` |
| `RFC3161` | `core/src/rfc3161`: responses of timestamp authorities | EXTENDS `X509` |
| `MerkleInclusion` | `verifyMerkleInclusion()`, hash by hash, against the log's tree | |
| `Documents` | documents as the standards write them, read, copied and put together again | EXTENDS `RFC3161` |
| `Evidence` | a document or an inclusion proof, whichever is there | EXTENDS `Documents`, `MerkleInclusion` |
| `FetchRetry_proofs`, `SignBundle_proofs`, `OCIAttach_proofs`, `TUFCache_proofs`, `IdentityToken_proofs`, `VerifyBundle_proofs`, `RoundTrip_proofs`, `Evidence_proofs` | theorems and proofs | the modules they are named for |
| `MCSignBundle`, `MCOCIAttach`, `MCVerifyBundle`, `MCRoundTrip`, `MCTUFCache`, `MCEvidence` | instances for TLC | |

**FetchRetry.** `call[q]` is the promise of one `fetchWithRetry` call: `idle`, `flight` (an attempt is
awaited), `backoff` (promise-retry's timer runs), `ok` or `failed`. Every attempt is a copy of its own on
`wire`, and `Deliver` may take a copy long after the client's timeout (`Abort`) has given up on it. `After`
is the decision of `fetch.ts:44-74` and `Retryable` that of `fetch.ts:103-108`. A response and its body are
one answer; the body itself is the number of what it identifies, 0 for nothing usable.

**SignBundle.** `stage[c]` follows `create()` (`bundler/base.ts:57-87`): `SignerFails`, `RequestCertificate`,
`CertificateRefused`, `SignCertified` for a `FulcioSigner`, `SignWithKey` for a signer with a public key of
its own, then `Testify` and one sub-state per witness (`Accept`, `Fail`, `PostFailed`, `LookUp`, `LookedUp`,
`LookUpFailed`) until `Collect` builds the bundle. `Fail` rejects only a pending call: this is `Promise.all`,
whose other witnesses keep running. The services keep `book[s]`, append-only, and evidence is a position in
it. A log answers 409 to what it holds already, also if somebody else has submitted it (`SubmittedByOthers`: with a
key of one's own and signatures that are deterministic, anyone who has the same entry). A response that cannot be
read is body 0: the log client throws on it *outside* of `internalError`, so that the error has no code (`UNCODED`);
the timestamp client does not look at it (`Unread`), and what it got goes into the bundle whatever it is. So the
evidence of a log is in its book, while that of a timestamp authority may be bytes that are no timestamp, of a
signature that the authority has stamped all the same (`Evidences`); verification is what finds out. The identity provider is a choice among its outcomes, which `IdentityToken` has in detail.

**BundleCreation.** `outcome` and `recorded` only. `SignBundle` implements it under `Promised`: `recorded`
is which services' books hold the content of the call, `outcome` its stage.

**IdentityToken.** `provider` says whose `getToken()` is called. For `oauth`, `listening`, `socket`, `handlers`
and `closing` are the HTTP server: every `start()` registers one more handler, a request is given to all of them,
and the first shuts the server down; `Close` resolves what is in `closing` once nothing listens and no connection
is open. `page[c]` is the login page of call `c`, `callback[c]` the URL its callback resolved with, `awaits[c]`
whose callback the call waits for (the server's last at the time the issuer was discovered, `index.ts:57`) and
`used[c]` the URL it exchanged. For `ci`, `env` is which variables are set and `gha[c]` the request for a token of GitHub
Actions. Three things the code does are in the model as they are: a port that is taken is an error event nobody
handles, and ends the process; so does the second handler of a provider whose `getToken()` is called again after
a login, since the response has been sent; and where the issuer cannot be discovered the call is rejected and the
server left listening. The comment at `server.ts:9-12` speaks of the redirect; any request ends the server.

**OCIAttach.** `stage[c]` is the request that `addArtifact` awaits. The operations follow `image.ts:56-126`:
sign-in with its three fallbacks, HEAD, POST and PUT of two blobs, the manifest, the ping of the referrers
API, then the index read and written back under its tag with `If-Match` where an ETag was given. The
registry's `traits` say what it supports; `versions` has every index ever put, and bodies of index answers are
positions in it. `getDigest` is the beginning of `addArtifact`, sign-in and check of the image, and changes
nothing; it has no action of its own.

**CertChain** and **VerifyBundle.** Certificates are records whose signature is the key that made it; the chain
verifier is a set of operators over a sequence of certificates, which the code tells apart sometimes as objects
and sometimes by contents. The recursive search is modelled without recursion, by the ways it may go up from the
leaf (`Ways`) and what it meets at the top of them: it throws where one ends at a certificate without an issuer or
comes round to itself, and else a path is a way to a certificate that is its own issuer. `After` is the order in
which the search finds paths of one length, of which `reduce` keeps the last. `VerifyBundle` takes one step per timestamp, per log entry and per check, in the order
of `verifier.ts:50-61`; `Throw` ends it. A signature is the record of who made it over what, so that "verifies" is
equality, and a Merkle proof is the body it proves. `options` has the thresholds and the policy. The policy's
name is searched for as the regular expression that `String.prototype.match` makes of it (`Matches`): "." and a
"+" behind something are followed (`Followed`), the two that occur in addresses; of any other pattern the outcome is a
choice: it is found, or it is not, or it is no regular expression and `match` throws (`NameErrors`). Seven parts of a
bundle are read only in the middle of the verification, and throw whatever `JSON.parse`, `BigInt` or the reader of
SCTs throws if they cannot be (`entity.unread`: the body of an entry and the spec in it, index and size of a proof, the
size in its checkpoint, the validity of a certificate, its list of SCTs and its key); `verify()` then rejects with an
error without a code (`UNCODED`), at the step that comes to it, as it does for a response without a token. What a certificate path may be is stated apart, as RFC
5280 has it (`Certifications`).

**BundleFormat** and **RoundTrip.** The first has what a bundle and the entry proposed to a log contain, as
operators named like the functions of `bundle/src`, `sign/src/bundler`, `sign/src/witness/tlog/entry.ts` and
`verify/src/bundle`. In the second a bundle is created (`Sign`), may lose a part or get one of another bundle
(`Alter`), and is read back and validated (`Deserialize`) and verified (`Verify`), by the very steps of
`VerifyBundle`, of which the module has an instance.

**TUFCache.** `stage[p]` is the call of the file system, or of tuf-js, that process `p` makes next; between
any two of them other processes run, and the process may die. A file is `Missing`, `Damaged` (opened for
writing, and not written to the end) or of some version. Whatever touches the disk may fail: the call is
rejected with the error of the file system, which has no code (`DISK`), and a file that was being written
stays as it then is, `Damaged`, with the process alive (`broken`); of a copy that failed there may be no file
at all. `alone[p]` says that no other process has run since `p` started. The `Updater` of tuf-js is external:
what it does with its own metadata is one step.

**ASN1, X509, RFC3161, Documents.** Operators over sequences of bytes that read what the code reads from where
it reads it; an exception is a result that is not `ok`. `Documents` writes documents as X.690, RFC 5280, RFC
5652 and RFC 3161 have it, not as the code does, and reads them with the code. Recursion of the code is a
recursive function here: over the position in the bytes, and over the depth to which objects are in each other,
of which an instance has `MaxDepth` and bytes never have more than one for each byte. `Encodings` says, apart
from the code, which bytes stand for an object, in DER or in any form of length. Sizes that only make instances
large are constants: the growth of a stream, the length of a log's identifier and of a timestamp.

**MerkleInclusion.** A hash is the term that was hashed. `Tree` builds the trees of a log and their proofs as RFC
6962 does, from the top: a tree is split at the largest power of two below its size. The code goes the other way,
from the leaf, one hash of the proof at a time: `chainInner` by the bits of the index, `chainBorderRight` always
from the left, and `hash` is what it has come to, `level` how many hashes have been used, and `walk` how far the
verification is. `InvalidIndex` and `InvalidCount` are the checks before it,
`Accept` and `Mismatch` the comparison with the root. Any body is presented, for any index and size, with any of
the `Presented` lists of hashes, and the root of any tree of the log.

## Runs

| Run | Asks | Instance |
| --- | --- | --- |
| `sign` | complete bundles in order, errors that say what failed, finality; `BundleCreation` is implemented | one call, `FulcioSigner`, two logs around a timestamp authority, any request fails, no retry |
| `sign_twice` | conflicts with what the call itself or others submitted; whose evidence it is; one answer, one settlement, termination | two calls that sign different artifacts, one log to which others submit the same entries, one retry, `fetchOnConflict` |
| `identity` | tokens, what is left open, termination | one provider called twice, three connections |
| `attach_faults` | nothing half attached, every call settles | one call with credentials, any request fails, every kind of registry |
| `attach_race` | concurrent updates of an index, duplicates | two calls: an index with ETags, one manifest without, or the referrers API; index requests are retried once |
| `attach_first` | concurrent first attachments (**violated**) | two calls, no index yet |
| `verify` | what is accepted, rejected and counted | one or two pieces of each kind of evidence, any of them off; small graphs of certificates |
| `verify_threshold` | the threshold counts logs (**violated**) | two entries, of one log or of two, and a threshold of two |
| `roundtrip` | both ends agree; no mixture is accepted | every combination of signer, witnesses and options; three other bundles |
| `tuf` | who fails, and what is read | two processes, three calls in all, two versions of the target |
| `evidence` | what is read is what was written, what is verified is what was signed; a proof is accepted of what is in the tree, and of all of that | any five bytes; values, SCTs, certificates and timestamps of small size; trees of up to eight entries, the log's proofs whole or shortened, every body, index, size and root |
| `reencode` | what is verified is what was signed (**violated**) | certificates with one extension |

The bounds, and why they are enough:

- `Retries`: 1 lets a late first copy meet its own retry, the case all the retry hazards need. Where any request
  may fail (`sign`, `attach_faults`) there is no retry, since an attempt that fails for good does what a last
  retry does. The proofs hold for any number.
- `Statuses`: one of every class the code tells apart (2xx, 4xx, 408 for the retried 4xx, 409 or 412, 5xx).
- `Bodies`: bounds the books and the versions of the index. With two calls and one retry at most four copies
  of a write exist, and five versions leave none of them without a place; in the signing runs one or two
  places are enough: a log holds an entry once, so that two calls with an entry each fill it, and a CA or
  timestamp authority needs a second position only to have the two attempts differ.
- `Faulty`: which requests of `addArtifact` can fail. All of them with one call; with two calls those on the
  index, whose failures race (the others write what depends on the call alone).
- Instants 1 to 3 with validities that begin and end inside; every boundary is hit from both sides.
- `Connections` = 3: the redirect, a request that is none, and one that stays open.
- `MaxStarts` = 3: a process that dies, another that meets what it left, and a third beside it; `MaxVersion` = 2:
  a target that is out of date.
- `MaxBytes` = 5 for arbitrary bytes, of nine values: an object with two in it, every form of length; `MaxDepth` =
  20: certificates have fewer levels. `MaxExtensions` = 2: the SCTs and one more, in either order. `BLOCK_SIZE` = 2
  so that a stream grows several times within a document, and within five bytes.
  Lengths that do not fit 31 bits are out of TLC's reach; those of six bytes are tried with leading zeros.
- `MaxSize` = 8: complete and incomplete trees, borders of up to two hashes and inner parts of up to three; two
  entries are in the log twice, and one body reads like two hashed entries.

Deadlock is not checked where all calls may have settled and all copies been served; that calls do settle is
`CreateSettles`, `AttachSettles` and `LoginSettles`, and verifying, reading, the walk along a proof and a start of the cache
have no loop.

**Fairness.** Weak fairness of every step of the code itself (the event loop runs what is ready: a timer that
has fired, a response that has come), and of the end of each attempt, by answer *or* timeout. The services
are given none. The second part rests on the timeout: `client/src/config.ts:72` sets 5 seconds. The `oci`
package takes its timeout from `fetchOpts`, and `AttachSettles` holds only for callers that set one; the
command `attach` of the CLI sets none, so that there a registry that never answers keeps it waiting. In
`IdentityToken` a server that can close does, and every call takes its next step; the user, the browser and GitHub
Actions are given no fairness, since the request for its token has no timeout (`sign/src/identity/ci.ts:63-69`; a
retry does not end a request that hangs). So `EnvTokenComes` holds against a request that is never answered, and
`LoginSettles` says what holds of all calls but those that wait for such a request, once the server listens no longer.

## What the runs found

- `attach_first`: with no index, there is no ETag and no `If-Match` (`oci/src/image.ts:167-171`,
  `registry.ts:257-260`): two calls that both read 404 both write an index with only their own artifact, both
  resolve, and the first artifact is no longer associated with the image.
- `verify_threshold`: `client/README.md:191` calls `tlogThreshold` "the number of transparency logs on which the
  signature must appear", while `verifier.ts:78,94` count entries: two entries of one log, at different times, meet a
  threshold of two. `ThresholdsAreMet` is what does hold.
- `reencode`: an octet string whose content can be read as objects is taken apart, and `toDER`
  (`core/src/asn1/obj.ts:47`) puts it together again with lengths of the shortest form. Where it only *looked*
  like objects, with a length longer than need be, other bytes come out, and a valid signature is rejected. Of
  random digests of 32 bytes about one in 120,000 is of that kind, and every timestamp has two.
  `SignedIsExactMostly` is what does hold. It also leaves out a certificate whose only extension is the list of
  SCTs: `verify/src/key/sct.ts:53` removes the extension from the precertificate, but not the field that had it.

Noticed while modelling, with no run of their own: `certificateIdentityEmail` is used as a regular expression
(`verify/src/policy.ts:8`), so that an address with a "+" does not match itself, where `client/README.md:193`
has the address "must appear", and one with a "(" may throw; parts of a bundle that are read late throw from
`verify()` what their readers throw, with no `VerificationError` around it (`verify/src/tlog/index.ts:31`,
`timestamp/checkpoint.ts:201`, `timestamp/merkle.ts:28-29`, `key/sct.ts:65`); the callback server of a login
that failed is left listening; `tuf/README.md:45` says that `forceCache` prevents any downloads, and
`target.ts:70-72` downloads a target that is not in the cache; the comment at `sign/src/bundler/dsse.ts:24-26`
has `certificateChain` the other way round than `bundle/src/build.ts`; `parseOID` adds up in 32 bits, and
divides its first byte by 40 also where the first arc is 2 and the second 40 or more
(`core/src/asn1/parse.ts:91`; `SaysWhatWasWritten` leaves such identifiers out); bytes after a certificate are
ignored; `parseBoolean` takes an empty value for true.

## What is proved

`FetchRetry_proofs`, for any set of requests, any number of retries, any statuses and bodies:

- `FetchInvariant`: `FetchInv`, the conjunction of `FetchTypeOK`, `AttemptsMade`, `RetryPolicy` and
  `OneAnswerPerAttempt`, is inductive. `AttemptsMade` is what makes it so: no copy on the wire is of an attempt
  yet to be made, and a request is awaited from its first attempt on.
- `RetryPolicyHolds`, `OneAnswerPerAttemptHolds` and the action property `SettlesOnceHolds` follow. `RetryPolicy`
  is no property of a run; it is proved only.

`SignBundle_proofs`, for any calls, artifacts, logs, authorities, witnesses and retries, with or without a CA
and `fetchOnConflict`:

- `CreateInvariant`: `CreateInv` is inductive. `EvidenceIsOwn` alone is not: it needs to be known that every
  usable answer, on its way or received, identifies this call's own submission in the book of its service,
  as a conflict's Location does, and that a POST answered with success is on the record whatever else the answer says
  (`AnswersHonest`), and that a call which has not come to its witnesses has asked
  them nothing (`AskedLater`). Each step of the client is shown to be a step of `FetchRetry`, so that the
  invariant of that module is reused and not proved again.
- `TypeCorrect`, `EvidenceIsOwnHolds`, `RequestsObeyPolicy` and `OutcomeIsFinalHolds` follow.
- `CreateFetches`: `SignBundle` implements `FetchSpec`.
- `KeepsPromiseHolds`: `SignBundle` implements `BundleCreation`. It needs a second invariant, `Certified`: with a CA
  nothing without a certificate is submitted or on a log's or timestamp authority's record, so that a call's
  content does not count as recorded under another content before its certificate is there.

`OCIAttach_proofs`, for any number of calls, manifests and retries, any registry, any faults:

- `AttachInvariant`: `AttachInv` is inductive. What an answer says stays true, since the registry deletes nothing
  (`AnswersTrue`); an operation begins only after what it needs was made sure of (`OneByOne`), which also holds
  for the copies that arrive late; and every version the index ever had is right (`VersionsRight`), so that it
  does not matter which of them a caller has read.
- `AttachTypeCorrect`, `NothingDanglingHolds` and `ListedOnceHolds` follow.
- `IndexGrowsHolds` and `AttachedStaysHolds` need a second invariant, `GrowsInv`, and an assumption on the registry,
  written in the theorem: where it gives ETags its index exists from the start (for the first), and it gives
  ETags or lists the referrers by itself (for the second). Then no caller ever reads "no index", so that all of
  them send `If-Match` and each version extends the one before. `attach_first` shows that the assumption is needed.

`TUFCache_proofs`, for any processes, calls, versions and starts:

- `CacheInvariant`: `CacheInv` is inductive. `AloneRuns` says that nobody runs beside a process that is alone, and
  `Path` what it relies on from each of its steps to the next; what others left behind enters only at its start. A
  damaged root.json is always accounted for (`DamageIsByWriter`): somebody is writing it, or the last who wrote it died
  or failed meanwhile.
- `CacheTypeCorrect`, `DamageIsByWriterHolds`, `AloneSucceedsHolds` and `AloneIsCurrentHolds` follow.

`IdentityToken_proofs`, for any calls and connections:

- `IdentityInvariant`: `IdentityInv` is inductive. A redirect with a code is of a login (`GenuineURLs`), and only the
  handler that was registered first ever resolves, once the server has closed (`FirstHandler`); a later call's
  answer would otherwise come from a server that still listens. The call that started last waits for its own
  callback, and one that was overtaken waits for the other's.
- `IdentityTypeCorrect`, `TokenIsOfLoginHolds` and `NothingLeftOpenHolds` follow.

`VerifyBundle_proofs`, of `CertChain`, for any certificates:

- `PathCertifies` (soundness): the path that is found goes up from the leaf, and what is above the leaf is one of
  its `Certifications`. Each fact RFC 5280 asks for comes from another place of the code: signatures and the root
  from the search, names and path lengths from `checkPath`.
- `StraightPathIsFound` (completeness): where a leaf can be certified along a path that is `Straight`, `Path` is that
  path. The line up to the root is the only way there is: the first place at which another way leaves it (the
  least counterexample) would be a second certificate with the key that signed the one below. So the search meets
  no dead end and no circle, and the shortest path is the one.

The same module, of `VerifyBundle`, for any bundle, trusted root, options and keys:

- `VerifyInv` is inductive: what has been verified are the first timestamps of the entity, in order and without an
  error in any of them (`VerifiedInOrder`), and each stage says of all the checks before it that they held (`Passed`).
  The constants never change, so that a check that held still holds when another is made.
- `VerifyTypes` (`TypeOK`), `ThresholdsCountDifferent` (`ThresholdsAreMet`), `AcceptedHasWitnesses`
  (`AcceptedIsWitnessed`) and `AcceptedHasPath` (`AcceptedIsCertified`) follow. The last two have `PathCertifies` under
  them, and an argument the runs do not make visible: that the moments certificates are held against are those
  of all the evidence, since every timestamp has been verified when `VerifySigningKey` is reached.
- `InOrderIsNotRejected` (`RejectedForCause`): no check throws for a bundle that is in order. It needs, besides
  `VerifyInv`, `StraightPathIsFound`, and that a name which is `Plain`, with no metacharacter but ".", matches itself
  (`NameMatchesItself`); for other names nothing is claimed. `InOrder` also says that every part can be read.

`RoundTrip_proofs`, for any signings, any others kept at the same place, and any trusted root and options:

- `RoundInv` is inductive. `BundleOf` says of a stored bundle, whole or not, that every member it has is that of one
  of two signings; `EntityOf` says the same of what is read back of a valid one; and `Passed` of the checks that
  were made what they leave of it. That the verifier is the one of the code is in the instance of `VerifyBundle`.
- `AcceptedIsASigning` (`AcceptedIsAsSigned`): the content says which signing it was. Its signature was made with the
  key that was accepted, and a key has one owner (`SignersAssumption`), so the identity is right even if the key
  comes from the other bundle; every log entry and timestamp that passed is about that signature, and no other
  signing has it (`SignaturesAssumption`), so they are this signing's and so are their times.
- `CreatedIsValid` (`SignedIsValid`): `ReadBack` (JSON and back is the identity on what is created, though every oneof is
  turned into members and back), and of the parts validation asks for, which of them are there for every
  configuration (`ContentIsValid`, `KeyIsValid`, `EntriesAreValid`).
- `IntactIsAccepted` (`SignedIsAccepted`), by `IntactInv`: what is verified of a bundle nobody altered is `Intact`,
  which `IntactParts` spells out; its timestamps are verified in their order, and it is not rejected unless more
  was asked for. There is one lemma per check that it passes: `TLogPasses` and `TSAPasses` for the timestamps,
  `CountPasses`, `KeyPasses` with `CertificatePasses`, `BodiesPass`, `SignaturePasses`, `PolicyPasses`. The trusted
  root has to be in order for this: the services that were asked are its first and valid at the time
  (`ServicesAssumption`), and every authority to which a certificate is traced is one that covers it, with the
  CT logs that have it (`CertificatesAssumption`).

`Evidence_proofs`, of `MerkleInclusion`, for any log, trees of any size, and any lists of hashes:

- `InclusionInv` is inductive: once the walk has begun the index is in the tree and the number of hashes is the one
  expected (`Sound`), and `hash` is what the entry and the first `level` hashes come to by the bits of the index
  (`Comes`).
- The difficulty is that the tree is defined from the top and walked from the bottom. `innerProofSize`, the first
  level at which index and last entry meet, says where the complete subtrees end; in a tree that is split,
  `LowHalf` and `HighHalf` say how the bits of an index are those of its place in the half it is in, so that the
  number and the sides of the steps are those of the path in that half and one more (`TreeForks`). Both follow by
  induction on the width of the tree, as the least counterexample. A power of two is the function `Two`, since the
  provers know nothing of `2 ^ k`; that the bits of a sum are the bits of its parts is `BitAdd`.
- `InTreeHolds` (`AcceptedIsInTree`): a hash tells what was hashed (`HashesTell`), so a walk that comes to a root went
  up through its nodes and began at one of its leaves. For this the prefixes must tell leaves from nodes; with the
  mutant `hashLeafBare` it is false.
- `OwnProofHolds` (`OwnProofIsAccepted`): by `RootIfGenuine`, a walk with the size of the tree comes to its root if and
  only if every hash of the proof is the one on the path of the entry at that index.

The same module, of `Documents`, for any lists of SCTs whose lengths can be stated, with SCTs of any sizes:

- `SCTsHold` (`SCTsAreExact`), by `SCTsInv`. What a recursive function does is known once it is known to exist
  (`Recursion`: where each value is a step from values of lower rank there is a function that has them all, by
  induction on the rank). Then `SCTsFrom` can be followed from the end of the bytes to their beginning: `SCTsAll`
  where every SCT is read, `SCTsFail` where one of them is not. That the fields of an SCT are where it is read is
  `SCTBytesAre`; of lists side by side, `FlattenCuts` says where each begins and ends. Three damages fail at three
  different places: in the last SCT (a byte more), at its end (a byte lost), and behind it (a length that is less). The
  fourth, bytes behind the end the list states, is none to the code (`WholeIsRead`): `ext.ts:167-183` never compares
  that end with the length of the extension.

The same module, of `ASN1` and `Documents`, for any set of bytes, any block size, and any bytes that are not more than
the levels the model tells apart (`BytesAssumption`: `MaxBytes <= MaxDepth`; no object takes fewer than two bytes):

- `ReadHolds` (`ReadIsWhatIsThere`), by `BytesInv`: the reader is sound. A length is stated by the bytes it is read
  from (`DecodeStates`, with `Digits` and `BigEndian` as inverses); what is read at a place is an object that the bytes
  from there to its end encode (`ObjectIsRead`), if what is read further on is right (`GoodBeyond`), and by induction
  from the end of the bytes all of it is (`BetweenExists`, again by `Recursion`).
- `CloneHolds` (`CloneIsEqual`), by the same invariant: what is written of anything that was read is read again, as
  something that is written the same way (`CloneIsRead`, `CollectedAgain`), though a length in a longer form than need
  be has become a shorter one (`ParsedShrinks`). A stream gives back what was appended, however often it had to
  grow (`WrittenIs`); reading depends on the bytes and not on where they are (`SameCollected`); and DER comes
  out as it went in (`ExactDER`).
- `DERIsRead`: the reader is complete, for any bytes up to a gigabyte (`Large`) of up to `MaxDepth` levels. What
  encodes an object in DER is read as that object, to its end, and written as the same bytes, which is what
  lets a signature be verified of what was put together again. The hypothesis `Clear` names the only two things that
  can go wrong: a tag that is not supported, and an octet string that is *in doubt*, whose bytes happen to
  look like objects; `reencode` shows the second to go wrong. No run has this as a property, since it is about any
  object whatever.
- `IntegerIsExact`: `parseInteger` drops the bytes in front that only fill up and adds up the others from a first one
  with its sign; for bytes of any length that is two's complement (`PowerIs`: `Power(k)` is 256 to the `k`). The run
  has integers of one to three bytes (`SaysWhatWasWritten`).

The attempts to prove these corrected the model and the properties, each where TLC's instance had been too
small to notice:

- The identifier of a verified log entry is the log its entry names, which for an entry with only a proof is not
  tied to the log that signed the checkpoint: `TypeOK` takes it from the entries, not from the trusted logs.
- A leaf that signs itself is not traced, even when it is among the trusted certificates (`Straight` excludes it).
- "In order" has to exclude instants before 0 and after the end of time, which the code cannot tell from a
  validity without a beginning or end (`Timely`), and two logs with one identifier and different keys, of which the
  code takes the first (`NamedApart`).

`SignBundle_proofs` also has, since `CreateInv` is known:

- `ErrorExplainedHolds`: `ErrorExplained` is inductive by itself; a step matters only if it rejects a call, changes
  how a witness ended, or makes a request of a call that was rejected before it asked any witness (`ExplainedStays`).
- `ConflictIsRecoveredHolds` with `NoConflictLeft`: a witness that could not create its entry has had its answer,
  which changes no more (`SettlesOnce` of `FetchRetry`), and that answer was no conflict it could have looked up.
- `BundleCompleteHolds` with `BundlesInv`: once a call has come to its witnesses its certificate is on the CA's record
  for the holder's key, and the bundle of a resolved call is what `Collected` made of the witnesses. That this has
  each of them once and in their order is `SlotsInOrder`, a theorem about ranks in finite sets of numbers: the
  order of the evidence is defined by cardinalities because the provers know no definition of `SelectSeq`.

The assumptions are those on the constants in the modules (`RetriesAssumption`, `AnswersAssumption`,
`WitnessesAssumption`, `OptionsAssumption`, `AnswersOccur`, `RequestsAssumption`, `StatusesAssumption`,
`AttachAssumption`, `SettingsAssumption`, `VersionsAssumption`, `CallsAssumption`, `TimeAssumption`,
`ThresholdsAssumption`, `EntityAssumption`, `RootAssumption`, `SigningsAssumption`, `SomethingAssumption`,
`SignersAssumption`, `SignaturesAssumption`, `ServicesAssumption`, `CertificatesAssumption`, `LogAssumption`,
`ListsAssumption`, `BytesAssumption`, `ExtensionsAssumption`, `DepthAssumption`, `BlockSizeAssumption`,
`SizesAssumption`), which TLC evaluates in the runs, and the two on the registry that are written in their theorems.
`EntityAssumption` and `RootAssumption` are the types of what has been parsed: lists are sequences, times and path lengths are numbers, a checkpoint has
finitely many signatures. `SomethingAssumption` says that a signature or certificate is not the same as nothing.
`CertificatesAssumption` includes that the identities in certificates are `Plain` names: `IntactIsAccepted` says nothing of an
address with a "+" or a "(", which need not match itself.

Only model-checked: liveness (`CreateSettles`, `AttachSettles`, `EnvTokenComes`, `LoginSettles`), which is out of the
prover's reach; and of `Documents`, `SaysWhatWasWritten` and `SignedIsExactMostly`, whose statements go through every field of a
certificate and a timestamp. What they have in common, that DER is read as what it encodes and written as it was, is
`DERIsRead`, and integers are `IntegerIsExact`; what a truth value, a bit string or an object identifier says, and the
places of the fields, are checked on the documents of the run.

## What is not modelled

- Cryptography (`core/src/crypto.ts`) and the text encodings (`core/src/json.ts`, `pem.ts`, `encoding.ts`, `dsse.ts`):
  calls of Node, and conversions without state; signatures and digests are terms.
- `oci/src/name.ts` and `credentials.ts`: parsing of names and of a configuration file.
- The commands of the `cli`: options in, calls of the other packages out.
- `mock`, `mock-server`, `jest` and `conformance`, which are for tests, and the generated `rekor-types`.
- The log messages, User-Agent and proxies of the HTTP client. Bodies are read with their responses: a body
  that stops in the middle is a lost answer, while in the code the timeout may not cover it.
- Of times in documents only the year is read; fractions and dates that do not exist are left out, and so are
  the fields of certificates that nobody reads.
- tuf-js itself: its verification of metadata and its own writes.

## Plan

What is left: the body of a response as a request of its own, with the timeout that does not cover it.
