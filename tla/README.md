# TLA+ specifications of attestation-go

attestation-go lets a confidential guest prove what it runs and lets a relying
party check the proof. This directory models the parts of it whose correctness
depends on more than one step or more than one party, checks them with TLC on
small instances and proves the central results with TLAPS for every instance.

## The system

| Part | State it keeps | Operations | Talks to |
| --- | --- | --- | --- |
| `runtimemeasure` conventions | none | `Event`, `Extend`, `FromDigestsSeeded`, `Seed`, `HostData`, `CanonicalDigest` | used by all below |
| `runtimemeasure.Journal` | a file, an in-memory order and set, a diverged flag | `OpenJournalSeeded`, `MeasureOnce`, `ReadJournal` | the register, the file system |
| register (`register.go`) | the hardware register, append-only | `Extend`, `Extension` | configfs TSM nodes |
| `runtimemeasure` binding | none | `Binding`, `VerifyBinding`, `MatchBindingPrefix` | verified results |
| `remote` policy | none beyond one call | `VerifyEvidenceWithRuntimeLog`, `EnforceVerdict`, `EnforcePinsWithRuntimeLog`, `EnforceImagesWithRuntimeLog` | attestation-api over HTTP |
| `remote` client, health | a transport | `Verify`, `Attest`, `WaitHealthy`, the socket owner check | attestation-api |
| `attestation/tdx` | the collateral recorder of one call | `VerifyEvidence`, `VerifyQuoteBytes`, `VerifyCCELAgainstRTMRs` | go-tdx-guest, Intel PCS |
| `attestation/snp` | a certificate cache directory | `VerifyEvidenceContext`, the caching getter | go-sev-guest, AMD KDS |
| `azsnp`, `aztdx`, `tpmcommon` | none | the chain from the hardware report to the quoted PCRs | the two above |
| `teeverify` | none | dispatch on the platform tag | the verifiers |
| `armtls` | none | evidence in a certificate, offline and service verification | `teeverify`, `remote` |
| `refvalues` | none | a reference set decoded into a policy, and rendered back | `remote` |
| `launchmeasure` | none | expected launch digests | a C library |

The parts interact along one line. A guest's initrd hashes its launch bytes
into RTMR[3]; its measurer extends each image it starts, through the journal.
An attester has the hardware quote the register and publishes the journal's
list beside it. A verifier (this module's own, or an attestation-api) checks the
signature and reports claims; the policy code holds the claims and the list to
what the relying party pinned.

What is hard in it: the journal has to be exactly-once over an append-only
register and a file that fail independently; the list and the quote are read at
different moments; a policy reads fields of an answer of which only some are
signed, from peers that choose their own tag, selection, bank, list and log;
collateral is checked by one piece of code and evaluated by another; processes
share a certificate cache directory with no lock and any of them may die in it;
an answer, two timeouts, a cancellation and a tick race in the health wait; and
a reference value passes through half a dozen forms, each of which could drop
part of it.

## Modules

| Module | Models | Composes |
| --- | --- | --- |
| `RuntimeMeasure` | the measurement conventions, hashing symbolic | |
| `Journal` | `journal.go`, `register.go` with every failure between two steps | `RuntimeMeasure` |
| `MeasuredLog` | what the journal promises: an exactly-once append-only log | |
| `Platform` | platform tags and families | |
| `Binding` | `binding.go`, `launchfile.go` | `RuntimeMeasure`, `Platform` |
| `RuntimeLog` | a measurer, an attester reading beside it, and a verifier | `Journal`, `Binding` |
| `JournalProofs` | theorems about both: exactly once, what the file says of the register, and a list of a quote | `RuntimeLog` |
| `RemoteVerify` | `remote/verify.go`, `remote/images.go`: one verification from submission to verdict | `Binding` |
| `RemoteVerifyProofs` | theorems about `RemoteVerify` | `RemoteVerify` |
| `WaitHealthy`, `WaitHealthyProofs` | `remote/health.go`: the wait, its timers, the caller and the service; theorems about it | |
| `Ordering`, `OrderingProofs` | a set of numbers in order and the part of a list at some positions; what holds of them | |
| `Ccel` | `tdx/ccel.go`: event log parse and replay | `RuntimeMeasure`, `Ordering` |
| `TcbStatus` | `tdx/tcbstatus.go`: TCB level matching | |
| `TdxVerify`, `TdxVerifyProofs` | `tdx/tdx.go`: one verification of a TDX quote, with its fetches; theorems about it | `Ccel`, `TcbStatus` |
| `VTpm`, `VTpmProofs` | `azsnp.go`, `aztdx.go`, `tpmcommon.go`: guests' vTPMs and one verification of Azure evidence; theorems about it | `Ordering` |
| `KdsCache` | `snp/kdscache.go`: concurrent callers of one cache directory | |
| `SnpVerify` | `snp/snp.go`: what decides whether a report is believed | `KdsCache` |
| `ArmTls` | `armtls`, `teeverify`: certificates made and verified, by processes that share the cache | `SnpVerify`, `Platform` |
| `ArmTlsProofs` | theorems about the cache, and on top of them about `ArmTls` | `ArmTls` |
| `Manifest` | `manifest*.go`, `identity.go`, `result.go`: image manifests and identities | `Binding` |
| `RefValues`, `RefValuesProofs` | `refvalues`: reference values through all their forms; theorems about them | `Manifest`, `RemoteVerify` |
| `MCJournal`, `MCRuntimeLog`, `MCRemoteVerify`, `MCTdxVerify`, `MCVTpm`, `MCArmTls`, `MCRefValues`, `MCWaitHealthy` | constants for TLC | |

**Hashing** is symbolic throughout: a digest is the record of what was hashed
and a register value the sequence of what was folded in, so equality of values
is equality of histories (SHA-384 and SHA-256 taken to be collision free). The
field name of a digest is its width, so digests of the two families never
compare equal.

**Journal.** `reg` is the register, `file` the lines of the journal file and
what follows its last newline, `order`, `measured` and `diverged` the fields of
`Journal`; `acked` and `foreign` are history. A handler is split exactly where
a process that dies leaves something behind: `MeasureOnce` is `Record` (append,
sync, close, grow `order`), then `MeasureExtend`, or `ExtendFails` and
`Rollback`; opening is `Open` (parse, read the register, decide) and, one
record behind, `RepairExtend`. Faults are a constant set of kinds, each run
naming the ones it allows: `crash` between any two steps, `torn` for a crash
inside the append, `record` for an append that returns an error (nothing
written, a fragment, or the whole line with Sync or Close failing), `extend`,
`rollback` (before or after the rename), `unreadable` (the register cannot be
read at open) and `foreign` (something else extends). `parseJournal` is a
relation between a file and the order read from it, so no recursion is needed.
An extend that reports an error is taken to have had no effect, as the code
takes it.

**RuntimeLog** adds `TakeQuote` and `ReadJournal` at any moment, and replays the
list with `MatchBindingPrefix` of module `Binding`.

**RemoteVerify.** `guest` is what is true of the hardware and never visible to
the code; `evidence` and `claimed` are the attester's choice within what its
hardware signs; `resp` ranges over every answer a service of some version may
give. `Submit`, `Answer`, `CheckVerdict` and `CheckPins` follow
`VerifyEvidenceWithRuntimeLog`; each enforcement function is an operator of the
same name. An operator that may fail returns the set of its results.

**TdxVerify.** `quote` is the platform as it is: the events its firmware logged,
what the registers held after each of them (`held`, one extend at a time, by the
hardware's numbering of the registers and not by the code's replay) and what was
extended at runtime; `served` is what the network serves now
and may change between any two steps; `bodies` is what the collateral recorder
kept. `Parse`, `Fetch`, `VerifySignature`, `Validate` and `ReplayLog` follow
`VerifyEvidence`. go-tdx-guest's signature and field checks are external.
`REPORTDATA` and `MR_CONFIG_ID` keep their fixed width, scaled from 64 and 48
bytes down to `Width`; `TEE_TCB_SVN` is scaled from 16 entries to 3, enough for
the two module entries and one of the rest. What the properties compare with is
stated apart from the code: `TrueStatuses` reads Intel's lists by which SVN is
below which, and `EventsOf` and `TellsAll` read a log record by record.

**VTpm.** `pcr` and `quoted` are the guests' vTPMs as they are: `Extend`,
`Reboot` and `MakeQuote` are steps of software outside the repository. The
verifier is called once, with the guest's own evidence, whole or damaged
(`VerifyDamaged`), or with any mixture of the guests' pieces and pieces in
`Forged` (`VerifyMixed`). `VerifyEvidence` is one operator for both platforms:
they differ in the report type they want and in the hardware verifier they call,
which is reduced to `HardwareAccepts`. The function is pure and every failed
check is an error, so its checks are a conjunction. The attest magic is checked
where the nonce is extracted and nowhere else, so a guest's AK may have signed
other bytes that parse as a selection and a digest; the properties are stated
for results that carry a nonce, which only a statement with the magic does.
PCR[8] is scaled to the last register of a small bank.

A register's value has as many bytes as its bank's algorithm gives it (20, 32 and
48 are scaled to `Width` 1, 2 and 3), and a quote covers the values of any list of
banks, joined. `parseQuoteInfo` skips the algorithm and `VerifyTPMPCRs` joins
32-byte slots, so what a slot holds is what a register held only if the two are
cut alike. They are for a quote of one bank, and nothing in the code makes a
quote be of one: `PublishedPCRsWereHeld` and `MatchedInitDataWasMeasured` are
stated for guests that answered the nonce with such quotes (`OneBankQuoted`). The
run has quotes over a narrow and a wide bank together, and the first property
fails on it without that condition; the second needs it for the same reason, with
more registers than the run has. See the smaller disagreements under Findings.
`HonestEvidenceAccepted` is about the quotes the attester of this system makes,
over the SHA-256 bank.

**WaitHealthy.** The caller's deadline, the attempt's timeout and the ticker are
countdowns that `Advance` takes one unit from; a timer that is due fires before
time goes on, in any order with the other steps of that instant. `Begin`,
`Attempt`, `GiveUp`, `HealthReturns`, `Settle` and `Select` are the goroutine
between the points where it can wait. It may be kept off the processor for
`MaxStall` units, and `Health` with an answer and an ended context both at hand
may return either. `service` may change at any time and drop the request it had.

**KdsCache.** `get[p]` is one call of `GetContext`, split at each system call:
read the file, fetch, create a temporary file, write it in two steps, rename.
Every one of them may fail, the caller's process may die before any of them, and
a power loss leaves a renamed file whole or empty, since nothing syncs it and a
certificate is smaller than a file system block. `Revoke` changes what the
revocation lists say; `FetchProxied` is an answer that is not AMD's.

**SnpVerify** holds the decisions of `VerifyReportContext` as operators on a
report, its certificate and the caller's parameters: report version and chip id
checks, product line and roots, the padded expected values, the TCB floor.
Fields keep their fixed width in blocks (`DataWidth`, `HostWidth` 2), so that a
value too long, and one cut to fit, can be told apart. go-sev-guest is external.

**ArmTls** composes them. `call[p]` is one verification by process `p`: `Begin`
is everything from the certificate to the first wait (`attestationAndKey`,
`bindingAnchor`, `Envelope`, `VerifyEnvelope`), `TakeVcek` and `TakeCrl` the two
fetches through the cache, `Verify` and `Validate` what follows each;
`BeginService` is the other way, which hands envelope, anchor and list to the
client. Certificates are those the package makes (`NewAttestation`,
`MarshalExtension`) and those it does not: another family on the wire than in
the envelope, a bare report or an HCL envelope, a key of another kind, a quote
from another nonce or key, a list too long.

**RefValues** follows an operator (`BuildSet`, `TakeFlags`, `TakeManifest`,
`WriteFile`, `EditFile`), a component (`Load`, `StartUnpinned`) and the
comparison of the two (`Compare`). What a set admits is not defined there: its
policy is run through the enforcement of an instance of `RemoteVerify` on every
guest of a small set, so that each conversion is judged by what it does to
admissions. A guest sends its own evidence and the list of what it extended
(`ClaimsOf`). A caller's own pins may carry the hook that judges runtime
extensions (`AcceptExtension`); it has no written form. Text is abstracted to
well formed, malformed, empty or not UTF-8.

## Runs

| Run | Shows |
| --- | --- |
| `journal_faults` | with short, failed and lingering writes and failed rollbacks too, the journal still implements `MeasuredLog` (`ImplementsLog`), and what is acknowledged is measured (`AckedIsMeasured`); what is lost is availability. |
| `journal_blind` | `AtMostOnce`: a journal that some opens leave unread never extends twice, with crashes between steps, failed extends, failed rollbacks and an outside extender. Appends cut short or failing (`torn`, `record`) are left out: with an unread register they break it, since a record that runs into a fragment is extended and then lost. |
| `journal_torn` | violation of `DivergedMeansForeign`, see Findings. |
| `journal_unreadable` | violation of `AckedIsMeasured`, see Findings. |
| `runtime_log` | a journal under crashes, failing extends and an outside extender, beside an attester. `FileExplainsRegister`: at every point the file explains the register up to one record. `DivergedMeansForeign`: only an outside extend ends measurement. `RecordedIsSettled`: a recorded digest is extended or taken back. `CoveringListReplays`, `ListAfterQuoteReplays`: the list replays to the quote whatever the measurer does between the two reads. |
| `remote_verify` | `AcceptedIsPinnedImage`: an accepted peer is one pinned image in every part. `AcceptedPCRsAreTrue`, `AcceptedMeetsFlatPins`, `AcceptedIsFresh`: flat pins and verdict fields hold of the hardware. `ConformingGuestAccepted`: failing closed is not failing always. |
| `remote_mixed` | violation of `MixedFleetKeepsWorking`, see Findings. |
| `tdx_evidence` | `AcceptedTCBHolds`: Intel's own rating of every component is acceptable, whatever is served. `UpgradeNeverHurts`: raising an SVN never worsens it. `VerifiedLogIsBootLog`, `FirmwareLogVerifies`: a verified log names every extend of RTMR[0-2] in order, and the firmware's log verifies. `AcceptedBindsWholeValue`: no expected value is cut down to its field. |
| `azure_vtpm` | `MatchedNonceIsTheGuests`, `PublishedPCRsWereHeld`, `MatchedInitDataWasMeasured`: what is reported of a vTPM is true of the guest whose hardware report was accepted, at the quote with that nonce; for registers, where that guest quoted one bank. `HonestEvidenceAccepted`: a guest's own evidence passes the callers whose expectations it meets, launch digest included, and no other. |
| `attested_tls` | `AcceptedBindsKey`: an accepted peer holds a key that genuine hardware of the declared family committed to. `AcceptedMeetsPolicy`: the caller's values and TCB floor hold of the report. `RevokedNotAccepted`: no cached certificate outlives a revocation that was in force at the call. `HandedIsAnswer`: what the cache hands out is a whole answer to the URL asked. `HonestIsAccepted`: a certificate the package made is accepted, whatever the cache directory went through. `ListIsDelivered`: the list a guest embeds reaches the replay. |
| `refvalues` | `WrittenIsEnforced`: a component admits exactly the guests for which one entry of its file is true, and that are of the file's family if an entry has a launch file digest. `RenderedReadsBack`, `NoDriftMeansSameAdmissions`: what is published reads back, and an empty comparison means equal admissions, for sets without hooks. `FlatFormIsExact`: the flat form, from a set or from flags, admits the same guests or says it does not. `ManifestPinsAreTheImage`: pins made of a manifest and its identity agree. `OldReadersLoseNothing`: a component of the first schema refuses a file it would lose pins of. |
| `wait_healthy` | `NilMeansOk`: nil means an ok this call received, and no ok is thrown away for the context's error. `PausesAfterFailure`: a whole interval lies between a failure and the next request. `EndsWithTheContext`: the call outlives the context only while it is not scheduled. `HealthyIsNoticed`: a healthy service is noticed within two intervals and its latency. `Returns`: the wait ends. |

Each property of a passing run has a mutant (`_Suffix` definitions before the
one they change) that breaks it.

**Bounds.** Three digests and four faults in the journal runs, three in
`runtime_log`, where the attester's steps multiply the states: an interrupted
extend needs one digest, a rollback beside it a second, and a third lets a
journal go on afterwards; three faults allow a crash in the recovery from a
failed extend. Digests are symmetric, except in `runtime_log`, which has a
liveness property. The journal runs stop when every digest is measured and the
faults are used up, hence `CHECK_DEADLOCK FALSE` there.

`remote_verify` takes four platforms, two launch digests, kernels and anchors,
every list of up to two digests that matters (empty, prefix, complete,
reordered, misspelled), and pairs of pins, which is what mixing pins takes.
`tdx_evidence` takes three families of calls: every SVN up to 1 against lists of
two levels, logs of up to three records, and expected values below, at and above
the field's width. `azure_vtpm` takes two guests of the same image on the two
platforms, two registers, two quotes and one extend between them (enough for a
quote before and after a measurement, before and after a reboot, and one of each
guest), selections with and without the init-data register, one of a narrow and a
wide bank that together are as long as two 32-byte slots, and nonces that differ
in a trailing null only.

`attested_tls` takes two processes, one chip at two TCB levels (hence two
certificates and one revocation) and three scenarios: a few requests that both
processes make over and over, requests about a processor the library cannot
classify, and certificates, reports and policies of every shape from one process,
each under every fault. `MaxRuntimeExtensions` is 2 for 256,
so that a list below, at and above it is there. `refvalues` lets the operator act
`MaxActs` = 2 times, enough to change its mind between a file and a comparison;
entries carry each field alone and the pairs that interact. `wait_healthy` takes
intervals 0 to 3 and deadlines before, in and after the first attempt or none,
with `MaxLatency` and `MaxStall` 1: intervals below, at and above the time an
answer takes.

**Fairness.** In `RuntimeLog`'s `LogSpec` (from `Journal`'s `Fairness`): a
handler that started runs on (`RepairExtend`, `MeasureExtend`, `Rollback`), since
they are straight-line code with no lock or wait, and a measurer that is down is
opened again, since it is a daemon under a supervisor. `Measure` is not fair:
nobody has to ask. Faults are bounded, so the run says what happens once they
stop. In `WaitHealthy`: the goroutine and the runtime's timers run, time passes,
and a service that is up and stays up answers; a service that changes its mind
for ever, or hangs, need not, and `Returns` does not ask it to.

**Deliberately idle states**: `RemoteVerify`, `TdxVerify`, `VTpm` and
`WaitHealthy` describe one call and end in a self-loop.

## What is proved

Everything here holds for every value of the constants, from the named
assumptions of the modules and those stated in the theorem.

**`JournalProofs`**, for every finite set of digests, every set of faults and
every bound on them:

- `TypeCorrect`: `Spec => []TypeOK`.
- `MeasuredExactlyOnce`: if the register can be read at every open
  (`"unreadable" \notin Faults`), then `AtMostOnce` and `AckedIsMeasured`. The
  assumption is needed: `journal_unreadable` is the counterexample without it.
- `JournalImplementsLog`: under the same assumption `Journal` implements
  `MeasuredLog`, with the register after its seed for the log.
- `UnreadNeverTwice`: with a register that cannot be read at some or all opens,
  `AtMostOnce` still holds if no append is cut short or fails
  (`"torn"`, `"record" \notin Faults`).

The argument: exactly-once is not inductive, because the decision to extend is
taken from `measured`. The inductive invariant `ExactlyOnce` adds
`MemoryMatchesRegister`, which ties `measured` to what the register holds in
every program position: equal to it when idle and not diverged, one digest ahead
while a repair is pending, and not containing `cur` between record and extend.
The only step that establishes it from nothing is `Open`, where it follows from
the two folds compared (`Matches`, `OneBehind`) by lemma `HeldFold`: the digests
a fold holds are those folded. The file plays no part in the argument, which is
why no failure to write it can break exactly-once. The refinement needs one more
fact, that the seed stays the register's first event. `UnreadNeverTwice` is the
opposite case: without the register only the file is left to tell what was
extended. Its invariant `NeverBehind` says that every digest in the register is on
a line of its own in a file with no fragment, so that any open counts it as
measured.

In the same module, for `Faults \subseteq {"crash", "extend", "foreign"}`
(any number of them; `journal_torn` shows that more is false):
`FileAlwaysExplains` (`FileExplainsRegister`), `OnlyForeignDiverges`
(`DivergedMeansForeign`) and `RecordsComeFirst` (`WriteAhead`: no digest is
extended that is not on file). The invariant `Accounted` says of the file that
it has no torn line and no repetition, of memory that it is the file less what a
handler has under way, and of the register that it is the fold of one of the two.
What the file says of itself is needed because reopening parses it: of such a
file `parseJournal` gives back exactly its lines (`ParsedIsLines`, by the least
line on which two increasing enumerations differ), and a fold extended by one
event is the fold of the list extended by it (`FoldMore`).

The exchange with a verifier needs one notion more. `Firm` is the file without
the line that a rollback may still take back; no step shortens it
(`FirmGrows`). The invariant `Exchanged` says that the quote, taken at any
moment, is a fold of the beginning of `Firm`, and that the list, read at any
other, is lines of `Firm` and at most one more. Hence `CoveringListsReplay`
(`CoveringListReplays`: a list that names all that is quoted begins with it,
because lines do not repeat) and the action property `LaterListsReplay`
(`ListAfterQuoteReplays`), under the same faults. Assumed: `AnchorIsAFile`, the
launch file is neither empty nor what hashes to zero.

**`RemoteVerifyProofs`**, for every guest, policy, list and service answer:
`FreshnessHolds`, `PCRsAreTrue`, `FlatPinsHold`, `OneImageHolds` and, the other
way round, `ConformingAreAccepted` (the property names are in `PROJECT.json`).
The invariant `Checked` keeps, phase by phase, what the earlier phases
established up to the verdict, and `Explained` that a refusal after an answer is
a check that the answer failed. The rest is about the operators: a binding that
a verified result carries is the guest's own (`BindingIsGuests`), two folds agree
only if their lists do (`FoldsAgree`), so a launch file digest and a replayed
prefix stand for one file and one list (`DigestBinds`, `ReplayBinds`), and an
honest list is found to replay exactly as far as the guest extended
(`HonestReplay`). Assumed: `NoneIsNoVerdict`, `ListsAssumption` (claimed lists
and extends are finite sequences), `GuestsAssumption` (hardware reports a launch
digest, and no file hashes to zero) and `ParavisorIsNoPin` (the HOSTDATA of
Azure's paravisor is the hash of no file a policy pins).

**`TdxVerifyProofs`**, for every call, every collateral and every change of it
between two fetches: `TCBHolds` (`AcceptedTCBHolds`), `UpgradesNeverHurt`
(`UpgradeNeverHurts`), `BindsWholeValue` (`AcceptedBindsWholeValue`),
`VerifiedLogsAreBootLogs` (`VerifiedLogIsBootLog`) and `FirmwareLogsVerify`
(`FirmwareLogVerifies`). The invariant `Established`
says what each step has made sure of when the next one starts: the documents
that are evaluated are those whose signature was checked, and the result is
what they say of this quote. The lemmas before it are about `TcbStatus`: the
first level met is the one Intel's list gives the component (`PlatformRating`
with `MeetsIsNoneBelow`, `EnclaveRating`, `ModuleRating`), and a raised SVN can only meet more levels, so
in a list ordered from best to worst it finds a better one or the same
(`MoreIsNoWorse`). Assumed: SVNs are numbers, `TEE_TCB_SVN` has one size, the
documents are lists, expected values are byte sequences, and `HeldAssumption`,
that the hardware appends each event to the register its MR index names. The proof
corrected the
property: a platform whose module version is 0 has no module to rate, which
counted as UpToDate and failed for callers that do not list that status; the
run now has such a caller. For the event log, `Tells` says of a register that it
was extended with the digests at some positions of a log, in order and with nothing
else; there is one such register (`TellsOne`). The hardware's is one, by the first
event for which it would not be (`HeldDigests`), and so is the replay of what the
parser keeps: it keeps the events before the first record that is none
(`ParsedPrefix`), and picking the events of one register out of those kept is
picking them out of the log (`KeptDigests`). The firmware's own log is the case in
which nothing is dropped (`LogsAssumption` says that boot events are whole records
and no end marker; `FilteredWhole`).

**`OrderingProofs`**: of every finite set of numbers `Sorted` is a list of its
elements, each once and in increasing order (`SortedLists`), and two increasing
lists onto one set are the same (`IncreasingOnto`, by the least place where they
differ, `LeastNatural`; `SortedAlone`). No induction over data is needed: the place of a number
is the count of those up to it.

**`VTpmProofs`**, for any number of guests, extends and quotes and any forged
pieces: `NoncesAreTheGuests` (`MatchedNonceIsTheGuests`), `PublishedWereHeld`
(`PublishedPCRsWereHeld`), `InitDataWasMeasured` (`MatchedInitDataWasMeasured`)
and `HonestIsAccepted` (`HonestEvidenceAccepted`). The invariant `Explained` ties a result to
evidence that somebody could send (`Sent`): each piece is a guest's or forged.
Then the chain is followed: a genuine report names one guest, its runtime data
names that guest's AK, what that AK signed with the magic is a quote of that
guest, and the digest in it fixes every selected register. `ForgedAssumption` is
what the chain rests on: nobody makes up a hardware report, or a statement with
the TPM's magic under a guest's AK. In the other direction, a guest that quotes
selects registers of its bank, and the verifier, which goes through them in
increasing order, joins the values the vTPM joined (`SortedLists`). That joined
values are the same only if each of them is needs them to be of one width and
number (`JoinedApart`), which a quote of one bank gives: of another width than the
slots' it has another length and fails (`JoinedLength`). Assumed:
`RegistersAssumption` (the bank is finite and not empty, algorithms have a width,
and selections are lists of banks), `ValuesAssumption`
(nothing measured is taken for a value of the wrong size or an absent one),
`ParamsAssumption` (the caller's parameters have the fields of the type).

**`ArmTlsProofs`**, first part, for any callers, URLs, chips and faults, and for a cache in
any use (`CacheSpec`): `CacheHandsAnswers` (`HandedIsAnswer`). The property is
about a call that returns, but what it returns may come from a file that another
call published from its temporary file: the invariant follows the certificate
through all three (`FilesAnswer`, `CallsAnswer`).

Second part, for any number of processes, certificates, expectations,
failures and revocations. `ImplementsCache` shows step by step that the
composition is a use of the cache, so `HandedIsAnswer` carries over
(`VerificationsAreHandedAnswers`). The invariant `Sound` adds to it what each
verification has made sure of where it is; from it follow `RevokedAreNotAccepted`,
`AcceptedMeetPolicy` and `AcceptedBindTheKey`. For the other direction `Dues` says
what a verification of an honest peer has in hand, unless it is excused (a fetch
failed, the peer is revoked, an answer was not AMD's): `HonestPeersAreAccepted`.
`RoundTrip` says that what a certificate was made of is what is read from it,
which also gives `ListsAreDelivered`. Assumed (`RequestsAssumption`): requests
are records with the fields the code's types have, the kind of evidence is that
of its hardware, URLs that a report names are among `URLs`, and a certificate
`made` with the package carries the extension the package makes of it. The proof
corrected `HonestIsAccepted` twice. A VLEK-signed report of a processor the
library cannot classify is refused although everything about it is honest: the
product roots are filled in for a VCEK only (`snp.go:216-230`). And with the chip
id masked in the report, the revocation that counts is that of the certificate's
chip. Both cases are in the run now.

**`WaitHealthyProofs`**, for any intervals, deadlines, latency and stall:
`TypeCorrect`, `ReturnsAreTrue` (`NilMeansOk`), `PausesAreWhole`
(`PausesAfterFailure`), `EndsInTime` (`EndsWithTheContext`) and `HealthIsNoticed`
(`HealthyIsNoticed`). The invariant adds that an ok anywhere was said by the
service (`OkWasSaid`), that a goroutine which goes on waiting holds none
(`WaitsWithoutOk`), and that in the pause the ticker has exactly the rest of the
interval to go (`PauseIsTimed`). `Unnoticed` bounds, for each place in the loop,
how long the service may have been healthy by then; an attempt under way is
either one that began before it was (`OldAttempt`), which its timeout ends, or
one it answers within its latency (`FreshAttempt`).

**`RefValuesProofs`**, for every file, set, flag list, manifest and guest:
`WrittenIsAlwaysEnforced` (`WrittenIsEnforced`), `RenderingReadsBack`
(`RenderedReadsBack`), `NoDriftSameAdmissions` (`NoDriftMeansSameAdmissions`),
`FlatFormsAreExact` (`FlatFormIsExact`), `ManifestsPinTheImage`
(`ManifestPinsAreTheImage`) and `OldReadersAgree` (`OldReadersLoseNothing`). Two
descriptions carry the argument. `Meets` and `WellBound` say, of one guest and one
image, what the enforcer's pass over all images comes to for honest evidence
(`AdmitsSet`); `ReadsAs` and `ValidatesAs` say, of one entry and one image, what
`Parse` makes of it. Each property compares the two part by part: digest,
registers, binding. The invariant `Known` (`AlwaysKnown`) says where each set in
the state came from: the wanted one is typed, the enforced one is what `Parse`
made of the file loaded, the comparison is of the two as they are now, and a set
from flags or a manifest is that of those flags or that manifest. Assumed:
`DocumentsAssumption`, `FlagsAssumption`, `ManifestsAssumption` and
`SetsAssumption` (inputs have the shape that JSON and Go's types give them),
`NoneAssumption` (an absent value is no written one) and `SeenAssumption` (guests
are of a known family, and no launch file hashes to zero).

The proof corrected the model and two properties. `WrittenIsEnforced` said that an
entry that is true admits its guest; a launch file digest in any entry rules out
the guests of the other family, since `checkLaunchBindingPins` refuses a policy
that pins one on their evidence. And the hook of a pin decides admission but has no
written form, so that `RenderedReadsBack` and `NoDriftMeansSameAdmissions` hold
without hooks only: see Findings.

Only model-checked: the liveness properties `RecordedIsSettled` and `Returns`,
which are outside what the prover handles.

## Findings

1. `journal_torn` (`journal.go:226`): an append is written without checking that
   the file ends in a newline. After a crash inside an append the next digest
   runs into the unterminated line, is extended, and is on no line of its own:
   the next open reports `ErrRegisterDiverged`, "something outside the journal
   extended it", and measurement ends for the boot. A failed extend whose
   rollback fails too (`journal.go:254`) leads there as well: its digest stays
   on file and not in memory, and the next measurement appends after it. The
   run allows `crash` and `torn`; with `Faults = {"crash", "extend", "rollback"}`
   instead TLC finds the second way.
2. `journal_unreadable` (`journal.go:158`): after a crash between record and
   extend, an open that cannot read the register counts the digest as measured;
   `MeasureOnce` answers (false, nil) for an image that is in no register.
3. `remote_mixed` (`remote/verify.go:329`): `EnforcePCRs` refuses PCR pins on a
   platform without a vTPM quote; the comment on `Policy.PCRs` says such a fleet
   "keeps working".

Smaller disagreements met on the way, which no run is about:

- `armtls` documents `Attestation.CertChain` as the "VCEK, optionally followed by
  ASK and ARK"; `Envelope` hands all of it on as `cert_chain.vcek`, which the
  verifier parses as one certificate.
- `teeverify.go:53` says that beside the VCEK fetch nothing there reaches the
  network; TDX verification does when `GetCollateral` or `CheckRevocations` is
  set.
- `Format` promises that what it writes reads back as the same set; a name that
  is not valid UTF-8 is replaced. `RenderedReadsBack` is stated for names that
  are text.
- `config.go:298` says of `Format` that a pin it cannot render "is an error, never
  dropped", and `render.go:38` of `Diff` that it matches on "what decides
  admission". Both pass over `AcceptExtension`: an operator whose set has the hook
  writes it, a component loads the file and the comparison reports no drift, while
  a guest with an extension the hook accepts is admitted by the operator's set
  and refused by the component. `NoDriftMeansSameAdmissions` without its `NoHooks`
  fails on the run's own instance.
- The comments on `CheckInitData` and `SignedPCRSelection` (`tpmcommon.go:384`,
  `:421`) take every selected PCR value to be authenticated. The signed digest
  covers bytes, though, and the selection's hash algorithm, which says how they are
  cut into registers, is skipped (`:458`): for a quote over several banks of
  different widths a slot of the bank sent along need not be the value of the
  register it is numbered as. A check that the quote selects one bank, SHA-256,
  would make the two register properties hold without their condition.
- A page served in the place of a certificate is cached like one and never
  evicted. Verification refuses it every time; only removing the file helps.

## What is left

`VerifyParams.SetExpectedMeasurements` with `enforceExpectedMeasurements`, and
`InitDataAnchor`.

## Not modelled

`launchmeasure` (bit-exact hashing of firmware pages, through a C library),
`cmd/ffi` (marshalling), `remote/mockapi` (a test double), `tdxtrust` (a constant
certificate) and the legacy `attestation` package (straight-line calls into
libraries). The probing of configfs in `OpenRegister`, the choice of transport
and the socket owner check of the client, hex, base64, ASN.1 and JSON decoding
and the extraction of claims are copies or single checks without state; strict
JSON is modelled by what it refuses. Whether a TSM write that reports an error
may have had an effect is a property of the kernel, not of this repository.
go-sev-guest and go-tdx-guest are external, their own caches included.
