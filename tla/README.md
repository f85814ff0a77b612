# sumo-provision: TLA+ models, checks and proofs

`sumo-provision` provisions the software of a vehicle rig. Two passive HTTP
services hold the state, a library drives the rig, and a command line calls both.

## The system and its parts

| part | code | state | here |
|---|---|---|---|
| Tower 2 content core | `software-tower/src/content.rs`, `store.rs` | blob files, temp files, `artifacts` table | `ContentStore`, `ArtifactCatalog` |
| Tower 2 release store | `software-tower/src/releases.rs`, migrations 0002-0004, 0006, 0008 | component and vehicle releases with their child rows | `Releases` |
| Tower 2 channels | `releases.rs`, migrations 0005, 0007, 0009 | channel targets, target history | `Channels`, `DesiredState` |
| Tower 2 L1 dispatch | `releases.rs` (`channel_target_l1`, `partition_l1_components`) | none of its own | resolution and pinning in `Channels`; the rest in `Dispatch`, `Assembly` |
| Tower 2 envelopes | `signer.rs`, `releases.rs` (`create_envelope`), `crypto.rs` | none | what an envelope carries in `Dispatch`, `Assembly`; ciphertexts abstractly in `ContentStore` |
| Tower 2 startup | `software-tower/src/main.rs` | the signing key file | `TowerKeys` |
| wire model | `wire/src/lib.rs` | none (pure functions on trees) | `VehicleTree` |
| orchestrator | `orchestrator/src/lib.rs` | a token cache; the rig is outside | `Dispatch`, `Assembly`, `Campaign`, `RigUpdates`, `RigToken` |
| Tower 1 roster, enrolment, keystores | `identity-tower/src/devices.rs`, `keystore.rs`, `ca.rs` | `devices` and `device_certs` tables | `IdentityTower` |
| Tower 1 startup | `identity-tower/src/main.rs`, `ca.rs` | three key files, three certificate files | `TowerKeys` |
| command line | `cli/src/main.rs` | none | the gates and verbs of `rig` in `Dispatch`, `Campaign`; keystore commands in `TowerKeys` |
| client | `client/src` | none | each request is a step of its caller |

They interact as follows. A build publishes artifacts to Tower 2, mints component
releases (L2: the parts of one entity) and vehicle releases (L1: a set of component
releases, some of them disabled), and points a channel, for a device and an
architecture, at a vehicle release. The orchestrator reads the rig's installed
state, asks Tower 2 for the channel's tree or for a signed L1, and flashes the
difference. Tower 2 serves requests concurrently; a request whose client hangs up
is dropped at its next await, and most handlers are several autocommitted SQL
statements. That is where the hazards in `PROJECT.json` lie.

## Modules

**ContentStore** has one action per awaited effect of `publish_stream`:
`Begin` and `Create` (`FsBlobStore::begin`), `Stream` (the chunk loop, the zstd tail
and the GCM tag), `LookupHit`/`LookupMiss` (`PgIndex::get`), `CommitPresent`,
`CommitAbsent` and `Rename` (`FsBlobSink::commit`), `Put` (`PgIndex::put`), `Fail`
(an error or a dropped task, with `FsBlobSink::drop`), `DropInCreate` (a task
dropped while the file is created, before there is a sink) and `Restart` (the
process dies; files and tables stay, `TEMP_SEQ` is zero again, and the pid is the
same, as it is in a container). Variables are the `artifacts` table (`index`), blob
and temp files, the counter, the tasks (`job`), and two histories: the answers
(`refs`) and the temps that earlier processes left (`stale`). An inner hash stands
for the plaintext; an outer hash is the pair of plaintext and key, since they
determine the ciphertext. Keys need not be fresh in the model.

**ArtifactCatalog** is what the content core promises: a plaintext is bound to one
stored ciphertext for ever and every answered reference can be fetched.

**Releases** has one action per SQL statement of `create_component_release` and
`create_vehicle_release`: lookup, insert of the row (or refusal by the unique index),
insert of each child row (or refusal by its key), the `COALESCE` update of the
snapshot, and a stop between any two of them. An identity hash is the value hashed:
for a component its kind and its parts with their rank among equal ids (that is what
a stable sort by id keeps), for a vehicle its member set and its disabled members.
Versions, timestamps and part kinds are left out, as nothing is decided by them
(the part kind goes into the identity together with the content).

**Channels** extends `Releases` with `set_channel_target` and the resolutions by
selector and by pinned release: `ReadMembers` reads the member rows in one statement,
`FetchMember` one member's component and parts, in any order, `Respond` compares the
pinned hash, `WriteTarget` is the transaction that writes history and target.
`StartRead` asks by channel, with or without a tree hash. `StartPinned` is a client that
takes release and hash from a target row, as `get_channel_target` shows it, and asks for an
L1 or for the tree later. A hash given without a release may be refused once the channel has
moved; only the pair is a pin. A tree hash is the tree
without what `tree_hash` leaves out (the entity kinds). `sealed` and `promised`
are histories used only by properties.

**DesiredState** is what releases and channels promise together: a release gets its tree once and
keeps it, and what a target resolves to changes only when the target is set. A release whose
rows are not all in has no tree there. It is the channel that `Campaign` works from: releases that
are fixed, and moves in one step.

**VehicleTree** has `diff`, `assess_tree` and `flash_plan` of the wire crate as operators on
trees (path to parts, administrative state and update mode).

**Dispatch** holds the decisions taken from such trees: Tower 2's `entity_agreed` and
`partition_l1_components`, the orchestrator's `fanout_l1`, `component_unchanged`, `l1_jobs`, the
steps of `campaign_execute` and `apply_plan`, and the gates of `rig campaign`.

**Assembly** runs `channel_target_l1` from its partition on (`StartL1`, `Lookup` per part,
`AnswerL1`: signed, 204 or 404), the orchestrator's fetch of the blobs (`FetchBlobs`), and
`flash_bundle` with `create_envelope` (`StartBundle`, `ArtifactExists`, `CreateEnvelope`,
`FinishBundle`). It is composed with `ArtifactCatalog`: artifacts are published between
any two lookups, and `ContentStore` is proved to implement that catalog. `Flashed` is the rig after
it took the jobs of a campaign, as it would report itself (external); a file that a job does not
carry stays from the active bank (`Seeded`).

**Campaign** is one action per awaited request of `rig campaign` and `rig flash`: list the
components, read the state of each (one that is malformed is dropped), check the node's update
state, ask for jobs, guard, stage each component, reset, poll health, commit or roll
back; and the verdict verbs of an operator. The rig and the flash engine are external:
a rig has active, committed and staged images and a trial, and it reboots, fails and
reverts by itself. A rollback restores images; the administrative state that a removal of the
same step changed stays, as it is no bank. The channel moves meanwhile. Any number of operators act
at once. Two histories serve the properties: `origin` (which command staged an image) and
`disturbed` (the operators on whose node another one has acted since their node check).

**RigUpdates** is what an update promises: running images change by installing images of
releases a channel offered, by settling them, or by going back to settled ones.

**RigToken** is `RigToken::token`: read the boot id, lock the cache, read the ECU id, mint.

**IdentityTower** has one action per SQL statement of `register_device`, `enroll_device` and
`mint_keystore_endpoint`, and a dropped handler between any two. A keystore is the record of
its recipient, anchors and certificates.

**TowerKeys** starts both towers: `connect_with_retry`, then for each authority load, or
generate and write its files, where a write truncates before it fills. Towers stop
anywhere and files may be lost. What they sign, and the anchors that keystores and
trust bundles carry, are histories. The keystore's way from `ca mint-keystore` to
`rig install-keystore` is there too.

`MC*` modules hold the requests, the selectors and the symmetry sets for TLC.
`*_proofs` modules hold the theorems.

## What the runs check

| run | states | shows |
|---|---|---|
| `store` | 213023 | `IndexSound`, `BlobsAddressed`, `NoLitter`, `PublishedForever`, and that the store implements `ArtifactCatalog` (and so `RefsServed`) |
| `releases` | 658681 | `ComponentAnswers`, `VehicleAnswers`, `ReleasesImmutable` |
| `channels` | 455601 | `ResolvedSound`, `ResolvedExact`, `TargetsBound`, `PinHonoured`, and that releases and channels implement `DesiredState` |
| `assembly` | 710599 | an L1 is signed whole (`CampaignWhole`) and can be fetched (`PayloadsServed`); Tower 2, the assessment and the command line agree on who is left alone, for every `--only` (`DispatchWithinAssessment`, `GatesHideNoWork`); `ManifestOnlyReenables`; a rig that took its jobs gets none the next time (`OneFlashSettles`); the payloads of a bundle are what its envelopes decrypt (`BundleDecrypts`) |
| `campaign` | 985424 | campaigns that nobody disturbs do not mix releases (`TransactionUniform`), start on a resolved node (`StepStartsResolved`), put the images back that an aborted step replaced (`AbortUndone`), leave no trial behind when they report an end (`CampaignResolves`); all commands implement `RigUpdates` |
| `campaign_converges` | 57406 | `Converges`: the rig reaches the channel once failures and moves end |
| `rig_token` | 11207 | a token is of a boot that was live during the call (`TokenFresh`); a call waits for the cache for ever only behind a request that never ends (`WaitsBehindRequest`) |
| `identity` | 502465 | `CertsSound`, `KeystoreSound`, `RosterKept` |
| `tower_keys` | 854129 | what was signed verifies against what is pinned (`ChainsVerify`), a root certifies its key (`RootsCertify`), startup ends (`StartupEnds`) |

Each run checks the type invariant of its module as well, except `campaign_converges`, `rig_token`,
whose type invariant is proved, and `releases`, whose type invariant is part of that of `channels`.

Three runs end in a violation; each states what a comment, a message or a migration of the
repository says and shows a behaviour of the code that differs:

- `partial_reuse`: `reused` is answered for a release whose parts are not all in, by a
  racing creator or by a retry after a stop, and nothing completes it later.
- `stale_hash`: a target set while its release grows keeps a tree hash that the
  release no longer has, so pinned requests are refused.
- `assembly_removal_drift`: the rig has a part under another name, or one too many. The
  assessment calls that actionable and `rig campaign` says a signed campaign is required;
  `entity_agreed` compares digests only, so Tower 2 answers 204, on every run.

What holds in spite of these: a partial release never carries foreign content
(`ComponentAnswers`), a whole one never changes (`ReleasesImmutable`), a release that
was whole when its members were read resolves exactly (`ResolvedExact`), and a pin to a
target set on a whole release is honoured wherever the channel moves
(`PinHonoured`).

Other places where the modelled code differs from its comments. The models have these
behaviours; no run is about them:

- Two publishers of the same bytes that both miss the index get two references; the
  loser's blob has no row (`content.rs:129`).
- The loser of a creation race gets an error, not the release (`releases.rs:213`), and a
  repeated member id is deduped in the identity and refused in the table, after the
  release row is committed (`releases.rs:290`).
- A selector with only a device resolves the channel's single target, also one of another
  device (`releases.rs:971`).
- `is_noop` is "the rig already matches the channel", but it looks only at the parts that
  ship (`orchestrator/src/lib.rs:437`); empty jobs mean "already converged", but they also come
  from components that are not advertised (`lib.rs:1332`).
- `flash_bundle` promises "exactly what the flash would upload"; a part published
  between its own lookup and Tower 2's is in the envelope without a payload (`lib.rs:616`).
- Two operators can both pass the node check before either stages (`cli/src/main.rs:881`).
  The second then stages on a node that is not resolved, on images of another release perhaps,
  and its rollback or its end is about the first one's components as well. The four
  properties of `campaign` about a command therefore have a hypothesis: no other operator has
  acted on the node since this one's check. Without it TLC violates each of the three
  action properties on the instance of the run.
- The mint "happens once per boot" (`lib.rs:676`), but a call that read the boot id before a
  reboot mints for the old boot again and evicts the newer token.
- A device gets a certificate when it is registered only, though the comment wants its
  device-decrypt key enrolled (`devices.rs:131`).
- A CA is generated "on first run" (`identity-tower/src/main.rs:190`), and also whenever one of its
  two files is lost; `ChainsVerify` therefore excepts an authority that lost a file.

### Bounds

- `store`: 2 publishers, 2 plaintexts, 2 keys, 2 writes per ciphertext, 2 temp
  suffixes per process. Two publishers of one plaintext, with equal and with
  different keys, race at every step; two writes make partial files visible; a
  restart reuses both suffixes. (With 3 suffixes, 8.3 million states, the
  properties and the inductive invariant hold too; that run takes 14 minutes.)
- `releases`, `channels` and `campaign` each join two instances in one run (`InstanceSpec` of
  the MC module, or the action constraint `Instances` of `campaign`: the steps of the specification
  that stay inside one of the two).
  - `releases`: 2 component creators with 6 requests that share and differ in parts, order,
    kind and path, one with a repeated part id; or 2 vehicle creators and a component
    creator, so that members may not exist yet, with 4 requests: snapshots, a disable,
    a stray disable and a repeated member. Components have no parts in the second: a
    vehicle release never looks at them.
  - `channels`: 2 handlers and 2 vehicle releases from a state that minting alone reaches
    (`MintedInit`), without failures, and with a tree hash in every read; or from an empty
    store 1 handler, 1 vehicle release, 2 devices and both kinds of selector, with failures. The target of the second device is
    set on a whole release: targets set while a release grows are the first one's.
- `assembly`: all targets and all reported states of 2 components with 1 part or of
  1 component with 2 parts, over 2 contents, each administrative state, and no report;
  2 keys, so that one content can be offered under two references. One request at a time:
  requests share only the catalog, and it grows by itself.
- `campaign`: a host, a singleshot controller and a VM that only a flashed host
  advertises; 2 releases, the second of which disables the VM. Either 1 operator with both verbs,
  `--only` on and off, `--no-commit` on and off, 2 failures (1 with `--only`) and 1 channel
  move: a failure may hit the step and its rollback, and one move separates plan from
  execution. Or 2 operators who run whole campaigns and verdicts at once, with one component that does
  not come up: either may act between the other's check and its first stage, and abort.
  `campaign_converges` has 1 operator, drops the options and has 2 moves, to and fro.
- `rig_token`: 3 calls, so that one waits while another mints for a boot the third has
  seen end; 2 boots.
- `identity`: 2 devices, 2 handlers, 1 key, 1 model and 2 certificates, so that a slot is
  enrolled twice or two slots share a handler's window. CSRs are well or badly signed.
- `tower_keys`: 2 connection attempts (15 in the code; only the last one differs), 2 stops,
  7 keys, which is one per authority and enough for every regeneration these
  stops and the one lost file allow. The lost file is a certificate, the case in which the
  key beside it is overwritten.

Symmetry is over requests (tasks), plaintexts, contents, paths and keys, which no definition
tells apart. It is used with invariants, action properties and a refinement that is a
safety property, never with liveness.

No deadlock check is disabled: a handler, a command or a tower can always be started
again.

### Fairness

- `Campaign`: weak fairness of `Reboot` (a rig with staged images boots into them in the end), of
  `Start` (the operator runs the command again, as its messages ask) and of `Progress` (a
  command that is not interrupted goes on: its requests are answered; one that
  never is stands for an interrupted command, `Fail`). Strong fairness of a verdict on a
  pending trial: the operator resolves it in the end, even if commands come in between.
  Failures and channel moves are not fair and are bounded, which is the "once they end" of
  `Converges`.
- `RigToken`: a waiter for the lock gets it (strong), since tokio's mutex is first come, first
  served. Nothing is assumed of requests: neither HTTP client sets a timeout, so one to a rig that is
  rebooting may never end, and `WaitsBehindRequest` has that as its alternative.
- `TowerKeys`: a process that was started runs (weak); stops are bounded. A migration that the
  database never answers would be a startup that does not end, and is not among the behaviours.

The other specifications assume none, and claim no liveness: `publish_stream` has no upload
timeout, so a publisher may stall for ever, and a handler may stop anywhere.

## What is proved

All theorems are checked by TLAPS for every value of the constants that meets the named
assumptions of the modules. Apart from types (requests, targets and the initial rig are
well formed; bounds are numbers) these say only that `None` differs from values. They are
`ContentAssumption`, `ReleaseAssumption`, `ChannelAssumption`, `AssemblyAssumption`,
`CampaignAssumption`, `TokenAssumption`, `IdentityAssumption` and `TowerAssumption`. TLC
evaluates each on the runs. One further hypothesis appears in a theorem, and is explained below:
that of `RootsAlwaysCertify`.

Each proof module proves `Spec => []Inv` for an inductive invariant that is stated in the module
it extends, and derives the properties from it. TLC finds every `Inv` (and `CalmInv`) true on the
instance of the module's run as well.

- **ContentStore_proofs**: `TypeOK`, `IndexSound`, `BlobsAddressed`, `RefsServed`, `NoLitter`,
  `PublishedForever`, and the refinement of `ArtifactCatalog`. `Inv` adds two facts to the
  properties. `TempsOwned`: a task's temp suffix was handed out by this process, to it alone,
  and its file holds what it streamed; without it a blob could be somebody else's bytes.
  `PhasesOrdered`: a task that commits has streamed everything and one that inserts has its
  blob; without it a row could precede its blob. A rename over an existing blob is harmless
  because both are the ciphertext the address names.
- **Releases_proofs**: `ReleaseTypeOK`, `ComponentAnswers`, `VehicleAnswers` and
  `ReleasesImmutable`. `ReleaseInv` says that child rows belong to the identity of their row
  (`ChildrenWithin`), that a handler past its insert or hit holds the release of its own request
  and has its first `n` child rows in (`ComponentTasksSound`, `VehicleTasksSound`). No handler is
  known to be its release's only writer; a whole release stays whole because every child row its
  identity allows is there and the key refuses it.
- **Channels_proofs**: `TypeOK`, `ResolvedSound`, `ResolvedExact`, `TargetsBound` and `PinHonoured`,
  on top of `ReleaseInv` and of `ReleasesImmutable`'s argument: a whole release stays as it is
  (`Sealed` is stable), so what a handler has read of one stays true while others mint and
  channels move. `FetchSound` says that the fetched members of a whole release are in the tree and
  nothing else is; `PinSound` that a pinned request carries what a target row said;
  `TargetsSealed` that a target set on a whole release is on a whole release for good.
  `DesiredRefined` is the refinement of `DesiredState`: a minting step is its `Complete` (a part may
  complete several vehicle releases at once, and changes no whole one), the transaction of
  `WriteTarget` its `Point`, and every other step of a handler a stutter.
- **Assembly_proofs**: `TypeOK`, `CampaignWhole`, `PayloadsServed`, `DispatchWithinAssessment`,
  `GatesHideNoWork`, `ManifestOnlyReenables`, `OneFlashSettles` and `BundleDecrypts`. `LookupsSound`: the lookups done and to do are
  those of the included components, and what one found is still what the index has, since a row is
  never replaced. `AnswerSound`: an L1 is made from its own request, after the last lookup.
  `EnvelopesSound`: an envelope names every part of its component that ships, with the reference the
  index has, and so does the payload beside it, although each was looked up on its own. The
  agreement of Tower 2, the assessment and the command line is then a set of lemmas about
  `Partition`, `AssessTree`, `Diff` and `ApplyPlan` on arbitrary trees. `OneFlashSettles` needs what a job
  leaves on each entity (`AfterFacts`): the parts it pushed are those `entity_agreed` compares.
- **Campaign_proofs**, for any operators at once: `TypeOK`, and `UpdatesRefined`, the refinement of
  `RigUpdates`. `RigSound`: staged images are of offered releases and of banked components, and
  what is not in trial is committed. `JobsSound`: the jobs a command holds are images of an
  offered release. An activation or an accepted singleshot is then an `Install`, a verdict a
  `Settle` or a `GoBack`, and everything else is a stutter.
- **Campaign_proofs**, also for any operators, components, releases, failures and channel moves:
  `TransactionUniform`, `StepStartsResolved`, `AbortUndone` and `CampaignResolves`. They are about a node that
  serves `x-update-state` (`ServesState`) and a campaign whose operator is not `disturbed`. Both
  are what the code relies on: `run_rig` checks the node once per command, so two commands can
  pass the check before either stages, and a node without an update state counts as idle.
  `CalmInv` says of every undisturbed operator what `CampaignAlone` says of a command: from the
  check until the banked group is staged the node has nothing pending; after that everything
  pending is of this campaign, and what is committed is what ran when the step began. It holds
  because the banked group is the last step (`StepsSound`) and a singleshot leaves nothing
  pending. For `CampaignResolves` it also says that what is staged is of the step, and that the reset
  leaves nothing staged: the verdict then resolves all that is pending.
- **RigToken_proofs**: `TypeOK` and `TokenFresh`. `BootsLive`: the boot a call carries was live
  since the call began, and a cached token is of the boot it is filed under.
- **IdentityTower_proofs**: `TypeOK`, `CertsSound`, `KeystoreSound` and `RosterKept`.
  `HandlersSound`: a handler carries a leaf of its own device and slot, or a key its device had.
  `SerialsUnique`: a serial in the table or in flight was handed out once.
- **TowerKeys_proofs**: `TypeOK`, `ChainsVerify` and `RootsCertify`. `FilesSound`: until its key file
  is lost, an authority's certificate file is only there beside the key it certifies, and an
  interrupted save is seen by the next start. `MadeSound`: what was signed or pinned is the key
  on file. `RootsAlwaysCertify` assumes that no key file can be lost; otherwise it fails, see
  the next section.

Only model-checked: the liveness properties `Converges`, `WaitsBehindRequest` and `StartupEnds`, since liveness
under fairness is out of the prover's reach, and the three violations. `Channels` is proved from
its `Init`; the states of `MintedInit` are reached from it.

## What is not modelled

- The cipher, zstd, CBOR envelopes, X.509, SUIT and signatures: pure codecs and library
  code. `delegated_rights.rs` is the encoding of a certificate extension.
- `cli/src/vhsm.rs`: it writes a random token and a certificate for a daemon outside this
  repository, in one sequence that nothing in it reads back.
- The lifetime of a rig token: the minter chooses it, and the code compares boots only.
- The flash engine and the rig, except as the external part of `Campaign`.
- A power loss: it may lose a renamed blob (`commit` does not sync the directory), or a key or
  certificate file that a tower already served with (`Ca::save` and the signer's save sync nothing).
  `TowerKeys` has a process that stops, and the loss of a certificate file.
- A migration by itself: a tower whose migration fails ends as a stopped one does.
- Failure of the removal of a temp, which the code ignores.
- Corrupt rows (`parse_stored_hash`): rows are written only by these handlers.
- Two members of one release with the same path: `Sealed` excludes them, since the
  order of rows then decides the tree; nothing in the code refuses them.
- A CA whose key file is lost and whose certificate stays: a start that stops between
  the two writes leaves a new key beside the old certificate, and `Ca::load` does
  not compare them. `RootsCertify` is checked for a lost certificate only.
- The client's methods by themselves (stateless requests), the publishing commands (one
  request each), read-only listings, argument parsing, printing and logging.

## Plan

1. What `CampaignSteps` orders, as lemmas about `Dispatch` on arbitrary jobs.
2. A refinement between `Assembly` and `Campaign`: `Asks` takes jobs in one step, and `Assembly` has the
   lookups and fetches behind it.
