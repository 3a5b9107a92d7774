# A TLA+ model of cosmosigner

cosmosigner is a remote signer for CometBFT validators.  It connects to the
validator's nodes and signs their votes and proposals with one key, held in a
file, in Vault, in a cloud KMS or in a PKCS#11 token.  Several replicas form an
embedded raft cluster, whose state machine is the gate that keeps the key from
signing twice at one height, round and step.

## The system

| Part | Source | Module |
|---|---|---|
| State machine: one high-water mark per chain, the cluster identity, snapshots | `internal/state/fsm.go`, `snapshot.go`, `store.go` | `HighWaterMark` |
| Raft store: Reserve, Commit, EnsureClusterID, restart | `internal/state/raftstore.go` | `RaftStore` |
| Gated private validator: reserve, sign, commit, release | `internal/signer/privval.go` | `GatedSigner` |
| What the gate promises | the `StateStore` interface and its users | `SigningGate` |
| Cluster identity at start | `EnsureClusterID`, `internal/clusterid` | `ClusterInit` |
| Connections to the nodes: one connector per node, its dial and its socket | `internal/server/lifecycle.go` (`nodeServer`) | `NodeConnector` |
| Reconcile, health scan, retirement, status, shutdown and leadership handoff | `internal/server`, `TransferLeadership` | `Lifecycle` |
| Discovery of a replaced node between two ticks | `retire`, `discoveryPendingWindow`, `needsFastDiscovery` | `Discovery` |
| Opening, bootstrapping and closing the raft store | `internal/state/raftstore.go` | `StoreOpen` |
| Startup: health listener, backend, store, identity, claim, preflight, serving, and back | `cmd/start.go`, `cmd/claimkey.go`, readiness of `internal/health` | `Startup` |
| What a claim of a key promises | the `KeyBackend` interface | `KeyOwnership` |
| Claim in Vault; as a GCP label or an AWS tag; as a marker file | `internal/backend/*_binding.go`, `binding_file.go`, `software*.go` | `VaultBinding`, `CloudBinding` (both on `ClaimCalls`), `MarkerFile` |
| The key backend of the configured type: claims, what is kept up, imports | `internal/backend/backend.go`, `cmd/import.go` | `KeyClaim`, `KeySession`, `KeyImport` |
| Vault token renewal | `internal/backend/vault.go` | `VaultRenewal` |
| Vault Transit key versions: import, provisioning, signing | `internal/backend/vault.go`, `vault_import.go`, `cmd/import.go` | `VaultTransit` |
| PKCS#11 sessions, PIN latch, shared module | `internal/backend/pkcs11*.go` | `PKCS11Session` |
| Import and provisioning in AWS and Google Cloud | `internal/backend/{aws,gcp}kms_{import,provision}.go` | `AWSImport`, `GCPImport` |

A node sends a vote over its connection.  The goroutine that serves the
connection calls `SignVote`, which reserves the sign bytes through raft, has the
backend sign the reserved bytes, commits the signature through raft and only
then stamps it onto the vote.  All connections of all replicas go through the
same replicated marks; only the replica that believes it leads proposes.

Around this core, `start` opens the key backend and the raft store, agrees on the
identity of the raft history, and requires the key to be claimed by that history
before it serves.  `Lifecycle.Run` then keeps one connector per node while this
replica leads, and hands leadership over when it is told to stop.  Vault tokens
are renewed and PKCS#11 sessions recovered meanwhile.  Keys come into a backend
by `import` or `provision`.

`PROJECT.json` lists the components, the source lines behind each definition,
the runs, and the hazards: what can go wrong in this code where a test would
hardly reach, with the properties that cover each.

## The modules

**`HighWaterMark`** has the methods of `fsm` as pure operators that keep the
code's names: `compareHRS`, `applyReserve`, `applyCommit`, `applyInitCluster`,
`Apply`, `Snapshot`, `Restore`.  Sign bytes are the record of what the canonical
encoding contains, so that "differs only by its timestamp" is a comparison of
records; a signature is known by the bytes it is over and a salt, and more than
one salt is a backend that is not deterministic.  Errors ride in the result, as
in the code.  Payloads that do not decode are left out: commands and snapshots
are written by the same code that reads them.

**`RaftStore`** composes the machines of all replicas with hashicorp/raft, which
is external and modelled by what the store relies on.  There is one committed
log.  A command handed to raft enters it once, at any later time, or never.  Its
future gives the machine's answer, or an error that says nothing about the
outcome.  Several replicas may believe they lead.  Logs and snapshots survive a
restart.  `states` is a history variable: the machine after each prefix of the
log.  A cluster may start empty or, upgraded from the snapshot format that had
no identity, with marks.

**`GatedSigner`** adds the workers.  One action per step of `gatedSign` that
touches shared state: `Reserve`, `ReserveRefused`, `ReserveReuse`, `Sign`,
`Commit`, `CommitNotAccepted`, `CommitRefused`, `Release`.  `Finish` is the tail
of `SignVote`: the extension of a non-nil precommit is signed outside the gate,
and if that fails the vote is not returned either.  `signed` and `released` are
history variables.  A call that is refused before anything changes (a vote of an
unknown type, no leadership) is no step.

**`SigningGate`** is the abstract specification: one durable gate, without
replicas, leaders, retries or crashes.  `GatedSigner` refines it with the
committed marks as the gate's marks.

**`ClusterInit`** runs `EnsureClusterID` on every replica.

**`NodeConnector`** is one `nodeServer` with its CometBFT `SignerServer`: dialing
(cut by `stopDial`), handshake, `track` and `handOver`, reading, handling,
signing, replying; and the node's side of the socket.  `retired` and `cancelled`
are the two halves of `retire`, because a request may be handled between them.
**`Lifecycle`** composes the connectors with the loop of `Run`: its events, the
scan, a pass of `reconcile` node by node (`stopAll` is a pass that wants no node),
`Cancel`, and the handoff, whose steps are those of `TransferLeadership`.  Raft's
leadership, DNS and the nodes are external.  **`Discovery`** adds to it what
`ReplacementFound` needs: a history variable, `since`, that says whether the last
retirement is less than a discovery window ago, and two scenarios.  In the first
`Run` starts with one node and any fault may happen; in the second a leader has
served two nodes for long, one of them is replaced, and lookups may fail.

**`StoreOpen`** is `NewRaftStoreContext` step by step, with the deferred closes of
a failed open and `Close`, for several processes on one data directory.  The file
lock of raft.db, the port and the recorded membership are the shared state.

**`KeyOwnership`** is the abstract claim: an unowned key gets one owner, for ever,
and only the owner is told so.  **`VaultBinding`**, **`CloudBinding`** and
**`MarkerFile`** refine it.  The first two share **`ClaimCalls`**, the state of a
`ClaimCluster` call.  A request may fail with or without effect.  `VaultBinding`
lets claims run at once; `CloudBinding` serializes them (`MayBegin`), because
neither cloud offers a conditional write and the code and the documentation ask
for it (`SECURITY.md`, "Claiming at startup" in `README.md`).  `MarkerFile` splits
a directory into what processes see and what survives a loss of power, and has
the provisioning of keys on the same lock.

**`Startup`** has `start`, `start --initialize-only` and `claim-key`.  A process
may fail at every step, is signalled or crashes; the deferred calls of `runStart`
are steps of their own.  A claim is one step here: what the binding modules
refine to.

**`VaultRenewal`** is `renewLoop` with a clock.  **`PKCS11Session`** is one process
with several backends on one module.  Between any two calls the token can be pulled
or replaced, its sessions can fail with an error that the code does not recover from
(`Wedge`), or the server of the HSM restarts and the module loses its
initialization (`ServerRestart`); something else in the process may have
initialised the module before (`foreign`).  **`VaultTransit`**, **`AWSImport`** and **`GCPImport`** run
import and provision commands at once, one action per request.

The backend is chosen by `Config.Type`, once and for all.  **`KeyClaim`**,
**`KeySession`** and **`KeyImport`** model this choice: the variable `type` says
which of the instances runs, the variables of the others are nil (`Nil` or `None`),
and every step is one of the chosen instance.  `KeyClaim` states of all of them that they
implement `KeyOwnership`; its type `software` stands for PKCS#11 too, which keeps
its claim in a marker file of the same code.  The properties of token renewal and
of PKCS#11 sessions are stated in `KeySession`, those of imports in `KeyImport`,
each under the type it is about.

The modules `*Proofs` hold the theorems, the modules `MC*` the instances for TLC.

Operators called "mutant" in a comment are plausible mistakes in the definition
that follows them.  None is used by a specification; replacing the definition by
its mutant breaks the property `PROJECT.json` pairs it with.  A property with
several parts has a mutant for each.

`TypeOK` of `GatedSigner` is proved; that of every other module is a conjunct of
one of the invariants that the runs check.

## The runs

| Run | Instance | Question | Distinct states |
|---|---|---|---|
| `SigningTwoLeaders` | 2 replicas, 2 workers, 2 conflicting requests, 2 salts, 4 proposals, 1 fault | Can two workers, on one replica or on two believed leaders, sign conflicting votes, or let out a signature that is not recorded or a second one, with a non-deterministic backend? | 1.4 million |
| `SigningClimb` | 2 replicas, 1 worker, 2 chains, 2 rounds, all steps, a snapshot after each entry, 3 proposals, 1 fault | Do marks only advance, cover all that was signed and survive restarts, snapshots and the upgrade from the format without identity? | 800 thousand |
| `SigningLiveness` | 2 replicas, 1 worker, a retried request, 4 proposals, 1 fault, fair | Does the cluster implement the gate, does every request end, and does an unfinished reservation get completed? | 17 thousand |
| `ClusterInits` | 2 replicas, 3 identities, a snapshot after each entry, 3 proposals, 1 fault, fair | Do all replicas agree on one identity for ever, does each get it, and does a replica accept its own snapshots? | 400 thousand |
| `LifecycleSafety` | 2 nodes, one replacing the other, 2 connectors, 1 fault | Is the published status current, can a retired connection sign, stay open or answer, and is leadership handed over only after the last answer, and to somebody? | 755 thousand |
| `LifecycleLiveness` | one node that is replaced, with any fault; one of two nodes that is replaced at once or after a while; fair | Are the nodes that listen served in the end, a replacement found also without the periodic tick, connections dropped by a follower, and does shutdown end? | 112 thousand |
| `Claims` | each type of key; 3 claimers or processes, one with a relocated marker; 2 clusters, 3 keys, 3 faults | Is a key owned once for ever; is "corrupt" never reported falsely; can `provision` replace a claimed key? | 330 thousand |
| `GCPLabels` | 1 claimer and somebody who edits a label | Are unrelated labels preserved? **No** | violation |
| `StoreOpens` | 2 processes, 16 option sets, 3 opens, fair | Can two raft instances share a directory, can it be bootstrapped twice, can an open leak or hang? | 42 thousand |
| `Startups` | 2 processes, 2 clusters, 10 configurations, 2 starts, fair | Who may serve, be ready and hold what; does a signal end the process and its readiness? | 115 thousand |
| `Sessions` | Vault: 5 tokens, 2 rewrites of the file, 1 fault; PKCS#11: 2 backends, 2 keys, 2 PINs, 2 faults, one of which may be a restart of the HSM; fair | Does the Vault token in use stay alive and proven, and the loop end after `Close`?  One wrong PIN, one identity, does the module outlive its users, does a backend sign again while the module is initialised? | 322 thousand |
| `Imports` | Vault: 2 importers, 1 signer, 2 versions; AWS, GCP: 2 commands, 2 sources; fair | Is what a command reports, creates and names what is really there; do racing creations get what they asked for; does every command end? | 136 thousand |

All pass but `GCPLabels`, which shows where the code and its documentation
disagree: `ClaimCluster` of the GCP backend sends back all labels as it read them,
so a label that is changed between its read and its update is reverted, while the
documentation says that unrelated labels are preserved.

**Bounds.**  `MaxProposals` bounds the commands handed to raft.  Two workers that
both reserve and commit take four.  `MaxFaults` bounds lost leaderships, crashes,
failed calls and outside changes.  In the signing runs one is enough to leave a
reservation or a signature behind, for which the next leader then has proposals
left; in the claims three are a lost answer, a crash of the retry and a failure of
the next claimer.  Two replicas are enough for overlapping leaders and for one
replica to lag behind another's snapshot; quorums are inside the external raft.  In
the instances with `SnapshotThreshold` 9 no snapshot is ever due, so that question
stays with `SigningClimb` and `ClusterInits`.  Two connectors are the one that is
retired and the one that follows it; when all are in use `StartMissing` waits,
which the code never has to, until the retired one has ended.  `LifecycleLiveness`
has one connector for each node that is served, so there a replacement always
follows the end of its predecessor, and the overlap of the two stays with
`LifecycleSafety`; `ReplacementFound` alone was also checked with a third connector
(690 thousand states, two faults).  Its three faults are, say, two changes of the
nodes and a failed lookup; the first scenario has one fault of any kind left.
Three opens are two that overlap and one that finds what they left.  `Sessions`
scales time: one unit is a second, the poll interval 3, periods 6 and 12; the
first token has at least `Slack` left, which like the periods covers the retries
(`LifetimeAssumption`, see "The proofs").  The requests of one renewal pass take no
time.  Vault's rounding of a remaining life below a second is left out.
`PKCS11Session` starts with one key on the token and one PIN in the file: the
others differ only by their names.

**Deadlock** is checked in `Imports`, where something can always go on or the end
is named (`Finished`).  Elsewhere the system rests when the bounded calls, starts
or proposals are used up, which is no error.

**Symmetry** permutes replicas, workers, connectors, claimers, clusters and keys,
model values that no definition tells apart, in `SigningTwoLeaders`,
`SigningClimb`, `LifecycleSafety` and `Claims`.  The runs with liveness properties
do not use it.

**Fairness.**  Goroutines that can run do run: weak fairness of each worker's,
each call's and each connector's next step and of each replica's apply loop.  Go's
`select` picks at random among ready events, so strong fairness of taking the
leader channel, the wake channel and the scan in `Lifecycle`, and of `Stop` in
`VaultRenewal`.  Raft commits an entry while its caller still waits for it, and
elects a leader when there is none: this is raft's promise with a live majority
and a network that delivers.  Nodes ask again: weak fairness of sending some
request, needed by `ReservationsComplete`, and strong fairness of `Begin` in
`PKCS11Session`.  Faults are finite in number.  In `Lifecycle` DNS catches up with
the nodes and nodes notice closed sockets; nothing is assumed of the periodic tick
but in `TargetsServed`, which names it.  The discovery window may end at any moment
or never; `ReplacementFound` names what it asks of DNS instead: a new node is named
together with the loss of another or within the window after it, and looked up
before the window ends.  It also asks that something stays served (`Served # {}`
again and again): when DNS names nobody for the length of a window, no connector is
left whose failure would keep discovery going.  What comes later, and a node that
replaces none, is found by the tick.  `Startup` assumes nothing but the
goroutine of `context.AfterFunc`, with which a signal ends readiness;
`SignalEnds` names its other assumption, `CallsReturn`: every call returns, which for
the store is `OpenEnds`, for the identity its timeout and for `Run`
`ShutdownEnds`; the raw connection to a backend is the exception that the code
makes too, and signals still kill there.  `KeyImport` assumes that Cloud KMS
activates a pending import job: `waitImportJobActive` has no deadline of its own.
Nothing is assumed of the versions, which may stay pending for ever.
`ReservationsComplete` looks at a cluster whose nodes all want the same vote,
the old one or one with a new timestamp; a later vote may always overtake.

## The proofs

TLC checks small instances; TLAPS proves the theorems below for every value of the
constants: any replicas, workers, requests, nodes, connectors, processes, clusters,
keys, commands, tokens, PINs and bounds that satisfy the assumptions named with
them.  Every safety property that a passing run checks is proved.

A theorem `Spec => []P` is proved from an invariant that holds initially and that
every step preserves; `P` follows from it in each state, and an action property
from it in each step.  `LifecycleInv`, `SessionInv` and `ImportInv`, the largest of
them, were model-checked on the instances of the runs before they were proved.

| Module | Inductive invariant | Theorems about properties of the runs |
|---|---|---|
| `RaftStoreProofs` | `StoreInv` (for any callers) | `SnapshotsAccepted` |
| `GatedSignerProofs` | `SignerInv` | `NeverDoubleSigns`, `MarkAlwaysCovers`, `ReleasesAreRecorded`, `OneSignatureReleased`, `ReleasesVerify`, `StoreIsConsistent`, `ClusterImplementsGate` |
| `StoreStartProofs` | `OpenInv`; `IdentityInv` | `OneInstance`, `BootstrappedOnce`; `OneIdentity`, `OwnSnapshotsInstall` |
| `ProcessProofs` | `StartInv`; `LifecycleInv` | `OnlyTheOwnerServes`, `ReadyProcessServes`, `ProcessHoldsInOrder`; `StatusIsCurrent`, `RetirementIsSilent`, `HandoffIsQuiet` |
| `KeyClaimProofs` | one for each store of the claim | `OneOwnerForEver`, `OnlyDeletedIsCorrupt`, `ClaimedKeysStay` |
| `KeySessionProofs` | `SessionInv` | `TokenStaysAlive`; `OneAttempt`, `SignaturesOfIdentity`, `ModuleIsKept` |
| `CloudImportProofs` | `AWSInv`; `GCPInv` | the lemmas of `KeyImportProofs` about the two clouds |
| `KeyImportProofs` | `TransitInv`; `ImportInv` | `VaultHoldsReportedKeys`; `ReportsNameTheSource`, `NoAWSKeyIsLost`; `ImportsAreAsAsked` |

**The signing gate** has four layers.

1. The first half of `RaftStoreProofs` is about the machine: `compareHRS` is the
   lexicographic order, "follows" is reflexive and transitive on marks, and one
   command moves one mark forward or leaves it (`ApplyEffect`).  A snapshot restores
   the machine it was taken from (`SnapshotRoundTrip`).
2. The second half is about the store: `StoreInv` says that the history is the log
   applied step by step from well-formed commands, that machines, snapshots and
   answered futures are those of a prefix of the history, and that entry numbers are
   unique.  Every step of raft and every step of a caller preserves it
   (`RaftStepInv`, `CallerInv`, `RestartInv`).
3. `GatedSignerProofs`: no safety property is inductive by itself, because what
   a worker will do depends on the entry it waits for.  `SignerInv` adds, per
   worker, which command its entry holds and that the bytes it has reserved or
   signed were once the committed mark; for `signed`, that all of it is over
   bytes that were once a mark; for `released`, that all of it was recorded.
   `NoDoubleSign` then follows because the committed history holds one byte
   string per chain, height, round and step (`OneMarkPerHRS`).
4. The end of `GatedSignerProofs`: the committed mark of a chain is the mark of the gate.  A
   committed `reserve` that moves the mark is `GateReserve`, a committed `commit`
   that stores the signature is `GateRecord`, signing and releasing are the gate's
   own, and every other step of the cluster is one the gate does not see.

They assume that heights and rounds are integers (`CoordinatesAreIntegers`), `Nil`
is no value of any other kind (`NilIsNoValue`), `LegacyMarks` are marks and the
bounds naturals (`StoreAssumption`), and requests have the shape of requests
(`SignerAssumption`).

**How a store comes up** (`StoreStartProofs`).  `OpenInv` ties what a process holds,
the lock of `raft.db`, the port and the raft instance, to its place in the code, in
both directions: who holds the lock is at a step that holds it, and who is at such a
step holds it.  Two instances would then be two holders of one lock.  It assumes
that `None` is no process (`ProcsAssumption`) and options of the right shape
(`OptionsAssumption`).  `IdentityInv` adds to `StoreInv` that only identities are
proposed and that what `EnsureClusterID` returned is committed; `IdentityKept`, a
part of `StoreInv`, says that a machine of the history never changes its identity.
It assumes one call per replica (`OneCallPerReplica`).

**Startup** (`ProcessProofs`).  `SoundProc` says of one process, from its step alone, what it has
open; `StartInv` adds that past the check of the binding the key is the cluster's.
That is stable because a claim never changes its owner, which is what `OneOwner` is
about.  It assumes configurations of the right shape and that `None` is no cluster
(`ConfigsAssumption`, `StartsAssumption`).

**Claims** (`KeyClaimProofs`).  `OneOwnerForEver` is the refinement of `KeyOwnership` by all three ways
to keep a claim.  Behind an API, the invariants say what a call that has read or
written may conclude: in Vault a record that was seen stays or was deleted by
somebody; a label or tag is written only over none, and what was written is read
back before success is reported.  For the marker file, what a process found under
the lock is what is on the disk while it holds the lock, and what was synced
survives a loss of power.  It assumes that `Nil` and `Torn` are no values of
any other kind (`ValuesAssumption`) and that those who relocate a key are processes
(`RelocatingAssumption`).

**Connections** (`ProcessProofs`).  `LifecycleInv` has one part for a connector alone (`SoundConn`: it
is cancelled only once it is retired, and then its socket is closed and it is told to
stop), one for the serving set (it is exactly the connectors in use that are not
cancelled), one for `Run` (a pass visits nodes that are served; from the transfer of
leadership on none is) and one for the published status.  That no retired connector
signs is about the lock that `Silence` and `handleRequest` share, and that nothing is
answered after the handoff follows from the closed sockets.  It assumes that `Nil`
is no node, connector or status (`ConnAssumption`) and that the sets of nodes that
listen are sets of nodes (`UpAssumption`).

**What a backend keeps up** (`KeySessionProofs`).  For PKCS#11 the invariant counts
the open backends against the references of the module, says that an attempt that
was used up has closed the latch, and that what was returned verified.  That no
session works in a module that is not initialised needs that the entry of the
registry remembers who initialised it (`owned`), which outlives the initialization
when the HSM restarts: what is initialised here is `owned`, and what is `owned` has an
open backend and was not initialised by something else.  For Vault it
is an account of time.  A token that is in use and expires has, at the moment the
loop wakes up, twice what the retries that are left can take, until its renewal is
scheduled; from the deadline on it has that once.  A failed call takes one retry from
the account and a success renews it.  A good replacement in the file has lost at most
one poll interval per pass that failed, so that it can still be kept alive when it is
taken over.  `LifetimeAssumption` says which lifetimes this needs: the first token, if it expires,
has twice left what the retries of all failing calls take, and the period of every
token that signs and can be renewed is that and a poll interval for each of them and
one more.  Nothing is claimed of shorter ones.  `RenewalAssumption` has the sleeps of
the code in their order, `SessionAssumption` finitely many backends.

**Imports** (`CloudImportProofs`, `KeyImportProofs`).  A command reports what it read
some requests ago, and others write in between, so each invariant says what a command
may still rely on at each of its requests, and which changes of the store leave that
true.

- `TransitInv`: versions of the Vault key are added and completed, never removed, so a
  version that was found to hold the command's key still does when it is completed,
  and a command that goes on to verify has its private key in some version.  An open
  backend has pinned the version whose key it announces.
- `AWSInv`: a key keeps its creator and, once it had material, its identity; the alias
  is set once.  A command has no key of its own before `CreateKey` is answered, hence
  at most one after; the key it went on with through the alias is the alias's; when it
  has ended, its key was reported or named.  The material may be deleted at any time,
  which is why the invariant is about identities and not about keys that are enabled.
- `GCPInv`: the key stays as it was created and the import job keeps its level, so the
  checks of `ensureImportCryptoKey` and `ensureImportJob` still hold when the version is
  imported.  Only the provision whose `CreateCryptoKey` succeeded reports the key, and
  then the key had no version before.

They assume that `None` is no source, key or job and that the bounds are naturals
(`VaultImportAssumption`, `AWSImportAssumption`, `GCPImportAssumption`).

**Only model-checked**: liveness and all that rests on fairness (`RequestsEnd`,
`ReservationsComplete`, `EveryReplicaGetsIdentity`, the properties of
`LifecycleLiveness`, `OpenEnds`, `SignalEnds`, `CloseEnds`, `SignsAgain`,
`CommandEnds`), which is out of the prover's reach.  `OtherLabelsKept` is
refuted.

**What the properties leave open.**  `SignsAgain` excepts a module that lost its
initialization: `reopen` never calls `Initialize`, so the process has to be restarted,
as `README.md` of the repository says of a restart of the BouncyHsm server.
`TokenKeptAlive` is about periodic tokens; the maximum lifetime of other renewable
tokens is not modelled.  Claims in a cloud are serialized also for two replicas of
one cluster, whose overlap the documentation calls harmless.  The run
`SigningLiveness` sends proposals, which have no extension; the extension of a precommit is in
`SigningClimb`.  `CreatedIsNamed` is about keys whose creation was answered: a lost
answer of `CreateKey`, or a crash after it, leaves a key that no command names.

## Not modelled

- `internal/state/transport.go`: the TLS stream layer, I/O without state.
- `internal/config`, flags, logging, the text that commands print, the rendering
  of health and metrics: parsing and formatting.
- `gcpkms.go`, `awskms.go`: after construction they keep no state; a call is one
  request whose answer is checked, which is the `Sign` of `GatedSigner`.
- `keyfile.go`, `wrapVaultImportKey`, `clusterid.Validate`: conversions of one
  value.  Where they fail, the models fail the step that calls them.
- `LoadOrGenConnKey`: one read or one write of a file.  The write is not atomic; a
  crash in it leaves a file that the next start refuses.
- A marker relocated with `--binding-file` does not protect against `provision`,
  which looks at the default place only; `ClaimedKeyStays` is therefore about
  claims at the default place.
