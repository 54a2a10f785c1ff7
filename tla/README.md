# Attestia in TLA+

Attestia is a TypeScript monorepo (`src/packages/*`) of financial components that
keep an auditable record of what they did: an append-only event log, a double-entry
ledger, a vault of budgets and intents, a treasury, a structural registrar of state
lineages, a governed multi-signature witness on the XRP Ledger, observers of three
kinds of chains, a reconciler and public verification, an HTTP node that puts one of
each behind every tenant, and an SDK that calls it. This directory models the parts of
it that keep state or decide something, checks them with TLC on small instances, and
proves most of the stateful components' invariants for every size with TLAPS. `PROJECT.json` lists
components, runs, mutants, hazards, findings, theorems and, for every definition, the
source lines it stands for.

## 1. The system

| Component (package) | State it keeps | Operations | Module |
|---|---|---|---|
| event log (`event-store`) | JSONL file, lockfile, the cached log, chain cursor and file size of each instance | open, append, re-open | `HashChain`, `JsonlEventStore`, abstractly `EventStore` |
| in-memory log, subscriptions (`event-store`) | events by stream and globally, Sets of subscribers | append, read, subscribe, unsubscribe, dispatch | `InMemoryEventStore` |
| snapshot store (`event-store`) | snapshot files by stream and version | save, load, prune | `AttestiaService` |
| service (`node`) | the log, five subsystems in memory, snapshots, a reconciler | audited mutations, unaudited set-up calls, attest, stop, restoreAll | `AttestiaService` |
| attestor (`reconciler`) | last registered state id, promise chain used as mutex | attest | `AttestiaService` |
| vault (`vault`) | envelopes (allocated, spent), intents and their charges | allocate, deallocate, declare, approve, reject, execute, verify, fail, snapshot, restore | `Vault` |
| ledger (`ledger`) | accounts, entries, transactions | register, append, trial balance, snapshot, restore | `Ledger`, `LedgerBook` |
| treasury (`treasury`) | payees, schedules, runs, plans, funding requests, its ledger | payroll, distribution, funding gates, snapshot, restore | `Treasury` |
| routes, audit log (`node`) | a capped list of audit entries | the mutating routes of intents, envelopes, payroll, distributions and funding | `ApiRoutes` |
| registrar (`registrum`) | accepted versions, frontier, order counter, parity status | register (legacy, registry, dual), validate, snapshot, restore, record, replay | `Registrar`, `RegistrarReplay` |
| governance (`witness`) | policy, event history | add, remove, quorum, SLA policy, export, replay | `Governance` |
| single-signer witness (`witness`) | one signed transaction and attempt count per call | submit with retry | `WitnessSubmitter` |
| multi-signature witness (`witness`) | connection, policy read by each call, retained records | connect, witness, disconnect | `MultiSigWitness` |
| HTTP application (`node`) | tenant initialisations, token buckets, cached responses | the middleware chain, boot, shutdown | `NodeApi`, `RateLimit`, `Idempotency` |
| lists (`node`, `sdk`) | a cursor per walk | paginate, the list routes, `paginateAll` | `Pagination` |
| SDK client (`sdk`) | attempt, key and deadline of each call | request with time-out, retry and back-off | `SdkClient` |
| chain observers (`chain-observer`) | connection, token metadata cache, registry, reorg buffer | status, balances, transfers, bridge events, reorg check | `ChainObserver` |
| reconciler matchers (`reconciler`) | none | three matchers, scope, summary, cross-chain deduplication and linking | `Reconciliation` |
| verification (`verify`, `proof`, `node`) | the public board of reports | bundle verification and replay, consensus, cross-chain invariants and replay, SLA, compliance, Merkle proofs | `StateBundle`, `CrossChain`, `Compliance`, `MerkleProof`, `PublicVerify`; their properties in `Verification` |

Interactions. A call of the SDK sends one request per attempt, all with one idempotency
key. A request passes body limit, authentication, the tenant's initialisation, rate
limit, idempotency and permission before a route calls the tenant's service and then the
audit log. A mutation of the service appends an event to the log, changes one subsystem
and then writes a snapshot of every subsystem, the manifest last. `attest` goes through
the reconciler's attestor to the registrar, behind a mutex made of chained promises. The
treasury and the service post to ledgers of their own. The witnesses read the governance
policy, wait for a node of the XRP Ledger, sign, and submit. The reconciler compares
intents, ledger entries and what the chain observers report; verifiers recompute bundles
of the ledger's and registrar's snapshots and send their reports to a public board.
Several processes may open one log file; everything else belongs to one process.

What is hard. Processes interleave in the lockfile protocol; crashes fall between the
append, the application and each of the snapshot files; writes are torn; `attest` and
the witnesses hold a value read before an `await`; HTTP requests with one key overlap,
and the node may forget a key between two attempts; a timed-out transaction, request or
RPC may still have happened; handlers call the store that is calling them; restores
project state (the registrar keeps the frontier only, the ledger regroups by correlation
id, the treasury forgets its schedules); lists change between two pages; amounts of one
asset come with different decimals; ids are joined with separators, positions compared
as strings.

What makes each part correct. The log: one unforked hash chain, nothing acknowledged is
lost, nothing is rewritten, appends end. Subscriptions: every event once to every live
subscriber. The service: an acknowledged audited request survives or its loss is named at
boot, and no state without a log behind it. Vault: the budget identity, and every charge
returned exactly once. Ledger and treasury: books balance, postings are all or nothing,
two different gatekeepers, and the audit log tells who. Registrar: total order, gapless
lineage, restorable snapshots, replays that agree. Governance: the policy is a function of
the history and its quorum stays attainable. Witnesses: at most once, and a quorum behind
everything on the ledger. The node: a replay is the caller's own answer and nobody is
granted more than a bucket. The client: its answer is true and always comes. Observers:
what they report is on the chain, and forks are reported. Verification: PASS means that
value was conserved, that the state is the one hashed, that a majority said so.

## 2. Modules

**HashChain.** `hash-chain.ts` as operators. A hash is the record of what was hashed
together with the previous hash, so equal hashes mean equal content; `verifyHashChain`
checks exactly what the code does.

**JsonlEventStore.** One action for each system call another process can see: exclusive
create of the lockfile, write of the pid, read and probe of the holder, unlink, the size
check, repair newline, partial writes, fsync and commit, release. Writes may fail, that of
the pid too (`PidFails`), which leaves the empty lockfile of a live process. A line is three
cells (first half, second half, newline), so torn lines and complete lines without newline
both occur. `Crash` and `PowerLoss` are the operating system; a power failure loses any
unsynced suffix, and may lose the lockfile.

**EventStore**, the abstract specification: a log that grows by records which continue
the chain and their stream's versions, acknowledgements, and `Lose`, which takes
unacknowledged records back from the end. `JsonlEventStore!Implements` is this
specification with the log replaced by what a reader opening the file would find
(`EventsIn(file)`); TLC checks it as a property, and `LockProofs` proves it where the lock
excludes.

**InMemoryEventStore.** `append`, `read`, `readAll`, `subscribe` and the synchronous
dispatch to handlers, as a stack of iterations over JavaScript Sets: additions during an
iteration are visited, deletions leave a hole. A handler may append, subscribe or
unsubscribe in any frame.

**AttestiaService.** One tenant in durable mode. A subsystem is the set of requests
applied to it; a snapshot file is a version (log position) and such a set. `_mutate`,
`Apply`, `SaveStream` are separated because a crash may come between their writes, while
no other request can run in between; `attest` gives up the thread twice. `Setup` stands
for the delegators that neither audit nor snapshot. `restoreAll` loads each subsystem on
its own and compares only the manifest with the log.

**Vault, Registrar, Governance, WitnessSubmitter.** One action per public method, with
the method's early returns and throws as guards (a call that throws before changing
anything is no step). In `Registrar` the legacy predicates and the compiled registry are
two sets of violated invariants of a transition. In `Governance` a witness call is
`BeginWitness` (the policy is read) and `FinishWitness` (it is used). In
`WitnessSubmitter` the network and the ledger are external.

**MultiSigWitness** composes `Governance` with the ledger of `WitnessSubmitter`: connect
with roll-back, the read of the policy, autofill, signatures of the signers whose wallets
are at hand, the retry loop, and the retained records with their cap. **RegistrarReplay**
composes `Registrar` with the recorder and a replay into a fresh registrar.

**Ledger, LedgerBook, Treasury, ApiRoutes.** `Ledger` is the ledger as operators on a
value, used by `LedgerBook` (a ledger with arbitrary callers) and by `Treasury`, whose
three engines post to it. The trial balance adds up by the string `account::currency`; an
account id and a currency are therefore sequences of their parts between colons, which
joined may be those of another pair (`balanceKey`). Amounts are scaled integers; `Post` includes the accounts that
stay registered when `append` throws. `ApiRoutes` composes `Vault` and `Treasury` with
the routes: each is one call of a component, the snapshot that may fail after it, and the
audit entry.

**Idempotency, RateLimit, NodeApi, SdkClient.** `Idempotency` is the store's map in
iteration order and the middleware around concurrent handlers; `RateLimit` the token
buckets as operators; `NodeApi` the whole chain in `app.ts`'s order with tenant
initialisations that may fail, graceful shutdown with its deadline, death and restart;
`SdkClient` the retrying client, with a network that may lose a request or its answer at
any time. A handler may refuse after it changed something, as
`POST /intents/:id/execute` does. A request of the node is an attempt of a call.

**Pagination.** Cursors are sequences of character codes, compared as JavaScript compares
strings; positions and timestamps are formatted as the code formats them. Items come and
go between two pages of the walk.

**ChainObserver.** One action per RPC, which answers, or fails and is retried or gives up;
chains advance meanwhile. EVM log queries, XRPL payments and Solana instructions keep the
fields that the observers read, and whether the transaction failed, which they do not
read. The token cache, the registry and the reorg detector are
actions of their own.

**Reconciliation, StateBundle, CrossChain, Compliance, MerkleProof, PublicVerify** are
operators with the code's names (and, for the board, an action). Digests are injective
constructors. **Verification** enumerates their arguments in one step each and states
what the answers mean, against definitions that do not use the algorithm: conservation
as sums over value, membership in a list, majority of distinct verifiers.

**MC\_\*.** Values of the constants. Where one run explores several bounds (`Scenarios`,
`Deployments`, `Plans`) a variable fixed in `Init` holds the record of them; where a run
holds components that share nothing (`MC_Books`, `MC_Attesting`, `MC_Governance`,
`MC_SdkClient`, `MC_Verification`) a variable fixed in `Init` says which one a behaviour
runs.

**Selection.** The elements of a sequence that are in a set, as a recursive function: what
`filter` and its like do to lines of the log, cached responses and buckets, in the form that
proofs can expand.

**\*Proofs, DataLemmas.** Theorems and proofs; section 4.

## 3. Runs

| Run | Shows | Bounds |
|---|---|---|
| `eventlog` | mutual exclusion, the refinement of `EventStore`, appends end, stale locks are broken | two writers with one death: three single events and a failing write, or batches of two; one writer with a crash, a restart and a failing write, or two of each with two streams |
| `eventlog_stale_lock_race` | *violated*: a delayed breaker unlinks a live writer's lock and the chain forks | two writers, one crash, one restart |
| `books` | sound budget, every charge accounted for, settled intents final; only executed is posted, payouts within the pool, dual control and its record in the audit log; books balance where no two currencies share a key, and can always be restored | two intents, one envelope, amounts 0..2, at most 3 allocated; two payees and runs, one plan of three strategies over four pools, two requests, three persons; two transactions of two accounts in two currencies, or one of three legs, with an account and a currency that join to the key of another pair; routes with five audit entries and one failing snapshot |
| `ledger_joined_key` | *violated*: two balanced batches make `getTrialBalance` throw | the ledger of `books` alone |
| `service` | acknowledged audited requests survive or are named, no silent gap, state is backed by the log, attests keep log order, requests end; of the registrar they go through: total order, gapless lineage, restorable snapshots, replay agrees with the live registrar | six versions of two ids and the empty id, three recorded transitions; three requests; five deployments: both cadences, up to two crashes, a failing write, a damaged file, a truncated log, attests and set-up calls |
| `service_attest_restart` | *violated*: after a restart every attest throws | two attests, one crash |
| `governance` | restore reproduces the policy, attainable quorum stays so, a witnessed quorum validates later, everything on the ledger has a quorum | the store: two addresses, four events, one restart, one witness; the multi-signature witness: two calls of two attempts, two signers, two ledgers, one record |
| `api` | replays are the caller's own and fresh, retries after the answer are replayed, answers are true, rate bounded, calls end; of the single-signer witness: at most once, success means validated, submits end | two submits of three attempts, three ledgers; ten plans: one call with a retry and two faults, or two calls that meet in a cache of one entry, a TTL of one tick, a bucket of six; clock up to two |
| `verification` | clean reports conserve, verdicts bind the state, proofs of inclusion are sound, consensus is a majority, observers report what happened and report forks, subscribers see everything, walks over sorted lists are complete | up to three events, entries or reports per argument, mixtures of the parts of two bundles or packages; a board of three reports; two concurrent calls per chain with one retry; two handlers and three events; four items in four lists |
| `observer_retry` | *violated*: a retried EVM log query returns transfers twice | two calls, one retry |
| `observer_failed_payment` | *violated*: payments that failed are reported as received | two calls, six XRPL and four Solana transactions |
| `pagination_events` | *violated*: a walk over `GET /events` never sends the events from position 10 on | eleven events, pages of four |

The large ones reach 1.3 million distinct states (`books`), 333,908 (`verification`) and
141,522 (`eventlog`).

Why the bounds are enough. The interesting cases need few actors: two writers for every
lock interleaving, one event more than fits a batch so that a batch meets a single event,
two crashes so that recovery itself is interrupted, one snapshot more than `Keep` so that
pruning happens, an empty and a usable id, a threshold above and below the weight of the
signers, one request more than the cache holds, one report more than the board holds,
one attempt before and one after a fault, trees of odd levels, an amount that is equal in
value and not in decimals. Each property has a mutant of the code that violates it within
the same bounds. Deadlock is not checked where the bounds, or the program, let everything
come to rest (all requests made); it is checked in `verification`, where some call is always
possible. Symmetry (interchangeable intents, and calls of the multi-signature witness) is
used in `books` and `governance`, which check no liveness.

Fairness. `JsonlEventStore`: weak fairness of every step of an `append` in progress
(it is synchronous code: once called it runs on), and strong fairness of the lock
time-out, because the spin loop compares the clock with a fixed deadline on every round.
`AttestiaService`: weak fairness of the synchronous continuation and of the resumption of
attests (the event loop runs what is ready). `WitnessSubmitter`: weak fairness of a call's
steps after autofill (`withTimeout` and the client's own time-outs settle every await).
`SdkClient`: weak fairness of the client's own steps (its loop, its time-outs) and of the
clock; nothing is assumed of the node, so `CallEnds` holds with a node that never answers.
Nothing is assumed of crashes, networks, or new requests.

## 4. Proofs

| Module | Theorems | Inductive invariant |
|---|---|---|
| `BooksProofs` | `TypeCorrect`, `BudgetCorrect`, `HistoryFinal`, `SpendCorrect` of the vault | `TypeOK`, `BudgetSound` and `SavedSound`: the last snapshot must be sound too, because a restore replaces the budget by it. For `SpendIsAccounted`, `Accounted` and `SavedAccounted`: only finitely many intents are charged, and an envelope's spent is their sum |
| | `EnginesCorrect`, `DualControlCorrect`, `PostedCorrect`, `PoolCorrect` of the treasury | `EnginesInv` (types, plans that passed `createPlan`'s checks, approvals that explain a request's status; live and saved), `LedgerInv` (entries on registered accounts, a zero balance of every currency, every entry's correlation id executed), `PoolInv` (credits of a plan within its pool) |
| | `DutiesCorrect` of the routes | `AuditInv`: the fold of the audit log over each resource is the resource's status, and for a request its persons, unless a snapshot failed after a change of it |
| | `BalanceCorrect` of a ledger with arbitrary callers | `BookInv`: the ledger and the last snapshot are `Tidy`, and `Sound` (every currency adds up to zero), below |
| `GovernanceProofs` | `TypeCorrect`, `VersionCorrect`, `RestoreCorrect`, `HistoricalCorrect`, `AttainableCorrect`, `LoopRefined`, `QuorumCorrect` | types, version counting, and that each stored policy is the previous one with one event applied, for the live and the exported history; during a replay the live history is a prefix of the exported one. `WitnessInv`: the policy a call was given is one of the store's. `QuorumInv`: what a call signed aggregates under the policy it was given, and a record is kept only for what is on the ledger |
| | `OrderCorrect`, `FrontierCorrect`, `SnapshotCorrect`, `HistoryCorrect`, `LineageCorrect`, `ReplayCorrect` of the registrar | types, order and frontier with `SelfParent` (a version's parent is its own id or none), `TopExists` (some version has the highest index) and `SavedShape` (the saved snapshot is one a registrar could take). For the replay, `ReplayInv`: a fresh registrar fed with the recorded transitions arrives at the frontier, the counter and the results of the live one, and at those of the saved one |
| `WitnessProofs` | `TypeCorrect`, `OnceCorrect`, `OkCorrect`, `SequenceCorrect` | types, `Signed` and `OnlySigned` (whatever the network holds or has validated is the transaction its call signed once), `SequencesUsedUp` (validated Sequences are below the account's and distinct) |
| `LockProofs` | `LockCorrect`, `WriterCorrect`, `FileImplementsStore`, `ChainIsNotForked` | `LockInv`: live processes have different pids; the lockfile is that of the process in the critical section; a pid in it, or read from it, is its creator's or the creator is down; who is about to break a lock is the last one running. `WriteInv`: a writer's known size plus what it wrote is at most the file's size, and equal to it where the lock excludes. `FileInv`, below |
| `ServiceProofs` | `FullInvariance`, `AttestOrderCorrect`, `AckedCorrect`, `BackedCorrect`, `GapCorrect`, `RefusalCorrect` | `FullInv`, below |
| `ApiProofs` | `ApiInvariant`, `ReplaysAreOwn`, `RetriesAreReplayed`, `AnswersAreTruthful`, `RatesAreBounded` | `ApiInv` and, for the buckets, `RateOK`, below |
| `VerificationProofs` | `ConsensusCorrect`, `BundleCorrect`, `InclusionCorrect` | `DeskInv`: what a call returned is what its operation gives for its arguments, so that the theorems rest on lemmas about the operations, below; `BoardInv`: the board has one report of each verifier on it, its last one, and all are about one bundle |
| | `WalkCorrect` of walks over pages | `PageInv`, below |
| `DataLemmas` | (lemmas only) | sums, folds, selections and sequences |

They hold for any sets of envelopes, intents, ids, addresses, calls, requests and
processes, any number of attempts, events, crashes and snapshots kept, and any bound.
The types, the registrar's frontier and history, the version count of governance, the one
success per Sequence, the writer's view of the file, the unforked chain, the treasury's
engines with dual control, the invariant of the node, and the refusal of a cut log are proved
without a property of a passing run. Two theorems are refinements: `FileImplementsStore`, and
`LoopRefined`, by which the loop of the multi-signature witness is the specification of the
single-signer one, so `WitnessProofs` applies to it.

**The service.** `AckedSurvives` says something about the memory of a service that is up,
and memory comes from the snapshots, so the invariant follows a request through both.
`MemTracked`: a running service has every logged request in memory that it has not
reported as failed, or has warned of it. `DiskTracked`: so has the newest snapshot, for
every position up to the one the manifest is stamped with. `SaveProgress`: in the middle
of a save, the streams already written hold what memory holds (the manifest comes last,
which is why the stamp may be believed). `DiskWithinLog`: nothing on disk is ahead of the
log. These hold until somebody cuts the log; then `CutIsSeen` takes over: after clean
stops, with intact snapshots and no override, the stamp is beyond the end of the log and
the service does not come up. The three theorems are therefore stated under `Guarded`
(the log was never cut, or that condition holds), which every behaviour of `service`
satisfies; without it a cut can go
unnoticed (after a crash, or damage to the manifest, the stamp may lie behind the cut) or be
accepted (the override starts the service with snapshots ahead of its log). `AttestOrderCorrect` needs no condition.

**The lock.** `LockCorrect` states where the lockfile excludes: `Calm` (nothing has
crashed, or there are at most two processes and no crashed one came back) or `Alone`
(one process, which may crash and restart at will). The condition is the code's, not the
proof's: a breaker unlinks whatever lockfile is there, and the run
`eventlog_stale_lock_race` shows two writers in the critical section after one restart.
`BreakerAlone` is what makes the invariant inductive: under `Calm` a process can only get
as far as the unlink when everyone else is down.

**The file.** `FileImplementsStore` says that as long as the lock excludes (the hypothesis is
`[](Calm \/ Alone)`, the condition of `LockCorrect`, and not a restriction of the writes,
crashes or power failures) the file is the abstract log. Its invariant `FileInv` relates the
bytes to the instances: the file is made of lines, the last of them perhaps torn
(`Structured`); the records a reader finds continue one chain and their streams' versions
(`ChainedFrom`); what an instance remembers is what the prefix of the file holds that it has
seen (`Matches`), also when other processes appended since; its batch continues that
(`Prepared`); while it writes, the file is what it saw and a part of the batch (`Writing`,
which needs `WriterIsCurrent`); and what was acknowledged is in the synced part (`Durable`).
A step then maps to a stutter, to `AppendEvents` of the one record a completed line adds, to
`Acknowledge`, or, in a power failure, to `Lose` of the records beyond a prefix. The lemmas
are about `EventsIn`: what appending a half line, a line or a newline adds to it, and that
the records of a prefix are a prefix of the records. `ChainIsNotForked` follows.

**The node and the client.** `ApiInv` follows every request through the chain: what it did
and was answered fits where it is (`Life`; an effect stands behind a success, a fault, or a
refusal of the handler, never behind one of the middleware), a cache entry is the answer of the request that
stored it (`Authentic`), what was stored within the TTL is still there as long as the keys
ever stored fit the cap (`Held`), the attempts of a call are alike and all but the last were
answered unless the caller was left unsure (`AttemptsOK`), and a second attempt acts after an
effect only where the node could forget (`Forgets`). `RateOK` is the argument of a token
bucket: what was granted since any time and what the bucket would hold now fit a full bucket
and the refill since.

**The audit log.** `DutiesAreRecorded` folds the whole log; `AuditInv` carries that fold over
one appended entry, for the resource of the entry and for all others, and it needs that
requests not yet approved have no gatekeepers (`GatesEmpty`).

**The ledger and its snapshots.** The trial balance adds up by key, `append` by currency; where
no two currencies share a key, the keys of one currency partition its entries
(`SoundIsBalanced`). Last parts settle when that is so: a currency without a colon is the last
part of every key it is in (`KeysTellCurrencies`). `BooksBalance` promises that a ledger can be restored from
its own snapshot, although `fromSnapshot` puts entries together into batches that `append`
never saw: a correlation id may be resumed later, and other callers' batches lie between.
`Tidy` is what makes every such batch acceptable: amounts, decimals and accounts that pass
the rules, no entry id twice, and, for every correlation id, all its entries together balance
in every currency. `AppendTidy` shows that `append` keeps it, by the same
addition of balances as for the treasury. `Stage` then describes the restored ledger after
each group: which entries it has, in which order its correlation ids appear, and that the
groups it holds are the ones it was given; `StageNext` that the next group passes all seven
rules. At the last stage the groups of the result are the groups it was made from, which is
why a second round trip changes nothing.

**The treasury.** That the books balance is proved from what `append` checks, batch by
batch: a posting adds a debit and a credit of the same amount for everyone paid, and
`SumConcat` carries the zero balance over. Payouts are bounded separately for each of the
three strategies, from `createPlan`'s checks on the shares, by `SumScale`, `SumLess` and
the floor of each division.

**Consensus.** Aggregation counts verifiers, not reports: the votes it groups are one for each
distinct verifier, so a group of more than half of them is a majority of verifiers, and a
verifier that reported twice backs the result only if all it said agrees. The lemmas are about
cardinalities of images and parts of the set of verifiers, for lists of any length.

**Bundles.** `VerifierPasses` characterises the verifier: it says PASS exactly when the bundle
is the honest one of its own snapshots (`Honest`), the registrar's snapshot is sound, and the
ledger is `WellKept` (accounts, amounts, ids and the balance of every correlation id) with no
correlation id resumed after another one (`InBlocks`). The last condition is not the bundle's
fault (section 5): the replay rebuilds the entries group by group, and gives the same sequence
exactly when the groups are blocks. Two bundles that pass with one hash then agree in all that
was hashed, because digests are constructors.

**Proofs of inclusion.** `LevelShape` solves the recursion of the tree: a level has half as
many nodes as the one below, rounded up, until one is left. Completeness is an induction along
the path (`PathLeadsUp`: folding the siblings collected so far gives the node reached).
Soundness goes down: a node is the hash of a leaf or of two nodes (`NodesAreBuilt`), so if the
last hash of a fold is a node, every hash before it is one (`WayStartsAtLeaf`), and the tags of
leaves and pairs keep it from starting in the middle. That a root binds its list although lone
nodes are promoted is the argument of `Spines`: going left from a node of level n leads to a
leaf in exactly n steps, except from the last node, where it may be fewer. The root therefore
knows the height (`RootSpine`), and on every level a promoted node cannot equal a pair
(`LoneIsNoPair`), so equal levels have equal levels below them (`LevelBelow`).

**Walks over pages.** The order of strings that `>` decides is transitive and total on
different strings (`GreaterAgain`). In a list sorted by the field of its cursor the cursor then
cuts it in two, and `WalkOK` says of the cut: what was yielded is not beyond it and was yielded
once, and what stayed in the list since the walk began is yielded or beyond it. Items added
behind the cursor are not owed to the walk.

**Induction over data.** The provers cannot instantiate the library's induction theorems,
which take a predicate. `DataLemmas` proves by least counterexample instead: a set of
naturals that is not empty has a least element (`LeastNatural`, from the well-foundedness
of `<`), and an argument about it takes a set, not a predicate. From it follow that the
recursive functions hidden in `MapThenSumSet`, `FoldLeft` and `FlattenSeq` exist
(`SumSolves`, `FlattenSolved`), what adding an element, splitting a set, renaming its
elements and appending a sequence do to a sum, and the type of a flattened sequence. The
replays of registrar and governance use the same argument on their own folds, and so do the
selections of `Selection` (their elements, their order, the selection from a concatenation)
and the hash chain of a batch. It reaches folds and recursive functions whose step is a named
operator or is restated as one.

Assumptions are the named `ASSUME`s of the component modules, and TLC evaluates each of
them: amounts, weights, quorums, pools and pays are integers and shares naturals (the code's
bigint and number checks; `createPlan` refuses negative shares); `Whole`, `Keep` and
`maxAttempts` are positive, `Window` natural, `maxRecords` an integer; the cache's cap and
the bucket's numbers are positive, TTL, clock, time-out and retries natural, and calls are
finitely many with profiles the client can send (`StoreAssumption`, `RateLimitAssumption`,
`CallsAssumption`, `ScenarioAssumption`); batches are sequences of entries with integer amounts (`BatchesAssumption`); there are two
gatekeepers, and finitely many payees, whose ids, like those of runs, plans and requests,
are strings; the values for "absent", "none", "corrupt" and the like are not ids; `Mode`,
the cadence and the audited subsystems are among those the code knows; scenarios name
known processes; the board's cap is natural and the lists that verification is given are
sequences, of any contents (`BoardAssumption`, `ReportsAssumption`, `RecordsAssumption`,
`PackagesAssumption`); bundles have the fields of their type (`BundlesAssumption`); pages have
a positive length, envelope ids are strings with a place in the collation, and the absence of
a cursor is no string (`PagesAssumption`, `CursorAssumption`).

Only model-checked:

- Liveness: `AppendTerminates`, `StaleLockBroken`, `RequestEnds`, `SubmitTerminates`,
  `CallEnds`. Fairness and `ENABLED` are out of the prover's reach.
- Subscriptions (`SubscribersSeeEverything`: a stack of iterations) and the observers
  (`ObserverSound`).
- Reconciliation and the audits over several chains (`ReconciliationSound`, `AuditSound`): they
  compare sums of amounts scaled by powers of ten, and the provers have no facts about `^`.

## 5. Where code and its documentation disagree

Six disagreements have a run each (`findings` of `PROJECT.json`): the stale-lock race,
attests after a restart, duplicates from a retried EVM log query, payments that failed and
are reported as received, keys of the trial balance that meet, and string cursors in the
list of events. Others met while modelling are visible in the models as exceptions
that the properties spell out, or as what the actions do:

*Event store*

- `jsonl-store.ts:452`: a crash in a batch leaves a first part of it (`Implements` still
  holds), not all or nothing as :450 says.
- `in-memory-store.ts:344`: a handler that appends delivers the inner event to later
  subscribers before the outer one, although `types.ts:155` says that "Subscriptions are
  guaranteed to see events in order" (`SubscribersSeeEverything` claims order only when no
  handler appended). A second `unsubscribe` on one handle may drop the Set that a new
  subscriber is in, and two equal subscriptions end together.
- A backward read without `fromVersion` starts from version 1 and returns one event.

*Service and routes*

- `attestia-service.ts:645` and the other delegators without `_mutate`: acknowledged set-up
  calls are lost in a crash (`unaudited` in `AckedSurvives`, `StateBackedByLog`), although
  :192 promises to lose only the un-acknowledged tail.
- `attestia-service.ts:1032`: an attest that was waiting when another mutation's snapshot
  stamped a position past its event is not named by a warning (`NeverSilentGap` speaks of
  synchronous mutations only). Its audited `orderIndex` (:803) is read before the mutex is
  granted, so overlapping attests audit the same index; their order is still right
  (`AttestsKeepLogOrder`).
- `attestia-service.ts:428`: a refused `apply` leaves its event in the log (the caller was
  told it failed, which is why `NeverSilentGap` excludes "thrown").
- `attestia-service.ts:488`: an execution that the budget refuses leaves the intent
  executing for ever, although the answer's hint (`error-handler.ts:179`) is "Top up the
  envelope or lower the amount, then retry." The answer is 422, so a refusal by a handler does
  not mean that nothing happened: `TruthfulAnswer` concludes that only from a refusal by the
  middleware (size, authentication, rate limit, reused key, permission).
- `attestia-service.ts:1026`: only the manifest is compared with the log, so subsystem
  snapshots of an interrupted `snapshotAll` are adopted after the log lost their events; and
  with `allowSnapshotAheadOfLog` later snapshots get lower versions than the old ones, which
  the next boot prefers. The deployment with a truncated log therefore has clean shutdowns.
- A snapshot that fails after the change skips the audit entry and answers 500; the audit
  entries of intents name `declaredBy` as the tenant; payees have no route; `checkIfMatch`
  in `etag.ts` has no caller, so `If-Match` is never checked.

*Node and SDK*

- `idempotency.ts:249`: equal requests in flight together both execute (`RetryIsReplayed`
  speaks of requests that start after the answer was cached). The SDK's "dedupe-on-server is
  guaranteed" (`http-client.ts:323`) therefore fails for overlapping attempts, and for those
  before and after a restart of the node (`Forgotten` in `TruthfulAnswer`).
- The cache key lacks the role; the rate limit comes first, so a replay may be answered 429;
  a burst below a mutation's five tokens (`config.ts:38` allows 1) refuses every write.
- `tenant-registry.ts:71`: a failed initialisation stays cached until the process restarts.
- The SDK reads a body without a time-out of its own, and `verify.stateHash()`
  (`client.ts:535`) sends GET where the node (`verify.ts:39`) has POST only.
- Lists: items with equal timestamps may be cut by a page's edge, envelope ids are sorted
  with `localeCompare` and compared by code units, and a cursor of more than 512 characters
  counts as none (`PageWalkComplete` speaks of lists sorted by their cursor's field).

*Registrar, governance, witnesses*

- `structural-registrar.ts:534`: a parity violation throws for that call only and the next
  agreeing call resets the status; the package's documents say that disagreement never heals.
  `registry.json:50` (`lineage.explicit`) accepts a child that is marked as a root, which the
  legacy predicates refuse, although `GOVERNANCE_HANDOFF.md:42` calls the two equivalent.
- `governance-store.ts:143`: with no signers any quorum is accepted
  (`QuorumStaysAttainable` starts from an attainable one).
- `retry.ts:193`: no lookup follows the last attempt, so a late landing is reported as failed.

*Ledger and treasury*

- `balance-calculator.ts:28`: account id and currency are joined with "::" and neither is
  validated, so two pairs may share an accumulator, whose currency is that of its first entry
  (run `ledger_joined_key`). `BooksBalance` therefore promises a trial balance only where no
  two currencies share a key; `KeysTellCurrencies` proves that none do as long as no currency
  has a colon, whatever the account ids.
- `ledger.ts:249`: scaled integers of one currency are compared whatever their decimals; the
  `books` run gives all entries of a currency the same decimals.
- `payroll.ts:344`: ids joined with ":" may collide; the ledger then refuses the second run,
  which stays approved (the payees and runs of `books` make them collide).

*Observers*

- `xrpl-observer.ts:248` and `solana-observer.ts:288`: transactions that failed are reported
  as transfers (run `observer_failed_payment`; `ObserverSound` excepts them).
- XRPL: the limit is applied without the marker, so older transactions are cut off, and
  payments are not filtered by token. Solana: an unchecked SPL transfer is reported with
  decimals 0. EVM and Solana: a balance and its block are two requests. EVM: the default
  window starts below zero on a chain of fewer than a thousand blocks. The reorg detector
  keeps the old hash after a fork.

*Verification*

- An honest bundle whose correlation id was resumed after another one fails its replay;
  strict mode reads `subsystems.chains`, which no hash binds; hash-chain evidence checks the
  claimed global hash only; the leaf index of a proof is not bound; the compliance route
  passes `String(globalPosition)` as event hashes.
- The public board's round never resets, and a replaced report's id is forgotten, so its
  delayed duplicate brings the old vote back.
- Reconciliation: only the first event of a symbol in a transaction is compared, one payment
  clears two intents that share a transaction, scoped reports do not filter entries, and an
  artifact that shares a transaction stays.

## 6. Not modelled

- The event catalog and domain event types, OpenAPI, metrics, logging, health and exports:
  static tables, write-only counters and reads.
- The portfolio observer (sums over observers), the in-memory snapshot store (no caller
  outside tests), the audit entries of the governance routes, shared type guards, the demo.
- The parser and validator of registry expressions, registrum's attestation files and
  command line, the witness's payloads, memo codec and verifier: string processing without
  state. What the compiled expressions of `registry.json` evaluate to is modelled.
- A subscriber that appends to the file store which notifies it: it waits for its own lock
  until the time-out and its exception is swallowed.
- The durability of a rename (the directory is not synced): a completed rename is durable.

Abstracted everywhere: timestamps where no order depends on them, descriptions, log texts,
key comparison and token decoding (their verdicts are inputs), hashes as content. The
namespace methods of the SDK are requests of three kinds (mutation, read, list).

## 7. Plan

1. Proofs: `SubscribersSeeEverything`, and the reorg detector's part of `ObserverSound`.
2. An abstract ledger of acknowledged requests that `AttestiaService` implements.
3. The registry's expression engine and the memo codec as operators against references.
4. The file store's dispatch under its lock; a directory whose renames may be lost.

## 8. Running

`tlc -config <run>.cfg <module>` with the module `PROJECT.json` names for the run, and
`tlapm <module>` for `DataLemmas` and each of the seven `*Proofs` modules.
