# Perpetua Contracts: TLA+ development

TLA+ models of the Perpetua payment-streaming contracts (Rust, Soroban) and of
the tools around them, TLC runs on small instances, and TLAPS proofs for every
value of the constants. Source paths are relative to the repository root;
`lib.rs`, `accrual.rs`, `storage.rs`, `events.rs` and `types.rs` alone are
those of `contracts/stream/src/`.

## 1. The system

| component | state it keeps | operations | correct when |
|---|---|---|---|
| stream accrual core, `accrual.rs` | none, pure functions of a stream record and an instant | `stream_time`, `elapsed`, `vested`, `withdrawable`, `refundable`, `liability` | I1-I6 at the head of the file: bounds, monotony, conservation, pause coherence, no dust |
| stream lifecycle, `lib.rs`, `types.rs` | one `Stream` record per id; a pool of tokens held by the contract | `create_stream`, `top_up`, `withdraw`, `batch_withdraw`, `cancel`, `pause`, `resume`, `transfer_recipient`, `batch_transfer_recipient` | the pool covers every claim exactly; terms hold; earned funds are never lost and always reachable |
| delegation, `lib.rs` 885-1224 | one `DelegateGrant` per (stream, delegate) | `grant_delegate`, `revoke_delegate`, six `delegate_*` | a delegate never does what no party could do |
| storage and rent, `storage.rs` | id counter (instance entry), stream and grant entries (persistent), a TTL each | `extend_stream_ttl`, `batch_extend_ttl`, renewal inside each call | live streams stay readable; the counter outlives the streams it issued |
| events, `events.rs` | none | published at the end of each call | an indexer can rebuild streams and grants |
| factory, `contracts/factory` | policy (caps, durations, rates, allowlists), rate-limit buckets, active-stream count, admin and pending admin | `create_stream`, `stream_terminated`, `record_creation`, setters, `propose_admin`/`accept_admin` | policy coheres and holds for every stream it admits; slots cover what runs; one admin |
| governance, `contracts/governance` | signers, weights, threshold, generation, guardians, proposals with approvals, deadlines and status | `propose`, `approve`, `execute`, `cancel_proposal`, `prune_expired_proposals`, changes of signers, weights, threshold, grace | executed once, after the timelock, by enough weight of the roster it was proposed under |
| claim token, `contracts/stream-nft` | owner per stream, balances, supply | `mint`, `transfer` | a token sold takes its claim along |
| provenance tool, `tools/provenance` | `provenance.json`, `SHASUMS` | `generate`, `verify` | passes exactly on what was generated, whole files whatever happens |
| SDK, `tools/sdk` | local (attempts, baseline) | `submitBatchWithRecovery` | a batch is never resubmitted once it is known to have landed; the call returns |
| hooks, scripts, probe, demo, schema | - | display, sweeping, release, presentation | - |

**Interaction.** A call of a contract is one transaction. It reads the ledger
timestamp, loads entries, asks parties for authorization, calls the token
contract, saves entries, publishes events. The host commits all of it or, on an
error, nothing. The factory calls the stream contract's `create_stream`; the
claim token calls `transfer_recipient`; governance calls the factory's setters
(`set_admin`, `set_cap`, `set_min_duration`, `set_allowlist`,
`set_stream_contract`, `set_stream_wasm_hash`: no others); keepers renew TTLs;
the SDK submits batches and reads the id counter back.

**What is hard.** Nothing runs concurrently inside a call, but parties do not
wait for each other, so calls land in any order and at any instant relative to
cliff, end, pauses, deadlines and the expiry of entries. The schedule is
rewritten under way, with integer division rounding each time, while the
recipient may have drawn part of it. Widths are checked once, for every
multiplication to come. Grants, approvals, nominations and rate buckets outlive
the situation they were made in. The provenance tool and the SDK do run
concurrently with others: between any two reads the world may move. The list
with source lines is under `hazards` in `PROJECT.json`.

## 2. Modules

| module | models | notes |
|---|---|---|
| `Accrual` | `accrual.rs` | pure operators on a record `s` and an instant `now`; `u64` and `i128` are represented by their largest values `U64Max`, `I128Max`, so overflow happens on small numbers; a failing `checked_*` is a guard (`vested_overflows`) |
| `Lifecycle` | the record part of each entry point of `lib.rs` | guard `may_X` = the early returns of `X` that read the record; an operator for the record `X` saves |
| `Stream` | `lib.rs`, `storage.rs`: storage, pool, who calls | one action per mutating entry point, whole call = one step |
| `StreamProps`, `Escrow` | - | the properties, and the abstract promise: claims that are opened, earned, funded, collected, closed |
| `MCStream` | - | offers (arguments of `create_stream`) for TLC |
| `StreamEvents` | `events.rs` and an indexer | each call of `Stream` with the events it publishes; the indexer is external, from docs/indexing_guide.md |
| `Rent` | external: the host's `extend_ttl` | shared by the two modules below that compose with it |
| `StreamRent` | `storage.rs` renewal, keeper entry points, archival, restoring | composes `Stream` and `Rent` |
| `StreamClaims` | - | a documented claim the code does not keep |
| `Governance` | `contracts/governance/src/lib.rs` | one action per mutating entry point |
| `GovernanceProps`, `Timelock` | - | the properties, and the abstract promise: a timelocked decision |
| `MCGovernance` | - | payloads for TLC |
| `GovernanceRent` | the retention policy of proposals | composes `Governance` and `Rent`, the renewing views included |
| `Factory`, `FactoryProps` | `contracts/factory/src/lib.rs` | the policy, the slots, the rate, the administration |
| `StreamNft` | `contracts/stream-nft/src/lib.rs` | `mint`, and the token's part of `transfer` |
| `Deployment`, `MCDeployment` | the calls between them | composes `Stream`, `Factory` and `StreamNft` |
| `GovernedFactory`, `MCGovernedFactory` | what `dispatch_call` and `dispatch_operation` do to the factory | composes `Factory` and an instance of `Governance` |
| `Provenance`, `MCProvenance` | `tools/provenance` | every reading and writing of a file a step; the second has the symmetries for TLC |
| `BatchRetry` | `submitBatchWithRecovery`, tools/sdk/batch_create.ts | every `await` a step; ledger, network and RPC nodes external |
| `SumProofs` | - | lemmas about finite sums, for the two below that add up balances and votes |
| `StreamProofs`, `ContractProofs`, `HostProofs` | - | theorems and proofs about the stream contract: each stream; pool, flows and delegation; events and rent |
| `FactoryProofs` | - | about the factory, the deployment and the factory under governance |
| `GovernanceProofs`, `ProvenanceProofs`, `BatchRetryProofs` | - | about one component each |

State and code: a variable is a storage key, named in the comment at its
declaration (`streams[id]` is `DataKey::Stream(id)`, `proposals[id]` is
`DataKey::Proposal(id)` with its approval index, `factory` is
`DataKey::Config`, and so on); `now` and `ledger` are the ledger's timestamp
and sequence number; `balance[token][account]` is the token contract's ledger,
external and modelled from `token_transfer`. Variables commented `history` are
not in the code: they record what a property needs to look back at.

Decisions a reader should know of:

* A call is atomic because the host makes it so. A call that returns an error,
  or whose token transfer or dispatched call fails, changes nothing, hence is no
  step of the model. The host also refuses re-entry, so that governance's
  `Executing` flag is set and cleared within one step of the model.
* Authorization is the party each entry point names. Since every party may call
  at any time, an action carries no caller where the code determines it: the
  sender of `cancel(id)` is `streams[id].sender`.
* Batches of streams are sets: duplicates are refused before anything happens,
  and neither the result nor the failure of a batch depends on its order. The
  sum of a batch is an `i128` across tokens, and is checked as such. The calls
  of a governance batch are a sequence.
* The contract's own address is never a sender or a recipient of a stream.
* A token moves the amount asked for, or refuses and the call fails as a whole.
  One that reports success and moves another amount is not modelled: its pool
  would not be exact, and no code of the repository looks at a balance.
* In `StreamRent` a ledger lasts `SECONDS_PER_LEDGER` seconds, the shortest the
  code reckons with; entries live in ledgers and schedules in seconds. In
  `GovernanceRent` one day is the unit of both. A call that touches an
  archived entry fails; restoring is a step anybody may take.
* Governance keeps approvals as a list and a map of addresses; the model keeps
  each approver with the weight that was counted, which the code adds up and
  forgets. `EveryVoteCountsOnce` relates the two.
* `GovernedFactory`: `Decoded` gives each encoded operation the function of
  the factory's interface it calls, and its argument. `accepts` and `set` are
  the setters' guards and writes as functions of a policy, so that a batch
  folds them (`stages`) where `Factory` has an action for each; the mutant of
  either copy is found. The first admin is a person, whose signature `init`
  wants; the governance contract signs nothing but what it dispatches, hence
  neither proposes nor accepts an admin. A call of any other contract is
  recorded and does nothing to the factory. The ledger closes once a second.
* `Provenance`: what a wasm file holds is what it was built from, and a digest
  stands for the contents. `verify` reads the manifest, lists the directory,
  hashes one file after another, compares them, asks git for the revision and
  for the status, and reads the rest; `generate` lists, hashes and reads alike
  and then opens, fills and renames each of its two files. Toolchain, lock file
  and profile are one thing, the setup, and read in one step: nothing tells them
  apart. The history `stale` holds what changed after the running command had
  read it. One command runs at a time, on manifests that `generate` wrote:
  what `verify` refuses in one edited by hand (no JSON, a name twice, another
  schema or build type) is left out. A kill is one of the process, after which
  what was written is there; a loss of power, against which the tool, which
  never calls `fsync`, promises nothing, is not modelled.
* `BatchRetry`: the transaction spends the sender's sequence number and so lands
  at most once. A node answers from any ledger up to the last, a later answer
  possibly from an earlier ledger. Any await may reject instead, which ends the
  call. `FAILED` and a rejection say nothing about the ledger, and no
  property does after them: `AloneItIsNotMisled` is about the answers that claim
  to know. An outcome may name a ledger or not; `ResubmitsOnlyUnlanded` is about
  the ledgers up to the one named, since an outcome without one makes the code
  take whatever count it is given.
* Operators commented `Mutant` are plausible bugs in the definition that
  follows them. Nothing in the models uses them; `PROJECT.json` pairs each with
  the property that finds it.

## 3. Runs

`tlc -workers 2 -config X.cfg M` for each. `CHECK_DEADLOCK FALSE` where time is
bounded and a settled system has nothing left to do, which is everywhere but in
`provenance`.

| run | instance | asks |
|---|---|---|
| `schedule` | 1 stream, 2 parties, 1 token; start in {0,2}, end 2..5, cliff in {0,2,3,5}, deposit in {0,3,4,7}, amounts 1..3, time 0..6, `U64Max` 7, `I128Max` 42 | type correctness; I1 (`Bounds`), I2/I3 (`EntitlementNeverShrinks`), I5 (`PauseCoherence`), I6 (`NoDustAtSettlement`), `NeverOverflows`, `ClockRunsOnlyUnpaused`, `TopUpKeepsRate`, refinement of `Escrow` |
| `pool` | 2 streams, 2 tokens, 3 parties, time 0..3, batches of 2 | I4: `PoolIsExact`, `FlowsMatchAccounting` |
| `delegation` | 1 stream lacking at most one flag, 3 parties, one a delegate, time 0..4 | `DelegationAddsNothing`; `ProjectionAgrees` for streams and grants |
| `live` | 1 stream, 3 parties, one a delegate who may pause, time 0..6 in ledgers of 2 seconds, new entries live for one ledger and renewed ones for up to 2 more, fair recipient | `ReadableToItsEnd`, `MaturedIsPaidOut` |
| `governance` | 3 addresses, 2 signers, threshold 2, at most 3 signers, 2 proposals of 4 payloads, 3 moves, time 0..3, timelock 1, age 2, grace 0, 1 or 6, `U64Max` 6 | `ExecutedByItsRoster`, `EveryVoteCountsOnce`, `DispatchedOncePerExecution`, `ViewAgreesWithExecute`, `ExecutedWithinItsAge`, the inductive `GovInv`, `DecisionsStand`, refinement of `Timelock` |
| `gov_rent` | 3 addresses, 2 signers, 2 proposals, time 0..4, age 3, timelock 1, `min_persistent_ttl` 3, threshold 1, renewed to 4 | `StaysLiveWhileLoaded` |
| `deployment` | 1 stream, 3 accounts, 2 stream contracts, 1 token, 1 claim token, 2 settings off their first value, time 0..2, `U32Max` 3 | `DeploymentTypeOK`, `PolicyCoheres`, `NominationIsCurrent`, `BurstIsBounded`, `SlotsCoverLiveStreams`, `AdmissionsAreForLife`, `ClaimFollowsToken` |
| `governed` | governance and 2 people, 1 signer of a roster that may change, 2 proposals of 6 batches of up to 3 calls, 2 settings set by people, time 0..2, timelock 1, age 2 | `PolicyIsAsDispatched`, `TunedOnlyByDecision` |
| `provenance` | 2 wasm files, 2 commits, 2 setups, 1 edit, 2 targets, 3 moves around the tool, any number of commands and kills | `FilesAreWhole`, `ShasumsAgree`, `VerifiedIsPinned`, `FreshManifestPasses` |
| `sdk_retry` | batch of 2, 3 attempts, 2 lagging reads, 5 ledgers, others create 0 to 2 streams in each | `AloneItIsNotMisled`, `ResubmitsOnlyUnlanded`, `CallReturns` |
| `stale_grant`, `gov_threshold` | as `delegation` with one more party, as `governance` | each finds one documented claim violated, see section 5 |

Properties that follow from those of a run, or say less, have a proof and no
run of their own: `StatusTracksClaim`, `TermsHold`, `GovTypeOK`,
`AdmissionKeepsCapacity`, `OutOfReachStays`, `HandingOnComesLast`, and `PolicyCoheres` of the governed factory.

**Why the bounds are enough.**

* *Streams.* The record-level behaviour of a stream depends on no other stream:
  every call but the batches touches one record, and the pool relates streams
  only by sums, for which two (of equal or of different token, sender and
  recipient) show every case a term can be counted wrongly. The schedules
  include durations that divide the deposit and that do not, starts in the
  future, cliffs at the start, inside and at the end, and offers that are
  refused. Time runs past every end offered, so that pauses stretch a schedule,
  and past maturity, so that a matured stream is paused and drained. `U64Max`
  and `I128Max` are small enough that `top_up` is refused for width.
* *Rent.* With a new entry live for one ledger, a network maximum of two more
  and four ledgers of two instants, entries are archived, restored, renewed to
  the schedule's end and cut off at the maximum. Pauses move the end, and calls
  fall, to either half of a ledger, so that a length rounded down where the code
  rounds up is found; the buffer keeps target, floor and cap apart.
* *Governance.* A proposal can reach quorum in time or too late, be executable
  for a while, expire by age or, with grace 0, by grace alone while young
  enough, and be pruned, all within four instants; grace 6 makes deadlines
  overflow. Two proposals let one be approved
  while the other changes hands; `MaxMoves` bounds proposals and changes of
  settings together, and three allow two proposals with a change between, or one
  with two (a signer added, voting, and removed). The payloads are a batch that runs, one
  with a batch inside that `execute` refuses, and sizes `propose` refuses.
* *Deployment.* `MaxActivity` bounds what differs from the start in all three
  parts together, so that each meets the others without every combination of
  all. `U32Max` 3 puts counters at their limit. One stream of the repository's
  contract and one elsewhere take the slots there are, three or, by a setting
  made before or after, one.
* *Rent of proposals.* A new entry has more than the threshold left and
  less than a proposal may wait, as on the network the repository measured
  (seven days, one day, thirty days). Within five instants an entry is
  renewed, not renewed because it is too young, or archived while its proposal
  is still open; each of the three is renewed by some calls and not by others,
  and the second proposal is read, approved or pruned in between.
* *Governed factory.* The batches are: three that run, a later call undoing or
  building on an earlier one, of which one keeps and one hands back the
  factory; two whose first call the factory would take and whose last it
  refuses, for the authority the first gave away and for a bound; and one for
  another contract in part. Two settings and a nomination let people leave
  something behind; two executions let governance hand on, or build on itself.
* *Provenance.* Two files let the set and the contents of a directory differ
  independently; three moves are a build before the manifest and two changes
  under a command, one on either side of a reading. (With four moves, 11.7
  million states, the properties hold too.)
* *SDK.* Three attempts are a first, a middle and a last. Others creating as
  many streams as the batch is the one coincidence a count can be fooled by.

Named bounds: `MaxTime`, `MaxStreams`, `MaxProposals`, `MaxMoves`, `MaxLedger`,
`MaxSettings`, `MaxRecords`, `MaxElsewhere`, `MaxTokens`, `MaxActivity`,
`MaxTogether`, each described where it is declared. `MaxBatchSize` is 16 in the code, 2 where
batches are the question; the lengths in `Governance` are scaled down in the
same way. Symmetry permutes interchangeable addresses and tokens in safety runs
only, and never moves a delegate, an admin or an initial role.

**Fairness.** `live`: `WF(Tick)`, ledgers keep closing; and for each id
`WF(Claim(id))`, whoever is the recipient now keeps at it: restores what is
archived, then asks for all there is. It is an assumption about the only party
the property serves; senders, delegates and keepers need not act. The sender
may pause for ever, and what is earned stays withdrawable meanwhile, which is
why the property starts at maturity. Some step of `Claim` is enabled as long
as something is withdrawable, whatever others do, so weak fairness is enough.
`sdk_retry`: `WF(Call)`, whatever the call awaits is answered some day, with
whatever answer; of the network itself nothing is assumed. The other runs state
no fairness, and check safety only.

**Refinement.** `ImplementsEscrow`: with a claim read as (total = deposited,
earned = vested now, paid = withdrawn, closed = terminal), each step of the
contract is one of `Escrow`'s or none. Pause, resume and transfer are
invisible, a tick is `Earn`, `cancel` is `Close` and keeps `earned`.
`DelegationAddsNothing`: the contract with delegates, its grants hidden,
implements the contract without any. `ImplementsTimelock`: a proposal is a
decision that is opened, becomes due with its quorum, and is carried out or
dropped; approvals short of a quorum and all changes of settings are invisible,
`prune_expired_proposals` drops a page at once. The abstract specification
knows neither signers nor weights: that the right people decide is
`ExecutedByItsRoster`.

## 4. Proofs

`tlapm` on the eight modules named `...Proofs`. Assumptions: `AccrualAssumption`,
`StreamAssumption`, `RentAssumption`, `StreamRentAssumption`,
`FactoryAssumption`, `DeploymentAssumption`, `GovernanceAssumption`,
`RetentionAssumption`, `GovernedAssumption`, `ProvenanceAssumption`,
`BatchRetryAssumption`, which state types and bounds of
the constants (the absent value is no integer, the contract is no party, widths
are naturals, file names are ordered). Four say a little more: what streams are
offered may be asked of the factory too (`Offers \subseteq FactoryOffers`); what
decodes is one of the functions `CallData` has a variant for, with an argument
of its type (`Decodings`), and the factory's first admin is not governance; and
the longest life of an entry, a `u32` of ledgers, fits a `u64` of seconds
(`max_entry_ttl <= U64Max \div SECONDS_PER_LEDGER`), without which saturated
arithmetic would fall short of it; and a renewal of a proposal's entry lasts
longer than the threshold under which it is granted (37 days and one in the
code). Nothing is assumed about how many
parties, tokens, streams, signers, proposals, settings, files, attempts or
ledgers there are or how large schedules and amounts get.

| module | theorem | property |
|---|---|---|
| `StreamProofs` | `TypeCorrect` | `TypeOK` |
| | `InvariantHolds` | `IInv`, the inductive invariant |
| | `BoundsHold`, `PausesCohere`, `StatusTracks`, `NoDust`, `OverflowNeverHappens` | `Bounds`, `PauseCoherence`, `StatusTracksClaim`, `NoDustAtSettlement`, `NeverOverflows` |
| | `EntitlementGrows`, `ClockRuns`, `TermsAreKept`, `RateIsKept` | `EntitlementNeverShrinks`, `ClockRunsOnlyUnpaused`, `TermsHold`, `TopUpKeepsRate` |
| `ContractProofs` | `BalancesAlwaysTyped` | every account has a balance of every token |
| | `PoolAlwaysExact`, `FlowsAlwaysMatch` | `PoolIsExact`, `FlowsMatchAccounting` |
| | `DelegationNeverAdds`, `StreamImplementsEscrow` | `DelegationAddsNothing`, `ImplementsEscrow` |
| `HostProofs` | `EventsImplementStream`, `RentImplementsStream` | `EventSpec` and `RentSpec` imply `Spec` |
| | `ProjectionAlwaysAgrees` | `ProjectionAgrees` |
| | `AlwaysReadableToItsEnd` | `ReadableToItsEnd` |
| `FactoryProofs` | `FactorySafe` | `FactoryInv` |
| | `FactoryTypeSafe`, `PolicyAlwaysCoheres`, `NominationAlwaysCurrent` | `FactoryTypeOK`, `PolicyCoheres`, `NominationIsCurrent` |
| | `BurstsStayBounded` | `BurstIsBounded` |
| | `DeploymentImplementsFactory`, `DeploymentImplementsStream` | `DeploymentSpec` implies `FactorySpec` and the stream contract's `Spec` |
| | `DeployedFactoryIsSafe` | `PolicyCoheres`, `NominationIsCurrent`, `BurstIsBounded` of the deployment |
| | `SlotSafe` | `SlotInv`, the inductive invariant of the slots |
| | `SlotsAlwaysCoverLiveStreams`, `AdmissionsAlwaysKeepCapacity` | `SlotsCoverLiveStreams`, `AdmissionKeepsCapacity` |
| | `AdmissionsAreAlwaysForLife` | `AdmissionsAreForLife` |
| | `DeploymentAlwaysTyped`, `ClaimAlwaysFollowsToken` | `DeploymentTypeOK`, `ClaimFollowsToken` |
| | `GovernedSafe` | `GovernedInv`, the inductive invariant of a factory under governance |
| | `GovernedPolicyAlwaysCoheres`, `PolicyAlwaysAsDispatched` | `PolicyCoheres`, `PolicyIsAsDispatched` |
| | `OutOfReachAlwaysStays`, `HandingOnAlwaysComesLast`, `AlwaysTunedByDecision` | `OutOfReachStays`, `HandingOnComesLast`, `TunedOnlyByDecision` |
| | `GovernedImplementsGovernance` | `GovernedSpec` implies governance's `Spec` |
| `GovernanceProofs` | `GovTypeSafe`, `GovSafe`, `GovInvSafe` | `GovTypeOK`, `GovIndInv`, `GovInv` |
| | `ExecutedByItsRosterSafe` | `ExecutedByItsRoster` |
| | `EveryVoteAlwaysCountsOnce` | `EveryVoteCountsOnce` |
| | `DispatchedOnce`, `DecisionsAlwaysStand` | `DispatchedOncePerExecution`, `DecisionsStand` |
| | `GovernanceImplementsTimelock` | `ImplementsTimelock` |
| | `AlwaysExecutedWithinItsAge` | `ExecutedWithinItsAge` |
| | `RentImplementsGovernance` | `RentSpec` implies `Spec` |
| | `AlwaysLiveWhileLoaded` | `StaysLiveWhileLoaded`, whatever life the network gives a new entry |
| `ProvenanceProofs` | `ToolSafe` | `ToolInv`, the inductive invariant |
| | `FilesAlwaysWhole`, `ShasumsAlwaysAgree` | `FilesAreWhole`, `ShasumsAgree` |
| | `VerifiedAlwaysPinned`, `FreshManifestAlwaysPasses` | `VerifiedIsPinned`, `FreshManifestPasses` |
| `BatchRetryProofs` | `RetrySafe` | `RetryInv`, the inductive invariant |
| | `AloneItIsNeverMisled`, `OnlyUnlandedResubmitted` | `AloneItIsNotMisled`, `ResubmitsOnlyUnlanded` |

**Streams.**

1. *Arithmetic*. `vested` lies between 0 and the deposit and
   never falls as time passes (`VestedBounds`, `VestedGrows`). The crux is
   `TopUpKeepsVested`: with `delta = floor(amount * duration / deposited)` the
   new rate is at least the old one, so no vested amount shrinks, and less than
   a second of schedule is gained. `CancelSettles`: a settled schedule is
   fully vested. `ResumeKeepsClock`: pausing and resuming leaves the clock
   where it stood.
2. *Shape of a step* (`NextShape`). Every step either moves only the clock,
   creates one stream, changes only grants, or turns each stream it touches
   into what one of the `Lifecycle` operators gives, under that operator's
   guard. Everything after it is about one record, which is how 16 entry points
   need only six record-level lemmas.
3. *Inductive invariant* `IInv`, a conjunction `StreamInv` per stream. The
   invariants are not inductive as they stand: `Bounds` survives a `top_up`
   only if the stream was open, had a positive duration and products that fit;
   `NoDustAtSettlement` survives later ticks only because a terminal stream is
   either empty or past its cliff and end on its own clock; `PauseCoherence`
   needs the recorded pauses to lie in the past. `StreamInv` says these things.
   `TypeStep` and `InvStep` prove it inductive together with `TypeOK`.
4. *Action properties* follow from the invariant in the state before a step and
   the same shape lemma (`CallClock`, `CallTerms`, `CallRate`).

**Sums.** The pool and a proposal's weight are folds over finite sets, and what
a fold adds up to needs induction. The library's induction theorems take an
operator as parameter, which no prover here instantiates; `SumProofs` does
induction on *sets* instead. A set that holds 0 and is closed under `+ 1` holds
every natural, since its complement would have a least element
(`NaturalsInSet`, from the library's `WFMin`). Two such sets show that the fold
over any finite set exists and that an element may be taken out of it first
(`SumWith`, `SumWithout`); sums of sums, of subsets and of functions that agree
follow.

**The pool.** `Flows` says of a step what it does to every balance: an address
gains what is drawn from the streams it receives less what is put into those it
sends, and the contract the opposite of both. `FlowStep` proves it of every
entry point, of `batch_withdraw` by summing over the batch (`BatchWithdrawFlows`).
`FlowsMatchAccounting` is that lemma. `PoolIsExact` follows because what the
contract owes, deposits less withdrawals, changes by the same sums (`OwedStep`);
it needs that a stream keeps its token (`TokensKept`).

**Promises of the contract.** `DelegationNeverAdds`: each action of the
contract is, its grants hidden, an action of the contract without delegation.
`withdraw` and `delegate_withdraw` differ in who may call and not in what is
written (`PartyIsDirect`, `DelegateIsDirect`). `StreamImplementsEscrow`: what a
record operator does to one stream moves its claim as `Funded`, `Collected` or
`Settled` (`CallOfClaim`), from the invariant: a top-up needs that the stream is
not yet earned in full (`UnearnedBeforeEnd`), a cancellation that settling keeps
what is vested (`CancelStep`). `StepImplementsEscrow` lifts this to the claims
of all streams.

**Events.** An event tells the fields of its payload, its kind tells some more,
and an indexer keeps the rest (`NewsTell`). So a record rebuilt is the one
stored as long as a call changes no field that neither names; one lemma per
entry point says so, from its record operator and the invariant of the stream.
The one exception is what the last withdrawal during a pause adds to
`paused_total` (see section 5); it stays an exception only because a `Depleted`
stream never runs again. Batches publish one event for each stream
(`BatchEvents`) and the lemmas are applied to each. The event of a grant tells
all of it.

**Rent.** `ReadableToItsEnd` is inductive with the domains of the two variables
(`RentInv`), given the types. `TargetCovers`: what a renewal asks for reaches
from this ledger to the one in which the schedule and the buffer end. The code
rounds the *remaining* time up to whole ledgers, the property rounds the two
*instants* down; the difference is at most one and the rounding up pays for it
(`LedgersCover`). Where the code saturates at `u64::MAX` the target exceeds
what the network allows, which then decides. Between two renewals the end moves
only with an open pause, and a stream that is paused is due nothing until it is
resumed, which renews it.

**Factory.** The first theorems are about `FactorySpec`, the factory alone with
creations and callbacks in any order. `PolicyCoheres` and `NominationIsCurrent`
are inductive with the types (`FactoryInv`). `BurstIsBounded` looks back over
the whole history of admitted creations and is not: it needs `Paced`, that the
last `count` creations are the stored bucket's, all earlier ones came by its
start, and the limit-th creation before those a window earlier still. As a
bucket starts with a creation, a window of any position then holds less than
twice the limit.

**Deployment.** Every step of the deployment is one of the factory or leaves it
alone (`FactoryStep`), and the same of the stream contract
(`StreamContractStep`), so what is proved of either alone holds of both
together. That slots cover what runs needs more: what the factory admitted are
streams that exist, and a stream that is over stays over, whatever is called
(`StreamsGoOn`, one lemma for each kind of call). Then every step either moves
no slot (`NoSlotMoves`), takes one for one more stream (`AdmissionTakesSlot`),
or frees one in a callback, which is accounted to a stream elsewhere that ended
or to `stray` (`CallbackFreesSlot`). Counters stop at 0 and never reach their
width before the limit refuses. The token's counters count its tokens because a
sale moves one token between two sets of owners, or, sold to oneself, none
(`TransferCounts`).

**Governance.** That a proposal is executed by the roster it was made under
needs `ProposalInv` of every proposal at every time: its flags agree with its
status, its quorum instant is recorded exactly when its weight reached the
threshold, and the votes of a proposal of the *present* generation are those of
present signers with their present weights. Changing signers, weights or the
threshold would break the last clause, and does not, because it starts a new
generation and with it no open proposal is of the present one any more
(`NewGenerationKeeps`). `DispatchedOnce` and `DecisionsAlwaysStand` follow from
the invariant before a step. `GovernanceImplementsTimelock` has one lemma for
each visible step (`ProposeImplements`, `ApproveImplements`,
`ExecuteImplements`, `CancelImplements`, `PruneImplements`); the others stutter.
`EveryVoteAlwaysCountsOnce` is inductive with the types: an approval adds one
vote, of an address that had none, and its weight (`ApproveCounts`).
`AlwaysExecutedWithinItsAge`: `execute` looks at the age and at the timelock, so
the instant the timelock ends lies before both; afterwards neither the quorum
nor the instant of creation of an executed proposal changes (`StepKeepsAge`).

**Rent of proposals.** `RentSpec` implies `Spec`, so all of the above holds with
archival. `StaysLiveWhileLoaded` says when an entry of an active proposal may be
archived at all: only past the life the network guarantees from the proposal's
creation on, and only when nobody has proposed, approved or loaded the proposal
for the threshold and a ledger. The first part is the inductive `LifeInv`: no
extension shortens a life (`ExtendedNotShortened`), and the guarantee counts
from the creation of the *proposal*, so entries written later have it too. The
second is `LoadedInv`: a load renews every entry there is, and one it does not
extend has more than the threshold left (`ExtendedLongEnough`). A page of
records or `get_quorum_info` renews one entry of the three and is no load. What
makes both inductive is that entries of pruned proposals go with the record: an
id is never given out twice, but a leftover entry would belong to nobody.

**The factory under governance.** A policy is what the setters read and write.
`stages` gives the policy after each call of a batch and `replay` after each
batch dispatched; both are recursive functions, and that they satisfy their own
equations is proved by induction on sets (`StagesComputed`, `ReplayComputed`,
`ReplayGoesOn`). `Follows(p, q)` says what accepted calls may make of a policy
`p`: a coherent one, with the settings out of reach as they were, a nomination
only together with the admin who made it, and no change at all on a factory that
is not governance's. One setter keeps to it (`SetterFollows`), so does a call,
so does a batch at every stage (`BatchFollows`); and once a call has handed the
factory on, `guard` refuses every later one (`NothingAfterHandingOn`). The
properties are not inductive without two facts more (`HandedOver`): governance
is the admin exactly from the hand-over on, and it never nominates. A pending
nomination is the present admin's (`NominationIsCurrent`), so none is pending
while governance has the factory, and no person can take it over
(`NobodyElseSigns`).

**Provenance.** `ToolInv` says what each step of `generate` has left in the four
files, what a command has hashed and read so far, and that each of it is still
so unless it is in `stale`. From this `VerifiedIsPinned` follows file by file,
with changes in between: what `verify` passes is the manifest's, but for what
changed behind its back. `ShasumsAgree` needs the manifest to be the one just
described at every step between the two renames; `FreshManifestPasses` that as
long as `fresh` holds the manifest is what `generate` read and what is there.

**SDK.** A stream count is what there was at first, the batch if it has landed,
and what others created, which only grows (`others_by`); the baseline is a
count of a ledger before the batch. That is `RetryInv`. If the last count shows
nothing of others, no earlier one did, and a difference is the batch or nothing
(`AloneItIsNeverMisled`); a count that equals the baseline cannot be one that
has the batch, whatever others add (`OnlyUnlandedResubmitted`).

**Only model-checked.** `ViewAgreesWithExecute` speaks of `ENABLED`;
`MaturedIsPaidOut` and `CallReturns` are liveness: out of the prover's reach.
The two runs that expect a violation have nothing to prove. The theorems about
the stream contract are about `Spec`, and reach the deployment through
`DeploymentImplementsStream`, with the ledger for the clock, and the contract
with its events or its rent through the theorems above.

## 5. Where documents and code disagree

With a run that shows it:

* `OnlyNewRecipientWithdraws` (run `stale_grant`): README.md:284-285 says that
  after a transfer only the new recipient may withdraw. Grants the old
  recipient issued stay in force; its delegate can still trigger withdrawals
  (paid to the new recipient) and can redirect the stream again.
* `ThresholdChangeSparesQueued` (run `gov_threshold`): the doc of
  `set_threshold` (governance lib.rs 1028-1031) and the test at 3435 say that
  proposals which reached quorum are not affected by a change of the threshold.
  It starts a new generation, and `execute` (1521) refuses every proposal of an
  earlier one.

Met while modelling, without a run:

* Governance lib.rs 460-462 promises that an active proposal cannot be archived
  while it is executable. `bump_active_entry` (674) renews only entries with at
  most a day to live, and a new one has the network's minimum, seven days by
  docs/KNOWN-LIMITATIONS.md:81: its creation renews nothing, and untouched for a
  week it is archived in the midst of its thirty days.
  `StaysLiveWhileLoaded` is what does hold.
* docs/governance-timelock-audit.md:105-108 says `prune_expired_proposals` deletes
  a proposal only when it is past both `created_at + 30d` and `eta +
  grace_period`. `proposal_is_expired` (2119-2140) takes either for enough, so a
  queued proposal goes with its grace, whatever its age. That pruning removes
  nothing executable, which the document concludes, is true all the same
  (`DecisionsStand`).
* docs/governance-storage.md:66-67 says the seal at execution or cancellation
  gives the entries at least 30 more days. `seal_terminal_proposal` (717)
  extends under the same threshold of one day, as `load_proposal` just before it
  does: what has eight days left keeps eight, and nothing renews it afterwards.
* storage.rs 44-51 promises that the id counter, in the instance entry, outlives
  the streams it issued. `batch_withdraw` with nothing to draw (lib.rs 559-569),
  `grant_delegate` without operations (893-926) and `delegate_transfer_recipient`
  to the present recipient (1199-1216) renew a stream and not the instance. An
  archived instance is restored by whoever calls next: in the run `live` nobody
  loses by it.
* docs/threat_model.md:126-127 says a recipient cannot redirect a stream
  without a grant of the sender; `grant_delegate` takes `TRANSFER_RECIPIENT`
  from the recipient alone (lib.rs 906, against the comment at 753-756).
* The doc of `batch_transfer_recipient` (lib.rs 810-811) says a cancelled
  stream is refused; one with an undrawn tail is accepted (839), as
  `transfer_recipient` documents for itself.
* The claim token's doc (stream-nft lib.rs 14-23, 185-188, 217-224) has a
  transfer succeed only where the owner is the stream's recipient; the stream
  contract asks its *sender* for authorization (lib.rs 753-759).
* The `paused_total` of a stream drained during a pause appears in no event,
  though the indexing guide says the rebuilt record equals the stored one.
  `ProjectionAgrees` leaves that one field out for such streams.
* `set_grace_period` takes any `u64`. Near the largest one, deadlines overflow:
  `execute` fails and so does every page of `prune_expired_proposals` that
  holds such a proposal.
* A quorum reached less than a timelock before the maximum age queues a
  proposal that can never be executed (`AlwaysExecutedWithinItsAge`).
* The factory's doc (factory lib.rs 9-10) says each policy axis has a setter "so
  governance can tune the factory's policy in place". `CallData` reaches six of
  them: maximal duration, pause, rate bounds, slots and creation rate stay as
  they were when the factory was handed over (`OutOfReachAlwaysStays`), and a
  paused factory stays paused until it is handed on. `propose_admin`, which
  the doc of `set_admin` (532-539) recommends, cannot be used towards governance, which has no way
  to call `accept_admin`: a factory reaches it by `set_admin` alone.
* Of the `CallData` variants for the stream contract none names a function the
  stream contract has (docs/MIGRATION.md:105-109 lists them as removed); a
  proposal with one is approved and queued, and its execution always fails.
* No code of this repository calls `stream_terminated` on the factory: a slot
  taken by the stream contract here is never given back
  (`AdmissionsAreAlwaysForLife`). The token allowlist
  and `batch_cap_enforced` are stored and never consulted, and `top_up` and
  `transfer_recipient` on the stream are outside the factory's caps, durations
  and allowlists.
* `batch_create.ts`:222 says "A delta equal to the batch size means it landed".
  With other writers, a batch of that size of somebody else's is reported as
  landed. `restoreAndRetry` builds and signs `RestoreFootprint` and does not
  submit it, though its doc says so.
* `provenance generate` reads commit and environment when it runs and not when
  the files were built; `verify` never reads `SHASUMS`, and passes after a kill
  between the two renames although `SHASUMS` is the older; a dirty tree is only
  warned of.

## 6. Not modelled, and what is left

Left out, with the reason under each component in `PROJECT.json`: the TTLs of
grants, of governance's instance entry, of factory and claim token (the same
renewals as those modelled, on entries no order is promised for); which error a
refused call returns and the wording of events (they change no state); views,
but those that renew an entry; the archival probe (a test contract); release
and keeper scripts (they sequence the entry points modelled here, which the
models let come in any order); React hooks, demo, schema and stream-math
(display); the SDK apart from `submitBatchWithRecovery` and what it calls. What
a contract other than the factory does with a call of a governance payload, two
provenance commands at once (they share the name of the temporary file), and a
token that moves another amount than it says are outside the models.

Left to do: the abstract promises of the factory and of the provenance tool as
specifications of their own; the deployment and the governed factory in one
module; grants that record who issued them.
