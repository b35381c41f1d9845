# mosaic-contracts in TLA+

Specifications of the Mosaic contracts (`src/contracts`) and of the JavaScript
around them that decides something: the deployment tools (`src/tools`), the
proof generators (`src/proof_generation`, `src/tools/fuzzy_proof_generator_tool`)
and the integration tests (`src/test_integration`). The modules are checked with
TLC on small instances, and what matters most is proved with TLAPS for every
instance. `PROJECT.json` lists the components, the hazards of the code at their
lines, the runs, and for each definition the lines it stands for.

## The system

A **gateway** (`EIP20Gateway`, origin) and a **co-gateway** (`EIP20CoGateway`,
auxiliary) each keep a *message box*: an outbox and an inbox that map a message
hash to a status. To stake, an account locks value tokens in the gateway and
*declares* a message; the co-gateway *confirms* it against a proof of the
gateway's storage; then both sides *progress* it, in any order, with a secret
(hashlock) or with a proof of the other side's status. The co-gateway mints
utility tokens, the gateway moves the stake into its vault (`SimpleStake`).
Redeeming is the same in the other direction: burn on the auxiliary chain,
unstake from the vault on the origin chain. The sender may instead *revoke*: it
declares the revocation, the target confirms it if it has not progressed, and
the source returns the value on a proof of that.

Nothing is called across chains. One chain learns of the other through the
**anchor**: the organization reports state roots of the other chain; anybody
proves a gateway's account against such a root (`proveGateway`), which yields a
storage root; proofs of single statuses are made against storage roots. Both
contracts keep a bounded number of roots, in a circular buffer. So every proof
is about the past of the other chain, how far in the past is up to the caller,
and the two chains run concurrently.

Around the gateways, **OST prime** is a utility token that is the base coin of
its chain at the same time; the **composer** and the **redeem pool** take
requests of users and hand them to the gateways through a proxy per user.

The **core** replaces the organization by validators. On origin, `MosaicCore`
takes proposals for *meta-blocks* and commits the one with two thirds of the
weight that `Stake` knows; a commit opens the next *kernel*, which announces the
validators that join. On auxiliary, the `PollingPlace` counts votes for links
between checkpoints of either chain in two block stores; a link with two thirds
is *justified*, its source may be *finalised* and the dynasty rises. When origin
has opened a kernel, the `KernelGateway` is proven that and keeps it until,
exactly two dynasties later, `AuxiliaryBlockStore.justify` activates it in the
middle of a vote and the polling place takes the new validators.

### Components

| Component | State | Operations | What is hard | Correct when |
|---|---|---|---|---|
| `lib/MessageBus.sol` | status of a hash in outbox and inbox | declare, confirm, progress (secret or proof), revoke | the two entries are never read together; proofs are stale | both chains close a message alike; what is confirmed can be closed |
| `lib/CircularBufferUint.sol` | ring of block heights | store, head | wrapping; an unset slot reads as height 0 | drops the oldest, only when full |
| `anchor/Anchor.sol` | height -> state root, ring, co-anchor | anchorStateRoot, setCoAnchorAddress | mapping and ring change together | keeps the latest roots and never changes one |
| `gateway/GatewayBase.sol` | messages, active process per account, storage roots, bounty proposal | proveGateway, register processes, change bounty | deletion of old messages, nonces on two chains, heights proven in any order | one open process per account and direction, in nonce order; bounty changes are announced |
| `gateway/EIP20Gateway.sol`, `SimpleStake.sol` | stakes, unstakes, value and base tokens, activation | stake ... progressRevertStake; confirmRedeemIntent ... confirmRevertRedeemIntent; (de)activateGateway | bounty changes during a process; fees; vault filled late | escrow equals open requests; utility tokens are backed |
| `gateway/EIP20CoGateway.sol` | redeems, mints, base coin | confirmStakeIntent ... ; redeem ... progressRevertRedeem | mint before the stake is in the vault | as above |
| `gateway/OSTPrime.sol`, `EIP20Token.sol` | balances, base coin, supply | initialize, wrap, unwrap, increase/decreaseSupply | two ledgers that back each other | whatever others hold of one can be exchanged for the other |
| `gateway/OSTComposer.sol`, `StakerProxy.sol` | stake requests, proxies | request, accept, revoke, reject, destruct | request races; proxies that are replaced; bounty in the staked token | a request is backed, can be accepted once its gateway is active and its proxy idle, and is paid out once |
| `gateway/RedeemPool.sol`, `RedeemerProxy.sol` | redeem requests, proxies | as the composer | only a hash records a request; bounty in coin | as the composer |
| `core/BlockStore.sol`, `AuxiliaryBlockStore.sol` | reported headers, checkpoints, head, dynasty, transition objects | reportBlock, justify | justification and finalisation out of order; a block reported again; kernel switch inside justify | finalised is final; transitions stay provable |
| `core/PollingPlace.sol` | validators, votes, core heights | vote, updateMetaBlock | weights change between votes; one target height for both chains | nobody counts twice; the validators are those of origin |
| `core/KernelGateway.sol` | open and active kernel, storage roots | proveMosaicCore, proveBlockOpening, activateKernel | activation at one dynasty alone | an open kernel is never passed over |
| `core/MosaicCore.sol` | proposals, verified votes, open kernel, head | proposeBlock, verifyVote | votes counted before the kernel is open; commit while verifying | a commit has its majority |
| `core/Stake.sol` | deposits, weights by height | initialize, deposit, closeMetaBlock | boundary heights | weights of an open height do not change |
| `lib/MerklePatriciaProof.sol` | none | verify | extension or leaf is told by where the path ends | true only for a value on its path |
| `tools/deployment_tool` | contracts, registry, plan, addresses | link, address, instantiate, plan, deploy | addresses are in bytecode before anything is deployed; other transactions of the account | what is deployed refers to what is there |
| `tools/blue_deployment` | answers, chain info, what is deployed | the script, broken off and run again | no record of progress | gateways and co-gateways are pairs |
| `test_integration` | two chains, accounts, captured balances | every test of the suite | tests depend on what others left | every expectation holds, and the suite ends |
| `proof_generation` | parameters, records, files | every test of the generator | one parameter object for all rounds; writes nobody waits for | a file can be replayed |
| `tools/fuzzy_proof_generator_tool` | pattern, path, nodes | generateByPattern | cutting a path at random | the contract verifies what it generates |
| `lib/MetaBlock`, `Block`, `RLP*`, `BytesLib`, `Mutex` | none | pure functions, re-entry guard | byte level | see "Not modelled" |

## Modules

```
AtomicTransfer      what a transfer promises            RootWindow       what an anchor promises
      ^ refined by                                           ^ refined by
StateRoots -> MessageBus -> GatewayBase -> EIP20Gateway  \   Anchor
(with CircularBuffer)                  \-> EIP20CoGateway -> Gateways    BountyChange

Requests      what a pool promises           ValidatorSet    what the meta-blockchain promises
      ^                                            ^                 ^
ProxyRequests -> OSTComposer \               OriginCore      BlockStore -> AuxiliaryCore
              -> RedeemPool  -> ProxyContracts     (both with MetaBlock)
CoinPool <- OSTPrime

Contract -> ContractRegistry -> Deployment     BlueDeployment
IntegrationChains -> IntegrationTests
ProofGeneration    MerklePatriciaProof -> FuzzyProofGenerator

Proofs: MessageBusProofs \
        SumTheorems      -> GatewaysProofs
        SumTheorems -> RequestProofs, ContractProofs, DeploymentProofs,
                       GeneratorProofs
        IntegrationProofs
```

### The transfer protocol

**CircularBuffer** has the ring as a value `[items, index]` and `Store`,
`Newest` (the code's `head`) and `NextIndex` as operators. An unset slot is 0, as
in Solidity.

**StateRoots** is the passage between the chains: `MineBlock` (external: a block
commits to the message box), `AnchorStateRoot` and `ProveGateway`. A root stands
for the state it commits to, so `chain[g]` records the box of chain `g` at each
block and `Proves(g, m, s)` says that a storage root `g` still holds shows `m` in
status `s`. A merkle proof is exactly that. The organization is taken to report
true roots; which heights it reports, which it skips and when are open. Blocks
that change nothing in the box are left out; a height counts those that do.

**MessageBus** has one action per function of the library. A hash covers the
message type and the gateway, so each hash is only in one outbox and one inbox:
`messageBox[g][m]` is the outbox entry if `g = Source[m]`, else the inbox entry.
Hashing, signatures and the storage path are abstracted to the identity of a
message; the hashlock is the secret that opens it.

**GatewayBase** has nonces, active processes and stored messages, with the
delete of the previous message as part of the registration. Gas is abstracted to
the reward it may buy, any amount up to `gasPrice * gasLimit`; nothing depends
on how much gas is left. **EIP20Gateway** and **EIP20CoGateway** have one action
per external function, each with everything the function does: the registration,
the bus step, the request mapping and every token movement, whose success is a
guard (a short balance reverts the transaction). The tokens themselves are
external: a ledger that moves or refuses, and for the utility token (a git
submodule) `increaseSupply` and `decreaseSupply`. `EIP20Gateway` includes the
vault's `releaseTo`. **Gateways** composes both with the roots; a transaction is
atomic and the two chains interleave freely.

**BountyChange** has the bounty proposal by itself, with block numbers; in
`Gateways` a change of bounty is one step that may come at any time, which is
more than the proposal allows. Two variables of the two modules say the same
thing at different grain: `Gateways` needs every moment at which a bounty can
change, `BountyChange` asks when it may.

**Anchor** has the contract by itself, with any reported root and any increasing
heights, and refines **RootWindow**: it keeps exactly the latest roots.
**AtomicTransfer** is what the bus promises for one transfer, with no roots or
proofs; its `source` and `target` are functions of the outbox and the inbox entry
(`sourceBar`, `targetBar`).

### OST prime and the request pools

**OSTPrime** has the ledger of base coins of the chain and the inherited ledger
of tokens; the two assertions of the code (`UnwrapAssert`, `WrapAssert`) are
guards, as a failed assertion loses the call. Transfers are between any accounts,
the co-gateway among them, and tokens can be sent to the contract itself, which
makes it hold more than it owes. **CoinPool** is the same contract seen from
outside: what it holds of each and what exists.

**ProxyRequests** is what `OSTComposer` and `RedeemPool` share: requests as the
hashes that record them, the amount taken into custody, proxies with owners that
can be destroyed and deployed again, and at each gateway the nonce and the open
process of a proxy. Gateways are external here and keep only that; the bounty
they ask for may change at any time, and they take only an amount above the
maximum reward (`RewardIsCovered`), which the pools do not check. **OSTComposer**
adds the second mapping, the two approvals of `StakerProxy.approveTransfers`, the
zero-beneficiary check, and the activation and deactivation of the gateways,
without which `EIP20Gateway.stake` refuses; the co-gateways have none. **RedeemPool** the bounty that is sent along in coins. **Requests** is the abstract
pool: an amount in custody goes to the gateway or back, in full and once. **ProxyContracts** is both
contracts side by side: a behaviour is one of either.

### The core

**BlockStore** holds both stores, `BlockStore.sol` for origin and
`AuxiliaryBlockStore.sol` for auxiliary: reported blocks, checkpoints, heads and
dynasties. `JustifyInStore` is the whole of `justify_` with `finalise`;
`CheckpointAtHeightOf` is the walk that `isAncestorCheckpoint` and `stateRoot`
do. The tree of blocks is a constant; which blocks are reported, and when, is
open. **AuxiliaryCore** adds the polling place and the kernel gateway: `Vote` is a
transaction of `PollingPlace.vote` with everything behind it, the justification,
the activation of a kernel and the update of the validators, which fails as a
whole if any part reverts. Transition hashes are the objects that are hashed, so
a block that is reported again has another one, as in the code. Origin is
external there: `Commit` lets origin commit a transition that has a majority,
and a block of origin carries the kernel that is open in it.

**OriginCore** is `MosaicCore` and `Stake`: `VerifyVote` includes the commit, the
opening of the next kernel and `closeMetaBlock`. Proposals may name the open
kernel or the one that a proposal would open, since `proposeBlock` does not
check it. **MetaBlock** has the two-thirds rule. **ValidatorSet** is what both
sides promise: a meta-block's weights are fixed, and opening the next adds
exactly the announced validators.

### The tools and the tests

**Contract** and **ContractRegistry** are the classes of the deployment tool;
calls that throw keep what they had changed, as in the code. Bytecode is the set
of addresses it contains. `DependenciesCount` is the recursion of
`_getDependenciesCount`, as often as a contract is reached; `InTurn` is one pass over
the ordered contracts that ends where a call throws, first to give addresses
(`Addressed`) and then to instantiate (`InstantiatedNext`).

**Deployment** is `deployContracts` on a live chain whose account sends other
transactions, too, and may lose or fail any of its own. **BlueDeployment** is
the script for both chains from its first question to the co-gateway; a batch of
contracts is one step per contract that matters here.

**IntegrationChains** is a two-chain world small enough to run the whole suite:
balances of every account, the last message of every sender and whether an
anchor can take the head of the other chain; and what the assertion classes
compute from them. **IntegrationTests** is the suite, one action per call with its
preparations and assertions.

**ProofGeneration** is the recorder of proofs: the contracts it calls through its
helpers, the tests of `generator.js`, their rounds, the shared parameter object and
the files. **FuzzyProofGenerator** builds nodes bottom up as the tool does;
**MerklePatriciaProof** has the encoding of nodes and the contract's `verify`, one
action per turn and per exit of its loop. The two are composed: a generated proof is given
to `verify` with its own path or another.

## Runs

| Run | Instance | Shows |
|---|---|---|
| `bus` | a stake and a redeem message, one state root and two storage roots per chain; 1.15 million states | `Atomicity`, `RevocationIsAnswered`, `RootsMatchBuffers`; refines `AtomicTransfer` |
| `bus_revocation` | a stake message, two roots of each kind, fair | finding: `RevocationCompletes` does not hold |
| `gateways` | a stake and a redemption by the account it pays, with rewards of 0 or 1; or three stakes of one account, two of them rivals for nonce 0, with the bounty switching between 0 and 2; 550 thousand states | `TypeOK`, `Escrow`, `Backed`, `RequestsMatchBoxes`, `OpenProcessIsActive`, `ConfirmedInOrder`, `NoncesNeverFall`; refines `MessageBus` |
| `gateways_liveness` | the stake and the redemption, no rewards; 127 thousand states | `ConfirmedIsSettled` |
| `contracts` | the contracts outside the transfer protocol, one per behaviour, see below; 278 thousand states | anchor: refines `RootWindow`; bounty: `ChangesAreNoticed`; OST prime: `AssertsHold`, refines `CoinPool`; origin core: `CommittedByMajority`, refines `ValidatorSet`; auxiliary core: `ActivationIsNotMissed`, `VotesWithinTotal`, `FinalisedIsFinal`, refines `ValidatorSet` |
| `openings` | the auxiliary core of `contracts` alone | finding: `OpeningsStayProvable` does not hold |
| `bounty_notice` | the bounty of `contracts` alone | finding: `EveryChangeIsNoticed` does not hold |
| `requests` | composer or redeem pool, two users, two gateways, five requests, bounty 0 or 1, gateways activated and deactivated; 220 thousand states | `ComposerMappingsAgree`, `Escrow`, `AcceptableWhenIdle`, `NonceKeptWhileOpen`; refines `Requests` |
| `deployment` | three contracts in a chain of dependencies: any use of the registry, a run among other transactions, or the script for both chains run twice; 487 thousand states | `PlansWhatIsClosed`, `DependenciesAreDeployed`, `ReportedIsDeployed`, `RunEnds`, `Paired` |
| `deployment_addresses` | the same registry | finding: `GeneratedIsCreated` does not hold |
| `integration_tests` | the whole suite, transactions that cost 0 or 3; 1.6 thousand states | `AssertionsHold`, `TestsSettle`, `SuiteFinishes` |
| `generators` | each test of the recorder with two rounds; each pattern of up to five nodes with paths of up to three bytes; 1.21 million states | `FilesReplay`, `GeneratorFinishes`, `GeneratedVerifies`, `OnlyOnItsPath` |

Every instance is explored completely. `MCGateways`, `MCContracts`,
`MCRequests`, `MCDeployment` and `MCGenerators` hold components that do not
interact and are checked side by side: a variable that is set in the initial
state (`used`, `contract`, `test`) says which of them a behaviour is about, the
others stay as they start. So one run is the union of its instances, and each
property is about all behaviours that touch its variables.

### Bounds and why they are enough

- *Messages.* Statuses of different messages do not interact in the bus; two
  messages of opposite direction exercise both roles of each box and share the
  roots. In the gateways messages interact through an account's process and
  through the ledgers: one account with two rival messages and a successor, and a
  stake that a redemption depends on, are the smallest cases of each.
- *Roots.* No bound is put on blocks: a status only moves forward, so a chain has
  finitely many blocks that change it. With one slot every report and every proof
  evicts; with two, heights are proven out of order and an evicted height is
  proven again while its state root is there. The liveness run needs a storage
  buffer at least as large as the anchor's: with a smaller one, heights can evict
  each other in turn for ever (the hazard of kind `resource_bound`).
- *Amounts.* A stake of 2 with a reward of 0 or 1 separates amount, fee and
  rest; balances that just suffice make a ledger that pays twice run dry. A
  bounty of 1 makes the 150 percent penalty round down, one of 2 not.
- *Anchor.* Seven heights with gaps let a buffer of three wrap twice. It is
  constructed above height 0, see the observations.
- *Bounty.* Nine blocks (`MaxHeight`) fit two proposals with their unlock periods
  and a replacement; later blocks repeat them.
- *OST prime.* Four coins (`TokensMax`) and two users give every split of both
  ledgers over users, contract and co-gateway.
- *Origin core.* Weights 2 and 1, and a third validator that deposits 1 to 3 at
  any time; three proposals (`MaxProposals`) up to meta-block 4 (`MaxMetaBlock`)
  let a vote be verified before the kernel it is for is open and rivals compete for
  a height.
- *Auxiliary core.* Epochs of one block; six blocks of origin, eight of auxiliary
  and a fork at height 3. Its behaviours come in two kinds, because the product of
  all reports and votes is out of reach. In *voting* (filter `Voting`) blocks up to
  height 3 with the fork are reported in any order and two validators vote freely,
  with up to four target heights, for either chain. In *opening* (filter
  `Opening`) two meta-blocks are committed, proven and activated one after the
  other: links go from a checkpoint to its child, the validator with the majority
  votes (after the first opening with the one that joined, in either order),
  and a block is reported when its parent is justified, during the first opening also
  again. What the filter leaves open is what matters to an opening: when blocks of
  origin are justified relative to those of auxiliary, when kernels are proven and
  when blocks are reported again. `MaxTarget` bounds the target heights.
- *Requests.* One user has a request at each gateway, a rival of it with the same
  nonce and a successor; another user meets him at one gateway. Two proxies
  (`MaxProxies`) allow one replacement. Both gateways take one token, so that the
  pool holds it for requests at either, and one of them has its bounty paid in it. The
  rival offers its whole amount as the reward, the boundary at which the gateway
  refuses; each gateway is activated and deactivated at any time.
- *Deployment.* A chain of three contracts, one with a library to be linked, given in the
  wrong order; nine nonces (`MaxNonce`) fit a failed run, other transactions and a
  whole run. The script runs twice (`MaxRuns`) on chains of five blocks (`MaxHeight`).
- *Integration tests.* The suite is fixed; only the fees vary, per call.
- *Generators.* Two rounds reuse the contracts once. Patterns of five symbols
  contain every neighbourhood of node kinds and both endings; nibbles are binary
  (`Base`), which leaves each branch a way to go wrong; a path of three bytes is cut in
  every way into those nodes. A proof is also given to `verify` with every other
  path of at most two bytes (`MaxOtherPath`).

Symmetry is not used: the accounts and messages of the instances play different
roles. Deadlock is not checked (`CHECK_DEADLOCK FALSE`): the runs come to their
end when every message is closed, every root reported, every block justified or
every test done.

### Fairness

`Fairness` of `Gateways` (and `BusFairness` of the bus) asks that blocks are
mined, that the organization keeps reporting the latest root, that somebody
proves it, and that a step which only needs a proof is taken. All these functions
but the organization's are open to everybody, and whoever completes a transfer is
paid (a bounty on the source, a reward on the target). Nothing is assumed of the
sender or of whoever knows the secret: declaring, revoking and progressing with a
secret are never forced. In `BusFairness` messages are also confirmed, so that
the finding of `bus_revocation` is not one of a message nobody cares for; in
`Gateways` a confirmation is not forced, since the property speaks of messages
that are confirmed.

`RunEnds` takes the steps of a planned run as fair: the tool waits for each
transaction with a timer that polls for its receipt, which the node decides one way or the
other. `SuiteFinishes` and `GeneratorFinishes` take the next call of a test as
fair, which Mocha makes when the one before has returned, and
`GeneratorFinishes` also the callbacks of `fs.writeFile`, each on its own time.

Each property of a passing run has a *mutant*, an operator beside the definition
it replaces that changes it the way a slip in the code would (marked `Mutant:`);
under it TLC finds the property violated. They are used by no specification.
Most type invariants are named by no run. `PrimeTypeOK`, `SharedTypeOK` and
`ComposerTypeOK`, `ContractTypeOK` and `RegistryTypeOK` are part of what is proved
invariant; `BountyTypeOK` and `Anchor`'s `TypeOK` document the values of the
variables.

## Findings

- **A revocation may never be answered** (`bus_revocation`). README.md:18:
  "Messages can also be reverted if they are not yet completed on the target
  chain." If the message is revoked before a root shows it Declared, the target
  can never confirm it, hence never the revocation, and the value stays in escrow.
- **A bounty change without notice** (`bounty_notice`). GatewayBase.sol:333 says
  "Confirm bounty amount change can only be done after unlock period.";
  confirming without a proposal sets the bounty to zero at once.
- **A committed meta-block that can no longer be opened** (`openings`).
  KernelGateway.sol:277 takes "The auxiliary block hash that was used for closing
  the previous meta-block.", whose transition hash must be the one committed on
  origin. `AuxiliaryBlockStore.reportBlock` accepts a block again and overwrites
  what it recorded of origin, so the hash at the block changes and
  `proveBlockOpening` refuses it.
- **Planned addresses that are not created** (`deployment_addresses`).
  address_generators.js:84 promises the address of "the current transaction
  count"; a contract with a fixed address takes a nonce of the plan but none of
  the generator, and every contract after it is planned for another's address.

Observations that have no run of their own:

- `progressOutbox` does not check that the target has confirmed. If the source
  progresses before a root shows the message Declared, the target can never pay.
  (`Atomicity` still holds: the target just never decides.)
- An anchor constructed at height 0 drops that root early, as an unset slot of its
  ring looks like height 0. `AnchorKeepsLatestRoots` assumes another height.
- `MosaicCore.latestBlockHeight` reads a `height` that is never written.
- `proposeBlock` compares the dynasty with that of the last commit only. A
  proposal for the kernel that another proposal would open may be committed after
  it with a dynasty that is not higher, and its opening on auxiliary is not
  excluded; the model of origin has these proposals.
- `justify` gives `updateMetaBlock` the dynasties of the stores as the heights
  below which votes are refused.
- `requestStake` and `requestRedeem` do not check that the amount exceeds the gas
  price times the gas limit, which the gateways require, and `requestStake` not that the
  gateway is active. A request that misses one of them is stored and holds its
  user's place at the gateway, but until the gateway is activated, or for ever, it
  can only be revoked or rejected. `AcceptableWhenIdle` is about the others.
- `destructStakerProxy` looks at no open process: what the gateway pays back for a
  revoked stake goes to the proxy, which may be gone by then.
- Of two contracts with one address the genesis file keeps the later, silently.
- The proof generator does not wait for `fs.writeFile`: a test passes before its
  files are written. `GeneratorFinishes` says that they are at last.
- `assertPatternValidity` takes a pattern of branches alone ("bb"), for which
  `generateByPattern` fails on every path; `GeneratedVerifies` is about the rest.

## Proofs

**MessageBusProofs.** `Atomicity` is not inductive: whether a step is allowed
depends on an entry of the other chain as it was some blocks ago. `BusInv` adds

- `RootsKnown`: every root a gateway holds is of a block the other chain has;
- `ChainIsPast`: every recorded block shows statuses from which the present ones
  were reached (`Reaches`), so a stale proof says what the present can still be;
- `Agreement(m)`: how the two entries of a message constrain each other,
  including that a source which progressed while the target has not can never have
  shown a revocation in any block. That is what forbids the target to refuse.

Each bus function moves one entry forward (`EntryStep`), which keeps the first
two; what remains per function is `Agreement` of that message, from the status
its proof shows. From `BusInvariant` follow `RootsArePast`, `Atomicity`,
`RevocationIsAnswered`, the type invariant, and that every step is a step of
`AtomicTransfer` (`BusImplementsAtomicTransfer`).

`RootsKeepTheirSlots`: the roots a gateway holds are those of the heights in its
ring. Heights are proven in any order, again after they were evicted, and a slot may
be unset, so `RootsMatchBuffers` alone is not inductive: a store deletes the root
of the height it overwrites, which is right only if no other slot has that
height. `RingsInv` adds `NoTwice`, and that reported heights are not above the newest.

**GatewaysProofs.** Every handler is a bus step or leaves the bus alone
(`GatewaysImplementBus`), so all of the above holds of the gateways
(`GatewayTransfersAreAtomic`). `LedgerInv` is the types of the ledgers with
`PendingAmounts` (a pending mint or unstake is the message's amount, which
exceeds its reward): without it the subtraction of the fee could leave the
natural numbers. `TypeCorrect` joins both.

`ProcessInv` is the agreement of request mappings with boxes,
`OpenProcessIsActive`, and `ActiveInv`: an account's active process is a message
of that account on that side. The last is needed to see that the message a
registration deletes is neither open nor another account's. It gives
`RequestsAlwaysMatch` and `OpenProcessesAreActive`. `StoredInv` adds that the
message of an active process is kept even after it is closed: the next nonce is
read from it, so with it `NoncesOnlyGrow` follows. `OrderInv` adds
`DeclaredInOrder`, that a source declares the messages of an account in the order of
their nonces; then what the target confirmed with a nonce below another's cannot
be open on the source, and `TransfersAreInOrder` follows from what the two entries
of a message say of each other.

**SumTheorems.** Sums over finite sets (`SumFunctionOnSet`): what a change of one
summand, of two, or of the set does, and that larger summands have a larger sum. The
library's induction theorems cannot be instantiated, so induction over a finite
set is by contradiction: among the subsets that violate the claim take one of
which no proper subset does, which exists because the inclusion of subsets of a
finite set is well-founded (`SmallestSet`).

**The ledgers, in GatewaysProofs.** `AccountsInv` is a conservation law from which both properties of
the ledgers follow. What a gateway holds is the sum of the amounts, and of the
bounties, of its requests (`RequestsAreEscrowed`). What the vault and the gateway
hold of the value token is the utility token of all accounts and what is in flight
(`Conserved`): a message is in flight from its declaration until the target paid
it out or the source took it back. A message that is revoked on one chain and
progressed on the other would break the law, and that is what `Agreement` of its
two entries excludes. `UtilityIsBacked` is weaker than `Conserved`: what
is in flight to the auxiliary chain may be left out.

**RequestProofs.** The actions of the composer and of the pool are of four kinds
(`StepKind`): a request is made, accepted, removed, or no request is concerned.
What is proved of kinds holds of both contracts. `ProxyInv` has the custody of
requests (`Escrow`), the two mappings, and that a proxy is recorded for the user it
was deployed for (`ProxiesAreOwned`), without which one user's acceptance could move
the nonce of another's request. `OpenRequestsAreEscrowed`,
`ComposerMappingsAlwaysAgree`, `NoncesAreKeptForRequests` and the refinement of the
abstract pool (`RequestsAreKept`) follow. `IdleRequestsAreAcceptable` says of the
composer that the conditions of `acceptStakeRequest` and of all it calls
(`Acceptable`, the guard of the action, which otherwise only assigns) hold of an
open request at an active gateway, for more than its maximum reward, once its proxy is
idle and the worker has the bounty. The amount is there by `Escrow`; that the
beneficiary is not zero, which the gateway checks again, is remembered in `ProxyInv`
(`BeneficiariesAreSet`); the proxy holds what the gateway takes because it has just been
given it, and has approved the sum where amount and bounty are of one token.

**ContractProofs.** An anchor of any size refines `RootWindow`
(`AnchorKeepsLatestRoots`). The ring alone does not say what is oldest; `RingInv`
orders the slots by when they come round (`Before`) and says that older slots hold
smaller heights or none. So the next slot is unset until all are set, and holds the
oldest height from then on; `KeptInv` ties the mapping to the ring. That the ring
is full exactly when `MaxStateRoots` roots are kept is an injection of the
reports into the slots (`Full`). `BountyChangesAreNoticed` needs that a proposal
in force is the one last announced, with its unlock height (`ProposalInv`).
`PrimeInv` says that no coin and no token of OST prime is lost, and that what the
contract holds of both together is at least all coins there are: so no assertion
fails (`AssertionsNeverFail`), and every step is one of `CoinPool`
(`PrimeIsCoinPool`), which owes no more than it holds (`PoolIsCovered`).

**The cores, in ContractProofs.** `FinalisedStaysFinal`: a link that is justified later may
have its target justified again, which stores it as not finalised; that this
never hits a finalised one follows from `FinalityInv`: what is finalised is the
first checkpoint or not above the head, and targets are above both.

`ActivationsAreNotMissed` is the argument that an open kernel, which is
activated only when the dynasty is exactly the one recorded, is not passed over,
and that the update of the polling place cannot be refused at that moment, which
would end justification for good. `KernelInv` has

- `CommitInv`: votes and committed transitions hold a kernel that is active or
  was, so origin is at most one meta-block ahead, and so are its blocks, in
  the order of their heights;
- `RootsInv`: the kernel after the active one is seen only at a head of origin
  that was finalised since the active one was activated, so the dynasty of origin
  has risen above the height the polling place compares it with; a root that was
  proven of such a head keeps that;
- `ProvenInv`: what this means once the kernel is proven, and that the dynasty of
  auxiliary is still below the activation height;
- `SetInv`: who has a weight joined with a kernel that is active or was, so who
  joins with the next one has none.

`WeightInv` is for `VotesStayWithinTotal`: the weight of a vote is at most the
weight of its `Supporters`, the validators whose target height is not below the
vote's. Who voted is among them for ever and cannot add to the vote again, whatever
he voted for since; his weight is the one he voted with; and the total is the sum of
all weights. An activation adds validators who have voted for nothing, and it
is a step of `ValidatorSet` (`AuxiliaryKeepsValidatorSet`).

On origin a vote is counted with the weight of the validator at the height that is
open when it is verified, which may come before the one the vote is for. `SealInv`
says that what a proposal has gathered is at most the weight its voters have now, as
weights of a validator never fall with the height; at the commit these are the
weights the majority is about (`CommitsHaveMajorities`). Deposits that come later
start at a later height, so the meta-blocks committed before keep their
majorities. For `OriginKeepsValidatorSet`, the deposits that start at the height of
a kernel are those it announces, and they are of validators without weight.

**DeploymentProofs.** `RegistryPlansWhatIsClosed`: contracts that are new,
complete and free of cycles are planned, each after all that it depends on. The
order is by `DependenciesCount`, a recursion over the dependencies that ends only
where they have no cycle; that it is defined there, and falls strictly along
dependencies, is by induction over the contracts a contract reaches, again by a
smallest counterexample. From the order follows pass by pass (`AlongSequence`, an
induction by least number) that no call throws: an address is there when a later
contract is instantiated with it.

`DeployInv` is about a run: nothing is mined at a nonce that the deployer has not
used (`ChainInv`), before the plan all contracts are new (`UnplannedInv`), the
plan's transactions have the nonces from the starting nonce and refer to earlier
ones (`ScheduleInv`), and what was sent so far is at the planned addresses
(`ProgressInv`). The last holds although other transactions may take a nonce of the
plan: a transaction whose nonce is taken is refused or never mined, and no other is
sent before its receipt. `DeployInv` gives
`OnlyCompleteContractsAreDeployed` and `ReportsAreTrue`. `ScriptInv` is for
`GatewaysArePaired`: a run that has deployed its co-gateway is done, so no run adds a
second one, and the value token the script asked for is the gateway's until then.

**GeneratorProofs.** `RecorderInv` is for `FilesAlwaysReplay`: from the first call
of a round on, the parameter object that all rounds share holds the message of this
round, and all that is recorded is about it and shows the status that its call left.
The records are those of the calls of the test so far (`Called`), so a call
that takes a message or a proof from an earlier record finds it
(`EarlierCalls`, `MessagesAreShared`). A file that is under way keeps its content
whatever comes before it is written.

`FuzzyInv` is for the other tool. Each section starts where those before it end
(`Offset`, a sum over the sections and not a recursion along them) and together they
are the path (`SectionsOK`); each node is made for its section and holds the hash of
the one below (`NodesOK`). While `verify` runs, it is at a node of the proof, having
traversed what the nodes before it take (`OnPath`), or looks for a hash that no node
of the proof has, on a path that is not the proof's (`OffPath`). In the second case it
can only end refusing. In the first, a node leads on if the path agrees with its
section, and to the value only where the path ends. `GeneratedProofsVerify` and
`ProofsAreOfOnePath` follow, for any width of a branch and any lengths.

**IntegrationProofs.** The suite is one sequence of calls, and each test relies on
what the ones before left. `Phases` gives the statuses of the request on its source and
target chain at every position; that every call leads from its statuses to those of
the next is shown once, test by test (`SuiteOrder`, with `Follows`), and the rest of
the proof looks at a call and the statuses around it, never at a position.
`SuiteInv` ties the rest to the statuses: only the request's sender has a process
under way, which is about that request (`ProcessInv`); the gateways hold what
the request has declared and not settled (`HoldingsInv`); and vault and OST prime
differ from the whole supply by what has left one chain and not arrived on the other
(`SupplyInv`). A test ends where the request is over, so all of this is zero
(`TestsAlwaysSettle`); and what an assertion computes from the balances before its
call is what the call does to them, whatever the transactions cost
(`AssertionsAlwaysHold`, for any natural fees).

### Assumptions

The theorems assume what the modules do of their constants, which TLC evaluates on
every run, and nothing else:

- sizes and amounts are natural numbers, buffers and periods are not zero
  (`BufferAssumption`, `BalanceAssumption`, `AnchorAssumption`,
  `BountyAssumption`, the numbers in the others);
- messages and requests have one sender, nonce and amount, requests one maximum reward,
  which their hashes commit to
  (`MessageAssumption`, `GatewayAssumption`, `RequestAssumption`), gateways one token
  each (`BaseTokenAssumption`, `CoinAssumption`);
- what transactions cost is a natural number (`FeeAssumption`), a test records at
  least one round (`RoundsAssumption`), a branch has at least two keys and paths
  have at least one byte (`BaseAssumption`, `GeneratorAssumption`);
- there are finitely many messages, accounts, requests, validators and contracts
  (`FiniteAssumption`, `PrimeAssumption`, `RequestAssumption`, `VoterAssumption`,
  `OriginAssumption`, `ContractAssumption`): hashes have 32 bytes and addresses 20;
- contracts have addresses of their own, and users and the worker call from others
  (`GatewayAssumption`, `AccountAssumption`, `PrimeAssumption`). That the worker is
  not a user is assumed of the requests alone;
- the blocks of each chain form a tree (`BlockAssumption`);
- kernels announce distinct validators, with weights, and the first announces none
  (`VoterAssumption`), as `Stake` takes one deposit per validator and `MosaicCore`
  opens the first kernel without updates. For origin this is proved as part of
  `OriginKeepsValidatorSet`;
- what stands for no address, no code, no root or no request is not one of them, the
  nonces of the model fit one run of the contracts given, and addresses are numbers
  (`ContractAssumption`, `StartsAssumption`, `DeploymentAssumption`).

Messages, accounts, buffers, balances, heights, blocks, validators and contracts are
otherwise arbitrary. `AnchorKeepsLatestRoots` has one more hypothesis, that the anchor is not
constructed at height 0.

### Only model-checked

- Liveness under fairness (`ConfirmedIsSettled`, `RunEnds`, `SuiteFinishes`,
  `GeneratorFinishes`): out of the prover's reach. That no call of the suite reverts is
  therefore checked by TLC alone, for the fees of the run. So are the four findings, as
  counterexamples.
- Every other property that a run checks is stated by a theorem. `AcceptableWhenIdle`
  says that the guard of `AcceptStakeRequest` holds; that the action is then enabled, which
  is not said in the model, is clear from its assignments.
- `ActivationIsNotMissed`, `FinalisedIsFinal` and `VotesWithinTotal` are proved of the
  auxiliary core as it is specified; the filters `Voting` and `Opening` bound the run alone.

## Not modelled

- `RLP`, `RLPEncode`, `BytesLib`, `Block` headers and the hashing in `MetaBlock`:
  byte-level computations, abstracted to identities, to the value a hash is taken
  of and to what a root commits to. Signatures are valid. A height whose account
  proof fails is not proven; the block an anchor is deployed with is older than
  the gateways and is such a height.
- Tokens that return false instead of reverting, and re-entry from a token; the
  latter is what `Mutex` guards against. A transaction is one atomic step.
- Roles (`Organized`): who may call is modelled only where it decides what
  happens (staker, redeemer, facilitator, worker).
- `Stake.logout`, `withdraw` and `slash`, which revert whatever they are given; the gas
  fields of a meta-block, which are guarded as the dynasty is.
- `tools/build_package.js`, `contract_interact_generator.js`,
  `merge_chainspec_accounts.js` and the migrations: one pass over files or one
  call of the deployer each, without state. The unit tests (`src/test`) are read
  as documentation of the contracts.

## Plan

1. *Done.* Message bus, roots, gateways, anchor, bounty change; their first theorems.
2. *Done.* Requests and their pools, OST prime, both cores with their abstract
   specifications, the deployment tools, the integration tests and the generators.
3. *Done.* Theorems on the anchor, the bounty, finality and the activation of kernels.
4. *Done.* Theorems on the ledgers, the order of messages, the requests, OST prime,
   the votes on both chains and the deployment; the other refinements.
5. *Done.* Theorems on the generators, on when a request can be accepted and on the
   integration tests.
6. Open: that what a kernel announces on origin satisfies what `VoterAssumption` asks of it
   on auxiliary, by a module that composes both cores.
