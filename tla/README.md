# Specifications of the bridges

This directory is a verification development for the bridges under
`src/bridges/`: contracts in Solidity, the SDK that drives one of them and the
scripts that deploy and operate them.  It contains TLA+ modules that model them,
TLC configurations that check them on small instances, and theorems that TLAPS
proves for every value of the constants.

`PROJECT.json` links everything to the source.  `map` names the lines each
definition stands for.  `hazards` lists what is hard to test and which
property would catch it.  `mutants` shows, for each property, a plausible bug
that breaks it.

- [The system](#the-system)
- [What is modelled](#what-is-modelled)
- [Meson](#meson), [Meson's SDK](#mesons-sdk), [Stargate](#stargate), [Across](#across)
- [Deployment and operation](#deployment-and-operation)
- [Runs](#runs), [Proofs](#proofs)
- [Disagreements with the documentation](#disagreements-with-the-documentation)
- [What is not modelled](#what-is-not-modelled)
- [Plan](#plan)

## The system

The repository is a collection of eight bridges that do not call each other.
A bridge is a set of contracts on several chains that share no state.  What ties
the chains together is a message layer, a canonical bridge, signatures or
clocks.  A contract call is atomic, and concurrency lies between calls: any
account may call at any time, and messages between chains arrive late.

Around the contracts are TypeScript programs.  The SDK reads chains through nodes
that fail and lag, and builds transactions that others build at the same time.
The scripts of operators are sequences of transactions that may stop between any
two.  What they know of the chain was read before.

| bridge | components | state | operations | interaction | hard behaviour |
|---|---|---|---|---|---|
| Meson | swaps, pools, management | posted and locked swaps, pool balances, supported tokens | post, bond, cancel, execute; lock, unlock, release, directRelease; deposit, withdraw | two contracts tied by the initiator's release signature and by two clocks | slots that are freed and reused, two clocks, providers that race |
| Stargate | pools with the Delta algorithm, Router and Bridge, fee libraries, OFT token, LP staking | per pair of pools: balance and lkb, credits, ideal balance; cached and reverted messages | swap, redeemLocal, redeemRemote, sendCredits, retryRevert, clearCachedSwap, callDelta | LayerZero messages, in order on each channel | books on two chains, partial failure with retry, messages dropped by the owner, rounding |
| Across | HubPool, SpokePool, adapters, ERC-7683 and periphery | reserves of each L1 token, the root bundle, the bond; deposits and fills on each spoke | propose, dispute, execute; addLiquidity, removeLiquidity; deposit, fill, slow fill, refund | root bundles over adapters; tokens return over canonical bridges | challenge period, optimistic data workers, balances compared to find arrivals |
| Polygon | RootChain, deposits and exits, predicates, staking | checkpoints, exits with priorities, validators | submitHeaderBlock, deposit, startExit, challenge, processExits; stake, unstake, delegate | state sync and checkpoints | exit priorities, exit against challenge, validator turnover |
| Arbitrum | bridge, inboxes, outbox, rollup, edge challenges, staking pools, express lane auction | delayed and sequencer inbox, assertions, edges, spent outputs | enqueue, sequence, force include; stake, confirm, challenge, bisect | delayed messages, confirmed assertions | force inclusion against the sequencer, timers of edges |
| Celer | liquidity bridge, pegged bridge, message bus, apps, staking and governance | withdrawn and transfer ids, minted supply, delayed transfers, validators | send, relay, withdraw; deposit, mint, burn; sendMessage, executeMessage | signatures of the state guardians | replays, delay and volume control, failed execution |
| deBridge | gate, oracles and signatures, call proxy | submissions, reserves, confirmations | send, claim; block, confirm | signatures of oracles | claim once, execution that fails after a claim |
| Meson's SDK | encoding, signing, calls, status, connections, swaps on CKB | clients and their nodes, keys derived for swaps, cells of CKB | build, sign, send, wait; checkSwapStatus; lock, post, settle on CKB | JSON-RPC nodes; the contracts of each family of chains | failover, polling, two chains read one after the other, cells spent by another process |
| scripts of Across, Celer, Arbitrum | deployments, tasks, rebalances, claims, limits, rollups, the BoLD upgrade | files and records of deployments, .env, what was sent and not confirmed | each script | contracts, Circle, explorers, other operators | stops half-way and second runs, config edited between scripts, contracts in use meanwhile |
| Base | deployment scripts | none on chain | deployment | none | the contracts are git submodules and are absent |

What makes each component correct, in one line (the properties below, and those
still planned):

- **Meson**: a swap is atomic.  Both parties end with what they agreed, or both
  have their own back.  The contract can always pay what it owes.
- **Stargate**: instant guaranteed finality.  A transfer that is accepted can
  always be paid at its destination, and no provider loses by it.
- **Across HubPool**: the reserves are all accounted for, the bond does not count
  as liquidity, and a bundle that moved tokens is never disputed.
- **Meson's SDK**: what it says of a swap is what the contracts do and did, and
  whoever waits is answered.
- **Scripts**: nothing sent is forgotten, contracts on record fit together, and
  what is reported as done is done, whatever stopped and was run again.
- **Across SpokePool** (planned): a deposit is filled once or refunded, and
  refunds are paid once.
- **Polygon** (planned): an exit pays once and only for tokens that left;
  checkpoints form a chain without gaps; stakes are conserved.
- **Arbitrum** (planned): a message is sequenced once and in order; one honest
  party wins every challenge; an output is spent once.
- **Celer, deBridge** (planned): an id pays once; what is minted is backed.

## What is modelled

| module | component | source |
|---|---|---|
| `Totals`, `TotalsTheorems` | sums over ledgers, and their laws | shared |
| `MesonStates` | tokens, pools, balances, the fields of a swap | `MesonStates.sol`, `MesonTokens.sol`, `MesonHelpers.sol` |
| `MesonSwap` | initial-chain side | `MesonSwap.sol` |
| `MesonPools` | target-chain side | `MesonPools.sol` |
| `MesonManager` | the whole contract and its owner | `MesonManager.sol`, `UpgradableMeson.sol` |
| `MesonProperties` | what the contract promises | |
| `AtomicSwap` | abstract: a swap between two parties | |
| `MesonProtocol` | two chains and parties that follow the four steps | comments of both contracts |
| `MesonProofs` | theorems of the contract and of the protocol | |
| `StargatePool` | one pool: operators on its record | `Pool.sol`, `LPTokenERC20.sol` |
| `StargateBridge` | all pools, Router, Bridge and channels | `Router.sol`, `Bridge.sol` |
| `StargateProperties` | what it promises | |
| `GuaranteedTransfers` | abstract: a transfer is honoured once, in full | |
| `StargatePoolProofs` | lemmas about one pool: every call of `Pool.sol` | |
| `StargateProofs` | theorems of pools, Router and Bridge | |
| `StargateDelta` | the Delta algorithm by itself | `Pool.sol` |
| `StargateFees` | fees of V02 | `StargateFeeLibraryV02.sol` |
| `OmnichainToken` | the Stargate token | `OmnichainFungibleToken.sol` |
| `LPStaking` | staking | `LPStaking.sol` |
| `StargatePartsProofs` | theorems of Delta, the fees, the token and staking | |
| `HubPool` | the HubPool of Across, and what it promises | `HubPool.sol`, `MerkleLib.sol` |
| `HubPoolProofs` | theorems | |
| `MesonEncoding` | a swap in 32 bytes, its fees and amounts in SDK and contract | `Swap.ts`, `salt.ts`, `MesonHelpers.sol` |
| `MesonSigning` | digests, and keys derived per swap | `SwapSigner.ts`, `SwapWithSigner.ts`, `SignedSwap.ts` |
| `MesonCalls` | calls on five families of chains, and the parsers of their transactions | `adaptors/*/index.ts`, `MesonClient.ts` |
| `MesonConnections` | clients, nodes, failover and waits | `FailoverAdaptors.ts`, `*Adaptor.ts`, `MesonClients.ts` |
| `MesonStatus` | the status of a swap read off two chains | `MesonClient.ts`, `MesonPresets.ts`, `adaptors/*/index.ts` |
| `MesonCkb` | swaps as cells of CKB | `adaptors/ckb/` |
| `MesonSdkProofs` | theorems of `MesonEncoding`, `MesonSigning`, `MesonCalls`, `MesonStatus` and `MesonCkb` | |
| `SvmRebalance` | rebalances and pauses between Ethereum and Solana | `Across/scripts/svm/` |
| `MessageClaims` | scripts that finish messages by hand | `finalizeCCTPMessages.ts`, `claim*.ts`, `finalizeScrollClaims.ts` |
| `EnableToken` | the task that enables a token | `enableL1TokenAcrossEcosystem.ts` |
| `AcrossDeploy` | deployment scripts of Across | `Across/deploy/`, `hardhat.config.ts` |
| `CelerDeploy` | deployment scripts of Celer | `Celer/deploy/` |
| `CelerLimits` | operators, governors and the Sentinel | `Celer/scripts/`, `Celer/contracts/safeguard/` |
| `RollupCreation` | templates, creators and rollups | `Arbitrum/scripts/`, `RollupCreator.sol`, `BridgeCreator.sol` |
| `BoldUpgrade` | the upgrade of a live chain | `*oldUpgrade*.ts`, `BOLDUpgradeAction.sol` |
| `OperationsProofs` | theorems of `MessageClaims`, `EnableToken`, `AcrossDeploy`, `BoldUpgrade`, `RollupCreation`, `CelerDeploy` and `CelerLimits` | |
| `MC*` | instances for TLC | |

Throughout, an action is a whole external call.  Solidity's `require`s and
checked subtractions are guards where they really may fail.  Where they must not
fail, the type invariant says so by typing the result as a natural number.
Variables called "history" in a comment record events.  They are not contract
state and guard nothing.

Where a definition is preceded by a variant with "Mutant:" or "Mutated:" in its
comment, the variant is what `mutants` puts in its place.

## Meson

**State.**  For each chain: `posted` (`_postedSwaps`), `locked`
(`_lockedSwaps`), `balance` (`_balanceOfPoolToken`), the pool registry
(`ownerOfPool`, `poolOfAuthorizedAddr`), `supported` tokens, `held` (the tokens
that the contract really has) and the owner's settings.  `releaseSigs` are the
release signatures that were given out.  `swapLog` and `releases` are history.

**Actions.**  One for each external function of `MesonSwap`, `MesonPools` and
`MesonManager`, on any chain and by any caller.  A swap is the record of the
fields its 256-bit encoding packs, since the properties compare fields and never
bits.  Amounts are in the 6 decimals of the pool balances.

**Interaction.**  `MesonManager` lets anybody call anything, with any release
signature that exists.  `MesonProtocol` restricts the callers to parties that
follow the four steps of the comments:

- A provider locks only a swap that is bonded to its pool.
- The initiator signs only when the lock is there and has time left.
- Everybody meets the deadlines (`MeetsDeadlines`).
- The clocks of the two chains differ by at most `LockMargin`, the five minutes
  of `MesonPools.sol`.

**Properties.**

- `Solvent`: what the contract owes of each asset is covered by what it holds.
- `SettledOnce`: the funds of an encoded swap are collected once and leave once,
  although the slot that guards it is freed.
- `ReleasedOnce` and `BondIsFinal`.
- `NobodyLoses`, `ImplementsAtomicSwap` (refinement of `AtomicSwap`) and
  `NothingStaysLocked` for the protocol.

**Fairness** (`MesonProtocol` only).  Time passes.  Each party takes the step
that pays it: the recipient is released to, the provider executes, expired swaps
are cancelled and expired locks are unlocked.  These calls are in the interest
of the one who makes them, need nobody else's consent and stay enabled.

**Abstractions and assumptions.**

- A token index stays with one ERC20.
- Addresses passed as arguments are not zero.
- Request signatures, salts and the protocol version only authorise a swap and
  are taken as given, as is the premium manager's signature in `directSwap`.
- Decimals conversion is left out.
- ERC20s are well behaved and refuse a zero recipient.
- Stray `msg.value` is kept by the contract.
- An upgrade replaces the code and is outside the model.

## Meson's SDK

Six modules that share no state and are run together by `MCMesonSdk`, one of
them at work (`part`).

- **`MesonEncoding`**.  `request` is what a user gives to `new Swap`, `swap` what
  it builds.  A packed field is a sequence of digits <<field, place>>, so that a
  slice at the wrong offset shows.  `SdkPredictsContract`: `decode` and the
  contract read what was packed, and the fees, the amounts in core token, the
  share of the partner and what the recipient gets are the same on both sides.
  Only for swaps whose token indices and options both sides know
  (`ReadAlike`), and not for the tokens whose minimum fee differs between
  `Swap.ts` and the sample `MesonConfig.sol` (`SameMinimum`).  A price
  is a double.  Where its product with 1e4 has a fraction (`InexactPrices`; the
  smallest such price is 0.0003) no BigNumber can be made of it: the constructor throws, and
  so does `coreTokenAmount` for a swap whose price was compressed to such a one,
  although the contract pays it.  Which prices these are is a constant, since
  TLC has no doubles.  `Constructible`
  says when the constructor throws; a value that is compressed to two bytes has
  at most eleven digits (`Compressible`), more never fit.
- **`MesonSigning`**.  Several swaps are being signed at once; wallets without
  ECDSA sign a message from whose signature a key is derived for each swap.
  `SignaturesVerify`: what is returned passes the check of the SDK and of the
  contract, and request and release name one initiator.  That a wallet signs
  the same message alike is the code's own assumption.
- **`MesonCalls`**.  A call of `MesonClient` becomes a transaction of Solana,
  Sui, Aptos, Starknet or CKB, and `parseTransaction` reads it back.
  `Sent` is the transaction as a node shows it (on Aptos, with arguments or with
  their bytes) and `Parse` what comes out, `Undefined` where the parser sets
  nothing.  `ParsersReadWhatIsSent` covers every field of every call these contract
  objects write: a `directExecuteSwap` on Starknet, which alone has one, and a
  direct release after the expiry, whose signature is all zeros, among them
  (none writes a `postSwap`).  Recipients are compared wherever a parser names one
  (`TellsRecipient`).  The parser for Aptos misreads one thing, and the property
  says so: shown in bytes, a direct release keeps the length of the
  initiator in front of it (`InitiatorTold`; `aptos/index.ts:184-187`, where the
  other cases drop it).
- **`MesonStatus`**.  The storage of each family (which forgets at different
  times), readers that lag, and `checkSwapStatus`.  `StatusTellsTheSwap`: a
  status that a user acts upon was true.  On CKB "Released" only says that the
  swap was locked and no longer is.
- **`MesonCkb`**.  Two processes read, collect and send; a cell is spent once.
  `RefCellsRemember`: until ten periods after a swap expires, it is known to have
  been locked if it was, and has at most one cell.  Later it is not so: once its
  item is dropped, a call that had started before can lock an expired swap again.
  Two processes that make the *first* reference cell of a shard at the same time
  are excluded by the premise `OneRefCell` (hazard at `_findRefCell`).  An item
  counts periods in one byte.  That 255 are enough rests on two limits outside
  this code: a swap is locked at most `MaxAhead` before it expires
  (`MAX_BOND_TIME_PERIOD` of `MesonConfig.sol`, which `verifyEncodedSwap` of
  `MesonSwap.sol` compares on the first chain), and the search for a reference cell takes at most
  `MaxQuery`.
- **`MesonConnections`**.  `WaitsEnd`: whoever waits for a transaction is
  answered.  Waits without a timeout on CKB and TON are excluded: there, a timer is
  cleared before an exception that goes nowhere.  The poll of Bitcoin has no
  `catch` (`BtcAdaptor.ts:145`), and TON wraps the answer outside its own: that
  rejection is nobody's, so the model may end the program (`Uncaught`), as Node.js
  does by default, or go on, as a browser does.  A wait of these two may end so.

**Fairness** (`ConnectionsFairness`).  The chain goes on, its nodes catch up, a
node that was asked answers in the end (a bounded number of requests fails), and
timers fire.  All of this is the environment or the event loop; nothing is
assumed of the user.

## Stargate

**State.**  A pool is the record of the storage of `Pool.sol` in shared
decimals, with one chain path for each other pool.  `asset` is what the pool
holds of its token, and `lp` the LP tokens of each user.  `channel` holds the
LayerZero messages of each ordered pair of chains.  `revertLookup` and
`cachedSwapLookup` are those of the Router.  `dropped` and `settled` are
history.

**Actions.**  Every entry point of the Router for users and relayers, every DAO
setting that touches a pool (`DaoCall`), delivery of the next message
(`Receive`, with the pool call inside its `try` succeeding or failing) and the
owner's `forceResumeReceive`.  Each one is built from the operators of
`StargatePool`, which are the functions of `Pool.sol` on one record.  In
particular the trailing `_delta` of `swap`, `redeemRemote` and `_mintLocal` is
part of the action, with `batched`, `lpDeltaBP` and `swapDeltaBP` as its
conditions.

**Properties.**  These are the audit constraints of the repository's tests
(`test/util/globalBook.js`, `test/util/poolStateHelpers.js`), in every state
with messages in flight, kept for a retry or dropped.

- `BooksBalance`: the amounts have their types, the tokens of a pool are all
  accounted for (`AssetsBooked`), and so is the sum over all chains
  (`GlobalSolvency`).
- `PathsAgree`: the two ends of a path agree up to the messages between them.
- `PromisesKept`: whatever happened since a transfer was accepted, its
  destination can execute it.
- `SharePriceNeverFalls`: no call takes value from other providers.
- `HonoursTransfers`: refinement of `GuaranteedTransfers` under fairness.
- For Delta, `NeverOverspends` (otherwise every deposit would revert) and
  `NothingStaysBehind`, which includes that deficits are filled.
- For the fees, `SplittingDoesNotPay`.  The LP fee of the first part stays on the
  path, so the second part starts that much higher up the curve.  Splitting
  saves what the equilibrium fee on that amount would have been (`Spared`) and
  seven units of rounding (`Slack`), and no more; where a reward takes more off
  the path than the LP fee leaves on it, only the rounding.
- For the token, `Backed`; for staking, `NobodyLockedIn` and
  `RewardsWithinEmission`.

**Fairness** (`stargate_transfers`).  Relayers deliver messages, somebody
answers a redemption and whoever retries succeeds in the end.  A failing retry
leaves the state as it was, so weak fairness asks for one that succeeds.  The DAO
activates both ends of a path that it created.  LayerZero's relayers and anybody
may make these calls, and nothing in the code lets another party prevent them
for ever except a token that refuses the transfer, which is assumed not to.

**Abstractions and assumptions.**

- In the bridge model fees are arbitrary within what `SafeMath` accepts: the
  library is pluggable.  V02 itself is `StargateFees`; V01 charges constant
  rates.
- `convertRate` dust is not taken from the user, and so is not modelled.
- The slippage bound is the user's choice.
- Nobody donates tokens to a pool.
- A call of the token or of a payload that fails, or runs out of gas, is a
  nondeterministic failure.
- A receiver that reenters can do what a later transaction can do.
- Paths are activated only when their counterpart exists.
- `setWeightForChainPath` accepts a weight of zero.  If all weights of a pool are
  zero, the `require` of `_mintLocal` keeps the rest of a redemption from being
  given back, so `PromisesKept` and its theorem ask that the DAO sets no weight
  to zero (`0 \notin Weights`).  The other theorems do not.
- LP token transfers change no total.

## Across

**State.**  `HubPool` keeps, for each L1 token, the `pooledTokens` record (with
the supply of its LP token) and the unclaimed protocol fees.  It also keeps the
open `rootBundleProposal`, the bond and the owner's settings.  `held` is the
balance of the contract.  `outstanding` is what the SpokePools owe of each
token, `paidAhead` the fees that the protocol was paid ahead of the tokens that
come back for them, and `proposals` what became of each proposal; these three are
history.

**Actions.**  One for each external function that changes this state.  A bundle
is the set of its leaves with the leaf count that the proposer announced; the
count may be wrong, since the contract cannot know it.  A Merkle proof is
membership.  `ReceiveTokens` is the environment: a canonical bridge delivers, or
somebody gives tokens, which the contract cannot tell apart.

**Properties.**

- `ReservesBalance`: liquid plus utilized reserves are what is held without the
  bond, plus what is owed, less what the protocol may claim.  Arrivals are only
  found by comparing balances, so that every call that moves a balance could
  break this.
- `LiquidButForClaims`: what the contract holds next to the bond is the liquid
  reserves, to the token, less the fees that the protocol was paid ahead and
  plus what arrived since `_sync` last looked.  The bond may be in the same token
  and is not counted as liquidity.  It is *not* always all there: a claim of fees
  before they came back is paid out of the balance, and as long as it is not made
  good a withdrawal may leave less than the bond, so that `_sync` and a dispute
  revert.  The comment at `HubPool.sol:435` warns of this; the property says by
  how much.
- `FeesCovered`: the numerator of the exchange rate never goes negative.  The
  comment in `_exchangeRateCurrent` promises this.
- `OneFate`: a disputed bundle moved nothing, no leaf executes twice, and the
  bond returns when exactly the announced number of leaves ran.
- `RateNeverFalls`: only the owner's haircut lowers the exchange rate, through
  all roundings and the smearing of fees.

**Abstractions and assumptions.**

- The owner's haircut does not exceed what the providers have, nor what the
  SpokePools owe (up to the bound on gifts).
- Timestamps fit in `uint32`.
- The adapter's delegatecall succeeds or the whole leaf reverts, so that a leaf
  that is not executed is a step not taken.
- UMA's oracle is external: its final fee and its refusal of a request are
  arbitrary.  The disputer's bond passes through the contract in one call, and
  both bonds are then the oracle's business.
- Holdings of single providers are left out; anybody may redeem up to the
  supply.
- `setIdentifier`, `setDepositRoute`, `relaySpokePoolAdminFunction` and
  `loadEthForL2Calls` change nothing that is modelled, and the ETH variants of
  the calls wrap the same transfer.

## Deployment and operation

Eight modules that share no state and are run together by `MCOperations`.  In
all of them a script is a sequence of transactions and reads that may stop
between any two; what it read stays as it was read, and it may be run again.

- **`SvmRebalance`**: an operator on each terminal, the proposal of the HubPool,
  CCTP messages that Circle attests in its own time, the program on Solana with
  its root bundles, its vault, its liability and one account of parameters per
  signer.  The script that tries a repayment out (`fakeRepayment`) deposits what
  its refunds need, relays its root itself as the owner and executes the leaf of
  whatever bundle is then the newest; `Savings` bounds what the operator has for
  it.
  `RemoteCallsArrive`: a remote call that was sent is received, whatever stops.
- **`MessageClaims`**: ranges of blocks queried one after the other, messages to
  claim, claims by others.
  `NoMessageForgotten`: every message the script answers for was claimed or
  its own claim failed.  `AnswersFor` says which: the window without its newest
  block, and on CCTP the first message of a transaction.
- **`EnableToken`**: several runs with any chains, each of which may throw (a
  listed Arbitrum or Optimism that is not among the run's chains) or be stopped.
  With `--depositroutechains` the task takes the other chains for old ones and
  never looks whether they are: it adds deposit routes to them and no rebalance
  routes.  `RoutesCanBeBalanced`: one end of every deposit route can be
  rebalanced, and the other as well unless it is such a chain (`takenForOld`).
- **`AcrossDeploy`**: one definition per script, with the addresses that the maps
  really have, and the way each adapter and SpokePool moves USDC: a version of
  CCTP, the bridge for Circle's bridged USDC of the OP or the ZK stack, or the
  canonical bridge.  `SidesAgreeOnUsdc`: adapter and SpokePool of a chain agree on
  how USDC crosses, but for two pairs, which it says do not: `Lisk_Adapter` sends
  it over the standard bridge (`Lisk_Adapter.sol:90-96`, as it is deployed without a
  CCTP messenger) while `Lisk_SpokePool` returns it over the OpUSDC bridge
  (`Lisk_SpokePool.sol:60-70`); an `OP_Adapter` for Lisk, which script 056 can make,
  agrees with it.  On Ink `OP_Adapter` uses the OpUSDC bridge, and `Ink_SpokePool`
  is constructed with the zero address for USDC (script 057), so that it takes none
  for special.  Nothing in the repository says that these pairs agree.
- **`CelerDeploy`**: `hardhat deploy --tags`, its records and `.env`.
  `RecordsFitTogether` after a run that completed.
- **`CelerLimits`**: governors, pausers, owners, the Sentinel with its guards,
  and the scripts of several operators at the same time.  `SentinelHoldsLimits`
  is an action property: once the Sentinel is the only governor and not relaxed,
  no step loosens a limit.  A cap of zero means "no cap" in `Bridge.sol` and
  counts as lower, as it does in `GuardedGovernor.sol`.
- **`RollupCreation`**: templates in the mempool, allowances in the fee token
  with its decimals, the files written.  `RollupsAreWhole`.
- **`BoldUpgrade`**: between the scripts, and after them, validators stake and
  challenge on the old rollup, its owner pauses and resumes it, forces it to
  confirm and sets its program and the boxes of the bridge, and the config may be
  edited.  The action looks at `MaxRefunds` stakers (50 in the code, one in the
  run, so that some are left).  `ChainMovesAsAWhole`: from the step that makes the
  new rollup on, the old one confirms nothing, since confirming calls the outbox;
  and "upgrade verified" leaves none of the stakers the operator read in the old
  rollup and holds for the program and config it read.  The old rollup itself is
  not in the repository (only its interface is), so that staking and challenges
  there are modelled as external, and a refunded staker, a zombie there, stays one.
  Its owner's calls and the confirmation are taken from the same functions of
  `RollupAdminLogic.sol` and `RollupCore.sol`.  Of the new rollup's own life only
  the delay buffer is modelled, between its threshold and its maximum.

**Fairness** (`RebalanceFairness`, which `MCOperations` states for the part at work).  A script that can go on does, Circle attests
(weak fairness), and the operator resumes a call that did not arrive (strong
fairness, since another script on the same terminal disables it for a while).
The number of stops is bounded; a person who watches a script is what the
`--resumeRemoteTx` options are for.

**Abstractions and assumptions.**  Gas, nonces, verification on explorers (but
for the stops it causes) and log output are left out.  Addresses are names.
Questions that a script asks are arguments.  Contracts are reduced to what the
scripts call.

## Runs

Every run finishes within its bounds without an error, or finds the one
violation it is there for.

| run | shows | bounds and why they suffice |
|---|---|---|
| `meson_contract` | types, solvency, every swap settled, released and bonded once, against any caller | one chain that is both ends of a swap; a swap with core token, service fee and partner share, so that all amounts differ; two callers; four time units, past the expiry and the bond window: each slot is freed and could be reused |
| `meson_protocol` | the four steps are atomic and live | two chains, clocks apart, swaps in both directions, two providers that compete for each; time for expiry, lock and margin to pass on both |
| `meson_core_index` | see below | |
| `stargate` | the books of two chains | two pools, users send while fewer than three messages were sent (answers to redemptions come on top), one drop, fees, LP fees and rewards: a swap, an answer and a credit message overlap, in either direction and against each other |
| `stargate_transfers` | transfers are honoured once | two messages; paths that are created, activated and reweighted meanwhile, payloads whose receiver fails, mint fees, batching |
| `stargate_parts` | Delta; the fee curve; backing; rewards and exits | Delta: three paths (the least at which one deficit is filled and another is not), all distributions up to the bounds, both modes. Fees: the real constants (in 1/100,000 units), balances on each side of each zone boundary and on it, amounts that cross one and two zones, parts that leave an LP fee on the path and are rewarded more or less than it; the LP fee is ten times the library's, so that it shows in amounts this small. Token: three chains, so that tokens travel between two that are not the main one. Staking: two pools added in any block, two stakers, three blocks |
| `stargate_token_burn` | see below | three chains |
| `hub_pool` | the HubPool | one token that is lent and is the bond: with two separate tokens the bond could not be mistaken for liquidity; a bundle whose announced count (2) is less than its leaves (3); two proposals, so that a deleted or finished one is followed by another with another bond; four time units, so that a bundle is executed and its fees smear for a time unit that another call observes; rate 4ths and an LP fee rate of one half, so that both roundings occur |
| `hub_pool_claims` | see below | as `hub_pool` |
| `meson_sdk` | Meson's SDK, six parts | amounts around the minimum fees and the precision of the salt, tokens on both sides of each band of indices; three swaps that differ in chain, typing and network, signed at once; five families; two nodes, one failed request, every class of adaptor and two mixed ones; readers one step behind; two CKB processes, three swaps of which two share a reference cell, a swap that is expired and one 255 periods away, which a reference cell just holds; time for the window to move once, and three transactions |
| `operations` | eight groups of scripts | one terminal with two messages and a stop between any two steps; four messages, two in one transaction and one in the newest block, ranges that divide the window and ranges that do not; two runs of the task; configs that fit, differ and are refused, two validators, one node confirmed meanwhile; every network of `hardhat.config.ts`; six tags with all kinds of dependency, two runs with one edit of `.env` between them; two operators, one guard, two contracts, three scripts, roles renounced at any time and one change of the guards; nine environments, two scripts |
| `across_mode_adapter` | see below | every network |

The bounds on counters (`MaxTime`, `MaxSent`, `MaxHeld`, `MaxLp`, ...) are guards
of the actions that would pass them.  They stop a run, not the system: the
contracts never stop, and `CHECK_DEADLOCK FALSE` is given where a bound can
leave no step.

## Proofs

The theorems hold for any chains, tokens, pools, swaps, bundles, guards, amounts
and times that satisfy the named assumptions on the constants.  Each safety
theorem rests on an inductive invariant.  What follows says which, and why the
property alone is not inductive.

**Meson, the contract** (`MesonProofs`): `TypeCorrect`, `SwapsSettleOnce`,
`SwapsReleaseOnce`, `BondsAreFinal` and `Solvency`.

- `SettledOnce` is not inductive.  Once a slot is freed, nothing in the state of
  the contract says that the swap was there.  The invariant `SlotInv` adds what
  the code relies on: a swap whose slot is empty after it was posted has expired
  so far that the time check of `postSwap` rejects it for ever.
- `LockInv` does the same for locks and says that a lock that exists has amounts
  that can be computed.
- `Solvency` sums ledgers.  `TotalsTheorems` proves that changing one entry
  changes the sum by as much; each call is then an exchange between what is held
  and one or two entries of what is owed.  The theorem covers swaps in the core
  token that the passing run takes one of.

**Meson, the protocol** (`MesonProofs`): `NobodyEverLoses` and `SwapsAreAtomic`,
the safety part of `ImplementsAtomicSwap`.

- The parties call nothing but the contract, so its invariant holds.
  `ProtocolInvariance` adds `SwapTies`, which ties the two chains of one swap
  together.  Until the initiator signs the release, neither leg is paid.
  Afterwards nothing is cancelled, neither leg is idle, and neither deadline has
  passed while its leg is open.
- The margin enters once.  A lock ends before the swap expires by more than the
  clocks can differ, so that whoever still may release on one chain is followed
  in time on the other.  Without that clause `NobodyLoses` is not preserved by
  the passing of time.
- `LegsMove` says for each call which legs it moves and how; the refinement
  follows from it case by case.

**Stargate, pools and transfers** (`StargatePoolProofs`, `StargateProofs`):
`StargateBooks`, `StargatePaths`, `StargatePromises`, `StargatePrice` and
`StargateHonours`, the safety part of `HonoursTransfers`.

- `StargateInv` is one invariant for all of them.  A path agrees with its other
  end only if the messages between them are well formed (`MessagesOK`), exist
  once and in order (`IdsOK`), and go along paths that exist at both ends
  (`PathsOK`).  `GlobalSolvency` and `PathsAgree` are sums over messages, and
  each call moves one summand.
- `StargatePoolProofs` says what each function of `Pool.sol` does to one pool: by
  how much books, paths and price change.  A delivery is then a `Booking` of the
  credits, which stays, and an `Outcome`, which may fail and be kept.
- `StargatePromises` has the hypothesis that the DAO sets no weight to zero.
  `WeightsOK` is the part of the invariant that uses it.
- `StargatePrice` is an action property: every mint and burn rounds in favour of
  the shares that stay (`PriceKept`).
- For `StargateHonours`, `OriginsOK` adds that at most one message stands for a
  transfer and none does once it was honoured.  A transfer that the owner drops
  stays promised.

**Stargate, the parts** (`StargatePartsProofs`).

- `DeltaNeverOverspends` and `DeltaLeavesNothing`: rounded shares of an amount
  add up to no more than it, and to less than one unit per path below it.  Both
  are laws of `TotalsTheorems`.  The second theorem asks for a pool that has a
  path.  Weights are positive, as in the specification.
- `TokenBacked`: the property itself is inductive once the types are known.  The
  work is in moving one entry between three sums.
- `SplittingSavesNothing` is about one state and needs of the others only types.
  The equilibrium fee is the area under a curve between two balances
  (`FeeIsArea`).  Three points of a line, each rounded down, are still in line up
  to one unit (`HeightsInLine`), so that two trapezoids are at least the one
  around them less the rounding (`AreaSplits`).  A swap that crosses a zone is cut
  at its border (`CurveSplits`).  That is about a second part which starts where
  the first ends.  The LP fee lets it start higher: the two parts then cover
  the way down but for its end, where the curve is highest (`HeightRises`), and
  that end costs at most what the same amount costs by itself at the end
  (`AreaGrows`, `CurveLower`).  The roundings add up to `Slack`.
- `StakersLeave` and `RewardsAreEmitted`: no debt is above what its stake has
  accrued (`SoundPool`).  `Budget` is a potential.  What was paid, what stakes
  have accrued above their debts, and what the blocks that pools were not updated
  for will add is covered by what was emitted.  It is scaled by the total of
  points, since each pool divides by it, and it is kept when points and rates
  change because every such call settles all pools first.

**Across, HubPool** (`HubPoolProofs`): `HubTypes`, `HubReserves`, `HubFees`,
`HubLiquidity`, `HubFates` and `HubRate`.

- For each pool `IInv` has the three properties together with "its fees were
  last updated in the past", which makes accumulated fees natural.
- It adds `NoLateDispute`: when no proposal is open it is too late to dispute.
  `disputeRootBundle` never asks whether a proposal is open.  It only compares
  times, so without this clause a dispute of a finished bundle would take a bond
  that is gone.  The clause holds because `executeRootBundle` needs the period
  to be over, strictly, and because a deleted proposal ends at time 0.
- `PoolStep` reduces every call on one pool to what it does to six amounts, and
  `BondStep` does the same for calls that move a bond.  The roundings are in
  `ShareBound` and `RedeemBound`.
- `HubFates`: `FateInv` ties counter and bitmap of the open proposal to its
  history, and says that no leaf ran while it may be disputed.
- `HubRate` is an action property, that of `RateNeverFalls`: every call but the
  haircut keeps value times old supply at least old value times supply.

**Meson's SDK** (`MesonSdkProofs`).

- `SignaturesAlwaysVerify`.  `SameDigests` says that SDK, wallet and contract
  hash the same for every kind of swap.  `SigningInv` follows a key while other
  swaps are signed: the key that is kept for a swap, or with which it is being
  signed, is the swap's own, and is on record before its address is asked for.
- `StatusIsTrue`.  `ChainsInv` says of all that the two chains ever stored, since
  a node may show any of it, that it tells of events that happened; and that a
  swap that was released and has not expired is stored as released.
  `PostedStatusTrue` and `LockStatusTrue` then go through the families: what one
  node shows becomes a status that has its witness.
- `SdkPredicts`.  `Built` says which fields `NewSwap` made of which request.  Five
  fields are read from 32 bytes at their offsets: `PartAt` says where a slice of a
  longer string is, whatever is before and behind it.  A digit of the salt's
  header is a sum of distinct powers of two, so that each option is read back by itself; fees and
  amounts then are the same numbers on both sides.
- `ParsersRead`.  `CallsInv` says that the transaction is the one of a possible
  call and that what was read of it `Tells` that call.  Family by family, a lemma
  (`SolanaTells`, `SuiTells`, ...) follows each argument through the layout of
  its transaction, with the laws of slices and rows of strings, the one initiator
  that Aptos misreads too.  A number whose bytes Aptos shows is turned round twice.
- `CkbRefCells`.  The reference cell tells of all locks so far (`Remembers`): each
  swap that is not over has its item, counted from the cell's own start, and at
  most one cell.  A call in progress found that cell some time ago (`Locking`).
  What it is about to make tells of the same locks, or else the cell it found is
  spent and its transaction is refused.  Moving an item to a new start
  keeps it since it fits in a byte; this is where `MaxAhead` and `MaxQuery` enter.

**Scripts** (`OperationsProofs`).

- `NothingForgotten` (`MessageClaims`).  While a script asks for events it has
  found all those of the blocks before its next range, wherever the ranges are
  cut; from then on each message it answers for waits in the queue or is dealt
  with (`ClaimsInv`).  It does not answer for every message of its window: the
  CCTP script takes the first `MessageSent` of a transaction and drops the others
  (`finalizeCCTPMessages.ts:186`), and a newest block that would be a range of its
  own is never asked for (`:290`).
- `UsdcAgreed` (`AcrossDeploy`).  `UsdcOf` says for each chain how its ends move
  USDC, and `Differs` which two contracts do not do as their chain does.  Every
  script of the directory that makes an end of a chain makes one of
  that kind (`ScriptsConsistent`), and what is deployed serves the chain that is
  rolled out with arguments that were defined.  Its hypothesis is about a table that
  is not in the repository: `PUBLIC_NETWORKS` gives BNB Smart Chain, for which
  `L2_ADDRESS_MAP` has no CCTP messenger, no CCTP domain.  With one, the two
  scripts of that chain would disagree.
- `RoutesBalanced` (`EnableToken`).  The property says nothing about the calls a
  run has still to send.  `PlanBalanced` does: every multicall that is still to be
  sent brings routes one end of which it adds itself, the other too if the HubPool
  has not got it and it was not taken for old.  It survives other steps because the
  HubPool never loses a rebalance route.
- `ChainMoves` (`BoldUpgrade`).  From the upgrade action on, the outbox listens to
  the new rollup, so that no node of the old one is confirmed, and no second
  action runs (`Migrated`).  A run that says "verified" has seen the stakers it
  read refunded and compared the new rollup with the program and the config that
  it read (`Compared`).  A refunded staker cannot stake again, and leaving brings
  nobody into the list (`WithoutLeaves`): what was said stays true even when the
  owner resumes the old rollup.
- `RollupsAreCreatedWhole` (`RollupCreation`).  Every creator names the templates
  of both kinds of fee token, a script that creates has its creator, and the
  local deployment reads a wallet creator only after its templates were set:
  without the last clause the wallets could be those of no creator.
- `RecordsFit` (`CelerDeploy`).  A step that a run has done `Fits`: it is on
  record and built from the .env the run read and from what is on record.  Later
  steps keep it because the scripts of a tag are `Ordered`: names are distinct,
  dependencies come earlier, and no init call is repeated.  That is proved of
  each of the tables.
- `SentinelHolds` (`CelerLimits`), an action property.  The Sentinel counts its
  relaxed guards exactly, through every change of guards and threshold, and is
  relaxed only when they are enough; direct calls need a governor of the
  contract, and through the Sentinel a limit passes only if it is tighter.

**Assumptions on constants** are in the modules that declare them, and every run
evaluates them.  `TagsAssumption` says that a tag is one that some script has.
`CelerLimitsAssumption` says that operators are finitely many accounts, none of
them the Sentinel.  `StatusAssumption` and `CallsAssumption` name the families of
chains, `SigningAssumption` types what differs between swaps, and
`EncodingAssumption` what a request may ask for: tokens of one byte, options that
the SDK has, a track of four bits.  `FeeAssumption` has the order of the zones and
the rates of `StargateFeeLibraryV02.sol` and amounts up to the denominator,
`ZoneAssumption` that a safe zone has a width, by which the code divides.
`CkbAssumption` says that the first cells are plain ones, and that ten periods,
`MaxAhead` and `MaxQuery` fit in the byte of an item.  The rest are types and
bounds.

**What stays with TLC.**

- Liveness: `NothingStaysLocked`, `WaitsEnd`, `RemoteCallsArrive`, and the fairness part of `ImplementsAtomicSwap` and
  `HonoursTransfers`.  Fairness is about `ENABLED`, which the prover does not
  support.

Every invariant and every action property that a passing run checks is stated by a
theorem.

A `CASE` whose alternatives overlap may take any of them, while TLC takes the
first.  Modules that are proved about have alternatives that exclude each other.

## Disagreements with the documentation

Four runs expect a violation of something that the repository says.

- `meson_core_index`: `unlock` credits the core-token part under
  `indexOfToken[address(1)]` as it is at that moment.  If the core token was
  removed after the lock, the amount ends under index 0, which `MesonTokens.sol`
  documents as "unsupported".
- `stargate_token_burn`: a comment in `OmnichainFungibleToken.sol` says that
  tokens sent to the zero address are burnt.  The code compares instead of
  assigning, and so the message reverts and those behind it wait.
- `hub_pool_claims`: `HubPoolInterface.sol` documents `liquidReserves` as funds
  held in the contract.  `claimProtocolFeesCaptured` pays the protocol its share of
  a bundle's fees as soon as the leaf is executed, before any fee came back from
  a SpokePool and so out of the tokens of the providers, and does not lower
  `liquidReserves`.  They stay above what is held until more tokens arrive.
  `LiquidButForClaims`, which is proved, says by exactly how much.

- `across_mode_adapter`: `Mode_Adapter.sol` names its messenger the "Mode system
  contract".  `038_deploy_mode_adapter.ts` takes the addresses of Boba.

## What is not modelled

- **Byte-level code**: Merkle and RLP codecs, signatures, the one-step prover of
  Arbitrum.  Their results are inputs of the models.
- **Proxies and plain tokens**: no control of their own.
- **Scripts that only read, print or test**, the answers of explorers, and the
  deployment scripts of Stargate, deBridge, Polygon and Base.
- **Meson's SDK**: the contracts of Bitcoin and TON, blocks and events, and the
  calls of pools outside a swap.  On CKB: other shards, the signatures of
  wallets, and the check of capacities by a node, which is reduced to sums.
- **Base**: its contracts are in git submodules that are absent.
- **Meson PoD and UCT tokens**, and the Across SpokePool, adapters and
  periphery: see the plan.
- **deBridge, Celer, Polygon and Arbitrum**: see the plan.

## Plan

The order is by how much a model adds over the tests.

1. `AcrossSpoke`: deposits, fills, slow fills, refunds and claims of one
   SpokePool; `fillStatuses` and deferred refunds.  `AcrossSystem` composes two
   of them with `HubPool` and an honest data worker.  Abstract specification: a
   deposit is settled once, by a fill or by a refund.  Bounds: two chains, one
   deposit each way, one slow fill.
2. `DeBridgeGate`: send, claim, oracles with a threshold, blocked submissions;
   abstract specification: what is claimed was sent, once, and is backed.
3. `CelerBridge`: relay, withdraw, pegged mint and burn with delay and volume
   control; the message bus with failed and retried execution.
4. `PolygonCheckpoint` and `PolygonExit`: checkpoints, the exit queue with
   priorities and challenges; `PolygonStaking` conserves stakes and rewards.
5. `ArbitrumInbox` (delayed, sequenced and forced messages), `ArbitrumRollup`
   and `ArbitrumEdges` (assertions, edges and their timers); abstract
   specification: the sequence of messages only grows and holds every delayed
   message once.

Each comes with its theorems: the settlement of deposits and exits, and the
conservation of what a component holds.
