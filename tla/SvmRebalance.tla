---------------------------- MODULE SvmRebalance ----------------------------
(***************************************************************************)
(* Across, scripts/svm: the scripts an operator runs to move USDC between  *)
(* the HubPool on Ethereum and the SpokePool on Solana and to pause        *)
(* deposits there, and the one that tries a repayment of relayers on the   *)
(* SpokePool itself.  A script is a list of steps, each a transaction on   *)
(* one chain or a wait for Circle; it may stop between any two and be run  *)
(* again, with the hash of the transaction it had already sent.            *)
(***************************************************************************)
EXTENDS Integers, Sequences, SequencesExt

CONSTANTS
  Terminals,        \* where an operator runs scripts
  Amounts,          \* netSendAmount, and numberOfRelayersToRepay
  CrossDomainAdmin, \* whom the program on Solana obeys: "hubPool" or "signer"
  Reserves,         \* USDC of the HubPool at first
  Savings,          \* USDC of the operator on Solana at first
  MaxMessages,      \* bound on CCTP messages
  MaxCrashes        \* bound on scripts that stop half way

ASSUME RebalanceAssumption ==
  /\ Amounts \subseteq Nat \ {0}
  /\ CrossDomainAdmin \in {"hubPool", "signer"}
  /\ {Reserves, Savings, MaxMessages, MaxCrashes} \subseteq Nat

VARIABLES
  run,              \* the script on each terminal
  wallet,           \* the operator's bond tokens, the HubPool's allowance, USDC on Solana
  hub,              \* the proposal of the HubPool, and its USDC
  messages,         \* CCTP messages by nonce
  attested, used,   \* nonces that Circle attested, and that were received
  spoke,            \* the program on Solana
  leafTx,           \* transactions sent and not confirmed
  crashes

rebalanceVars == <<run, wallet, hub, messages, attested, used, spoke, leafTx, crashes>>

Idle == [script |-> "none", todo |-> <<>>, amount |-> 0, message |-> 0, bundle |-> 0]

\* The one leaf of a refund root: what goes back to the HubPool, what the
\* relayers get.
NoRefunds(amount) == [amount |-> amount, refunds |-> 0]
NoParams == [bundle |-> 0, leaf |-> NoRefunds(0)]

------------------------------------------------------------------------------
\* The scripts

ProposeToHub == <<"noActiveProposal", "deposit", "approve", "propose">>
ProposeToSpoke == <<"noActiveProposal", "deposit", "approve", "propose">>
ExecuteToSpoke == <<"send", "attestation", "receive">>
ExecuteToHub == <<"rootBundlePda", "send", "attestation", "receive", "lastBundle">>
ExecuteLeaf == <<"closeParams", "loadParams", "sendLeaf", "closeParams">>
BridgeLiability == <<"liability", "bridgeTokens", "attestation", "usedNonces", "receive">>
RemotePause == <<"send", "attestation", "receive">>
HubPoolPause == <<"send", "attestation", "receive">>
FakeRepayment == <<"depositTokens", "rootBundlePda", "relayRootBundle">> \o ExecuteLeaf

Program ==
  [proposeToHub |-> ProposeToHub, proposeToSpoke |-> ProposeToSpoke,
   tokens |-> ExecuteToSpoke, bundle |-> ExecuteToHub \o ExecuteLeaf,
   liability |-> BridgeLiability, remotePause |-> RemotePause,
   hubPoolPause |-> HubPoolPause, fakeRepayment |-> FakeRepayment]

\* A script is named for the message it sends; these take --resumeRemoteTx.
Resumable == {"tokens", "bundle", "remotePause", "hubPoolPause"}

RebalanceInit ==
  /\ run = [t \in Terminals |-> Idle]
  /\ wallet = [bond |-> 0, allowance |-> 0, tokens |-> Savings]
  /\ hub = [root |-> <<>>, amount |-> 0, live |-> FALSE, claimed |-> TRUE,
            reserves |-> Reserves]
  /\ messages = <<>> /\ attested = {} /\ used = {}
  /\ spoke = [bundles |-> <<>>, executed |-> {}, vault |-> 0, liability |-> 0,
              paused |-> FALSE, params |-> NoParams]
  /\ leafTx = {}
  /\ crashes = 0

Start(t, script, amount, resume) ==
  /\ run[t] = Idle
  /\ run' = [run EXCEPT ![t] = [script |-> script, todo |-> Program[script],
                                amount |-> amount, message |-> resume, bundle |-> 0]]
  /\ UNCHANGED <<wallet, hub, messages, attested, used, spoke, leafTx, crashes>>

------------------------------------------------------------------------------
\* Steps.  Each is what a script may do next, with the value of its record.

At(t, step) == run[t].todo # <<>> /\ Head(run[t].todo) = step
Next1(t, s) ==
  run' = [run EXCEPT ![t] = IF Len(s.todo) = 1 THEN Idle ELSE [s EXCEPT !.todo = Tail(@)]]
Advance(t) == Next1(t, run[t])

Unclaimed == ~ hub.claimed

NoActiveProposal(t) ==
  /\ At(t, "noActiveProposal") /\ ~ Unclaimed /\ Advance(t)
  /\ UNCHANGED <<wallet, hub, messages, attested, used, spoke, leafTx, crashes>>

\* The bond is one unit: the script tops up what is missing.
Deposit(t) ==
  /\ At(t, "deposit") /\ Advance(t)
  /\ wallet' = [wallet EXCEPT !.bond = IF @ < 1 THEN 1 ELSE @]
  /\ UNCHANGED <<hub, messages, attested, used, spoke, leafTx, crashes>>

Approve(t) ==
  /\ At(t, "approve") /\ Advance(t)
  /\ wallet' = [wallet EXCEPT !.allowance = IF @ < 1 THEN 1 ELSE @]
  /\ UNCHANGED <<hub, messages, attested, used, spoke, leafTx, crashes>>

\* The root of a rebalance to the HubPool does not depend on the amount:
\* that is in the relayer refund root only.
PoolRebalanceRoot(script, amount) ==
  IF script \in {"proposeToHub", "bundle"} THEN <<"toHub">> ELSE <<"toSpoke", amount>>

Propose(t) ==
  /\ At(t, "propose") /\ ~ Unclaimed /\ wallet.bond > 0 /\ wallet.allowance > 0
  /\ wallet' = [wallet EXCEPT !.bond = @ - 1, !.allowance = @ - 1]
  /\ hub' = [hub EXCEPT !.root = PoolRebalanceRoot(run[t].script, run[t].amount),
                        !.amount = run[t].amount, !.live = TRUE, !.claimed = FALSE]
  /\ Advance(t)
  /\ UNCHANGED <<messages, attested, used, spoke, leafTx, crashes>>

\* What executeRebalance... checks before executeRootBundle.
MayExecute(t) ==
  /\ ~ hub.live
  /\ ~ hub.claimed
  /\ hub.root = PoolRebalanceRoot(run[t].script, run[t].amount)
  /\ run[t].script = "tokens" => run[t].amount <= hub.reserves

\* Mutant: --resumeRemoteTx is read too late.
ResumedNever(t) == run[t].script \notin Resumable

Resumed(t) == run[t].script \in Resumable /\ run[t].message # 0

\* The transaction on the source chain, unless it is in the past already.
CanSend(t) ==
  /\ Len(messages) < MaxMessages
  /\ run[t].script \in {"tokens", "bundle"} => MayExecute(t)

Send(t) ==
  /\ At(t, "send") /\ ~ Resumed(t) /\ CanSend(t)
  /\ LET s == run[t] IN
     /\ messages' = Append(messages,
          [kind |-> s.script, value |-> IF s.script = "bundle" THEN hub.amount ELSE s.amount])
     /\ hub' = CASE s.script = "tokens" -> [hub EXCEPT !.claimed = TRUE, !.reserves = @ - s.amount]
                 [] s.script = "bundle" -> [hub EXCEPT !.claimed = TRUE]
                 [] OTHER -> hub
     /\ wallet' = [wallet EXCEPT !.bond = IF s.script \in {"tokens", "bundle"} THEN @ + 1 ELSE @]
     /\ Next1(t, [s EXCEPT !.message = Len(messages) + 1])
  /\ UNCHANGED <<attested, used, spoke, leafTx, crashes>>

Skip(t) ==
  /\ At(t, "send") /\ Resumed(t) /\ Advance(t)
  /\ UNCHANGED <<wallet, hub, messages, attested, used, spoke, leafTx, crashes>>

\* bridgeTokensToHubPool burns what is owed, if the vault has it.
CanBridge(t) ==
  /\ Len(messages) < MaxMessages
  /\ run[t].amount <= spoke.liability
  /\ run[t].amount <= spoke.vault

BridgeTokens(t) ==
  /\ At(t, "bridgeTokens") /\ CanBridge(t)
  /\ LET s == run[t] IN
     /\ messages' = Append(messages, [kind |-> s.script, value |-> s.amount])
     /\ spoke' = [spoke EXCEPT !.liability = @ - s.amount, !.vault = @ - s.amount]
     /\ Next1(t, [s EXCEPT !.message = Len(messages) + 1])
  /\ UNCHANGED <<wallet, hub, attested, used, leafTx, crashes>>

\* getMessages polls while the service has an error or says PENDING.
Attested(n) == n \in attested

GetMessages(t) ==
  /\ At(t, "attestation") /\ Attested(run[t].message) /\ Advance(t)
  /\ UNCHANGED <<wallet, hub, messages, attested, used, spoke, leafTx, crashes>>

\* executeRebalanceToHubPool derives the account of the next root bundle
\* when it starts, and the message must create just that account.
RootBundlePda(t) ==
  /\ At(t, "rootBundlePda")
  /\ Next1(t, [run[t] EXCEPT !.bundle = Len(spoke.bundles)])
  /\ UNCHANGED <<wallet, hub, messages, attested, used, spoke, leafTx, crashes>>

\* The program takes calls from its admin only; tokens need none.
Accepted(n) ==
  CASE messages[n].kind \in {"bundle", "hubPoolPause"} -> CrossDomainAdmin = "hubPool"
    [] messages[n].kind = "remotePause" -> CrossDomainAdmin = "signer"
    [] OTHER -> TRUE

CanReceive(t) ==
  /\ Attested(run[t].message)
  /\ Accepted(run[t].message)
  /\ run[t].message \notin used
  /\ run[t].script = "bundle" => run[t].bundle = Len(spoke.bundles)

Received(n) ==
  LET m == messages[n] IN
  /\ used' = used \cup {n}
  /\ spoke' = CASE m.kind = "bundle" -> [spoke EXCEPT !.bundles = Append(@, NoRefunds(m.value))]
                [] m.kind = "tokens" -> [spoke EXCEPT !.vault = @ + m.value]
                [] m.kind = "liability" -> spoke
                [] OTHER -> [spoke EXCEPT !.paused = (m.value = 1)]
  /\ hub' = IF m.kind = "liability" THEN [hub EXCEPT !.reserves = @ + m.value] ELSE hub

Receive(t) ==
  /\ At(t, "receive") /\ CanReceive(t) /\ Received(run[t].message) /\ Advance(t)
  /\ UNCHANGED <<wallet, messages, attested, leafTx, crashes>>

\* simpleFakeRelayerRepayment repays 1 to the first relayer, 2 to the second...
FakeLeaf(relayers) == [amount |-> 0, refunds |-> (relayers * (relayers + 1)) \div 2]

\* It first deposits what the refunds take from the vault.
CanDeposit(t) ==
  /\ ~ spoke.paused
  /\ FakeLeaf(run[t].amount).refunds <= wallet.tokens

DepositTokens(t) ==
  /\ At(t, "depositTokens") /\ CanDeposit(t) /\ Advance(t)
  /\ LET total == FakeLeaf(run[t].amount).refunds IN
     /\ wallet' = [wallet EXCEPT !.tokens = @ - total]
     /\ spoke' = [spoke EXCEPT !.vault = @ + total]
  /\ UNCHANGED <<hub, messages, attested, used, leafTx, crashes>>

\* It relays the root itself, as the owner of the program, into the account
\* that was the next one when it looked.
RelayRootBundle(t) ==
  /\ At(t, "relayRootBundle") /\ run[t].bundle = Len(spoke.bundles) /\ Advance(t)
  /\ spoke' = [spoke EXCEPT !.bundles = Append(@, FakeLeaf(run[t].amount))]
  /\ UNCHANGED <<wallet, hub, messages, attested, used, leafTx, crashes>>

\* The leaf that is executed is that of the newest bundle at this moment.
LastBundle(t) ==
  /\ At(t, "lastBundle")
  /\ Next1(t, [run[t] EXCEPT !.bundle = Len(spoke.bundles) - 1])
  /\ UNCHANGED <<wallet, hub, messages, attested, used, spoke, leafTx, crashes>>

\* One account of instruction parameters per signer; loading closes an old one.
CloseParams(t) ==
  /\ At(t, "closeParams") /\ (Len(run[t].todo) > 1 \/ spoke.params # NoParams) /\ Advance(t)
  /\ spoke' = [spoke EXCEPT !.params = NoParams]
  /\ UNCHANGED <<wallet, hub, messages, attested, used, leafTx, crashes>>

Leaf(t) ==
  [bundle |-> run[t].bundle + 1,
   leaf |-> IF run[t].script = "fakeRepayment" THEN FakeLeaf(run[t].amount)
            ELSE NoRefunds(run[t].amount)]

LoadParams(t) ==
  /\ At(t, "loadParams") /\ spoke.params = NoParams /\ Advance(t)
  /\ spoke' = [spoke EXCEPT !.params = Leaf(t)]
  /\ UNCHANGED <<wallet, hub, messages, attested, used, leafTx, crashes>>

\* The program checks the parameters against the bundle: by simulation
\* when the transaction is sent, and again when it lands.
ValidLeaf(leaf) ==
  /\ spoke.params = leaf
  /\ leaf.bundle \notin spoke.executed
  /\ spoke.bundles[leaf.bundle] = leaf.leaf
  /\ leaf.leaf.refunds <= spoke.vault

SendLeaf(t) ==
  /\ At(t, "sendLeaf")
  /\ IF ValidLeaf(Leaf(t))
     THEN leafTx' = leafTx \cup {Leaf(t)} /\ Advance(t)
     ELSE UNCHANGED leafTx /\ run' = [run EXCEPT ![t] = Idle]
  /\ UNCHANGED <<wallet, hub, messages, attested, used, spoke, crashes>>

\* bridgeLiabilityToHubPool reads what is owed and stops when that is nothing.
Liability(t) ==
  /\ At(t, "liability")
  /\ IF spoke.liability = 0 THEN run' = [run EXCEPT ![t] = Idle]
     ELSE Next1(t, [run[t] EXCEPT !.amount = spoke.liability])
  /\ UNCHANGED <<wallet, hub, messages, attested, used, spoke, leafTx, crashes>>

UsedNonces(t) ==
  /\ At(t, "usedNonces")
  /\ IF run[t].message \in used THEN run' = [run EXCEPT ![t] = Idle] ELSE Advance(t)
  /\ UNCHANGED <<wallet, hub, messages, attested, used, spoke, leafTx, crashes>>

\* A step that cannot be taken throws, and the script ends.
Throws(t) ==
  /\ \/ At(t, "noActiveProposal") /\ Unclaimed
     \/ At(t, "propose") /\ (Unclaimed \/ wallet.bond = 0 \/ wallet.allowance = 0)
     \/ At(t, "send") /\ ~ Resumed(t) /\ ~ CanSend(t)
     \/ At(t, "receive") /\ ~ CanReceive(t)
     \/ At(t, "bridgeTokens") /\ ~ CanBridge(t)
     \/ At(t, "depositTokens") /\ ~ CanDeposit(t)
     \/ At(t, "relayRootBundle") /\ run[t].bundle # Len(spoke.bundles)
     \/ At(t, "closeParams") /\ Len(run[t].todo) = 1 /\ spoke.params = NoParams
     \/ At(t, "loadParams") /\ spoke.params # NoParams
  /\ run' = [run EXCEPT ![t] = Idle]
  /\ UNCHANGED <<wallet, hub, messages, attested, used, spoke, leafTx, crashes>>

Step(t) ==
  \/ Throws(t) \/ NoActiveProposal(t) \/ Deposit(t) \/ Approve(t) \/ Propose(t)
  \/ Send(t) \/ Skip(t) \/ BridgeTokens(t) \/ GetMessages(t) \/ RootBundlePda(t)
  \/ Receive(t) \/ DepositTokens(t) \/ RelayRootBundle(t) \/ LastBundle(t) \/ CloseParams(t)
  \/ LoadParams(t) \/ SendLeaf(t) \/ Liability(t) \/ UsedNonces(t)

------------------------------------------------------------------------------
\* The operator, the chains and Circle

\* Four of the scripts take a netSendAmount, one a number, two whether to pause.
AmountsOf(script) ==
  CASE script = "liability" -> {0}
    [] script \in {"remotePause", "hubPoolPause"} -> {0, 1}
    [] OTHER -> Amounts

StartAny ==
  \E t \in Terminals, s \in DOMAIN Program : \E a \in AmountsOf(s) : Start(t, s, a, 0)

\* Run the script of a message again with --resumeRemoteTx.
Resume(n) ==
  /\ n \in DOMAIN messages /\ n \notin used
  /\ messages[n].kind \in Resumable
  /\ \E t \in Terminals, a \in AmountsOf(messages[n].kind) : Start(t, messages[n].kind, a, n)

Crash ==
  /\ crashes < MaxCrashes
  /\ \E t \in Terminals : run[t] # Idle /\ run' = [run EXCEPT ![t] = Idle]
  /\ crashes' = crashes + 1
  /\ UNCHANGED <<wallet, hub, messages, attested, used, spoke, leafTx>>

PassLiveness ==
  /\ hub.live /\ hub' = [hub EXCEPT !.live = FALSE]
  /\ UNCHANGED <<run, wallet, messages, attested, used, spoke, leafTx, crashes>>

Attest(n) ==
  /\ n \in DOMAIN messages \ attested
  /\ attested' = attested \cup {n}
  /\ UNCHANGED <<run, wallet, hub, messages, used, spoke, leafTx, crashes>>

\* Anyone may hand an attested message to the chain it is for.
Relay(n) ==
  /\ Attested(n) /\ Accepted(n) /\ n \notin used /\ Received(n)
  /\ UNCHANGED <<run, wallet, messages, attested, leafTx, crashes>>

\* A transaction is included or expires.
Land ==
  /\ \E leaf \in leafTx, included \in BOOLEAN :
       /\ leafTx' = leafTx \ {leaf}
       /\ spoke' = IF included /\ ValidLeaf(leaf)
                   THEN [spoke EXCEPT !.liability = @ + leaf.leaf.amount,
                                      !.vault = @ - leaf.leaf.refunds,
                                      !.executed = @ \cup {leaf.bundle}]
                   ELSE spoke
  /\ UNCHANGED <<run, wallet, hub, messages, attested, used, crashes>>

RebalanceNext ==
  \/ StartAny
  \/ \E n \in DOMAIN messages : Resume(n) \/ Attest(n) \/ Relay(n)
  \/ \E t \in Terminals : Step(t)
  \/ Crash \/ PassLiveness \/ Land

\* The operator keeps going back to a call that has not arrived, no script
\* that could go on stands still, and Circle attests.
RebalanceFairness ==
  /\ \A t \in Terminals : WF_rebalanceVars(Step(t))
  /\ \A n \in 1..MaxMessages : WF_rebalanceVars(Attest(n)) /\ SF_rebalanceVars(Resume(n))

RebalanceSpec == RebalanceInit /\ [][RebalanceNext]_rebalanceVars /\ RebalanceFairness

------------------------------------------------------------------------------
\* A remote call of the admin that was sent arrives, whatever stops the scripts on the
\* way: executeRebalanceToSpokePool, executeRebalanceToHubPool and the
\* pause scripts go on from the hash of the transaction they had sent.
RemoteCallsArrive ==
  \A n \in 1..MaxMessages :
    (n \in DOMAIN messages /\ messages[n].kind \in Resumable /\ Accepted(n)) ~> (n \in used)

=============================================================================
