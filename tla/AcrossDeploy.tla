---------------------------- MODULE AcrossDeploy ----------------------------
(***************************************************************************)
(* Across, deploy/: one script per contract, run network by network.  A    *)
(* script takes addresses of other contracts from the maps of consts.ts    *)
(* and from earlier deployments; it throws when one is missing.  SpokePool *)
(* scripts deploy a proxy, or only an implementation when deployments.json *)
(* names a SpokePool of the chain already.                                 *)
(***************************************************************************)
EXTENDS Integers, FiniteSets

CONSTANTS
  Rollouts,         \* networks whose scripts are run
  Recorded,         \* networks with a SpokePool in deployments.json at first
  CctpDomains,      \* networks that PUBLIC_NETWORKS gives a CCTP domain
  MaxProxies        \* bound on proxies of a network

ASSUME DeployAssumption == MaxProxies \in Nat

VARIABLES
  network,          \* the chain being rolled out
  deployed,         \* contracts deployed for it, on it and on its hub
  proxies,          \* SpokePool proxies on it
  recorded          \* whether deployments.json names one

deployVars == <<network, deployed, proxies, recorded>>

------------------------------------------------------------------------------
\* hardhat.config.ts: companionNetworks.l1 of a network

OnMainnet == {"mainnet", "zksync", "optimism", "arbitrum", "polygon", "bsc", "boba", "base", "ink",
              "linea", "scroll", "polygon-zk-evm", "mode", "lens", "lisk", "redstone", "blast",
              "worldchain", "zora", "alephzero", "soneium", "unichain"}
OnSepolia == {"sepolia", "optimism-sepolia", "arbitrum-sepolia", "polygon-amoy", "base-sepolia",
              "scroll-sepolia", "mode-sepolia", "tatara", "lens-sepolia", "lisk-sepolia",
              "blast-sepolia", "unichain-sepolia"}
Networks == OnMainnet \cup OnSepolia

HubOf(n) == IF n \in OnMainnet THEN "mainnet" ELSE "sepolia"

------------------------------------------------------------------------------
\* consts.ts: the addresses that are known, by chain

Shared == {"finder", "l1ArbitrumInbox", "l1ERC20GatewayRouter", "polygonRootChainManager",
           "polygonFxRoot", "polygonERC20Predicate", "polygonRegistry", "polygonDepositManager",
           "cctpTokenMessenger", "cctpMessageTransmitter", "lineaMessageService",
           "lineaTokenBridge", "scrollERC20GatewayRouter", "scrollMessengerRelay",
           "scrollGasPriceOracle", "donationBox", "zkBridgeHub"}

L1AddressMap ==
  [mainnet |-> Shared \cup
     {"cctpV2TokenMessenger", "blastYieldManager", "blastDaiRetriever", "l1AlephZeroInbox",
      "l1AlephZeroERC20GatewayRouter", "hubPoolStore", "zkUsdcSharedBridge_lens",
      "zkUsdcSharedBridge_zksync"},
   sepolia |-> Shared \cup {"usdc"}]

Messenger == {"L1CrossDomainMessenger", "L1StandardBridge"}

OpStackAddressMap(hub, chain) ==
  LET known == IF hub = "mainnet"
                 THEN {"base", "boba", "blast", "unichain", "ink", "lisk", "mode", "optimism",
                       "redstone", "soneium", "worldchain", "zora"}
                 ELSE {"base-sepolia", "blast-sepolia", "lisk-sepolia", "mode-sepolia",
                       "optimism-sepolia", "unichain-sepolia"}
      more == CASE chain \in {"blast", "blast-sepolia"} -> {"L1BlastBridge"}
                [] chain \in {"ink", "lisk", "soneium", "worldchain"} -> {"L1OpUSDCBridgeAdapter"}
                [] OTHER -> {}
  IN  IF chain \in known THEN Messenger \cup more ELSE {}

Cctp == {"cctpTokenMessenger", "cctpMessageTransmitter"}
Swaps == {"uniswapV3SwapRouter", "1inchV6Router"}
ScrollL2 == {"scrollERC20GatewayRouter", "scrollGasPriceOracle", "scrollMessenger"}

L2AddressMap(n) ==
  CASE n = "alephzero" -> {"l2GatewayRouter"}
    [] n = "arbitrum-sepolia" -> {"l2GatewayRouter"} \cup Cctp
    [] n = "arbitrum" -> {"l2GatewayRouter"} \cup Cctp \cup Swaps
    [] n = "bsc" -> {"helios"}
    [] n = "polygon" -> {"fxChild"} \cup Cctp \cup Swaps
    [] n = "polygon-amoy" -> {"fxChild"} \cup Cctp
    [] n = "zksync" -> {"zkErc20Bridge", "cctpTokenMessenger = 0", "1inchV6Router"}
    [] n \in {"optimism", "base"} -> Cctp \cup Swaps
    [] n \in {"optimism-sepolia", "base-sepolia"} -> Cctp \cup {"uniswapV3SwapRouter"}
    [] n = "lens" -> {"zkErc20Bridge", "zkUSDCBridge", "cctpTokenMessenger = 0"}
    [] n = "lens-sepolia" -> {"zkErc20Bridge"}
    [] n = "linea" -> {"lineaMessageService", "cctpV2TokenMessenger", "lineaTokenBridge"}
    [] n \in {"scroll", "scroll-sepolia"} -> ScrollL2
    [] n \in {"unichain", "unichain-sepolia"} -> Cctp
    [] OTHER -> {}

------------------------------------------------------------------------------
\* What a script deploys: on the hub or on the chain itself, for which chains,
\* the addresses it takes, the contracts that must be there, and the way the
\* contract moves USDC: either version of CCTP, the bridge for Circle's bridged
\* USDC of the OP stack or of the ZK stack, the canonical bridge of the chain as
\* for any other token, or none.

Plain(contract) ==
  [contract |-> contract, on |-> "hub", serves |-> {"mainnet", "sepolia"}, l1 |-> {},
   opChain |-> "none", op |-> {}, l2 |-> {}, after |-> {}, usdc |-> "none", valid |-> TRUE]

OnHub(contract, chains, l1) == [Plain(contract) EXCEPT !.serves = chains, !.l1 = l1]

CanonicalAdapter(contract, chains, l1) == [OnHub(contract, chains, l1) EXCEPT !.usdc = "canonical"]

OpStackAdapter(contract, chain) ==
  [CanonicalAdapter(contract, {chain}, {}) EXCEPT !.opChain = chain, !.op = Messenger]

CctpAdapter(script) ==
  [script EXCEPT !.l1 = @ \cup {"cctpTokenMessenger"}, !.usdc = "cctp"]

SpokePool(contract, chains, l2) ==
  [Plain(contract) EXCEPT !.on = "spoke", !.serves = chains, !.l2 = l2, !.after = {"HubPool"},
                          !.usdc = "canonical"]

CctpSpokePool(contract, chains, l2) ==
  [SpokePool(contract, chains, l2 \cup {"cctpTokenMessenger"}) EXCEPT !.usdc = "cctp"]

\* The hub chain
HubPoolScript == OnHub("HubPool", Networks, {"finder"})
EthereumAdapter == [Plain("Ethereum_Adapter") EXCEPT !.after = {"HubPool"}]
EthereumSpokePool == SpokePool("Ethereum_SpokePool", {"mainnet", "sepolia"}, {})
ConfigStore == Plain("AcrossConfigStore")
MerkleDistributor == Plain("AcrossMerkleDistributor")
BondTokenScript == [Plain("BondToken") EXCEPT !.after = {"HubPool"}]
HubPoolStore == [OnHub("HubPoolStore", {"mainnet", "sepolia", "bsc"}, {}) EXCEPT !.after = {"HubPool"}]
MintableERC1155 == Plain("MintableERC1155")
DonationBox == Plain("DonationBox")
Multicall3 == Plain("Multicall3")
Multicallhandler == Plain("Multicallhandler")
SpokePoolVerifier == Plain("SpokePoolVerifier")
UpgradeSpokePool == [Plain("Ethereum_SpokePool implementation") EXCEPT !.after = {"Ethereum_SpokePool"}]

\* OP stack chains
OptimismAdapter == CctpAdapter(OpStackAdapter("Optimism_Adapter", "optimism"))
OptimismSpokePool == CctpSpokePool("Optimism_SpokePool", {"optimism", "optimism-sepolia"}, {})
BaseAdapter == CctpAdapter(OpStackAdapter("Base_Adapter", "base"))
\* Mutant: deployed without a CCTP messenger, as Lisk_SpokePool is.
BaseSpokePoolWithoutCctp == SpokePool("Base_SpokePool", {"base", "base-sepolia"}, {})
BaseSpokePool == CctpSpokePool("Base_SpokePool", {"base", "base-sepolia"}, {})
BobaAdapter == [OpStackAdapter("Boba_Adapter", "boba") EXCEPT !.after = {"HubPool"}]
BobaSpokePool == SpokePool("Boba_SpokePool", {"boba"}, {})
ModeAdapter == [OpStackAdapter("Mode_Adapter", "mode") EXCEPT !.opChain = "boba"]
ModeSpokePool == SpokePool("Mode_SpokePool", {"mode", "mode-sepolia"}, {})
LiskAdapter == OpStackAdapter("Lisk_Adapter", "lisk")
OpUsdcSpokePool(contract, chains) == [SpokePool(contract, chains, {}) EXCEPT !.usdc = "opUsdc"]
LiskSpokePool == OpUsdcSpokePool("Lisk_SpokePool", {"lisk", "lisk-sepolia"})
RedstoneAdapter == OpStackAdapter("Redstone_Adapter", "redstone")
RedstoneSpokePool == SpokePool("Redstone_SpokePool", {"redstone"}, {})
ZoraAdapter == OpStackAdapter("Zora_Adapter", "zora")
ZoraSpokePool == SpokePool("Zora_SpokePool", {"zora"}, {})
\* The map calls it L1OpUSDCBridgeAdapter.
WorldChainAdapter ==
  [OpStackAdapter("OP_Adapter", "worldchain") EXCEPT !.op = @ \cup {"L1OpUSDCBridge"}, !.usdc = "opUsdc"]
WorldChainSpokePool == OpUsdcSpokePool("WorldChain_SpokePool", {"worldchain"})
OpAdapter(chain) ==
  [OpStackAdapter("OP_Adapter", chain) EXCEPT !.op = @ \cup {"L1OpUSDCBridgeAdapter"}, !.usdc = "opUsdc"]
\* Constructed without an address of USDC, so that none is special.
InkSpokePool == SpokePool("Ink_SpokePool", {"ink"}, {})
CherSpokePool == OpUsdcSpokePool("Cher_SpokePool", {"soneium"})
DoctorWhoAdapter(chain) == CctpAdapter(OpStackAdapter("DoctorWho_Adapter", chain))
DoctorWhoSpokePool == CctpSpokePool("DoctorWho_SpokePool", {"unichain", "unichain-sepolia"}, {})

\* Blast; "200_000" is no number.
BlastAdapter ==
  [OpStackAdapter("Blast_Adapter", "blast") EXCEPT !.op = @ \cup {"L1BlastBridge"},
                                                   !.after = {"HubPool"}, !.valid = FALSE]
BlastSpokePool == [SpokePool("Blast_SpokePool", {"blast", "blast-sepolia"}, {}) EXCEPT !.l1 = {"blastDaiRetriever"}]
BlastDaiRetriever == [OnHub("Blast_DaiRetriever", {"blast"}, {"blastYieldManager", "dai"}) EXCEPT !.after = {"HubPool"}]
BlastRescueAdapter == [OnHub("Blast_RescueAdapter", {"blast"}, {"blastYieldManager"}) EXCEPT !.after = {"HubPool"}]

\* Arbitrum and Orbit chains
ArbitrumAdapter ==
  CctpAdapter(OnHub("Arbitrum_Adapter", {"arbitrum", "arbitrum-sepolia"}, {"l1ArbitrumInbox", "l1ERC20GatewayRouter"}))
ArbitrumSpokePool == CctpSpokePool("Arbitrum_SpokePool", {"arbitrum", "arbitrum-sepolia"}, {"l2GatewayRouter"})
ArbitrumRescueAdapter == OnHub("Arbitrum_RescueAdapter", {"arbitrum"}, {"l1ArbitrumInbox"})
ArbitrumSendTokensAdapter == OnHub("Arbitrum_SendTokensAdapter", {"arbitrum"}, {"l1ERC20GatewayRouter"})
AlephZeroAdapter ==
  CanonicalAdapter("Arbitrum_CustomGasToken_Adapter", {"alephzero"},
        {"l1AlephZeroInbox", "l1AlephZeroERC20GatewayRouter", "donationBox"})
AlephZeroSpokePool == SpokePool("AlephZero_SpokePool", {"alephzero"}, {"l2GatewayRouter"})

\* Polygon
PolygonTokenBridgerL1 == [OnHub("PolygonTokenBridger L1", {"polygon", "polygon-amoy"}, {"polygonRegistry"}) EXCEPT !.after = {"HubPool"}]
PolygonAdapter ==
  CctpAdapter(OnHub("Polygon_Adapter", {"polygon", "polygon-amoy"},
    {"polygonRootChainManager", "polygonFxRoot", "polygonDepositManager", "polygonERC20Predicate"}))
PolygonTokenBridgerL2 == [PolygonTokenBridgerL1 EXCEPT !.contract = "PolygonTokenBridger L2"]
PolygonSpokePool == CctpSpokePool("Polygon_SpokePool", {"polygon", "polygon-amoy"}, {"fxChild"})
PolygonZkEvmAdapter == [CanonicalAdapter("PolygonZkEVM_Adapter", {"polygon-zk-evm"}, {"polygonZkEvmBridge"}) EXCEPT !.after = {"HubPool"}]
PolygonZkEvmSpokePool == SpokePool("PolygonZkEVM_SpokePool", {"polygon-zk-evm"}, {"polygonZkEvmBridge"})

\* Scroll, Linea
ScrollAdapter ==
  CanonicalAdapter("Scroll_Adapter", {"scroll", "scroll-sepolia"}, {"scrollERC20GatewayRouter", "scrollMessengerRelay", "scrollGasPriceOracle"})
ScrollSpokePool == SpokePool("Scroll_SpokePool", {"scroll", "scroll-sepolia"}, {"scrollERC20GatewayRouter", "scrollMessenger"})
LineaAdapter ==
  [OnHub("Linea_Adapter", {"linea"}, {"lineaMessageService", "lineaTokenBridge", "cctpV2TokenMessenger"}) EXCEPT !.usdc = "cctpV2"]
LineaSpokePool ==
  [SpokePool("Linea_SpokePool", {"linea"}, {"lineaMessageService", "lineaTokenBridge", "cctpV2TokenMessenger"}) EXCEPT !.usdc = "cctpV2"]

\* ZK stack: exactly one of the two ways for USDC, or neither.
ZkSpokePool(contract, n) ==
  LET bridge == "zkUSDCBridge" \in L2AddressMap(n)
      noCctp == "cctpTokenMessenger = 0" \in L2AddressMap(n)
  IN  [SpokePool(contract, {n}, {"zkErc20Bridge"}) EXCEPT
         !.valid = noCctp,
         !.usdc = IF bridge THEN "zkBridge" ELSE "canonical"]
ZkSyncAdapter == CanonicalAdapter("ZkSync_Adapter", {"zksync"}, {})
ZkSyncSpokePool == ZkSpokePool("ZkSync_SpokePool", "zksync")
LensSpokePool(n) == ZkSpokePool("Lens_SpokePool", n)
ZkStackCustomGasTokenAdapter ==
  [OnHub("ZkStack_CustomGasToken_Adapter", {"lens"}, {"zkBridgeHub", "zkUsdcSharedBridge_lens", "donationBox"}) EXCEPT !.usdc = "zkBridge"]
ZkStackAdapter ==
  [OnHub("ZkStack_Adapter", {"lens-sepolia"}, {"zkBridgeHub", "zkUsdcSharedBridge_lens"}) EXCEPT !.usdc = "zkBridge"]
MulticallHandlerZk == [Plain("MulticallHandler") EXCEPT !.on = "spoke", !.serves = {"zksync"}]
SpokePoolVerifierZk == [Plain("SpokePoolVerifier zk") EXCEPT !.on = "spoke", !.serves = {"zksync"}]

\* No bridge of its own: Tatara, Solana, and whatever Helios proves.
TataraSpokePool ==
  [SpokePool("Tatara_SpokePool", {"tatara"}, {}) EXCEPT !.after = {}, !.usdc = "none"]
SolanaAdapter ==
  [CctpAdapter(OnHub("Solana_Adapter", {"mainnet", "sepolia"}, {"cctpMessageTransmitter"})) EXCEPT !.usdc = "solana"]
UniversalAdapter(chain) ==
  LET script == [OnHub("Universal_Adapter", {chain}, {}) EXCEPT !.after = {"HubPoolStore"}]
  IN  IF chain \in CctpDomains THEN CctpAdapter(script) ELSE script
UniversalSpokePool(chain) ==
  [SpokePool("Universal_SpokePool", {chain}, {"helios"}) EXCEPT
     !.l1 = {"hubPoolStore"},
     !.usdc = IF "cctpTokenMessenger" \in L2AddressMap(chain) THEN "cctp" ELSE "none"]

\* Periphery, next to a recorded SpokePool.
Periphery(contract, l2) ==
  [Plain(contract) EXCEPT !.on = "spoke", !.l2 = l2, !.after = {"recorded SpokePool"},
     !.serves = {"arbitrum", "polygon", "optimism", "base", "zksync"}]
UniswapSwapAndBridge == Periphery("UniswapV3_SwapAndBridge", {"uniswapV3SwapRouter"})
UniswapUniversalSwapAndBridge == Periphery("UniswapV3_UniversalSwapAndBridge", {"uniswapV3SwapRouter"})
OneInchSwapAndBridge == Periphery("1inch_SwapAndBridge", {"1inchV6Router"})
OneInchUniversalSwapAndBridge == Periphery("1inch_UniversalSwapAndBridge", {"1inchV6Router"})

Scripts ==
  {HubPoolScript, EthereumAdapter, EthereumSpokePool, ConfigStore, MerkleDistributor, BondTokenScript,
   HubPoolStore, MintableERC1155, DonationBox, Multicall3, Multicallhandler, SpokePoolVerifier,
   UpgradeSpokePool, OptimismAdapter, OptimismSpokePool, BaseAdapter, BaseSpokePool, BobaAdapter,
   BobaSpokePool, ModeAdapter, ModeSpokePool, LiskAdapter, LiskSpokePool, RedstoneAdapter,
   RedstoneSpokePool, ZoraAdapter, ZoraSpokePool, WorldChainAdapter, WorldChainSpokePool,
   InkSpokePool, CherSpokePool, DoctorWhoSpokePool, BlastAdapter, BlastSpokePool,
   BlastDaiRetriever, BlastRescueAdapter, ArbitrumAdapter, ArbitrumSpokePool,
   ArbitrumRescueAdapter, ArbitrumSendTokensAdapter, AlephZeroAdapter, AlephZeroSpokePool,
   PolygonTokenBridgerL1, PolygonAdapter, PolygonTokenBridgerL2, PolygonSpokePool,
   PolygonZkEvmAdapter, PolygonZkEvmSpokePool, ScrollAdapter, ScrollSpokePool, LineaAdapter,
   LineaSpokePool, ZkSyncAdapter, ZkSyncSpokePool, ZkStackCustomGasTokenAdapter, ZkStackAdapter,
   MulticallHandlerZk, SpokePoolVerifierZk, TataraSpokePool, SolanaAdapter, UniversalAdapter("bsc"),
   UniversalSpokePool("bsc"), UniswapSwapAndBridge, UniswapUniversalSwapAndBridge,
   OneInchSwapAndBridge, OneInchUniversalSwapAndBridge, DoctorWhoAdapter("unichain"),
   DoctorWhoAdapter("unichain-sepolia"), LensSpokePool("lens"), LensSpokePool("lens-sepolia")}
  \cup {OpAdapter(n) : n \in {"ink", "lisk", "soneium", "worldchain"}}

------------------------------------------------------------------------------
IsSpokePool(s) == s.on = "spoke" /\ ("HubPool" \in s.after \/ s = TataraSpokePool)

\* Every argument is defined; otherwise the script throws.
Defined(s) ==
  /\ s.valid
  /\ s.l1 \subseteq L1AddressMap[HubOf(network)]
  /\ s.op \subseteq OpStackAddressMap(HubOf(network), s.opChain)
  /\ s.l2 \subseteq L2AddressMap(network)
  /\ \A c \in s.after : IF c = "recorded SpokePool" THEN recorded
                        ELSE \E d \in deployed : d.contract = c

DeployInit ==
  /\ network = "none" /\ deployed = {} /\ proxies = 0 /\ recorded = FALSE

Rollout(n) ==
  /\ network = "none"
  /\ network' = n /\ recorded' = (n \in Recorded)
  /\ UNCHANGED <<deployed, proxies>>

\* hre.deployments.deploy
DeployContract(s) ==
  /\ network \in s.serves /\ ~ IsSpokePool(s) /\ Defined(s)
  /\ deployed' = deployed \cup {s}
  /\ UNCHANGED <<network, proxies, recorded>>

\* deployNewProxy and the zk scripts
DeployNewProxy(s) ==
  /\ network \in s.serves /\ IsSpokePool(s) /\ Defined(s)
  /\ ~ recorded => proxies < MaxProxies
  /\ proxies' = IF recorded THEN proxies ELSE proxies + 1
  /\ deployed' = deployed \cup {s}
  /\ UNCHANGED <<network, recorded>>

\* deployments.json is edited by hand: processHardhatExport looks the name of
\* a SpokePool up before it strips the network from it, and gives up.
Record ==
  /\ proxies > 0 /\ ~ recorded
  /\ recorded' = TRUE
  /\ UNCHANGED <<network, deployed, proxies>>

DeployNext ==
  \/ \E n \in Rollouts : Rollout(n)
  \/ \E s \in Scripts : DeployContract(s) \/ DeployNewProxy(s)
  \/ Record

DeploySpec == DeployInit /\ [][DeployNext]_deployVars

------------------------------------------------------------------------------
Adapters == {s \in deployed : s.on = "hub" /\ s.serves \intersect {"mainnet", "sepolia"} = {}}

\* The two ends of a chain are deployed by different scripts, from different
\* maps: they agree on how USDC crosses, whatever else was deployed and in
\* whatever order, but for two pairs that disagree in the code: Lisk_Adapter,
\* which OP_Adapter can replace, sends USDC over the standard bridge while
\* Lisk_SpokePool returns it over the bridge for Circle's bridged USDC, and on
\* Ink it is the other way round.
SidesAgreeOnUsdc ==
  \A a \in Adapters, s \in deployed :
    IsSpokePool(s) /\ a.usdc # "none" =>
      (a.usdc = s.usdc <=> ~ (a.contract = "Lisk_Adapter" \/ s.contract = "Ink_SpokePool"))

\* Mode_Adapter.sol names its messenger the "Mode system contract": an adapter
\* is built on the messenger of the chain it serves.
AdaptersReachTheirChain ==
  \A a \in deployed : a.opChain # "none" => a.opChain \in a.serves

==============================================================================
