----------------------------- MODULE CelerLimits -----------------------------
(***************************************************************************)
(* Celer, scripts/: operators send the transactions of a script one after  *)
(* the other, each waited for; the first that reverts ends the script and  *)
(* leaves what the earlier ones did.  Scripts of several operators run at  *)
(* the same time.  The contracts check owner and governor; limits may also *)
(* be set through the Sentinel, which is a governor itself and lets its    *)
(* governors only tighten them until enough guards are relaxed.            *)
(***************************************************************************)
EXTENDS Integers, Sequences, FiniteSets, SequencesExt

CONSTANTS
  Operators,        \* accounts that run scripts
  Deployer,         \* the one that deployed the contracts
  Guards,           \* SENTINEL_GUARDS
  SentinelGovernors,\* SENTINEL_GOVERNORS
  Initializer,      \* GOVERNANCE_INITIALIZER
  LimitTokens,      \* tokens
  BasicSettings,    \* what .env may say to set_basics
  LimitSettings,    \* what .env may say to set_limits and sentinel_set_limits
  Live,             \* the contracts that are deployed
  MaxScripts,       \* bound on scripts run
  MaxChanges        \* bound on what owners do without a script

ASSUME CelerLimitsAssumption ==
  /\ Deployer \in Operators /\ Guards \subseteq Operators /\ SentinelGovernors \subseteq Operators
  /\ IsFiniteSet(Operators) /\ "sentinel" \notin Operators /\ Guards # {} /\ MaxScripts \in Nat /\ MaxChanges \in Nat

\* bridge: Bridge, vault: OriginalTokenVault, pegBridge: PeggedTokenBridge,
\* bus: MessageBus, rfq: RFQ, ownerProxy: GovernedOwnerProxy
CelerContracts == {"bridge", "vault", "pegBridge", "bus", "rfq"} \cap Live

Caps == {"MaxSend", "MaxDeposit", "MaxBurn", "EpochVolumeCaps"}
BridgeLimits             == <<"MinAdd", "MinSend", "MaxSend", "EpochVolumeCaps", "DelayThresholds">>
OriginalTokenVaultLimits == <<"MinDeposit", "MaxDeposit", "EpochVolumeCaps", "DelayThresholds">>
PeggedTokenBridgeLimits  == <<"MinBurn", "MaxBurn", "EpochVolumeCaps", "DelayThresholds">>

LimitMethods ==
  [bridge |-> BridgeLimits, vault |-> OriginalTokenVaultLimits, pegBridge |-> PeggedTokenBridgeLimits]
Limited == DOMAIN LimitMethods \cap Live

BridgeBasics            == <<"delayPeriod", "epochLength", "minimalMaxSlippage", "wrap">>
OriginalTokenVaultBasics == <<"delayPeriod", "epochLength", "wrap">>
PeggedTokenBridgeBasics == <<"delayPeriod", "epochLength">>
MessageBusBasics        == <<"liquidityBridge", "pegVault", "pegBridge", "pegVaultV2", "pegBridgeV2">>
NativeBridgeBasics      == <<"nativeVault">>
RFQBasics               == <<"remoteRfqContracts", "feePerc", "treasuryAddr", "nativeWrap">>

\* Settings a governor of the contract may change; the others are its owner's
GovernorSettings == {"delayPeriod", "epochLength", "minimalMaxSlippage", "feePerc"}

VARIABLES
  owner, governors, pausers,        \* of each contract
  values,                           \* the settings that have been given a value
  limits,                           \* limit of each contract, kind and token
  resetSignersAt,                   \* Bridge: "any" time, after "notice", or "never"
  governance,                       \* whether initGov was called
  guardStates, relaxThreshold, numRelaxedGuards, relaxed,   \* the Sentinel
  scripts,                          \* transactions each operator still has to send
  scriptRuns, changes

authority == <<owner, governors, pausers, governance>>
sentinel  == <<guardStates, relaxThreshold, numRelaxedGuards, relaxed>>
celerVars == <<authority, values, limits, resetSignersAt, sentinel, scripts, scriptRuns, changes>>

------------------------------------------------------------------------------
\* The scripts, as the transactions they send

Tx(to, method, arg) == [to |-> to, method |-> method, arg |-> arg]

\* addPauser and addGovernor for every account listed, then what is set
BasicsOf(b, c, settings) ==
  IF c \notin DOMAIN b THEN <<>>
  ELSE [i \in DOMAIN b[c].pausers |-> Tx(c, "addPauser", b[c].pausers[i])]
    \o [i \in DOMAIN b[c].governors |-> Tx(c, "addGovernor", b[c].governors[i])]
    \o LET given == SelectSeq(settings, LAMBDA v : v \in b[c].given)
       IN [i \in DOMAIN given |-> Tx(c, "set", given[i])]

NoAccounts(b, c) ==
  IF c \in DOMAIN b THEN [x \in {c} |-> [b[c] EXCEPT !.pausers = <<>>, !.governors = <<>>]] ELSE <<>>

SetBasics(b) ==
  BasicsOf(b, "bridge", BridgeBasics)
    \o BasicsOf(b, "vault", OriginalTokenVaultBasics)
    \o BasicsOf(b, "pegBridge", PeggedTokenBridgeBasics)
    \o BasicsOf(NoAccounts(b, "bus"), "bus", MessageBusBasics)
    \o BasicsOf(NoAccounts(b, "pegBridge"), "pegBridge", NativeBridgeBasics)
    \o BasicsOf(b, "rfq", RFQBasics)

\* Amounts are set only when there are as many as there are decimals;
\* otherwise the limit is skipped in silence
SetLimitIfSpecified(s, c, kind) ==
  IF kind \in DOMAIN s[c].amounts /\ Len(s[c].amounts[kind]) = s[c].decimals
    THEN <<Tx(c, kind, [tokens |-> s[c].tokens, amounts |-> s[c].amounts[kind]])>>
    ELSE <<>>

LimitsOf(s, c) ==
  IF c \notin DOMAIN s \/ s[c].tokens = <<>> THEN <<>>
  ELSE FlattenSeq([i \in DOMAIN LimitMethods[c] |-> SetLimitIfSpecified(s, c, LimitMethods[c][i])])

SetLimits(s) == LimitsOf(s, "bridge") \o LimitsOf(s, "vault") \o LimitsOf(s, "pegBridge")

\* The same through the Sentinel, with the contract as target
BySentinel(tx) == Tx("sentinel", "limit", tx)
SentinelLimitsOf(s, c) == LET txs == LimitsOf(s, c) IN [i \in DOMAIN txs |-> BySentinel(txs[i])]

SentinelSetLimits(s) ==
  SentinelLimitsOf(s, "bridge") \o SentinelLimitsOf(s, "vault") \o SentinelLimitsOf(s, "pegBridge")

GuardScript       == <<Tx("sentinel", "guard", 0)>>
RelaxScript       == <<Tx("sentinel", "relax", 0)>>
InitGov           == <<Tx("ownerProxy", "initGov", 0)>>
ResetSigners      == <<Tx("bridge", "resetSigners", 0)>>
SetMsgFees        == <<Tx("bus", "set", "feeBase"), Tx("bus", "set", "feePerByte")>>
TransferOwnership(c) == <<Tx(c, "transferOwnership", "ownerProxy")>>

------------------------------------------------------------------------------
CelerLimitsInit ==
  /\ owner = [c \in CelerContracts |-> Deployer]
  /\ governors = [c \in CelerContracts \ {"bus"} |-> {Deployer}]
  /\ pausers = [c \in CelerContracts \ {"bus"} |-> {Deployer}]
  /\ values = {}
  /\ limits = [c \in Limited |-> [k \in ToSet(LimitMethods[c]) |-> [t \in LimitTokens |-> 0]]]
  /\ resetSignersAt = "any"
  /\ governance = FALSE
  /\ guardStates = [a \in Operators |-> IF a \in Guards THEN "guarded" ELSE "none"]
  /\ relaxThreshold = Cardinality(Guards) /\ numRelaxedGuards = 0 /\ relaxed = FALSE
  /\ scripts = [a \in Operators |-> <<>>]
  /\ scriptRuns = 0 /\ changes = 0

RunScript(a, txs) ==
  /\ scripts[a] = <<>> /\ txs # <<>> /\ scriptRuns < MaxScripts
  /\ scripts' = [scripts EXCEPT ![a] = txs] /\ scriptRuns' = scriptRuns + 1
  /\ UNCHANGED <<authority, values, limits, resetSignersAt, sentinel, changes>>

RunAny(a) ==
  \/ \E b \in BasicSettings : RunScript(a, SetBasics(b))
  \/ \E s \in LimitSettings : RunScript(a, SetLimits(s)) \/ RunScript(a, SentinelSetLimits(s))
  \/ \E txs \in {GuardScript, RelaxScript, InitGov, ResetSigners} : RunScript(a, txs)
  \/ "bus" \in Live /\ RunScript(a, SetMsgFees)
  \/ \E c \in CelerContracts : RunScript(a, TransferOwnership(c))

------------------------------------------------------------------------------
\* The contracts

\* A governor of the Sentinel may only raise minimums and thresholds and
\* lower caps while it is not relaxed
OnlyTightens(c, kind, l) ==
  /\ Len(l.amounts) >= Len(l.tokens)
  /\ \A i \in DOMAIN l.tokens :
       LET current == limits[c][kind][l.tokens[i]]
       IN IF kind \in Caps THEN l.amounts[i] < current ELSE l.amounts[i] > current

\* address[] and uint256[]: no other arguments can be encoded
MaySetLimit(caller, tx) ==
  /\ tx.arg \in [tokens : Seq(LimitTokens), amounts : Seq(Nat)]
  /\ caller \in governors[tx.to] /\ Len(tx.arg.tokens) = Len(tx.arg.amounts)

Succeeds(a, tx) ==
  CASE tx.method = "addPauser"   -> a = owner[tx.to] /\ tx.arg \notin pausers[tx.to]
    [] tx.method = "addGovernor" -> a = owner[tx.to] /\ tx.arg \notin governors[tx.to]
    [] tx.method = "set"         -> IF tx.arg \in GovernorSettings THEN a \in governors[tx.to]
                                                                  ELSE a = owner[tx.to]
    [] tx.method = "transferOwnership" -> a = owner[tx.to]
    [] tx.method = "initGov"      -> a = Initializer /\ ~governance
    [] tx.method = "resetSigners" -> a = owner[tx.to] /\ resetSignersAt # "never"
    [] tx.method = "guard"       -> guardStates[a] = "relaxed"
    [] tx.method = "relax"       -> guardStates[a] = "guarded"
    [] tx.method = "limit"       -> /\ a \in SentinelGovernors
                                    /\ relaxed \/ OnlyTightens(tx.arg.to, tx.arg.method, tx.arg.arg)
                                    /\ MaySetLimit("sentinel", tx.arg)
    [] OTHER                     -> MaySetLimit(a, tx)

SendsNext(a, tx, method) == scripts[a] # <<>> /\ tx = Head(scripts[a]) /\ tx.method = method /\ Succeeds(a, tx)
NextTx(a) == scripts' = [scripts EXCEPT ![a] = Tail(@)] /\ UNCHANGED <<scriptRuns, changes>>

AddPauser(a) == \E tx \in ToSet(scripts[a]) :
  /\ SendsNext(a, tx, "addPauser")
  /\ pausers' = [pausers EXCEPT ![tx.to] = @ \cup {tx.arg}]
  /\ NextTx(a) /\ UNCHANGED <<owner, governors, governance, values, limits, resetSignersAt, sentinel>>

AddGovernor(a) == \E tx \in ToSet(scripts[a]) :
  /\ SendsNext(a, tx, "addGovernor")
  /\ governors' = [governors EXCEPT ![tx.to] = @ \cup {tx.arg}]
  /\ NextTx(a) /\ UNCHANGED <<owner, pausers, governance, values, limits, resetSignersAt, sentinel>>

SetValue(a) == \E tx \in ToSet(scripts[a]) :
  /\ SendsNext(a, tx, "set")
  /\ values' = values \cup {<<tx.to, tx.arg>>}
  /\ NextTx(a) /\ UNCHANGED <<authority, limits, resetSignersAt, sentinel>>

HandOver(a) == \E tx \in ToSet(scripts[a]) :
  /\ SendsNext(a, tx, "transferOwnership")
  /\ owner' = [owner EXCEPT ![tx.to] = tx.arg]
  /\ NextTx(a) /\ UNCHANGED <<governors, pausers, governance, values, limits, resetSignersAt, sentinel>>

InitGovernance(a) == \E tx \in ToSet(scripts[a]) :
  /\ SendsNext(a, tx, "initGov")
  /\ governance' = TRUE
  /\ NextTx(a) /\ UNCHANGED <<owner, governors, pausers, values, limits, resetSignersAt, sentinel>>

ResetBridgeSigners(a) == \E tx \in ToSet(scripts[a]) :
  /\ SendsNext(a, tx, "resetSigners")
  /\ resetSignersAt' = "never"
  /\ NextTx(a) /\ UNCHANGED <<authority, values, limits, sentinel>>

WithLimit(tx) ==
  [limits EXCEPT ![tx.to][tx.method] =
     [t \in LimitTokens |->
        IF t \in ToSet(tx.arg.tokens)
          THEN tx.arg.amounts[CHOOSE i \in DOMAIN tx.arg.tokens : tx.arg.tokens[i] = t]
          ELSE @[t]]]

SetLimit(a) == \E tx \in ToSet(scripts[a]) :
  /\ tx.to \in Limited /\ tx.method \in ToSet(LimitMethods[tx.to]) /\ SendsNext(a, tx, tx.method)
  /\ limits' = WithLimit(tx)
  /\ NextTx(a) /\ UNCHANGED <<authority, values, resetSignersAt, sentinel>>

SetLimitBySentinel(a) == \E tx \in ToSet(scripts[a]) :
  /\ SendsNext(a, tx, "limit")
  /\ limits' = WithLimit(tx.arg)
  /\ NextTx(a) /\ UNCHANGED <<authority, values, resetSignersAt, sentinel>>

\* one guard too few is enough
UpdateRelaxedEarly == relaxed' = (numRelaxedGuards' + 1 >= relaxThreshold')

UpdateRelaxed == relaxed' = (numRelaxedGuards' >= relaxThreshold')

GuardAgain(a) == \E tx \in ToSet(scripts[a]) :
  /\ SendsNext(a, tx, "guard")
  /\ guardStates' = [guardStates EXCEPT ![a] = "guarded"]
  /\ numRelaxedGuards' = numRelaxedGuards - 1 /\ UNCHANGED relaxThreshold /\ UpdateRelaxed
  /\ NextTx(a) /\ UNCHANGED <<authority, values, limits, resetSignersAt>>

Relax(a) == \E tx \in ToSet(scripts[a]) :
  /\ SendsNext(a, tx, "relax")
  /\ guardStates' = [guardStates EXCEPT ![a] = "relaxed"]
  /\ numRelaxedGuards' = numRelaxedGuards + 1 /\ UNCHANGED relaxThreshold /\ UpdateRelaxed
  /\ NextTx(a) /\ UNCHANGED <<authority, values, limits, resetSignersAt>>

\* A transaction reverts, or the process is stopped: the rest is never sent
Abandon(a) ==
  /\ scripts[a] # <<>>
  /\ scripts' = [scripts EXCEPT ![a] = <<>>]
  /\ UNCHANGED <<authority, values, limits, resetSignersAt, sentinel, scriptRuns, changes>>

\* What is done without a script: an account renounces its role, the owner
\* of the Sentinel (the deployer) changes its guards, and the owner of the
\* Bridge announces that the signers will be reset; the last two bounded
Change == changes < MaxChanges /\ changes' = changes + 1

Renounce(a, c) ==
  /\ a \in governors[c]
  /\ governors' = [governors EXCEPT ![c] = @ \ {a}]
  /\ UNCHANGED <<owner, pausers, governance, values, limits, resetSignersAt, sentinel, scripts, scriptRuns, changes>>

\* removed and added guards in one transaction; one may be both, which
\* leaves it guarded
UpdateGuards(add, remove, threshold) ==
  LET left == {a \in Operators : guardStates[a] # "none" /\ a \notin remove}
  IN /\ Change
     /\ \A a \in remove : guardStates[a] # "none"
     /\ add \cap left = {}
     /\ threshold <= Cardinality(left \cup add)
     /\ guardStates' = [a \in Operators |->
                          IF a \in add THEN "guarded" ELSE IF a \in remove THEN "none" ELSE guardStates[a]]
     /\ numRelaxedGuards' = numRelaxedGuards - Cardinality({a \in remove : guardStates[a] = "relaxed"})
     /\ relaxThreshold' = threshold /\ UpdateRelaxed
     /\ UNCHANGED <<authority, values, limits, resetSignersAt, scripts, scriptRuns>>

NotifyReset ==
  /\ Change
  /\ resetSignersAt = "never" /\ resetSignersAt' = "notice"
  /\ UNCHANGED <<authority, values, limits, sentinel, scripts, scriptRuns>>

CelerLimitsNext ==
  \/ \E a \in Operators :
       \/ RunAny(a) \/ Abandon(a)
       \/ AddPauser(a) \/ AddGovernor(a) \/ SetValue(a) \/ HandOver(a) \/ InitGovernance(a)
       \/ ResetBridgeSigners(a) \/ SetLimit(a) \/ SetLimitBySentinel(a) \/ GuardAgain(a) \/ Relax(a)
  \/ \E a \in Operators, c \in DOMAIN governors : Renounce(a, c)
  \/ \E add, remove \in SUBSET Operators, n \in 0..Cardinality(Operators) : UpdateGuards(add, remove, n)
  \/ NotifyReset

------------------------------------------------------------------------------
RelaxedGuards == {a \in Operators : guardStates[a] = "relaxed"}

\* zero means no cap
Loosens(kind, before, after) ==
  IF kind \in Caps THEN before # 0 /\ after > before ELSE after < before

\* Once the Sentinel is the only governor left of a contract, and while fewer
\* of its guards are relaxed than the threshold asks for, no script of any
\* operator, however scripts and guards interleave, raises a cap or lowers a
\* minimum of that contract.  (Zero, which removes a cap, counts as lower.)
SentinelHoldsLimits ==
  [][\A c \in Limited :
       governors[c] = {"sentinel"} /\ Cardinality(RelaxedGuards) < relaxThreshold =>
         \A k \in DOMAIN limits[c], t \in LimitTokens :
           ~Loosens(k, limits[c][k][t], limits'[c][k][t])]_celerVars
==============================================================================
