-------------------------- MODULE MesonConnections --------------------------
(***************************************************************************)
(* Meson, packages/sdk adaptors and packages/clients: a client reaches a   *)
(* chain through several RPC nodes behind one failover adaptor, which      *)
(* sends a transaction to all of them and any other request to one after   *)
(* the other, until one answers.  A sent transaction is waited for by      *)
(* asking again and again until a node shows it.                           *)
(* One transaction is followed; requests of a wait do not overlap.         *)
(***************************************************************************)
EXTENDS Naturals, Sequences, FiniteSets, SequencesExt

CONSTANTS
  RpcNodes,         \* RPC nodes of the network, the default node among them
  DefaultNode,      \* url of the network in the presets
  AdaptorClasses,   \* the adaptor classes an operator connects with
  MaxRpcErrors,     \* bound on requests that fail or time out
  MaxClients        \* bound on clients created

ASSUME ConnectionsAssumption ==
  /\ IsFiniteSet(RpcNodes) /\ DefaultNode \in RpcNodes
  /\ MaxRpcErrors \in Nat /\ MaxClients \in Nat

VARIABLES
  rpcStatus,        \* healthy nodes, as the RPC manager last told; {} at first
  clients,          \* the clients created: their adaptor and nodes
  inUse,            \* cache of the client manager: the client in use, 0 if none
  onChain,          \* how far the transaction has come
  shown,            \* how far each node shows it
  rpcRequest,       \* the request under way
  wait,             \* the wait for the transaction
  rpcErrors         \* number of failed requests

connectionVars == <<rpcStatus, clients, inUse, onChain, shown, rpcRequest, wait, rpcErrors>>

\* a transaction is unknown, waiting in a pool, in a block, irreversible
Unknown == 0
Pooled  == 1
Mined   == 2
Final   == 3

------------------------------------------------------------------------------
\* Clients: getFailoverAdaptor wants one class for all nodes

\* zksync's adaptor is an ethers adaptor too
IsA(adaptor, class) == adaptor = class \/ (adaptor = "zksync" /\ class = "ethers")
FailoverClasses ==
  <<"zksync", "ethers", "aptos", "bitcoin", "ckb", "solana", "starknet", "sui", "ton", "tron">>
FailoverClass(adaptors) ==
  LET fits == SelectSeq(FailoverClasses, LAMBDA c : \A a \in adaptors : IsA(a, c))
  IN  IF fits = <<>> THEN "conflicting" ELSE Head(fits)

\* the manager's healthy nodes, or the default node as long as it has none
ClientUrls == IF rpcStatus = {} THEN {DefaultNode} ELSE rpcStatus

NoRequest == [kind |-> "none", left |-> {}, result |-> "none"]
NoWait    == [state |-> "none", polling |-> FALSE, confirmations |-> FALSE, timeout |-> FALSE]

\* presets.createMesonClient disposes of the network's client before; the
\* manager keeps a client that was created by force out of its cache
GetClient(adaptors, force) ==
  /\ force \/ inUse = 0
  /\ wait.state # "ended"
  /\ Len(clients) < MaxClients
  /\ FailoverClass(adaptors) # "conflicting"
  /\ clients' = Append([i \in DOMAIN clients |-> [clients[i] EXCEPT !.disposed = TRUE]],
                       [class |-> FailoverClass(adaptors), nodes |-> ClientUrls,
                        disposed |-> FALSE])
  /\ inUse' = IF force THEN inUse ELSE Len(clients) + 1
  /\ UNCHANGED <<rpcStatus, onChain, shown, rpcRequest, wait, rpcErrors>>

\* a failed fetch changes nothing; the adaptor made of the healthy nodes is
\* stored in a field that no client reads, so the last client made is the last
\* one that a refresh matters to
RefreshAllRpcStatus ==
  /\ Len(clients) < MaxClients
  /\ wait.state # "ended"
  /\ \E healthy \in SUBSET RpcNodes : rpcStatus' = healthy
  /\ UNCHANGED <<clients, inUse, onChain, shown, rpcRequest, wait, rpcErrors>>

Class == clients[inUse].class

------------------------------------------------------------------------------
\* The chain, and what its nodes show of it

Progress ==
  /\ onChain \in Pooled..Mined
  /\ onChain' = onChain + 1
  /\ UNCHANGED <<rpcStatus, clients, inUse, shown, rpcRequest, wait, rpcErrors>>

CatchUp(n) ==
  /\ shown[n] < onChain
  /\ shown' = [shown EXCEPT ![n] = onChain]
  /\ UNCHANGED <<rpcStatus, clients, inUse, onChain, rpcRequest, wait, rpcErrors>>

------------------------------------------------------------------------------
\* Sending: all nodes at once, the first that accepts settles the promise

SendTransaction ==
  /\ inUse # 0 /\ rpcRequest.kind = "none" /\ wait.state = "none"
  /\ rpcRequest' = [kind |-> "send", left |-> clients[inUse].nodes, result |-> "none"]
  /\ UNCHANGED <<rpcStatus, clients, inUse, onChain, shown, wait, rpcErrors>>

Accept(n) ==
  /\ rpcRequest.kind = "send" /\ n \in rpcRequest.left
  /\ onChain' = IF onChain = Unknown THEN Pooled ELSE onChain
  /\ shown' = [shown EXCEPT ![n] = IF @ = Unknown THEN Pooled ELSE @]
  /\ rpcRequest' = [rpcRequest EXCEPT !.left = @ \ {n}, !.result = "sent"]
  /\ UNCHANGED <<rpcStatus, clients, inUse, wait, rpcErrors>>

\* a node that times out may have accepted the transaction all the same
Refuse(n) ==
  /\ rpcRequest.kind = "send" /\ n \in rpcRequest.left /\ rpcErrors < MaxRpcErrors
  /\ \/ UNCHANGED <<onChain, shown>>
     \/ /\ onChain' = IF onChain = Unknown THEN Pooled ELSE onChain
        /\ shown' = [shown EXCEPT ![n] = IF @ = Unknown THEN Pooled ELSE @]
  /\ rpcRequest' = [rpcRequest EXCEPT !.left = @ \ {n}]
  /\ rpcErrors' = rpcErrors + 1
  /\ UNCHANGED <<rpcStatus, clients, inUse, wait>>

SendSettles ==
  /\ rpcRequest.kind = "send" /\ (rpcRequest.result = "sent" \/ rpcRequest.left = {})
  /\ rpcRequest' = NoRequest
  /\ IF rpcRequest.result = "sent"
     THEN \E confirmations, timeout \in BOOLEAN :
            wait' = [state |-> "waiting", polling |-> TRUE, confirmations |-> confirmations,
                     timeout |-> timeout \/ Class = "aptos"]
     ELSE wait' = [NoWait EXCEPT !.state = "not sent"]
  /\ UNCHANGED <<rpcStatus, clients, inUse, onChain, shown, rpcErrors>>

------------------------------------------------------------------------------
\* Waiting

\* methods of nested objects and addresses of nodes come from one client,
\* not through the proxy that fails over
FailsOver == Class \notin {"bitcoin", "ton", "tron"}
NodesAsked ==
  IF FailsOver THEN {clients[inUse].nodes} ELSE {{n} : n \in clients[inUse].nodes}

Poll ==
  /\ wait.state = "waiting" /\ wait.polling /\ rpcRequest.kind = "none"
  /\ \E nodes \in NodesAsked : rpcRequest' = [kind |-> "poll", left |-> nodes, result |-> "none"]
  /\ UNCHANGED <<rpcStatus, clients, inUse, onChain, shown, wait, rpcErrors>>

\* What comes of the answer of a node: the transaction as the adaptor wraps
\* it, nothing yet, an error, or an answer the adaptor cannot wrap

SolanaAnswer(s) == IF s >= (IF wait.confirmations THEN Final ELSE Mined) THEN "wrapped" ELSE "nothing"
TronAnswer(s)   == IF s >= (IF wait.confirmations THEN Final ELSE Mined) THEN "wrapped" ELSE "nothing"
EthersAnswer(s) == IF s >= Mined THEN "wrapped" ELSE "nothing"
\* the answer about an unknown transaction is not JSON
BtcAnswer(s) ==
  CASE s = Unknown -> "error"
    [] s = Pooled \/ (wait.confirmations /\ s = Mined) -> "nothing"
    [] OTHER -> "wrapped"
StarknetAnswer(s) == IF s < Mined THEN "error" ELSE "wrapped"
\* a transaction that is not committed is an answer without a transaction
CkbWrap(committed) == IF committed THEN "wrapped" ELSE "unwrappable"
CkbAnswer(s)      == CkbWrap(s >= Mined)
SuiAnswer(s)      == IF s < Mined THEN "error" ELSE "wrapped"
\* only transfers of jettons by three versions of the wallet are understood
TonWraps          == {"wrapped", "unwrappable"}
TonAnswers(s)     == IF s < Mined THEN {"error"} ELSE TonWraps
\* the client library of Aptos waits itself
AptosAnswer(s)    == IF s < Mined THEN "error" ELSE "wrapped"

Answers(s) ==
  CASE Class = "solana"   -> {SolanaAnswer(s)}
    [] Class = "tron"     -> {TronAnswer(s)}
    [] Class = "bitcoin"  -> {BtcAnswer(s)}
    [] Class = "starknet" -> {StarknetAnswer(s)}
    [] Class = "ckb"      -> {CkbAnswer(s)}
    [] Class = "sui"      -> {SuiAnswer(s)}
    [] Class = "ton"      -> TonAnswers(s)
    [] Class = "aptos"    -> {AptosAnswer(s)}
    [] OTHER              -> {EthersAnswer(s)}

\* an error counts as the node's failure: the next one is asked
NodeAnswers(n) ==
  /\ rpcRequest.kind = "poll" /\ n \in rpcRequest.left
  /\ \E answer \in Answers(shown[n]) :
       rpcRequest' = IF answer = "error" THEN [rpcRequest EXCEPT !.left = @ \ {n}]
                  ELSE [rpcRequest EXCEPT !.left = {}, !.result = answer]
  /\ UNCHANGED <<rpcStatus, clients, inUse, onChain, shown, wait, rpcErrors>>

NodeFails(n) ==
  /\ rpcRequest.kind = "poll" /\ n \in rpcRequest.left /\ rpcErrors < MaxRpcErrors
  /\ rpcRequest' = [rpcRequest EXCEPT !.left = @ \ {n}]
  /\ rpcErrors' = rpcErrors + 1
  /\ UNCHANGED <<rpcStatus, clients, inUse, onChain, shown, wait>>

\* an exception of a poll is caught, but not on Bitcoin, nor on TON where the
\* wrapper throws it: a rejection that nobody handles ends a program under
\* Node.js and leaves one in a browser as it was
Uncaught ==
  \/ Class = "bitcoin" /\ rpcRequest.result = "none"
  \/ Class = "ton" /\ rpcRequest.result = "unwrappable"

\* these ask once and pass the failure on
AsksOnce == Class \in {"sui", "aptos"}

\* mutant: the poll that fails stops the polling
PollEndsForGood ==
  /\ rpcRequest.kind = "poll" /\ rpcRequest.left = {}
  /\ rpcRequest' = NoRequest
  /\ wait' =
       IF wait.state # "waiting" THEN wait
       ELSE CASE rpcRequest.result = "wrapped" -> [wait EXCEPT !.state = "resolved", !.polling = FALSE]
              [] rpcRequest.result = "none" /\ AsksOnce -> [wait EXCEPT !.state = "rejected", !.polling = FALSE]
              [] OTHER -> [wait EXCEPT !.polling = FALSE]
  /\ UNCHANGED <<rpcStatus, clients, inUse, onChain, shown, rpcErrors>>

\* polling stops before the answer is wrapped: if that fails, the promise is
\* neither resolved nor rejected any more
PollEnds ==
  /\ rpcRequest.kind = "poll" /\ rpcRequest.left = {}
  /\ rpcRequest' = NoRequest
  /\ \/ wait' =
          IF wait.state # "waiting" THEN wait
          ELSE CASE rpcRequest.result = "wrapped" -> [wait EXCEPT !.state = "resolved", !.polling = FALSE]
                 [] rpcRequest.result = "unwrappable" -> [wait EXCEPT !.polling = FALSE]
                 [] rpcRequest.result = "none" /\ AsksOnce -> [wait EXCEPT !.state = "rejected", !.polling = FALSE]
                 [] OTHER -> wait
     \/ Uncaught /\ wait' = [wait EXCEPT !.state = "ended", !.polling = FALSE]
  /\ UNCHANGED <<rpcStatus, clients, inUse, onChain, shown, rpcErrors>>

TimeOut ==
  /\ wait.state = "waiting" /\ wait.timeout
  /\ wait' = [wait EXCEPT !.state = "rejected", !.polling = FALSE]
  /\ UNCHANGED <<rpcStatus, clients, inUse, onChain, shown, rpcRequest, rpcErrors>>

------------------------------------------------------------------------------
ConnectionsInit ==
  /\ rpcStatus = {} /\ clients = <<>> /\ inUse = 0
  /\ onChain = Unknown /\ shown = [n \in RpcNodes |-> Unknown]
  /\ rpcRequest = NoRequest /\ wait = NoWait /\ rpcErrors = 0

ConnectionsNext ==
  \/ \E adaptors \in AdaptorClasses, force \in BOOLEAN : GetClient(adaptors, force)
  \/ RefreshAllRpcStatus \/ Progress \/ SendTransaction \/ SendSettles
  \/ Poll \/ PollEnds \/ TimeOut
  \/ \E n \in RpcNodes : CatchUp(n) \/ Accept(n) \/ Refuse(n) \/ NodeAnswers(n) \/ NodeFails(n)

\* the chain goes on, its nodes follow, and timers fire
ConnectionsFairness ==
  /\ WF_connectionVars(Progress)
  /\ \A n \in RpcNodes : WF_connectionVars(CatchUp(n))
  /\ \A n \in RpcNodes : WF_connectionVars(NodeAnswers(n))
  /\ WF_connectionVars(Poll) /\ WF_connectionVars(PollEnds) /\ WF_connectionVars(TimeOut)

------------------------------------------------------------------------------
\* Whoever waits for a transaction gets an answer, whatever nodes fail or lag
\* behind.  Not so on CKB and TON, where a wait without a timeout may stop
\* asking (CkbAdaptor.ts:151, TonAdaptor.ts:93), nor where an exception that is
\* not caught ends the program (BtcAdaptor.ts:145, TonAdaptor.ts:94).
WaitsEnd ==
  wait.state = "waiting" /\ (wait.timeout \/ Class \notin {"ckb", "ton"})
    ~> \/ wait.state \in {"resolved", "rejected"}
       \/ wait.state = "ended" /\ Class \in {"bitcoin", "ton"}
=============================================================================
