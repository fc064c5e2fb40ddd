----------------------------- MODULE MCMesonSdk -----------------------------
(***************************************************************************)
(* The parts of Meson's SDK in one run.  They share no state: `part` says  *)
(* which one is at work, the others rest in an initial state.              *)
(***************************************************************************)
EXTENDS MesonEncoding, MesonSigning, MesonCalls, MesonConnections, MesonStatus, MesonCkb, TLC

VARIABLE part

Parts == {"encoding", "signing", "calls", "connections", "status", "ckb"}

------------------------------------------------------------------------------
\* Encoding: amounts around the minimum fees and the precision of the salt;
\* 0.0003 and 1.001 are no whole numbers times 1e4, and 1.0012 is compressed to 1.001

Asking(options, cores, prices, pools, shares) ==
  [ amount : {1000, 7654321, 199999999}, fee : {0, 100000}, inToken : {1, 240, 245, 250, 252, 254},
    outToken : {1, 192}, trackId : {0, 15}, random : {7}, options : options, core : cores,
    price : prices, pool : pools, share : shares ]
SomeRequests ==
  Asking({{}, {"notToContract"}, {"waiveServiceFee"}, {"notToContract", "isMesonTo", "isApi"},
          {"useNonTypedSigning", "withReward"},
          {"notToContract", "waiveServiceFee", "usePointsToWaiveServiceFee"}}, {Everything}, {1}, {65536}, {1})
  \cup
  Asking({{"notToContract", "amountForCoreToken", "newFormatCoreToken"},
          {"notToContract", "amountForCoreToken", "newFormatCoreToken", "waiveServiceFee"},
          {"notToContract", "amountForCoreToken", "amountToShare", "newFormatCoreToken"},
          {"amountForCoreToken", "newFormatCoreToken"}},
         {Everything, 1000, 1234567}, {3, 999, 1000, 10012, 12345}, {65536}, {1})
  \cup
  Asking({{"amountToShare"}, {"notToContract", "amountToShare"},
          {"notToContract", "amountToShare", "waiveServiceFee"}},
         {Everything}, {1}, {65536, 65540}, {999, 1001, 98765})
NoRequestYet == CHOOSE r \in SomeRequests : TRUE

\* Signing: two swaps that differ in where they come from and in how they are signed
SomeSwaps ==
  { [fromTron |-> FALSE, toTron |-> TRUE, nonTyped |-> FALSE, testnet |-> FALSE, id |-> 1],
    [fromTron |-> TRUE, toTron |-> FALSE, nonTyped |-> TRUE, testnet |-> FALSE, id |-> 2],
    [fromTron |-> FALSE, toTron |-> FALSE, nonTyped |-> TRUE, testnet |-> TRUE, id |-> 3] }

\* Connections: one class of adaptor, or two that an operator mixed up
SomeAdaptors ==
  {{c} : c \in {"ethers", "zksync", "solana", "tron", "bitcoin", "starknet", "ckb", "ton", "sui", "aptos"}}
    \cup {{"zksync", "ethers"}, {"ckb", "ton"}}

\* CKB: a swap that is just over, one that expires as late as the items of a
\* reference cell can tell, and a swap from CKB
MPays   == ("s1" :> 1) @@ ("s2" :> 1) @@ ("o" :> 1)
MExpiry == ("s1" :> 0) @@ ("s2" :> 255) @@ ("o" :> 10)
MByte   == ("s1" :> 1) @@ ("s2" :> 2)
MCells  == {Cell(-4, Own("lp"), 1, CapacityXudt), Cell(-3, Own("lp"), 2, CapacityXudt),
            Cell(-2, Own("lp"), 0, 30000), Cell(-1, Own("user"), 2, CapacityXudt),
            Cell(0, Own("user"), 0, 7000)}

------------------------------------------------------------------------------
Init ==
  /\ part \in Parts
  /\ SigningInit /\ (part # "signing" => swapSigner = "remote")
  /\ EncodingInit /\ (part # "encoding" => request = NoRequestYet)
  /\ CallsInit /\ ConnectionsInit /\ StatusInit /\ CkbInit

Next ==
  /\ UNCHANGED part
  /\ \/ part = "encoding" /\ EncodingNext
        /\ UNCHANGED <<signingVars, callVars, connectionVars, statusVars, ckbVars>>
     \/ part = "signing" /\ SigningNext
        /\ UNCHANGED <<encodingVars, callVars, connectionVars, statusVars, ckbVars>>
     \/ part = "calls" /\ CallsNext
        /\ UNCHANGED <<encodingVars, signingVars, connectionVars, statusVars, ckbVars>>
     \/ part = "connections" /\ ConnectionsNext
        /\ UNCHANGED <<encodingVars, signingVars, callVars, statusVars, ckbVars>>
     \/ part = "status" /\ StatusNext
        /\ UNCHANGED <<encodingVars, signingVars, callVars, connectionVars, ckbVars>>
     \/ part = "ckb" /\ CkbNext
        /\ UNCHANGED <<encodingVars, signingVars, callVars, connectionVars, statusVars>>

vars == <<part, encodingVars, signingVars, callVars, connectionVars, statusVars, ckbVars>>

Spec == Init /\ [][Next]_vars /\ ConnectionsFairness
=============================================================================
