--------------------------- MODULE MCMesonManager ---------------------------
(***************************************************************************)
(* One chain, one or two addresses, and swaps that start and end on that   *)
(* chain, so that both sides of a swap work on the same balances.          *)
(***************************************************************************)
EXTENDS MesonProperties

CONSTANTS c1, a1, a2

PlainSwap ==
  [ id |-> 1, amount |-> 2, fee |-> 0, expireTs |-> 5,
    inChain |-> c1, inToken |-> 1, outChain |-> c1, outToken |-> 1,
    toContract |-> TRUE, feeWaived |-> FALSE,
    core |-> "no", coreValue |-> 0, corePrice |-> 0,
    share |-> FALSE, shareAmount |-> 0, sharePool |-> 0 ]

\* Part of the payout is in the chain's core token (index 52), at a price of 1;
\* the service fee is waived.
CoreSwap ==
  [PlainSwap EXCEPT !.id = 2, !.amount = 3, !.feeWaived = TRUE, !.expireTs = 4,
                    !.toContract = FALSE,
                    !.core = "fixed", !.coreValue = 1, !.corePrice = 1]

\* All of the payout is in the core token.
RestSwap == [CoreSwap EXCEPT !.core = "rest"]

\* Paid out in the core token; pool 1 is the partner that shares in the payout.
PartnerSwap ==
  [PlainSwap EXCEPT !.id = 4, !.amount = 3, !.outToken = 52, !.expireTs = 3,
                    !.toContract = FALSE, !.share = TRUE, !.shareAmount = 1,
                    !.sharePool = 1]

OnePartner == {PartnerSwap}
RestSwaps == {RestSwap}
NoSkew == [c \in Chain |-> 0]
=============================================================================
