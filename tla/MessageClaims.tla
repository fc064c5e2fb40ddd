---------------------------- MODULE MessageClaims ----------------------------
(***************************************************************************)
(* Across: the scripts that finish messages between two chains by hand     *)
(* (finalizeCCTPMessages, claimLineaMessages, claimPolygonZkEvmMessages,   *)
(* finalize-scroll-claims).  Each collects what was sent to the            *)
(* destination and claims it message by message; others claim too.         *)
(***************************************************************************)
EXTENDS Integers, FiniteSets

CONSTANTS
  Sent,             \* messages by number: block, tx, and whether it is the tx's first
  Latest,           \* the newest block of the source chain
  Lookbacks, Spans, \* BLOCK_LOOKBACK, and MAX_BLOCK_LOOKBACK of one query
  PageSize          \* what one request of an API returns

ASSUME ClaimsAssumption ==
  /\ {Latest, PageSize} \subseteq Nat /\ Lookbacks \subseteq 0..Latest /\ Spans \subseteq Nat
  /\ \A i \in DOMAIN Sent : Sent[i].block \in 0..Latest /\ Sent[i].first \in BOOLEAN

VARIABLES
  claim,            \* the script: its kind, window, phase, events found and messages to claim
  arrived, claimed, \* at the destination
  failed            \* claims of the script that reverted or threw

claimVars == <<claim, arrived, claimed, failed>>

Kinds == {"cctp", "linea", "polygonZkEvm", "scroll"}

EventsIn(from, to) == {i \in DOMAIN Sent : Sent[i].block \in from..to}

Transactions(events) == {Sent[i].tx : i \in events}

\* parseMessageHashesAndBytes: logs.find gives one MessageSent of a receipt.
FirstMessages(txs) == {i \in DOMAIN Sent : Sent[i].tx \in txs /\ Sent[i].first}

\* The Linea SDK gives all messages of a transaction.
MessagesOf(txs) == {i \in DOMAIN Sent : Sent[i].tx \in txs}

\* The API of the Polygon zkEVM bridge: one page, then a filter.
ClaimableOnPolygon ==
  {i \in DOMAIN Sent : i <= PageSize /\ i \in arrived /\ i \notin claimed}

\* The API of Scroll gives a page of what can be claimed.
ClaimableOnScroll ==
  LET claimable == {i \in DOMAIN Sent : i \in arrived /\ i \notin claimed}
  IN  {i \in claimable : Cardinality({j \in claimable : j <= i}) <= PageSize}

Collected(c) ==
  CASE c.kind = "cctp" -> FirstMessages(Transactions(c.found))
    [] c.kind = "linea" -> MessagesOf(Transactions(c.found))
    [] c.kind = "polygonZkEvm" -> ClaimableOnPolygon
    [] c.kind = "scroll" -> ClaimableOnScroll

NewClaim(kind, lookback, span, phase) ==
  [kind |-> kind, lookback |-> lookback, span |-> span, phase |-> phase,
   from |-> Latest - lookback, found |-> {}, queue |-> {}]
NoClaim == NewClaim("none", 0, 0, "idle")

ClaimsInit ==
  /\ claim = NoClaim
  /\ arrived = {} /\ claimed = {} /\ failed = {}

Run(kind, lookback, span) ==
  /\ claim.phase = "idle"
  /\ claim' = NewClaim(kind, lookback, span, "collect")
  /\ UNCHANGED <<arrived, claimed, failed>>

\* The scripts that read events, and look whether a message was claimed before.
Looks == claim.kind \in {"cctp", "linea"}

\* getSrcEvents: one range of blocks after the other, while fromBlock < latestBlock.
ToBlock == IF Latest - claim.from > claim.span THEN claim.from + claim.span ELSE Latest

\* Mutant: the next range starts one block too late.
QueryEventsWithGap ==
  /\ claim.phase = "collect" /\ Looks /\ claim.from < Latest
  /\ claim' = [claim EXCEPT !.found = @ \cup EventsIn(claim.from, ToBlock), !.from = ToBlock + 2]
  /\ UNCHANGED <<arrived, claimed, failed>>

QueryEvents ==
  /\ claim.phase = "collect" /\ Looks /\ claim.from < Latest
  /\ claim' = [claim EXCEPT !.found = @ \cup EventsIn(claim.from, ToBlock), !.from = ToBlock + 1]
  /\ UNCHANGED <<arrived, claimed, failed>>

Collect ==
  /\ claim.phase = "collect" /\ (Looks => claim.from >= Latest)
  /\ claim' = [claim EXCEPT !.queue = Collected(claim),
                            !.phase = IF claim.kind = "cctp" THEN "attest" ELSE "claim"]
  /\ UNCHANGED <<arrived, claimed, failed>>

\* finalizeCCTPMessages asks for every attestation, and waits for it,
\* before it receives the first message.
RequestAttestations ==
  /\ claim.phase = "attest"
  /\ claim.queue \subseteq arrived
  /\ claim' = [claim EXCEPT !.phase = "claim"]
  /\ UNCHANGED <<arrived, claimed, failed>>

\* The messages are claimed in the order they were sent.
Message == CHOOSE i \in claim.queue : \A j \in claim.queue : i <= j
Pass == claim' = [claim EXCEPT !.queue = @ \ {Message}]

\* A message that was received before is skipped where the script looks.
SkipClaimed ==
  /\ claim.phase = "claim" /\ claim.queue # {}
  /\ Looks /\ Message \in claimed
  /\ Pass
  /\ UNCHANGED <<arrived, claimed, failed>>

\* Linea: a message that is not there yet holds up those behind it.
MayClaim ==
  /\ claim.phase = "claim" /\ claim.queue # {}
  /\ claim.kind = "linea" => Message \in arrived

Claim ==
  /\ MayClaim /\ Message \in arrived /\ Message \notin claimed
  /\ claimed' = claimed \cup {Message}
  /\ Pass
  /\ UNCHANGED <<arrived, failed>>

\* An error is logged and the loop goes on (Scroll: Promise.allSettled).
Fail ==
  /\ MayClaim /\ ~ (Looks /\ Message \in claimed)
  /\ failed' = failed \cup {Message}
  /\ Pass
  /\ UNCHANGED <<arrived, claimed>>

Finish ==
  /\ claim.phase = "claim" /\ claim.queue = {}
  /\ claim' = [claim EXCEPT !.phase = "done"]
  /\ UNCHANGED <<arrived, claimed, failed>>

\* The bridge brings a message; somebody else claims it.
Arrive(i) ==
  /\ i \notin arrived /\ arrived' = arrived \cup {i}
  /\ UNCHANGED <<claim, claimed, failed>>

ClaimedByOther(i) ==
  /\ i \in arrived \ claimed /\ claimed' = claimed \cup {i}
  /\ UNCHANGED <<claim, arrived, failed>>

ClaimsNext ==
  \/ \E k \in Kinds, lookback \in Lookbacks, span \in Spans : Run(k, lookback, span)
  \/ QueryEvents \/ Collect \/ RequestAttestations
  \/ SkipClaimed \/ Claim \/ Fail \/ Finish
  \/ \E i \in DOMAIN Sent : Arrive(i) \/ ClaimedByOther(i)

------------------------------------------------------------------------------
\* When a script ends, each message it answers for was claimed, or its own
\* claim failed: every message of a block in the window (the newest block
\* aside), on CCTP the first of its transaction; no failure stops the rest.
AnswersFor(c) ==
  {i \in DOMAIN Sent : /\ c.kind \in {"cctp", "linea"}
                       /\ Sent[i].block \in (Latest - c.lookback)..(Latest - 1)
                       /\ c.kind = "cctp" => Sent[i].first}

NoMessageForgotten ==
  claim.phase = "done" => AnswersFor(claim) \subseteq claimed \cup failed

==============================================================================
