----------------------------- MODULE AtomicSwap -----------------------------
(***************************************************************************)
(* What a cross-chain swap promises its two parties, without chains,       *)
(* clocks or signatures.  The user's leg is paid in and goes either to the *)
(* provider or back to the user; the provider's leg is reserved and goes   *)
(* either to the user or back to the provider.  Once the user has          *)
(* committed neither leg can go back.                                      *)
(***************************************************************************)
CONSTANT Swap

VARIABLES
  userLeg,                \* swap -> where the user's funds are
  lpLeg,                  \* swap -> where the provider's funds are
  committed               \* the swaps the user has committed to

legVars == <<userLeg, lpLeg, committed>>

Init ==
  /\ userLeg = [s \in Swap |-> "idle"]
  /\ lpLeg = [s \in Swap |-> "idle"]
  /\ committed = {}

Fund(s) ==
  /\ userLeg[s] = "idle"
  /\ userLeg' = [userLeg EXCEPT ![s] = "funded"]
  /\ UNCHANGED <<lpLeg, committed>>

Reserve(s) ==
  /\ userLeg[s] = "funded" /\ lpLeg[s] = "idle"
  /\ lpLeg' = [lpLeg EXCEPT ![s] = "reserved"]
  /\ UNCHANGED <<userLeg, committed>>

Commit(s) ==
  /\ userLeg[s] = "funded" /\ lpLeg[s] = "reserved"
  /\ committed' = committed \cup {s}
  /\ UNCHANGED <<userLeg, lpLeg>>

PayUser(s) ==
  /\ s \in committed /\ lpLeg[s] = "reserved"
  /\ lpLeg' = [lpLeg EXCEPT ![s] = "paid"]
  /\ UNCHANGED <<userLeg, committed>>

PayProvider(s) ==
  /\ s \in committed /\ userLeg[s] = "funded"
  /\ userLeg' = [userLeg EXCEPT ![s] = "paid"]
  /\ UNCHANGED <<lpLeg, committed>>

Refund(s) ==
  /\ s \notin committed /\ userLeg[s] = "funded"
  /\ userLeg' = [userLeg EXCEPT ![s] = "refunded"]
  /\ UNCHANGED <<lpLeg, committed>>

Unreserve(s) ==
  /\ s \notin committed /\ lpLeg[s] = "reserved"
  /\ lpLeg' = [lpLeg EXCEPT ![s] = "idle"]
  /\ UNCHANGED <<userLeg, committed>>

Next ==
  \E s \in Swap :
    \/ Fund(s) \/ Reserve(s) \/ Commit(s)
    \/ PayUser(s) \/ PayProvider(s)
    \/ Refund(s) \/ Unreserve(s)

\* A committed swap is paid on both legs, and a funded leg does not stay.
Fairness ==
  \A s \in Swap :
    /\ WF_legVars(PayUser(s))
    /\ WF_legVars(PayProvider(s))
    /\ WF_legVars(Refund(s))
    /\ WF_legVars(Unreserve(s))

Spec == Init /\ [][Next]_legVars /\ Fairness
=============================================================================
