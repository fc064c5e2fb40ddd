------------------------------ MODULE MesonCkb ------------------------------
(***************************************************************************)
(* Meson, packages/sdk, adaptors/ckb: swaps on CKB.  There is no contract  *)
(* that stores a swap: the SDK builds transactions that spend cells and    *)
(* make cells.  A swap's tokens sit in a cell under a signature time lock; *)
(* once that cell is spent, only an item in the pool's reference cell      *)
(* remembers that the swap was locked, so the reference cell is what       *)
(* keeps a swap from being locked, and paid, twice.                        *)
(* Time is counted in the periods of 30 s of the items, capacities in      *)
(* 0.05 CKB, the fee of a transaction.  One shard of reference cells is    *)
(* followed: the swaps whose identifiers start with the same byte.         *)
(* A reference cell has room for 255 periods.  That this is enough rests   *)
(* on two things outside the SDK: a swap is posted on the first chain, and *)
(* then locked, at most MaxAhead before it expires (MAX_BOND_TIME_PERIOD,  *)
(* two hours or 240 periods), and the indexer answers within MaxQuery.     *)
(***************************************************************************)
EXTENDS Integers, FiniteSets, FiniteSetsExt

CONSTANTS
  Callers,          \* processes that call the SDK
  Incoming,         \* swaps to be locked on CKB
  Outgoing,         \* swaps to be posted on CKB
  Pays,             \* tokens that a swap moves on CKB
  Expiry,           \* period in which a swap expires
  ItemByte,         \* second byte of an incoming swap's identifier
  FirstCells,       \* cells at the start
  MaxAhead,         \* periods from a lock to the expiry of its swap, at most
  MaxQuery,         \* periods the search for a reference cell takes, at most
  MaxPeriod,        \* bound on the time
  MaxPoint          \* bound on the number of cells ever made

VARIABLES
  live,             \* the cells that are not spent, numbered in the order they were made
  period,           \* the time
  point,            \* number of cells ever made
  wasLocked,        \* incoming swaps that were locked
  calls             \* call of each process

ckbVars == <<live, period, point, wasLocked, calls>>

CapacityMin      == 1300
CapacityXudt     == 3000
CapacitySiglock  == 4600
CapacityRefCell  == 3000
CapacityByte     == 20
CapacityOccupied == 1220
Fee              == 1

NoRef  == [start |-> 0, items |-> {}]
Call(at, prop, s, start, inputs, outputs) ==
  [at |-> at, prop |-> prop, swap |-> s, start |-> start, inputs |-> inputs,
   outputs |-> outputs, delta |-> 0, ref |-> {}]
NoCall == Call("idle", "none", "none", 0, {}, {})

\* A cell that is about to be made has its number within the transaction.
Cell(n, lock, udt, capacity) ==
  [point |-> n, lock |-> lock, udt |-> udt, capacity |-> capacity, ref |-> NoRef]
Own(owner)                  == [by |-> owner, swap |-> "none", refund |-> owner]
Siglock(s, receive, refund) == [by |-> receive, swap |-> s, refund |-> refund]

ASSUME CkbAssumption ==
  /\ Incoming \cap Outgoing = {} /\ "none" \notin Incoming \cup Outgoing
  /\ Pays \in [Incoming \cup Outgoing -> Nat \ {0}]
  /\ Expiry \in [Incoming \cup Outgoing -> Nat]
  /\ \A cell \in FirstCells :
       /\ cell.point \in Int /\ cell.point <= 0 /\ cell.udt \in Nat /\ cell.capacity \in Nat
       /\ \E owner \in {"lp", "user"} : cell = Cell(cell.point, Own(owner), cell.udt, cell.capacity)
  /\ {MaxAhead, MaxQuery, MaxPeriod, MaxPoint} \subseteq Nat
  /\ 10 + MaxAhead + MaxQuery <= 255

------------------------------------------------------------------------------
\* Cells and the indexer's answers

CellTotal(cells, field) == MapThenSumSet(LAMBDA cell : cell[field], cells)
IsRef(cell)         == cell.ref # NoRef
RefCells            == {cell \in live : IsRef(cell)}
SiglockCells(s)     == {cell \in live : cell.lock.swap = s}
UdtCells(owner)     == {cell \in live : cell.lock = Own(owner) /\ cell.udt > 0}
PlainCells(owner)   == {cell \in live : cell.lock = Own(owner) /\ cell.udt = 0 /\ ~IsRef(cell)}

Newest(cells) == {cell \in cells : \A other \in cells : other.point <= cell.point}
Oldest(cells) == {cell \in cells : \A other \in cells : cell.point <= other.point}

\* the first cells that hold an amount, if all of them do
Enough(cells, amount, field) ==
  {some \in {{}} \cup {{other \in cells : other.point <= cell.point} : cell \in cells} :
     CellTotal(some, field) >= amount}
Collect(cells, amount, field) ==
  {some \in Enough(cells, amount, field) : \A more \in Enough(cells, amount, field) : some \subseteq more}

------------------------------------------------------------------------------
\* The reference cell: the swaps it remembers, by the periods from its start to
\* their expiry and by a byte of their identifiers

FindRefCell == Newest(RefCells)

StartOf(now)      == now - 10
Item(s, start)    == [dt |-> Expiry[s] - start, byte |-> ItemByte[s]]
Fits(item)        == item.dt \in 0..255

\* mutant: the items keep the distance they had to the old start
UpdateRefCellUnmoved(ref, start) == ref.items

\* the items that are not over, counted from the new start
UpdateRefCell(ref, start) ==
  {item \in {[old EXCEPT !.dt = @ - (start - ref.start)] : old \in ref.items} : item.dt >= 0}

RefCapacity(ref) == CapacityRefCell + CapacityByte * (6 + 2 * Cardinality(ref.items))
RefCell(ref) == [Cell(4, Own("lp"), 0, RefCapacity(ref)) EXCEPT !.ref = ref]

\* the cell that takes the place of the one found, if any, with the new item
BuildRefCell(found, s, start) ==
  RefCell([start |-> start,
           items |-> (UNION {UpdateRefCell(cell.ref, start) : cell \in found}) \cup {Item(s, start)}])
Duplicated(found, s, start) ==
  \E cell \in found : Item(s, start) \in UpdateRefCell(cell.ref, start)

GetLockedSwap(s) ==
  IF SiglockCells(s) # {} THEN "locked"
  ELSE IF \E cell \in FindRefCell :
            LET item == Item(s, cell.ref.start) IN Fits(item) /\ item \in cell.ref.items
  THEN "released" ELSE "none"

------------------------------------------------------------------------------
\* Calls of the SDK: they ask the indexer more than once before they send

At(c, at) == calls[c].at = at
Step(c, call) == calls' = [calls EXCEPT ![c] = call]
ThrowsOff(c) == Step(c, NoCall)
Asks == UNCHANGED <<live, period, point, wasLocked>>

StartCkbCall(c, prop, s) ==
  /\ At(c, "idle")
  /\ prop = "lockSwap" => Expiry[s] <= period + MaxAhead
  /\ Step(c, Call(IF prop = "lockSwap" THEN "ref" ELSE "cells", prop, s, StartOf(period), {}, {}))
  /\ Asks

BuildRefCells(c) ==
  /\ At(c, "ref")
  /\ LET call == calls[c]  found == FindRefCell
         new  == BuildRefCell(found, call.swap, call.start)
     IN  IF Fits(Item(call.swap, call.start)) /\ ~Duplicated(found, call.swap, call.start)
         THEN Step(c, [Call("cells", "lockSwap", call.swap, call.start, {}, {new}) EXCEPT
                         !.ref = found, !.delta = new.capacity - CellTotal(found, "capacity")])
         ELSE ThrowsOff(c)
  /\ Asks

Signer(call) == IF call.prop = "postSwapFromInitiator" THEN "user" ELSE "lp"
Target(call) ==
  CASE call.prop = "transfer" -> Cell(1, Own("user"), 1, CapacityXudt)
    [] call.prop = "lockSwap" ->
         Cell(1, Siglock(call.swap, "user", "lp"), Pays[call.swap], CapacitySiglock)
    [] OTHER -> Cell(1, Siglock(call.swap, "lp", "user"), Pays[call.swap], CapacitySiglock)

\* tokens left over go back to the signer in a cell, and capacity in another
Leftover(call) == CellTotal(call.inputs, "udt") - Target(call).udt
UdtOutputs(call) ==
  {Target(call)} \cup
  (IF Leftover(call) > 0 THEN {Cell(2, Own(Signer(call)), Leftover(call), CapacityXudt)} ELSE {})
Required(call) == CellTotal(UdtOutputs(call), "capacity") + Fee + call.delta
\* a transfer does not leave room for the cell that takes the change
Spare(call) == IF call.prop = "transfer" THEN 0 ELSE CapacityMin

Holding(call, tokens) == [call EXCEPT !.inputs = tokens]

\* the transaction of a call that has found its tokens, with the cells that pay for it
Transaction(call, paying) ==
  LET inputs == call.inputs \cup paying
      change == Cell(3, Own(Signer(call)), 0, CellTotal(inputs, "capacity") - Required(call))
  IN  [call EXCEPT !.at = "send", !.inputs = inputs \cup call.ref,
                   !.outputs = UdtOutputs(call) \cup {change} \cup @]

\* the signer's first cells with the tokens, then with the capacity that is still needed
CollectCells(c) ==
  /\ At(c, "cells")
  /\ LET owner  == Signer(calls[c])
         tokens == Collect(UdtCells(owner), Target(calls[c]).udt, "udt")
         With(udt) == Holding(calls[c], udt)
         Payers(call) ==
           Collect(PlainCells(owner),
                   Required(call) + Spare(call) - CellTotal(call.inputs, "capacity"), "capacity")
     IN  \/ \E udt \in tokens : \E paying \in Payers(With(udt)) :
              Step(c, Transaction(With(udt), paying))
         \/ (\A udt \in tokens : Payers(With(udt)) = {}) /\ ThrowsOff(c)
  /\ Asks

\* executeSwap and release spend the cell that getPostedSwap and getLockedSwap find first
Settle(c, s) ==
  /\ At(c, "idle")
  /\ \E cell \in Oldest(SiglockCells(s)) :
       LET owner == IF s \in Outgoing THEN "lp" ELSE "user"
       IN  Step(c, Call("send", "settle", s, 0, {cell},
                        {Cell(1, Own(owner), cell.udt, CapacityXudt),
                         Cell(2, Own("lp"), 0, CapacitySiglock - CapacityXudt - Fee)}))
  /\ Asks

------------------------------------------------------------------------------
\* The chain

Affordable(call) ==
  /\ CellTotal(call.inputs, "capacity") >= CellTotal(call.outputs, "capacity")
  /\ CellTotal(call.inputs, "udt") >= CellTotal(call.outputs, "udt")
  /\ \A cell \in call.outputs : cell.capacity >= CapacityOccupied
Numbered(cell) == [cell EXCEPT !.point = point + @]
Made(cells) == {Numbered(cell) : cell \in cells}
Spend(inputs, outputs) ==
  live' = (live \ inputs) \cup Made(outputs) /\ point' = point + 4

\* a transaction that spends a cell already spent, or that does not add up, is refused
Send(c) ==
  /\ At(c, "send") /\ point < MaxPoint
  /\ LET call == calls[c]
     IN  IF call.inputs \subseteq live /\ Affordable(call)
         THEN /\ Spend(call.inputs, call.outputs)
              /\ wasLocked' = IF call.prop = "lockSwap" THEN wasLocked \cup {call.swap} ELSE wasLocked
         ELSE UNCHANGED <<live, point, wasLocked>>
  /\ ThrowsOff(c) /\ UNCHANGED period

\* unlock and cancelSwap: after the expiry the lock script lets the refund's owner spend the cell
Reclaim(s) ==
  /\ period > Expiry[s] /\ point < MaxPoint
  /\ \E cell \in Oldest(SiglockCells(s)) :
       Spend({cell}, {Cell(1, Own(cell.lock.refund), cell.udt, cell.capacity - Fee)})
  /\ UNCHANGED <<period, wasLocked, calls>>

PeriodPasses ==
  /\ period < MaxPeriod /\ period' = period + 1
  /\ \A c \in Callers : At(c, "ref") => StartOf(period) < calls[c].start + MaxQuery
  /\ UNCHANGED <<live, point, wasLocked, calls>>

------------------------------------------------------------------------------
CkbInit ==
  /\ live = FirstCells
  /\ period = 10 /\ point = 0
  /\ wasLocked = {} /\ calls = [c \in Callers |-> NoCall]

CkbNext ==
  \/ \E c \in Callers :
       \/ \E s \in Incoming : StartCkbCall(c, "lockSwap", s)
       \/ \E s \in Outgoing : StartCkbCall(c, "postSwapFromInitiator", s)
       \/ StartCkbCall(c, "transfer", "none")
       \/ \E s \in Incoming \cup Outgoing : Settle(c, s)
       \/ BuildRefCells(c) \/ CollectCells(c) \/ Send(c)
  \/ \E s \in Incoming \cup Outgoing : Reclaim(s)
  \/ PeriodPasses

------------------------------------------------------------------------------
\* Until ten periods after it expires, a swap that was locked is known to have
\* been, whatever other locks have moved the items since, and it is locked
\* only once: two calls that would lock at the same time spend the same
\* reference cell, and only one of them can.  It takes for granted that the
\* first reference cell of the shard is not made by two calls at once: the
\* newer would then hide the older, and what it remembers, for good.
OneRefCell == \A old, new \in RefCells : old = new
RefCellsRemember ==
  OneRefCell =>
    \A s \in Incoming : StartOf(period) <= Expiry[s] =>
      /\ \A old, new \in SiglockCells(s) : old = new
      /\ s \in wasLocked => GetLockedSwap(s) # "none"
=============================================================================
