----------------------------- MODULE Inventory ------------------------------
(***************************************************************************)
(* Stock of one item in the warehouses of a branch: receipts, issues,      *)
(* adjustments and transfers, each one transaction of a request.           *)
(*                                                                         *)
(* A request looks its idempotency key up before it takes any lock, then   *)
(* locks its warehouses one at a time (a transfer needs two, and its query *)
(* gives no order) and does the rest at once: what else it asks for is     *)
(* chosen then.  A request without a key behaves like one whose key nobody *)
(* else has.  Quantities and costs are numbers of the smallest units that  *)
(* the database keeps: Scale units of quantity make a piece, so a quantity *)
(* times a cost has to be rounded to be a cost again.                      *)
(***************************************************************************)
EXTENDS Integers, FiniteSets, Functions

CONSTANTS
  Warehouses,
  Requests,     \* requests being served, from the API, a sync command or another module
  Keys,         \* idempotency keys
  Quantities,
  Costs,
  Counts,       \* quantities an adjustment may set
  Scale         \* units of quantity in a piece: 1 / QTY_Q

ASSUME InventoryAssumption ==
  /\ Quantities \subseteq Nat \ {0}
  /\ Costs \subseteq Nat
  /\ Counts \subseteq Int
  /\ Scale \in Nat \ {0}

VARIABLES
  balance,   \* balance[w]: quantity on hand and average cost; an absent row is zero
  moved,     \* stock movements
  request    \* request[r]: the key, the warehouses needed and those locked

vars == <<balance, moved, request>>

\* What the API is asked for.
Receipts == [kind : {"RECEIVE"}, key : Keys, at : Warehouses, qty : Quantities, cost : Costs]
Issues == [kind : {"ISSUE"}, key : Keys, at : Warehouses, qty : Quantities, negative : BOOLEAN]
Adjustments == [kind : {"ADJUST"}, key : Keys, at : Warehouses, count : Counts]
Transfers ==
  {o \in [kind : {"TRANSFER"}, key : Keys, at : Warehouses, to : Warehouses, qty : Quantities] :
     o.at # o.to}
Operations == Receipts \cup Issues \cup Adjustments \cup Transfers

Idle == [busy |-> FALSE]
Movements == [key : Keys, type : {"RECEIVE", "ISSUE", "ADJUST", "TRANSFER_OUT", "TRANSFER_IN"},
              at : Warehouses, delta : Int, total : Int, debt : BOOLEAN]

TypeOK ==
  /\ balance \in [Warehouses -> [qty : Int, avg : Int]]
  /\ moved \subseteq Movements
  /\ request \in [Requests ->
       [busy : {TRUE}, key : Keys, needs : SUBSET Warehouses, locks : SUBSET Warehouses]
         \cup {Idle}]

Init ==
  /\ balance = [w \in Warehouses |-> [qty |-> 0, avg |-> 0]]
  /\ moved = {}
  /\ request = [r \in Requests |-> Idle]

-----------------------------------------------------------------------------
\* _q_cost of a quotient: half a unit is rounded away from zero.
Magnitude(n) == IF n < 0 THEN -n ELSE n
Rounded(n, d) ==
  LET q == (2 * Magnitude(n) + Magnitude(d)) \div (2 * Magnitude(d))
  IN IF n * d < 0 THEN -q ELSE q

Total(qty, cost) == Rounded(qty * cost, Scale)

AverageOfUnits(b, qty, cost) == IF b.qty + qty = 0 THEN 0 ELSE Rounded(b.avg + cost, 2)
Average(b, qty, cost) ==
  IF b.qty + qty = 0 THEN 0
  ELSE Rounded(b.qty * b.avg + Scale * Total(qty, cost), b.qty + qty)

\* A movement and what its event says of debt: allow_negative, or a count below zero.
MayOwe(o) == (o.kind = "ISSUE" /\ o.negative) \/ (o.kind = "ADJUST" /\ o.count < 0)
MovementOfKind(o, type, w, delta, cost) ==
  [key |-> o.key, type |-> o.kind, at |-> w, delta |-> delta, total |-> Total(delta, cost),
   debt |-> MayOwe(o)]
Movement(o, type, w, delta, cost) ==
  [key |-> o.key, type |-> type, at |-> w, delta |-> delta, total |-> Total(delta, cost),
   debt |-> MayOwe(o)]

Received(o) ==
  LET b == balance[o.at]
  IN /\ balance' = [balance EXCEPT ![o.at] =
          [qty |-> b.qty + o.qty, avg |-> Average(b, o.qty, o.cost)]]
     /\ moved' = moved \cup {Movement(o, "RECEIVE", o.at, o.qty, o.cost)}

Lowered(b, qty) == [qty |-> b.qty - qty, avg |-> IF b.qty = qty THEN 0 ELSE b.avg]
Issued(o) ==
  LET b == balance[o.at]
  IN /\ balance' = [balance EXCEPT ![o.at] = Lowered(b, o.qty)]
     /\ moved' = moved \cup {Movement(o, "ISSUE", o.at, -o.qty, b.avg)}

Adjusted(o) ==
  LET b == balance[o.at]
  IN /\ balance' = [balance EXCEPT ![o.at].qty = o.count]
     /\ moved' = moved \cup {Movement(o, "ADJUST", o.at, o.count - b.qty, b.avg)}

\* The destination keeps its average cost; the source's is taken by a destination that
\* the transfer leaves empty, that is, which it owed exactly what arrived.
Raised(b, qty, cost) == [qty |-> b.qty + qty, avg |-> IF b.qty + qty = 0 THEN cost ELSE b.avg]
Transferred(o) ==
  LET b == balance[o.at]
  IN /\ balance' = [balance EXCEPT ![o.at] = Lowered(@, o.qty),
                                   ![o.to] = Raised(@, o.qty, b.avg)]
     /\ moved' = moved \cup {Movement(o, "TRANSFER_OUT", o.at, -o.qty, b.avg),
                             Movement(o, "TRANSFER_IN", o.to, o.qty, b.avg)}

\* "stock insuficiente"
Enough(o) ==
  \/ o.kind \in {"RECEIVE", "ADJUST"}
  \/ o.kind = "ISSUE" /\ o.negative
  \/ o.kind \in {"ISSUE", "TRANSFER"} /\ balance[o.at].qty >= o.qty

-----------------------------------------------------------------------------
\* The key is looked up: a movement that has it answers or refuses the request.
Unused(key) == \A m \in moved : m.key # key
Needs(o) == IF o.kind = "TRANSFER" THEN {o.at, o.to} ELSE {o.at}
Start(r, key, needs) ==
  /\ request[r] = Idle
  /\ Unused(key)
  /\ request' = [request EXCEPT ![r] = [busy |-> TRUE, key |-> key, needs |-> needs, locks |-> {}]]
  /\ UNCHANGED <<balance, moved>>

\* select_for_update on the warehouses; their balance rows are locked under them.
Holds(r, w) == request[r] # Idle /\ w \in request[r].locks
LacksLock(r, w) == request[r] # Idle /\ w \in request[r].needs \ request[r].locks
Lock(r, w) ==
  /\ LacksLock(r, w)
  /\ \A q \in Requests : ~Holds(q, w)
  /\ request' = [request EXCEPT ![r].locks = @ \cup {w}]
  /\ UNCHANGED <<balance, moved>>

Locked(r) == request[r] # Idle /\ request[r].locks = request[r].needs
Asks(r, o) == o.key = request[r].key /\ Needs(o) = request[r].needs
Ends(r) == request' = [request EXCEPT ![r] = Idle]

\* Insertion of the movement: the key is unique in the company.
InsertableAlways(key) == TRUE
Insertable(key) == Unused(key)
Commit(r, o) ==
  /\ Locked(r)
  /\ Asks(r, o)
  /\ Enough(o)
  /\ Insertable(o.key)
  /\ \/ o.kind = "RECEIVE" /\ Received(o)
     \/ o.kind = "ISSUE" /\ Issued(o)
     \/ o.kind = "ADJUST" /\ Adjusted(o)
     \/ o.kind = "TRANSFER" /\ Transferred(o)
  /\ Ends(r)

\* Refused for lack of stock or for a key taken meanwhile: rolled back.
Refuse(r, o) ==
  /\ Locked(r)
  /\ Asks(r, o)
  /\ ~(Enough(o) /\ Insertable(o.key))
  /\ Ends(r)
  /\ UNCHANGED <<balance, moved>>

\* The database ends one of the transactions that wait for each other in a circle.
WaitsFor(r, q) == \E w \in Warehouses : LacksLock(r, w) /\ Holds(q, w)
Deadlocked(r) ==
  \E circle \in SUBSET Requests :
    /\ r \in circle
    /\ \A q \in circle : (\E p \in circle : WaitsFor(q, p)) /\ (\E p \in circle : WaitsFor(p, q))
Victim(r) ==
  /\ Deadlocked(r)
  /\ Ends(r)
  /\ UNCHANGED <<balance, moved>>

Serve(r) == Victim(r) \/ \E o \in Operations : Commit(r, o) \/ Refuse(r, o)
Next ==
  \/ \E r \in Requests, o \in Operations : Start(r, o.key, Needs(o))
  \/ \E r \in Requests, w \in Warehouses : Lock(r, w)
  \/ \E r \in Requests : Serve(r)

Spec == Init /\ [][Next]_vars

-----------------------------------------------------------------------------
At(w) == {m \in moved : m.at = w}

\* A key has one operation: one movement, or the two of a transfer, of the same quantity.
OncePerKey ==
  \A m, n \in moved : m.key = n.key =>
    \/ m = n
    \/ {m.type, n.type} = {"TRANSFER_OUT", "TRANSFER_IN"} /\ m.delta + n.delta = 0 /\ m.at # n.at

\* Some issue was allowed to go negative, or somebody counted less than nothing.
MayBeOwed(w) == \E m \in At(w) : m.debt

\* The stock of a warehouse is worth what its movements book, up to half a unit of cost per
\* piece and receipt (the average) and half a unit per other movement (its total), if
\* nothing was transferred in and it never owed stock.
Gain == [m \in Movements |-> IF m.delta > 0 THEN m.delta ELSE 0]
Worth == [m \in Movements |-> m.total]
Pieces(w) == SumFunctionOnSet(Gain, At(w))
Booked(w) == SumFunctionOnSet(Worth, At(w))
Receipt(w) == {m \in At(w) : m.type = "RECEIVE"}
Lost(w) == Cardinality(Receipt(w)) * Pieces(w) + Scale * Cardinality(At(w) \ Receipt(w))
ValueIsBooked ==
  \A w \in Warehouses :
    (\A m \in At(w) : m.type # "TRANSFER_IN") /\ ~MayBeOwed(w) =>
      2 * Magnitude(balance[w].qty * balance[w].avg - Scale * Booked(w)) <= Lost(w)
=============================================================================
