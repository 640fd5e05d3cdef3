----------------------------- MODULE FuelSales ------------------------------
(***************************************************************************)
(* Sales of the fuel station made by tickets, and their cancellation.      *)
(*                                                                         *)
(* A sale is created with its bill and its stock issue in one transaction. *)
(* Cancelling voids the bill and receives the stock back; each may fail by *)
(* itself, and the sale is then COMPENSATING until a retry does the rest or *)
(* the attempts run out.  The cancel and retry requests work on a copy of  *)
(* the sale read before their transaction, and save it over the row; the   *)
(* compensation cycle locks the row and is one step.                       *)
(***************************************************************************)
EXTENDS Integers, Retail

CONSTANTS
  Cancels,        \* requests that cancel or retry a sale
  FuelAttempts,   \* COMPENSATION_MAX_ATTEMPTS
  MaxByHand       \* bound: attempts of a sale that requests may load

ASSUME FuelAssumption == FuelAttempts \in Nat \ {0} /\ MaxByHand \in Nat

VARIABLES
  sale,        \* sale[t]: the sale with its bill and its stock
  dispenses,   \* dispenses[t]: dispenses recorded for the ticket
  loaded       \* loaded[q]: the copy of a sale that the request works on

fuelVars == <<sale, dispenses, loaded>>

NoSale == [status |-> "ABSENT"]
Unsettled == {"ACTIVE", "COMPENSATING", "COMPENSATION_FAILED"}
Sales == [status : Unsettled \cup {"CANCELLED"}, attempts : Nat, reversal : BOOLEAN,
          bill : {"ISSUED", "VOIDED"}, stock : {"OUT", "BACK"}]
Idle == [ticket |-> "NONE"]
Copies == [ticket : Tickets, attempts : Nat, reversal : BOOLEAN]

FuelTypeOK ==
  /\ sale \in [Tickets -> Sales \cup {NoSale}]
  /\ dispenses \in [Tickets -> Nat]
  /\ loaded \in [Cancels -> Copies \cup {Idle}]

FuelInit ==
  /\ sale = [t \in Tickets |-> NoSale]
  /\ dispenses = [t \in Tickets |-> 0]
  /\ loaded = [q \in Cancels |-> Idle]

-----------------------------------------------------------------------------
\* create_sale_with_status; its failure leaves no sale, bill or stock movement.
NewSale == [status |-> "ACTIVE", attempts |-> 0, reversal |-> FALSE,
            bill |-> "ISSUED", stock |-> "OUT"]

\* _attempt_sale_compensation on copy c over the row s: voided and received say which of
\* void_doc and post_receive succeed.  Both answer what was done before, and the stock is
\* not tried when the copy knows its reversal.
Failed(c, voided, received) == ~voided \/ ~(c.reversal \/ received)
Outcome(c, voided, received) ==
  IF ~Failed(c, voided, received) THEN "CANCELLED"
  ELSE IF c.attempts + 1 >= FuelAttempts THEN "COMPENSATION_FAILED" ELSE "COMPENSATING"
Compensated(c, s, voided, received) ==
  [status   |-> Outcome(c, voided, received),
   attempts |-> c.attempts + 1,
   reversal |-> c.reversal \/ received,
   bill     |-> IF voided THEN "VOIDED" ELSE s.bill,
   stock    |-> IF ~c.reversal /\ received THEN "BACK" ELSE s.stock]

\* cancel_sale and retry_sale_compensation: the view reads the sale, then the
\* transaction runs on that copy.
Load(q, t, from) ==
  /\ loaded[q] = Idle
  /\ sale[t].status \in from
  /\ sale[t].attempts < MaxByHand       \* bound on requests
  /\ loaded' = [loaded EXCEPT ![q] = [ticket |-> t, attempts |-> sale[t].attempts,
                                      reversal |-> sale[t].reversal]]
  /\ UNCHANGED <<sale, dispenses>>
CancelSale(q, t) == Load(q, t, Unsettled)
RetrySale(q, t) == Load(q, t, Unsettled \ {"ACTIVE"})
RunOnCopy(q) ==
  /\ loaded[q] # Idle
  /\ \E voided, received \in BOOLEAN :
       sale' = [sale EXCEPT ![loaded[q].ticket] = Compensated(loaded[q], @, voided, received)]
  /\ loaded' = [loaded EXCEPT ![q] = Idle]
  /\ UNCHANGED dispenses

\* run_fuel_compensation_cycle on one sale whose retry is due.
FuelCycleOfFailed(t) ==
  /\ sale[t].status = "COMPENSATION_FAILED"
  /\ sale[t].attempts < MaxByHand
  /\ \E voided, received \in BOOLEAN :
       sale' = [sale EXCEPT ![t] = Compensated(@, @, voided, received)]
  /\ UNCHANGED <<dispenses, loaded>>
FuelCycle(t) ==
  /\ sale[t].status = "COMPENSATING"
  /\ \E voided, received \in BOOLEAN :
       sale' = [sale EXCEPT ![t] = Compensated(@, @, voided, received)]
  /\ UNCHANGED <<dispenses, loaded>>
=============================================================================
