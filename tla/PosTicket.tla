----------------------------- MODULE PosTicket ------------------------------
(***************************************************************************)
(* The point of sale of one branch: POS sessions and tickets, over cash    *)
(* sessions and payment intents (CashDesk) and fuel sales (FuelSales).     *)
(*                                                                         *)
(* A checkout sells, takes the payment and closes the ticket in one        *)
(* transaction which keeps what it achieved when a later part fails, and   *)
(* is then retried by requests and by the compensation cycle.  Requests    *)
(* read their ticket before the transaction that locks it: reading and     *)
(* running are two steps.  The cycle and the void lock the ticket first    *)
(* and are one step.                                                       *)
(***************************************************************************)
EXTENDS CashDesk, FuelSales

CONSTANTS
  Tills,         \* requests that check out a ticket or register its payment
  MaxAttempts,   \* POS_COMPENSATION_MAX_ATTEMPTS
  MaxTries       \* bound: failed checkouts of a ticket that requests may read

ASSUME PosAssumption ==
  /\ MaxAttempts \in Nat \ {0}
  /\ MaxTries \in Nat

VARIABLES
  pos,      \* pos[s]: status of the POS session whose cash session is s
  ticket,   \* ticket[t]: the ticket's row
  till      \* till[r]: the request that has read a ticket and not run yet

posVars == <<pos, ticket, till>>
vars == <<cashVars, fuelVars, posVars>>

NoTicket == [status |-> "ABSENT"]
TicketStatuses == {"CART_OPEN", "CHECKOUT_PENDING", "CLOSED", "VOIDED"}
Rows == [status : TicketStatuses, session : Sessions, method : {"CASH", "TRANSFER"},
         attempts : Nat, pending : BOOLEAN, payment : IntentKeys \cup {"NONE"}]
Waiting == [op : {"CHECKOUT", "PAYMENT"}, ticket : Tickets]
Free == [op |-> "FREE"]

TypeOK ==
  /\ CashTypeOK
  /\ FuelTypeOK
  /\ pos \in [Sessions -> {"ABSENT", "OPEN", "CLOSED"}]
  /\ ticket \in [Tickets -> Rows \cup {NoTicket}]
  /\ till \in [Tills -> Waiting \cup {Free}]

Init ==
  /\ CashInit
  /\ FuelInit
  /\ pos = [s \in Sessions |-> "ABSENT"]
  /\ ticket = [t \in Tickets |-> NoTicket]
  /\ till = [r \in Tills |-> Free]

-----------------------------------------------------------------------------
\* open_pos_session: an OPEN one is answered; otherwise it opens a cash session with it,
\* and a POS session that appeared meanwhile violates the unique index: all rolls back.
NoPosOpen == \A s \in Sessions : pos[s] # "OPEN"
OpenPosLook(c) == NoPosOpen /\ Looks(c, "POS") /\ UNCHANGED <<fuelVars, posVars>>
OpenPos(c, s) ==
  /\ opening[c] = "POS"
  /\ NoPosOpen
  /\ Inserts(c, s)
  /\ pos' = [pos EXCEPT ![s] = "OPEN"]
  /\ UNCHANGED <<fuelVars, ticket, till>>
OpenPosRefused(c) ==
  /\ opening[c] = "POS"
  /\ ~NoPosOpen
  /\ opening' = [opening EXCEPT ![c] = "IDLE"]
  /\ UNCHANGED <<cash, moves, intent, fuelVars, posVars>>

\* close_pos_session (and POS_CASH_COUNT): counts the cash session, if it is still open.
ClosePos(s) ==
  /\ pos[s] = "OPEN"
  /\ pos' = [pos EXCEPT ![s] = "CLOSED"]
  /\ cash' = [cash EXCEPT ![s] = "CLOSED"]
  /\ UNCHANGED <<moves, intent, opening, fuelVars, ticket, till>>

\* open_ticket: the session was OPEN when the view read it.
OpenTicket(t, s, method) ==
  /\ ticket[t] = NoTicket
  /\ pos[s] # "ABSENT"
  /\ ticket' = [ticket EXCEPT ![t] =
       [status |-> "CART_OPEN", session |-> s, method |-> method, attempts |-> 0,
        pending |-> FALSE, payment |-> "NONE"]]
  /\ UNCHANGED <<cashVars, fuelVars, pos, till>>

-----------------------------------------------------------------------------
\* checkout_ticket under its locks.  The parts that are not done yet run in this order,
\* and n of them are over when the first exception, if any, is raised.
Parts == <<"dispense", "sale", "intent", "capture", "cash", "close">>
Over(n, part) == \E i \in 1..n : Parts[i] = part

PaymentKey(t) == IF ticket[t].payment = "NONE" THEN "payment" ELSE ticket[t].payment
Income(t) == Movement(ticket[t].session, t, "INCOME")
PaysCash(t) == ticket[t].method = "CASH" /\ Income(t) \notin moves

\* The parts that can only fail: capturing what was given back, cash in a counted session.
Possible(t, n) ==
  /\ Over(n, "capture") => Capturable(intent[t][PaymentKey(t)])
  /\ Over(n, "cash") /\ PaysCash(t) => TakesMoves(ticket[t].session)

SellsAgain(t, n) ==
  /\ dispenses' = IF Over(n, "dispense") THEN [dispenses EXCEPT ![t] = @ + 1] ELSE dispenses
  /\ sale' = IF Over(n, "sale") /\ sale[t] = NoSale
               THEN [sale EXCEPT ![t] = NewSale] ELSE sale
  /\ UNCHANGED loaded
Sells(t, n) ==
  /\ dispenses' = IF Over(n, "dispense") /\ sale[t] = NoSale
                    THEN [dispenses EXCEPT ![t] = @ + 1] ELSE dispenses
  /\ sale' = IF Over(n, "sale") /\ sale[t] = NoSale
               THEN [sale EXCEPT ![t] = NewSale] ELSE sale
  /\ UNCHANGED loaded
Charges(t, n) ==
  /\ intent' = IF Over(n, "intent")
                 THEN [intent EXCEPT ![t][PaymentKey(t)] =
                         IF Over(n, "capture") THEN "CAPTURED" ELSE Created(@)]
                 ELSE intent
  /\ moves' = IF Over(n, "cash") /\ PaysCash(t) THEN moves \cup {Income(t)} ELSE moves
  /\ UNCHANGED <<cash, opening>>

\* What a failed checkout leaves to its retries.
Retryable(attempts) == attempts < MaxAttempts
AfterFailure(row) ==
  [row EXCEPT !.status = "CHECKOUT_PENDING", !.attempts = @ + 1,
              !.pending = Retryable(row.attempts + 1)]
AfterPaid(row) == [row EXCEPT !.status = "PAID", !.pending = FALSE]
AfterClose(row) == [row EXCEPT !.status = "CLOSED", !.pending = FALSE]
Links(t, n) == IF Over(n, "intent") THEN PaymentKey(t) ELSE ticket[t].payment
Checkout(t) ==
  \E n \in 0..Len(Parts) :
    /\ Possible(t, n)
    /\ Sells(t, n)
    /\ Charges(t, n)
    /\ ticket' = [ticket EXCEPT ![t] =
         [(IF Over(n, "close") THEN AfterClose(@) ELSE AfterFailure(@))
            EXCEPT !.payment = Links(t, n)]]
    /\ UNCHANGED pos

\* The checkout view, the retry view and the POS_TICKET and POS_COMPENSATION_RETRY
\* commands: what they refuse or answer at once changes nothing, a count of attempts
\* included.  The run writes CHECKOUT_PENDING over whatever the ticket became meanwhile.
SessionOpen(t) == pos[ticket[t].session] = "OPEN"
CheckoutReadsAny(r, t) ==
  /\ till[r] = Free
  /\ ticket[t] # NoTicket
  /\ ticket[t].attempts < MaxTries
  /\ SessionOpen(t)
  /\ till' = [till EXCEPT ![r] = [op |-> "CHECKOUT", ticket |-> t]]
  /\ UNCHANGED <<cashVars, fuelVars, pos, ticket>>
CheckoutReads(r, t) ==
  /\ till[r] = Free
  /\ ticket[t].status \in {"CART_OPEN", "CHECKOUT_PENDING"}
  /\ ticket[t].attempts < MaxTries       \* bound on requests
  /\ SessionOpen(t)
  /\ till' = [till EXCEPT ![r] = [op |-> "CHECKOUT", ticket |-> t]]
  /\ UNCHANGED <<cashVars, fuelVars, pos, ticket>>
CheckoutRuns(r) ==
  /\ till[r].op = "CHECKOUT"
  /\ Checkout(till[r].ticket)
  /\ till' = [till EXCEPT ![r] = Free]

\* run_pos_compensation_cycle on one ticket, locked and read again.  Its batch is the first
\* `limit` of the due tickets by retry time and id: without a clock, any ticket to retry may
\* be among them, and nothing says that it ever is.  A refused one rolls back to no change.
ToRetry(t) == ticket[t].status = "CHECKOUT_PENDING" /\ ticket[t].pending
PosCycle(t) ==
  /\ ToRetry(t)
  /\ SessionOpen(t)
  /\ Checkout(t)
  /\ UNCHANGED till

\* POS_PAYMENT_INTENT: a ticket without a payment gets one, under a key of its own.
PaymentReads(r, t) ==
  /\ till[r] = Free
  /\ ticket[t] # NoTicket
  /\ ticket[t].payment = "NONE"
  /\ till' = [till EXCEPT ![r] = [op |-> "PAYMENT", ticket |-> t]]
  /\ UNCHANGED <<cashVars, fuelVars, pos, ticket>>
PaymentRuns(r) ==
  /\ till[r].op = "PAYMENT"
  /\ intent' = [intent EXCEPT ![till[r].ticket]["sync"] = "CAPTURED"]
  /\ ticket' = [ticket EXCEPT ![till[r].ticket].payment = "sync"]
  /\ till' = [till EXCEPT ![r] = Free]
  /\ UNCHANGED <<cash, moves, opening, fuelVars, pos>>

\* void_ticket: cancels the sale, which must end CANCELLED, and refunds the cash; any
\* failure rolls everything back.
Cancelled(t) ==
  IF sale[t].status = "CANCELLED" THEN UNCHANGED sale
  ELSE sale' = [sale EXCEPT ![t] = Compensated(@, @, TRUE, TRUE)]
NoRefund(t) == UNCHANGED moves
Refunded(t) ==
  IF Income(t) \in moves
    THEN /\ TakesMoves(ticket[t].session)
         /\ moves' = moves \cup {Movement(ticket[t].session, t, "REFUND")}
    ELSE UNCHANGED moves
VoidTicket(t) ==
  /\ ticket[t].status = "CLOSED"
  /\ Cancelled(t)
  /\ Refunded(t)
  /\ ticket' = [ticket EXCEPT ![t].status = "VOIDED"]
  /\ UNCHANGED <<cash, intent, opening, dispenses, loaded, pos, till>>

\* The payments API, on the intent of a ticket.
ReverseTransfer(t) ==
  /\ ticket[t] # NoTicket
  /\ Reverse(t, ticket[t].method)
  /\ UNCHANGED <<fuelVars, posVars>>

-----------------------------------------------------------------------------
OnlyCash == UNCHANGED <<fuelVars, posVars>>
OnlyFuel == UNCHANGED <<cashVars, posVars>>

Next ==
  \/ \E c \in Cashiers : OpenPosLook(c) \/ OpenPosRefused(c) \/ (Looks(c, "CASH") /\ OnlyCash)
  \/ \E c \in Cashiers, s \in Sessions : OpenPos(c, s) \/ (OpenCash(c, s) /\ OnlyCash)
  \/ \E s \in Sessions : ClosePos(s) \/ (CloseCash(s) /\ OnlyCash)
  \/ \E t \in Tickets, s \in Sessions, m \in {"CASH", "TRANSFER"} : OpenTicket(t, s, m)
  \/ \E r \in Tills, t \in Tickets : CheckoutReads(r, t) \/ PaymentReads(r, t)
  \/ \E r \in Tills : CheckoutRuns(r) \/ PaymentRuns(r)
  \/ \E t \in Tickets : PosCycle(t) \/ VoidTicket(t) \/ ReverseTransfer(t)
  \/ \E q \in Cancels, t \in Tickets : (CancelSale(q, t) \/ RetrySale(q, t)) /\ OnlyFuel
  \/ \E q \in Cancels : RunOnCopy(q) /\ OnlyFuel
  \/ \E t \in Tickets : FuelCycle(t) /\ OnlyFuel

\* The compensation cycle of the fuel station is run again and again; each try of a sale
\* counts, so its batches move on.  Nothing is assumed of the cycle of the point of sale.
Fairness == \A t \in Tickets : WF_vars(FuelCycle(t) /\ OnlyFuel)

Spec == Init /\ [][Next]_vars /\ Fairness

-----------------------------------------------------------------------------
\* A voided ticket left nothing behind, whatever stale requests did since: its bill is
\* void, its fuel is back in stock and the cash it brought in was given back.
VoidGivesBack ==
  \A t \in Tickets : ticket[t].status = "VOIDED" =>
    /\ sale[t].bill = "VOIDED"
    /\ sale[t].stock = "BACK"
    /\ Income(t) \in moves => Movement(ticket[t].session, t, "REFUND") \in moves

\* Every dispense of a ticket is the one its sale bills or was left by a failed attempt.
DispensesExplained ==
  \A t \in Tickets : ticket[t] # NoTicket =>
    dispenses[t] <= ticket[t].attempts + (IF sale[t] = NoSale THEN 0 ELSE 1)

\* A voided ticket that no checkout under way has read.
AtRest(t) ==
  /\ ticket[t].status = "VOIDED"
  /\ \A r \in Tills : till[r].op = "CHECKOUT" => till[r].ticket # t
CashOf(t) == {m \in moves : m.ticket = t}
Rests(t) == AtRest(t)' /\ dispenses'[t] = dispenses[t] /\ CashOf(t)' = CashOf(t)

\* A void is final for what no stale checkout has read: the ticket stays voided, no checkout
\* begins on it, and neither fuel nor cash moves for it again, whatever payments, retries,
\* cancellations and cycles do (checkout_ticket, retry_ticket_compensation).
VoidedAtRestIsFinal == [][\A t \in Tickets : AtRest(t) => Rests(t)]_vars

\* A sale that is being compensated is cancelled in the end, or flagged for an operator.
CompensationEnds ==
  \A t \in Tickets : sale[t].status = "COMPENSATING" ~> sale[t].status # "COMPENSATING"

\* "Ticket anulado": a voided ticket is not checked out again.
VoidedIsFinal ==
  [][\A t \in Tickets : ticket[t].status = "VOIDED" => ticket'[t].status = "VOIDED"]_vars

=============================================================================
