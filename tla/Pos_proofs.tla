----------------------------- MODULE Pos_proofs -----------------------------
(***************************************************************************)
(* The point of sale, for any constants.  Tickets: the types, what a void   *)
(* gives back and how often a ticket's fuel is dispensed.  The queue of the *)
(* terminal: the types, and how alone a queued ticket can be lost.          *)
(***************************************************************************)
EXTENDS PosTicket, PosOfflineQueue, TLAPS

(* Tickets.                                                                *)

\* Stock that a sale or a copy of it says was received back is back, and a cancelled sale
\* has its bill void and its stock back.
Sound(s) ==
  /\ s.reversal => s.stock = "BACK"
  /\ s.status = "CANCELLED" => s.bill = "VOIDED" /\ s.stock = "BACK"
SalesSound ==
  /\ \A t \in Tickets : sale[t] # NoSale => Sound(sale[t])
  /\ \A q \in Cancels : loaded[q] # Idle =>
       /\ sale[loaded[q].ticket] # NoSale
       /\ loaded[q].reversal => sale[loaded[q].ticket].stock = "BACK"

\* What a request has read is there, only a sale closes a ticket, and nothing is
\* dispensed for a ticket that is not open yet.
TicketsExist ==
  /\ \A r \in Tills : till[r] # Free => ticket[till[r].ticket] # NoTicket
  /\ \A t \in Tickets : ticket[t].status \in {"CLOSED", "VOIDED"} => sale[t] # NoSale
  /\ \A t \in Tickets : ticket[t] = NoTicket => dispenses[t] = 0

IInv == TypeOK /\ SalesSound /\ TicketsExist /\ VoidGivesBack /\ DispensesExplained

LEMMA InitInv == Init => IInv
  BY DEF Init, CashInit, FuelInit, IInv, TypeOK, CashTypeOK, FuelTypeOK, SalesSound, TicketsExist,
         VoidGivesBack, DispensesExplained, NoTicket, NoSale, Free, Idle, IntentStatuses

LEMMA TicketRow ==
  ASSUME TypeOK, NEW t \in Tickets
  PROVE  ticket[t] # NoTicket <=> ticket[t] \in Rows
  BY DEF TypeOK, Rows, NoTicket, TicketStatuses

LEMMA SaleRow ==
  ASSUME TypeOK, NEW t \in Tickets
  PROVE  sale[t] # NoSale <=> sale[t] \in Sales
  BY DEF TypeOK, FuelTypeOK, Sales, NoSale, Unsettled

LEMMA NewSaleSound == NewSale \in Sales /\ Sound(NewSale) /\ NewSale # NoSale
  BY DEF NewSale, Sales, Sound, NoSale, Unsettled

\* Cash sessions, POS sessions and intents are not looked at by the rest.
LEMMA Elsewhere ==
  ASSUME IInv, CashTypeOK', pos' \in [Sessions -> {"ABSENT", "OPEN", "CLOSED"}],
         UNCHANGED <<moves, fuelVars, ticket, till>>
  PROVE  IInv'
<1>1. TypeOK'
  BY DEF IInv, TypeOK, FuelTypeOK, fuelVars
<1>2. SalesSound' /\ TicketsExist' /\ DispensesExplained'
  BY DEF IInv, SalesSound, TicketsExist, DispensesExplained, fuelVars
<1>3. VoidGivesBack'
  BY DEF IInv, VoidGivesBack, fuelVars, Income
<1> QED
  BY <1>1, <1>2, <1>3 DEF IInv

\* A compensation keeps what is void and what is back, and a copy that knows of the
\* reversal finds the stock back.
LEMMA CompensatedSale ==
  ASSUME NEW s \in Sales, Sound(s), NEW c, c.attempts \in Nat, c.reversal \in BOOLEAN,
         c.reversal => s.stock = "BACK", NEW voided \in BOOLEAN, NEW received \in BOOLEAN
  PROVE  /\ Compensated(c, s, voided, received) \in Sales
         /\ Sound(Compensated(c, s, voided, received))
         /\ s.stock = "BACK" => Compensated(c, s, voided, received).stock = "BACK"
         /\ s.bill = "VOIDED" => Compensated(c, s, voided, received).bill = "VOIDED"
<1> DEFINE new == Compensated(c, s, voided, received)
<1>1. Outcome(c, voided, received) \in Unsettled \cup {"CANCELLED"}
  BY DEF Outcome, Unsettled
<1>2. c.reversal \/ received \in BOOLEAN
  OBVIOUS
<1>3. (IF voided THEN "VOIDED" ELSE s.bill) \in {"ISSUED", "VOIDED"}
  BY DEF Sales
<1>4. (IF ~c.reversal /\ received THEN "BACK" ELSE s.stock) \in {"OUT", "BACK"}
  BY DEF Sales
<1>5. new \in Sales
  BY <1>1, <1>2, <1>3, <1>4 DEF Compensated, Sales
<1>6. Outcome(c, voided, received) = "CANCELLED" => voided /\ (c.reversal \/ received)
  BY DEF Outcome, Failed
<1>7. Sound(new)
  BY <1>6 DEF Sound, Compensated
<1>8. /\ s.stock = "BACK" => new.stock = "BACK"
      /\ s.bill = "VOIDED" => new.bill = "VOIDED"
  BY DEF Compensated
<1> QED
  BY <1>5, <1>7, <1>8

\* A sale that only moves towards being cancelled, while tickets and cash stay.
LEMMA SaleMoves ==
  ASSUME IInv, NEW t \in Tickets, sale[t] # NoSale, NEW new \in Sales, Sound(new),
         sale[t].stock = "BACK" => new.stock = "BACK",
         sale[t].bill = "VOIDED" => new.bill = "VOIDED",
         sale' = [sale EXCEPT ![t] = new],
         loaded' \in [Cancels -> Copies \cup {Idle}],
         \A q \in Cancels : loaded'[q] \in {loaded[q], Idle},
         UNCHANGED <<cashVars, posVars, dispenses>>
  PROVE  IInv'
<1>1. sale \in [Tickets -> Sales \cup {NoSale}]
  BY DEF IInv, TypeOK, FuelTypeOK
<1>2. /\ sale'[t] = new /\ new # NoSale
      /\ \A u \in Tickets : u # t => sale'[u] = sale[u]
  BY <1>1 DEF Sales, NoSale, Unsettled
<1>3. TypeOK'
  BY <1>1 DEF IInv, TypeOK, CashTypeOK, FuelTypeOK, cashVars, posVars
<1>4. \A u \in Tickets : /\ sale[u] # NoSale <=> sale'[u] # NoSale
                         /\ sale[u].stock = "BACK" => sale'[u].stock = "BACK"
                         /\ sale[u].bill = "VOIDED" => sale'[u].bill = "VOIDED"
  BY <1>2
<1>5. SalesSound'
  <2>1. \A u \in Tickets : sale'[u] # NoSale => Sound(sale'[u])
    BY <1>2 DEF IInv, SalesSound
  <2>2. ASSUME NEW q \in Cancels, loaded'[q] # Idle
        PROVE  /\ sale'[loaded'[q].ticket] # NoSale
               /\ loaded'[q].reversal => sale'[loaded'[q].ticket].stock = "BACK"
    <3>1. loaded'[q] = loaded[q] /\ loaded[q] \in Copies
      BY <2>2 DEF IInv, TypeOK, FuelTypeOK
    <3> QED
      BY <1>4, <2>2, <3>1 DEF IInv, SalesSound, Copies
  <2> QED
    BY <2>1, <2>2 DEF SalesSound
<1>6. TicketsExist' /\ DispensesExplained'
  BY <1>4 DEF IInv, TicketsExist, DispensesExplained, posVars
<1>7. VoidGivesBack'
  BY <1>4 DEF IInv, VoidGivesBack, Income, cashVars, posVars
<1> QED
  BY <1>3, <1>5, <1>6, <1>7 DEF IInv

-----------------------------------------------------------------------------
\* Cash desk and sessions.
LEMMA DeskInv ==
  ASSUME IInv, NEW c \in Cashiers,
         \/ OpenPosLook(c) \/ OpenPosRefused(c) \/ (Looks(c, "CASH") /\ OnlyCash)
         \/ \E s \in Sessions : OpenPos(c, s) \/ (OpenCash(c, s) /\ OnlyCash)
  PROVE  IInv'
<1>1. CashTypeOK /\ pos \in [Sessions -> {"ABSENT", "OPEN", "CLOSED"}]
  BY DEF IInv, TypeOK
<1>2. \A what \in {"CASH", "POS"} : Looks(c, what) => CashTypeOK' /\ UNCHANGED moves
  BY <1>1 DEF Looks, CashTypeOK
<1>3. \A s \in Sessions : Inserts(c, s) => CashTypeOK' /\ UNCHANGED moves
  BY <1>1 DEF Inserts, CashTypeOK
<1>4. OpenPosRefused(c) => CashTypeOK' /\ UNCHANGED moves
  BY <1>1 DEF OpenPosRefused, CashTypeOK
<1>5. CashTypeOK' /\ UNCHANGED <<moves, fuelVars, ticket, till>>
  BY <1>2, <1>3, <1>4 DEF OpenPosLook, OpenPosRefused, OpenPos, OpenCash, OnlyCash, posVars
<1>6. pos' \in [Sessions -> {"ABSENT", "OPEN", "CLOSED"}]
  BY <1>1 DEF OpenPosLook, OpenPosRefused, OpenPos, OnlyCash, posVars
<1> QED
  BY <1>5, <1>6, Elsewhere

LEMMA CountInv ==
  ASSUME IInv, NEW s \in Sessions, ClosePos(s) \/ (CloseCash(s) /\ OnlyCash)
  PROVE  IInv'
<1>1. CashTypeOK /\ pos \in [Sessions -> {"ABSENT", "OPEN", "CLOSED"}]
  BY DEF IInv, TypeOK
<1>2. /\ CashTypeOK' /\ pos' \in [Sessions -> {"ABSENT", "OPEN", "CLOSED"}]
      /\ UNCHANGED <<moves, fuelVars, ticket, till>>
  BY <1>1 DEF ClosePos, CloseCash, OnlyCash, CashTypeOK, posVars
<1> QED
  BY <1>2, Elsewhere

LEMMA ReverseInv ==
  ASSUME IInv, NEW t \in Tickets, ReverseTransfer(t)
  PROVE  IInv'
<1>1. CashTypeOK'
  BY DEF IInv, TypeOK, CashTypeOK, ReverseTransfer, Reverse, IntentKeys, IntentStatuses
<1> QED
  BY <1>1, Elsewhere DEF ReverseTransfer, Reverse, posVars, IInv, TypeOK

\* A request reads a ticket that is there.
LEMMA ReadsInv ==
  ASSUME IInv, NEW r \in Tills, NEW t \in Tickets, CheckoutReads(r, t) \/ PaymentReads(r, t)
  PROVE  IInv'
<1>1. /\ ticket[t] # NoTicket
      /\ UNCHANGED <<cashVars, fuelVars, pos, ticket>>
  BY DEF CheckoutReads, PaymentReads, NoTicket
<1>2. PICK w \in Waiting : w.ticket = t /\ till' = [till EXCEPT ![r] = w]
  BY DEF CheckoutReads, PaymentReads, Waiting
<1>3. till \in [Tills -> Waiting \cup {Free}]
  BY DEF IInv, TypeOK
<1>4. TypeOK'
  BY <1>1, <1>2, <1>3 DEF IInv, TypeOK, CashTypeOK, FuelTypeOK, cashVars, fuelVars
<1>5. TicketsExist'
  BY <1>1, <1>2, <1>3 DEF IInv, TicketsExist, fuelVars
<1>6. SalesSound' /\ DispensesExplained'
  BY <1>1 DEF IInv, SalesSound, DispensesExplained, fuelVars
<1>7. VoidGivesBack'
  BY <1>1 DEF IInv, VoidGivesBack, Income, cashVars, fuelVars
<1> QED
  BY <1>4, <1>5, <1>6, <1>7 DEF IInv

LEMMA OpenTicketInv ==
  ASSUME IInv, NEW t \in Tickets, NEW s \in Sessions, NEW m \in {"CASH", "TRANSFER"},
         OpenTicket(t, s, m)
  PROVE  IInv'
<1> DEFINE new == [status |-> "CART_OPEN", session |-> s, method |-> m, attempts |-> 0,
                   pending |-> FALSE, payment |-> "NONE"]
<1>1. new \in Rows /\ new # NoTicket
  BY DEF Rows, TicketStatuses, NoTicket
<1>2. ticket[t] = NoTicket /\ ticket' = [ticket EXCEPT ![t] = new]
      /\ UNCHANGED <<cashVars, fuelVars, pos, till>>
  BY DEF OpenTicket
<1>3. ticket \in [Tickets -> Rows \cup {NoTicket}]
  BY DEF IInv, TypeOK
<1>4. ticket'[t] = new /\ \A u \in Tickets : u # t => ticket'[u] = ticket[u]
  BY <1>2, <1>3
<1>5. new.status = "CART_OPEN" /\ new.attempts = 0
  OBVIOUS
<1> HIDE DEF new
<1>6. TypeOK'
  BY <1>1, <1>2, <1>3 DEF IInv, TypeOK, CashTypeOK, FuelTypeOK, cashVars, fuelVars
<1>7. \A r \in Tills : till[r] # Free => till[r].ticket \in Tickets
  BY DEF IInv, TypeOK, Waiting
<1>8. TicketsExist'
  BY <1>1, <1>2, <1>4, <1>5, <1>7 DEF IInv, TicketsExist, fuelVars
<1>9. SalesSound'
  BY <1>2 DEF IInv, SalesSound, fuelVars
<1>10. DispensesExplained'
  <2>1. ASSUME NEW u \in Tickets, ticket'[u] # NoTicket
        PROVE  dispenses'[u] <= ticket'[u].attempts + (IF sale'[u] = NoSale THEN 0 ELSE 1)
    <3>1. CASE u = t
      BY <1>2, <1>4, <1>5, <3>1 DEF IInv, TicketsExist, fuelVars
    <3>2. CASE u # t
      BY <1>2, <1>4, <2>1, <3>2 DEF IInv, DispensesExplained, fuelVars
    <3> QED
      BY <3>1, <3>2
  <2> QED
    BY <2>1 DEF DispensesExplained
<1>11. VoidGivesBack'
  BY <1>2, <1>4, <1>5 DEF IInv, VoidGivesBack, Income, cashVars, fuelVars
<1> QED
  BY <1>6, <1>8, <1>9, <1>10, <1>11 DEF IInv

-----------------------------------------------------------------------------
\* The parts of a checkout in their order.
LEMMA PartsInOrder ==
  ASSUME NEW n \in 0..Len(Parts)
  PROVE  /\ n \in 0..6
         /\ Over(n, "dispense") <=> n >= 1
         /\ Over(n, "sale") <=> n >= 2
         /\ Over(n, "close") <=> n >= 6
<1>1. /\ Len(Parts) = 6 /\ Parts[1] = "dispense" /\ Parts[2] = "sale" /\ Parts[3] = "intent"
      /\ Parts[4] = "capture" /\ Parts[5] = "cash" /\ Parts[6] = "close"
  BY DEF Parts
<1>2. n \in 0..6
  BY <1>1
<1>3. \A i \in 1..n : i \in {1, 2, 3, 4, 5, 6}
  BY <1>2
<1> QED
  BY <1>1, <1>2, <1>3 DEF Over

\* A checkout that ends after any of its parts, from whatever the ticket became.
LEMMA CheckoutInv ==
  ASSUME IInv, NEW t \in Tickets, ticket[t] # NoTicket, Checkout(t),
         till' \in [Tills -> Waiting \cup {Free}],
         \A r \in Tills : till'[r] \in {till[r], Free}
  PROVE  IInv'
<1>1. PICK n \in 0..Len(Parts) :
        /\ Sells(t, n) /\ Charges(t, n)
        /\ ticket' = [ticket EXCEPT ![t] =
             [(IF Over(n, "close") THEN AfterClose(@) ELSE AfterFailure(@))
                EXCEPT !.payment = Links(t, n)]]
        /\ UNCHANGED pos
  BY DEF Checkout
<1>2. /\ n \in 0..6
      /\ Over(n, "dispense") <=> n >= 1
      /\ Over(n, "sale") <=> n >= 2
      /\ Over(n, "close") <=> n >= 6
  BY PartsInOrder
<1> DEFINE new == [(IF Over(n, "close") THEN AfterClose(ticket[t]) ELSE AfterFailure(ticket[t]))
                     EXCEPT !.payment = Links(t, n)]
<1>3. ticket[t] \in Rows
  BY TicketRow DEF IInv
<1>4. Links(t, n) \in IntentKeys \cup {"NONE"} /\ PaymentKey(t) \in IntentKeys
  BY <1>3 DEF Links, PaymentKey, Rows, IntentKeys
<1>5. /\ new \in Rows
      /\ new.session = ticket[t].session
      /\ new.status = IF n >= 6 THEN "CLOSED" ELSE "CHECKOUT_PENDING"
      /\ new.attempts = IF n >= 6 THEN ticket[t].attempts ELSE ticket[t].attempts + 1
  <2>1. CASE n >= 6
    BY <1>2, <1>3, <1>4, <2>1 DEF AfterClose, Rows, TicketStatuses
  <2>2. CASE ~(n >= 6)
    <3> DEFINE due == Retryable(ticket[t].attempts + 1)
    <3>1. due \in BOOLEAN /\ ticket[t].attempts + 1 \in Nat
      BY <1>3 DEF Retryable, Rows
    <3> HIDE DEF due
    <3>2. AfterFailure(ticket[t]) = [ticket[t] EXCEPT !.status = "CHECKOUT_PENDING",
                                       !.attempts = @ + 1, !.pending = due]
      BY DEF AfterFailure, due
    <3>3. AfterFailure(ticket[t]) =
            [status |-> "CHECKOUT_PENDING", session |-> ticket[t].session,
             method |-> ticket[t].method, attempts |-> ticket[t].attempts + 1,
             pending |-> due, payment |-> ticket[t].payment]
      BY <1>3, <3>2 DEF Rows
    <3>4. new = [status |-> "CHECKOUT_PENDING", session |-> ticket[t].session,
                 method |-> ticket[t].method, attempts |-> ticket[t].attempts + 1,
                 pending |-> due, payment |-> Links(t, n)]
      BY <1>2, <2>2, <3>3
    <3> QED
      BY <1>3, <1>4, <2>2, <3>1, <3>4 DEF Rows, TicketStatuses
  <2> QED
    BY <2>1, <2>2
<1>6. ticket' = [ticket EXCEPT ![t] = new]
  BY <1>1
<1> HIDE DEF new
<1>7. /\ ticket \in [Tickets -> Rows \cup {NoTicket}] /\ sale \in [Tickets -> Sales \cup {NoSale}]
      /\ dispenses \in [Tickets -> Nat] /\ loaded \in [Cancels -> Copies \cup {Idle}]
      /\ intent \in [Tickets -> [IntentKeys -> IntentStatuses]] /\ moves \subseteq Movements
  BY DEF IInv, TypeOK, CashTypeOK, FuelTypeOK
<1>8. ticket'[t] = new /\ \A u \in Tickets : u # t => ticket'[u] = ticket[u]
  BY <1>6, <1>7
<1>9. /\ sale' = IF n >= 2 /\ sale[t] = NoSale THEN [sale EXCEPT ![t] = NewSale] ELSE sale
      /\ dispenses' = IF n >= 1 /\ sale[t] = NoSale THEN [dispenses EXCEPT ![t] = @ + 1]
                      ELSE dispenses
      /\ loaded' = loaded
  BY <1>1, <1>2 DEF Sells
<1>10. /\ \A u \in Tickets : u # t => sale'[u] = sale[u] /\ dispenses'[u] = dispenses[u]
       /\ sale[t] # NoSale => sale'[t] = sale[t] /\ dispenses'[t] = dispenses[t]
       /\ sale[t] = NoSale => /\ sale'[t] = IF n >= 2 THEN NewSale ELSE NoSale
                              /\ dispenses'[t] = dispenses[t] + IF n >= 1 THEN 1 ELSE 0
  BY <1>7, <1>9
<1>11. moves' \subseteq moves \cup {Income(t)} /\ moves' \subseteq Movements
       /\ UNCHANGED <<cash, opening>>
  <2>1. moves' \subseteq moves \cup {Income(t)} /\ UNCHANGED <<cash, opening>>
    BY <1>1 DEF Charges
  <2>2. Income(t) \in Movements
    BY <1>3 DEF Income, Movement, Movements, Rows
  <2> QED
    BY <1>7, <2>1, <2>2
<1>12. intent' \in [Tickets -> [IntentKeys -> IntentStatuses]]
  <2>1. intent[t] \in [IntentKeys -> IntentStatuses] /\ intent[t][PaymentKey(t)] \in IntentStatuses
    BY <1>4, <1>7
  <2>2. (IF Over(n, "capture") THEN "CAPTURED" ELSE Created(intent[t][PaymentKey(t)])) \in IntentStatuses
    BY <2>1 DEF Created, IntentStatuses
  <2>3. \A v \in IntentStatuses :
          [intent EXCEPT ![t][PaymentKey(t)] = v] \in [Tickets -> [IntentKeys -> IntentStatuses]]
    BY <1>4, <1>7, <2>1
  <2> QED
    BY <1>1, <1>7, <2>2, <2>3 DEF Charges
<1>13. TypeOK'
  <2>1. sale' \in [Tickets -> Sales \cup {NoSale}] /\ dispenses' \in [Tickets -> Nat]
    BY <1>7, <1>9, NewSaleSound
  <2>2. ticket' \in [Tickets -> Rows \cup {NoTicket}]
    BY <1>5, <1>6, <1>7
  <2> QED
    BY <1>1, <1>9, <1>11, <1>12, <2>1, <2>2 DEF IInv, TypeOK, CashTypeOK, FuelTypeOK
<1>14. SalesSound'
  <2>1. \A u \in Tickets : sale[u] # NoSale => sale'[u] = sale[u]
    BY <1>10
  <2>2. \A u \in Tickets : sale'[u] # NoSale => Sound(sale'[u])
    BY <1>10, NewSaleSound DEF IInv, SalesSound
  <2>3. \A q \in Cancels : loaded[q] # Idle => loaded[q].ticket \in Tickets
    BY <1>7 DEF Copies
  <2> QED
    BY <1>9, <2>1, <2>2, <2>3 DEF IInv, SalesSound
<1>15. TicketsExist'
  <2>1. new # NoTicket
    BY <1>5 DEF NoTicket
  <2>2. ASSUME NEW r \in Tills, till'[r] # Free PROVE ticket'[till'[r].ticket] # NoTicket
    <3>1. till'[r] = till[r] /\ till[r].ticket \in Tickets
      BY <2>2 DEF IInv, TypeOK, Waiting
    <3> QED
      BY <1>8, <2>1, <2>2, <3>1 DEF IInv, TicketsExist
  <2>3. \A u \in Tickets : ticket'[u].status \in {"CLOSED", "VOIDED"} => sale'[u] # NoSale
    BY <1>2, <1>5, <1>8, <1>10, NewSaleSound DEF IInv, TicketsExist
  <2>4. \A u \in Tickets : ticket'[u] = NoTicket => dispenses'[u] = 0
    BY <1>8, <1>10, <2>1 DEF IInv, TicketsExist
  <2> QED
    BY <2>2, <2>3, <2>4 DEF TicketsExist
<1>16. VoidGivesBack'
  <2>1. ASSUME NEW u \in Tickets, ticket'[u].status = "VOIDED"
        PROVE  /\ sale'[u].bill = "VOIDED" /\ sale'[u].stock = "BACK"
               /\ Income(u)' \in moves' => Movement(ticket'[u].session, u, "REFUND") \in moves'
    <3>1. u # t
      BY <1>5, <1>8, <2>1
    <3>2. ticket'[u] = ticket[u] /\ sale'[u] = sale[u] /\ Income(u)' = Income(u)
      BY <1>8, <1>10, <3>1 DEF Income
    <3>3. Income(u) # Income(t) /\ moves \subseteq moves'
      BY <1>1, <3>1 DEF Income, Movement, Charges
    <3> QED
      BY <1>11, <2>1, <3>2, <3>3 DEF IInv, VoidGivesBack
  <2> QED
    BY <2>1 DEF VoidGivesBack
<1>17. DispensesExplained'
  <2>1. ASSUME NEW u \in Tickets, ticket'[u] # NoTicket
        PROVE  dispenses'[u] <= ticket'[u].attempts + (IF sale'[u] = NoSale THEN 0 ELSE 1)
    <3>1. CASE u # t
      BY <1>8, <1>10, <2>1, <3>1 DEF IInv, DispensesExplained
    <3>2. CASE u = t
      <4>1. /\ dispenses[t] \in Nat /\ ticket[t].attempts \in Nat
            /\ dispenses[t] <= ticket[t].attempts + (IF sale[t] = NoSale THEN 0 ELSE 1)
        BY <1>3, <1>7 DEF IInv, DispensesExplained, Rows
      <4>2. /\ ticket'[u].attempts = IF n >= 6 THEN ticket[t].attempts ELSE ticket[t].attempts + 1
            /\ n \in 0..6
        BY <1>2, <1>5, <1>8, <3>2
      <4>3. CASE sale[t] # NoSale
        BY <1>10, <3>2, <4>1, <4>2, <4>3
      <4>4. CASE sale[t] = NoSale
        <5>1. /\ dispenses'[u] = dispenses[t] + IF n >= 1 THEN 1 ELSE 0
              /\ dispenses[t] <= ticket[t].attempts
              /\ n >= 2 => sale'[u] # NoSale
          BY <1>10, <3>2, <4>1, <4>4, NewSaleSound
        <5> QED
          BY <4>1, <4>2, <5>1
      <4> QED
        BY <4>3, <4>4
    <3> QED
      BY <3>1, <3>2
  <2> QED
    BY <2>1 DEF DispensesExplained
<1> QED
  BY <1>13, <1>14, <1>15, <1>16, <1>17 DEF IInv

LEMMA RunsInv ==
  ASSUME IInv, NEW r \in Tills, CheckoutRuns(r)
  PROVE  IInv'
<1>1. till[r] # Free /\ till[r] \in Waiting
  BY DEF IInv, TypeOK, CheckoutRuns, Free
<1>2. till[r].ticket \in Tickets /\ ticket[till[r].ticket] # NoTicket
  BY <1>1 DEF IInv, TicketsExist, Waiting
<1>3. /\ till' \in [Tills -> Waiting \cup {Free}]
      /\ \A q \in Tills : till'[q] \in {till[q], Free}
  BY DEF IInv, TypeOK, CheckoutRuns
<1> QED
  BY <1>2, <1>3, CheckoutInv DEF CheckoutRuns

LEMMA PosCycleInv ==
  ASSUME IInv, NEW t \in Tickets, PosCycle(t)
  PROVE  IInv'
<1>1. ticket[t] # NoTicket
  BY DEF PosCycle, ToRetry, NoTicket
<1> QED
  BY <1>1, CheckoutInv DEF PosCycle, IInv, TypeOK

\* The payment command writes the ticket's payment and nothing else of it.
LEMMA PaymentRunsInv ==
  ASSUME IInv, NEW r \in Tills, PaymentRuns(r)
  PROVE  IInv'
<1> DEFINE t == till[r].ticket
           new == [ticket[t] EXCEPT !.payment = "sync"]
<1>1. till[r] # Free /\ till[r] \in Waiting
  BY DEF IInv, TypeOK, PaymentRuns, Free
<1>2. t \in Tickets /\ ticket[t] \in Rows
  BY <1>1, TicketRow DEF IInv, TicketsExist, Waiting
<1>3. /\ new \in Rows /\ new.status = ticket[t].status /\ new.session = ticket[t].session
      /\ new.attempts = ticket[t].attempts
  BY <1>2 DEF Rows, IntentKeys
<1>4. new # NoTicket
  BY <1>3 DEF Rows, NoTicket, TicketStatuses
<1>5. /\ ticket' = [ticket EXCEPT ![t] = new] /\ till' = [till EXCEPT ![r] = Free]
      /\ intent' = [intent EXCEPT ![t]["sync"] = "CAPTURED"]
      /\ UNCHANGED <<cash, moves, opening, fuelVars, pos>>
  BY DEF PaymentRuns
<1> HIDE DEF new, t
<1>6. ticket'[t] = new /\ \A u \in Tickets : u # t => ticket'[u] = ticket[u]
  BY <1>2, <1>5 DEF IInv, TypeOK
<1>7. \A u \in Tickets : /\ ticket'[u].status = ticket[u].status
                         /\ ticket'[u].session = ticket[u].session
                         /\ ticket'[u].attempts = ticket[u].attempts
                         /\ ticket'[u] = NoTicket <=> ticket[u] = NoTicket
  <2>1. ticket[t] # NoTicket
    BY <1>2 DEF Rows, NoTicket, TicketStatuses
  <2> QED
    BY <1>3, <1>4, <1>6, <2>1
<1>8. TypeOK'
  <2>1. intent' \in [Tickets -> [IntentKeys -> IntentStatuses]]
    BY <1>2, <1>5 DEF IInv, TypeOK, CashTypeOK, IntentKeys, IntentStatuses
  <2>2. ticket' \in [Tickets -> Rows \cup {NoTicket}] /\ till' \in [Tills -> Waiting \cup {Free}]
    BY <1>2, <1>3, <1>5 DEF IInv, TypeOK
  <2> QED
    BY <1>5, <2>1, <2>2 DEF IInv, TypeOK, CashTypeOK, FuelTypeOK, fuelVars
<1>9. SalesSound'
  BY <1>5 DEF IInv, SalesSound, fuelVars
<1>10. TicketsExist'
  <2>1. \A q \in Tills : till'[q] # Free => till'[q] = till[q] /\ till[q].ticket \in Tickets
    BY <1>5 DEF IInv, TypeOK, Waiting
  <2> QED
    BY <1>5, <1>7, <2>1 DEF IInv, TicketsExist, fuelVars
<1>11. VoidGivesBack'
  BY <1>5, <1>7 DEF IInv, VoidGivesBack, Income, fuelVars
<1>12. DispensesExplained'
  BY <1>5, <1>7 DEF IInv, DispensesExplained, fuelVars
<1> QED
  BY <1>8, <1>9, <1>10, <1>11, <1>12 DEF IInv

\* The void cancels the sale, gives the cash back and ends the ticket in one step.
LEMMA VoidInv ==
  ASSUME IInv, NEW t \in Tickets, VoidTicket(t)
  PROVE  IInv'
<1>1. /\ ticket[t].status = "CLOSED" /\ Cancelled(t) /\ Refunded(t)
      /\ ticket' = [ticket EXCEPT ![t].status = "VOIDED"]
      /\ UNCHANGED <<cash, intent, opening, dispenses, loaded, pos, till>>
  BY DEF VoidTicket
<1>2. ticket[t] \in Rows /\ sale[t] \in Sales /\ Sound(sale[t])
  <2>1. ticket[t] # NoTicket /\ sale[t] # NoSale
    BY <1>1 DEF NoTicket, IInv, TicketsExist
  <2> QED
    BY <2>1, TicketRow, SaleRow DEF IInv, SalesSound
<1>3. PICK new \in Sales :
        /\ sale' = [sale EXCEPT ![t] = new] /\ Sound(new)
        /\ new.bill = "VOIDED" /\ new.stock = "BACK"
  <2>1. sale = [sale EXCEPT ![t] = sale[t]]
    BY DEF IInv, TypeOK, FuelTypeOK
  <2>2. CASE sale[t].status = "CANCELLED"
    BY <1>1, <1>2, <2>1, <2>2 DEF Cancelled, Sound
  <2>3. CASE sale[t].status # "CANCELLED"
    <3> DEFINE c == Compensated(sale[t], sale[t], TRUE, TRUE)
    <3>1. /\ sale[t].attempts \in Nat /\ sale[t].reversal \in BOOLEAN
          /\ sale[t].reversal => sale[t].stock = "BACK"
      BY <1>2 DEF Sales, Sound
    <3>2. c \in Sales /\ Sound(c)
      BY <1>2, <3>1, CompensatedSale
    <3>3. c.bill = "VOIDED" /\ c.stock = "BACK"
      BY <3>1 DEF Compensated
    <3>4. sale' = [sale EXCEPT ![t] = c]
      BY <1>1, <2>3 DEF Cancelled
    <3> QED
      BY <3>2, <3>3, <3>4
  <2> QED
    BY <2>2, <2>3
<1> DEFINE after == [ticket[t] EXCEPT !.status = "VOIDED"]
<1>4. /\ after \in Rows /\ after.session = ticket[t].session /\ after.status = "VOIDED"
      /\ after.attempts = ticket[t].attempts /\ after # NoTicket
  BY <1>2 DEF Rows, TicketStatuses, NoTicket
<1>5. ticket' = [ticket EXCEPT ![t] = after]
  BY <1>1
<1> HIDE DEF after
<1>6. /\ ticket \in [Tickets -> Rows \cup {NoTicket}] /\ sale \in [Tickets -> Sales \cup {NoSale}]
      /\ moves \subseteq Movements
  BY DEF IInv, TypeOK, CashTypeOK, FuelTypeOK
<1>7. /\ ticket'[t] = after /\ sale'[t] = new /\ new # NoSale
      /\ \A u \in Tickets : u # t => ticket'[u] = ticket[u] /\ sale'[u] = sale[u]
  BY <1>3, <1>5, <1>6 DEF Sales, NoSale, Unsettled
<1>8. /\ moves' \subseteq Movements
      /\ moves \subseteq moves'
      /\ Income(t) \in moves => Movement(ticket[t].session, t, "REFUND") \in moves'
      /\ \A u \in Tickets, s \in Sessions :
           Movement(s, u, "INCOME") \in moves' => Movement(s, u, "INCOME") \in moves
  BY <1>1, <1>2, <1>6 DEF Refunded, Movement, Movements, Rows
<1>9. TypeOK'
  <2>1. ticket' \in [Tickets -> Rows \cup {NoTicket}] /\ sale' \in [Tickets -> Sales \cup {NoSale}]
    BY <1>3, <1>4, <1>5, <1>6
  <2> QED
    BY <1>1, <1>8, <2>1 DEF IInv, TypeOK, CashTypeOK, FuelTypeOK
<1>10. SalesSound'
  <2>1. \A u \in Tickets : sale'[u] # NoSale => Sound(sale'[u])
    BY <1>3, <1>7 DEF IInv, SalesSound
  <2>2. \A q \in Cancels : loaded[q] # Idle =>
          /\ loaded[q].ticket \in Tickets
          /\ sale[loaded[q].ticket] # NoSale
          /\ loaded[q].reversal => sale[loaded[q].ticket].stock = "BACK"
    BY DEF IInv, SalesSound, TypeOK, FuelTypeOK, Copies
  <2>3. \A q \in Cancels : loaded[q] # Idle =>
          /\ sale'[loaded[q].ticket] # NoSale
          /\ loaded[q].reversal => sale'[loaded[q].ticket].stock = "BACK"
    BY <1>3, <1>7, <2>2
  <2> QED
    BY <1>1, <2>1, <2>3 DEF SalesSound
<1>11. TicketsExist'
  <2>1. \A r \in Tills : till[r] # Free => till[r].ticket \in Tickets /\ ticket[till[r].ticket] # NoTicket
    BY DEF IInv, TypeOK, Waiting, TicketsExist
  <2>2. \A u \in Tickets : ticket'[u] = NoTicket <=> ticket[u] = NoTicket
    BY <1>2, <1>4, <1>7 DEF NoTicket, Rows, TicketStatuses
  <2>3. \A u \in Tickets : ticket'[u].status \in {"CLOSED", "VOIDED"} => sale'[u] # NoSale
    BY <1>7 DEF IInv, TicketsExist
  <2> QED
    BY <1>1, <2>1, <2>2, <2>3 DEF IInv, TicketsExist
<1>12. VoidGivesBack'
  <2>1. ASSUME NEW u \in Tickets, ticket'[u].status = "VOIDED"
        PROVE  /\ sale'[u].bill = "VOIDED" /\ sale'[u].stock = "BACK"
               /\ Income(u)' \in moves' => Movement(ticket'[u].session, u, "REFUND") \in moves'
    <3>1. CASE u = t
      <4>1. Income(u)' = Income(t) /\ ticket'[u].session = ticket[t].session
        BY <1>4, <1>7, <3>1 DEF Income
      <4>2. ticket[t].session \in Sessions
        BY <1>2 DEF Rows
      <4>3. Income(t) \in moves' => Income(t) \in moves
        BY <1>8, <4>2 DEF Income
      <4> QED
        BY <1>3, <1>7, <1>8, <3>1, <4>1, <4>3
    <3>2. CASE u # t
      <4>1. Income(u)' = Income(u) /\ ticket'[u] = ticket[u] /\ sale'[u] = sale[u]
        BY <1>7, <3>2 DEF Income
      <4>2. ticket[u].session \in Sessions
        BY <1>6, <2>1, <4>1 DEF Rows, NoTicket
      <4>3. Income(u) \in moves' => Income(u) \in moves
        BY <1>8, <4>2 DEF Income
      <4> QED
        BY <1>8, <2>1, <4>1, <4>3 DEF IInv, VoidGivesBack
    <3> QED
      BY <3>1, <3>2
  <2> QED
    BY <2>1 DEF VoidGivesBack
<1>13. DispensesExplained'
  <2>1. \A u \in Tickets : ticket'[u].attempts = ticket[u].attempts
                           /\ (sale'[u] = NoSale <=> sale[u] = NoSale)
                           /\ (ticket'[u] = NoTicket <=> ticket[u] = NoTicket)
    BY <1>2, <1>4, <1>7 DEF NoTicket, Rows, TicketStatuses, Sales, NoSale, Unsettled
  <2> QED
    BY <1>1, <2>1 DEF IInv, DispensesExplained
<1> QED
  BY <1>9, <1>10, <1>11, <1>12, <1>13 DEF IInv

-----------------------------------------------------------------------------
\* A request loads a copy of a sale that is there.
LEMMA LoadInv ==
  ASSUME IInv, NEW q \in Cancels, NEW t \in Tickets, CancelSale(q, t) \/ RetrySale(q, t), OnlyFuel
  PROVE  IInv'
<1> DEFINE c == [ticket |-> t, attempts |-> sale[t].attempts, reversal |-> sale[t].reversal]
<1>1. /\ sale[t].status \in Unsettled /\ loaded' = [loaded EXCEPT ![q] = c]
      /\ UNCHANGED <<sale, dispenses, cashVars, posVars>>
  BY DEF CancelSale, RetrySale, Load, OnlyFuel
<1>2. sale[t] # NoSale
  BY <1>1 DEF NoSale, Unsettled
<1>3. /\ c \in Copies /\ c.ticket = t
      /\ c.reversal => sale[t].stock = "BACK"
  BY <1>2, SaleRow DEF IInv, Copies, Sales, SalesSound, Sound
<1> HIDE DEF c
<1>4. loaded \in [Cancels -> Copies \cup {Idle}]
  BY DEF IInv, TypeOK, FuelTypeOK
<1>5. TypeOK'
  BY <1>1, <1>3, <1>4 DEF IInv, TypeOK, CashTypeOK, FuelTypeOK, cashVars, posVars
<1>6. SalesSound'
  BY <1>1, <1>2, <1>3, <1>4 DEF IInv, SalesSound
<1>7. TicketsExist' /\ DispensesExplained'
  BY <1>1 DEF IInv, TicketsExist, DispensesExplained, posVars
<1>8. VoidGivesBack'
  BY <1>1 DEF IInv, VoidGivesBack, Income, cashVars, posVars
<1> QED
  BY <1>5, <1>6, <1>7, <1>8 DEF IInv

LEMMA OnCopyInv ==
  ASSUME IInv, NEW q \in Cancels, RunOnCopy(q), OnlyFuel
  PROVE  IInv'
<1> DEFINE t == loaded[q].ticket
           s == sale[t]
<1>1. /\ loaded[q] \in Copies /\ t \in Tickets
      /\ s # NoSale /\ (loaded[q].reversal => s.stock = "BACK")
  BY DEF RunOnCopy, IInv, TypeOK, FuelTypeOK, SalesSound, Copies
<1>2. s \in Sales /\ Sound(s) /\ loaded[q].attempts \in Nat /\ loaded[q].reversal \in BOOLEAN
  BY <1>1, SaleRow DEF IInv, SalesSound, Copies
<1>3. PICK voided, received \in BOOLEAN :
        sale' = [sale EXCEPT ![t] = Compensated(loaded[q], s, voided, received)]
  BY DEF RunOnCopy
<1> DEFINE new == Compensated(loaded[q], s, voided, received)
<1> HIDE DEF s, t
<1>4. /\ new \in Sales /\ Sound(new)
      /\ s.stock = "BACK" => new.stock = "BACK"
      /\ s.bill = "VOIDED" => new.bill = "VOIDED"
  BY <1>1, <1>2, CompensatedSale
<1>5. /\ loaded' \in [Cancels -> Copies \cup {Idle}]
      /\ \A p \in Cancels : loaded'[p] \in {loaded[p], Idle}
      /\ UNCHANGED <<cashVars, posVars, dispenses>>
  BY DEF RunOnCopy, OnlyFuel, IInv, TypeOK, FuelTypeOK
<1>6. s = sale[t] /\ sale' = [sale EXCEPT ![t] = new]
  BY <1>3 DEF s
<1> HIDE DEF new
<1> QED
  BY <1>1, <1>4, <1>5, <1>6, SaleMoves

LEMMA FuelCycleInv ==
  ASSUME IInv, NEW t \in Tickets, FuelCycle(t), OnlyFuel
  PROVE  IInv'
<1> DEFINE s == sale[t]
<1>1. s # NoSale
  BY DEF FuelCycle, NoSale
<1>2. /\ s \in Sales /\ Sound(s)
      /\ s.attempts \in Nat /\ s.reversal \in BOOLEAN
  BY <1>1, SaleRow DEF IInv, SalesSound, Sales
<1>3. s.reversal => s.stock = "BACK"
  BY <1>2 DEF Sound
<1>4. PICK voided, received \in BOOLEAN :
        sale' = [sale EXCEPT ![t] = Compensated(s, s, voided, received)]
  BY DEF FuelCycle
<1> DEFINE new == Compensated(s, s, voided, received)
<1>5. s = sale[t] /\ sale' = [sale EXCEPT ![t] = new]
  BY <1>4
<1> HIDE DEF s
<1>6. /\ new \in Sales /\ Sound(new)
      /\ s.stock = "BACK" => new.stock = "BACK"
      /\ s.bill = "VOIDED" => new.bill = "VOIDED"
  BY <1>2, <1>3, CompensatedSale
<1>7. /\ loaded' \in [Cancels -> Copies \cup {Idle}]
      /\ \A p \in Cancels : loaded'[p] \in {loaded[p], Idle}
      /\ UNCHANGED <<cashVars, posVars, dispenses>>
  BY DEF FuelCycle, OnlyFuel, IInv, TypeOK, FuelTypeOK
<1> HIDE DEF new
<1> QED
  BY <1>1, <1>5, <1>6, <1>7, SaleMoves

LEMMA StepInv == IInv /\ [Next]_vars => IInv'
<1> SUFFICES ASSUME IInv, [Next]_vars PROVE IInv'
  OBVIOUS
<1>1. CASE UNCHANGED vars
  BY <1>1, Elsewhere DEF vars, cashVars, fuelVars, posVars, IInv, TypeOK, CashTypeOK
<1> QED
  BY <1>1, DeskInv, CountInv, ReverseInv, ReadsInv, OpenTicketInv, RunsInv, PosCycleInv,
     PaymentRunsInv, VoidInv, LoadInv, OnCopyInv, FuelCycleInv DEF Next

LEMMA Inductive == Spec => []IInv
  BY InitInv, StepInv, PTL DEF Spec

\* The rows of sessions, tickets, sales and intents keep their types.
THEOREM TypeCorrect == Spec => []TypeOK
<1>1. IInv => TypeOK
  BY DEF IInv
<1> QED
  BY <1>1, Inductive, PTL

\* A voided ticket left neither bill, nor stock, nor cash behind (void_ticket), and no
\* request that still holds a copy of its sale brings any of it back.
THEOREM VoidGivesBackHolds == Spec => []VoidGivesBack
<1>1. IInv => VoidGivesBack
  BY DEF IInv
<1> QED
  BY <1>1, Inductive, PTL

\* Fuel is dispensed once for the sale of a ticket and at most once more for each attempt
\* that failed (checkout_ticket).
THEOREM DispensesExplainedHolds == Spec => []DispensesExplained
<1>1. IInv => DispensesExplained
  BY DEF IInv
<1> QED
  BY <1>1, Inductive, PTL

\* A step that leaves the ticket, its fuel and its cash alone, and reads it for no checkout.
LEMMA LeftAlone ==
  ASSUME NEW t \in Tickets, AtRest(t), ticket'[t].status = ticket[t].status,
         dispenses'[t] = dispenses[t], CashOf(t)' = CashOf(t),
         \A r \in Tills : \/ till'[r] \in {till[r], Free}
                          \/ till'[r].op = "CHECKOUT" => till'[r].ticket # t
  PROVE  Rests(t)
  BY DEF Rests, AtRest, Free

LEMMA SameCash == ASSUME NEW t \in Tickets, UNCHANGED moves PROVE CashOf(t)' = CashOf(t)
  BY DEF CashOf

\* The checkout of one ticket leaves every other alone.
LEMMA CheckoutElsewhere ==
  ASSUME IInv, NEW t \in Tickets, AtRest(t), NEW u \in Tickets, u # t, Checkout(u),
         \A r \in Tills : till'[r] \in {till[r], Free}
  PROVE  Rests(t)
<1>1. ticket'[t] = ticket[t] /\ dispenses'[t] = dispenses[t]
  BY DEF Checkout, Sells, IInv, TypeOK, FuelTypeOK
<1>2. moves' \subseteq moves \cup {Income(u)} /\ moves \subseteq moves'
  BY DEF Checkout, Charges
<1>3. Income(u).ticket = u
  BY DEF Income, Movement
<1>4. CashOf(t)' = CashOf(t)
  BY <1>2, <1>3 DEF CashOf
<1> QED
  BY <1>1, <1>4, LeftAlone

\* Only checkouts that had read a ticket before it was voided (the checkout view reads it
\* without a lock) may still revive it.
THEOREM VoidedAtRestIsFinalHolds == Spec => VoidedAtRestIsFinal
<1> DEFINE Final == \A t \in Tickets : AtRest(t) => Rests(t)
<1>1. IInv /\ [Next]_vars => [Final]_vars
  <2> SUFFICES ASSUME IInv, Next, NEW t \in Tickets, AtRest(t) PROVE Rests(t)
    OBVIOUS
  <2>1. /\ till \in [Tills -> Waiting \cup {Free}]
        /\ ticket \in [Tickets -> Rows \cup {NoTicket}]
        /\ ticket[t].status = "VOIDED"
    BY DEF IInv, TypeOK, AtRest
  <2>2. UNCHANGED <<ticket, till, dispenses, moves>> => Rests(t)
    BY SameCash, LeftAlone
  <2>3. ASSUME NEW c \in Cashiers, NEW s \in Sessions,
               OpenPos(c, s) \/ (OpenCash(c, s) /\ OnlyCash)
        PROVE  UNCHANGED <<ticket, till, dispenses, moves>>
    BY <2>3 DEF OpenPos, OpenCash, Inserts, OnlyCash, fuelVars, posVars
  <2>4. ASSUME NEW u \in Tickets, NEW s \in Sessions, NEW m \in {"CASH", "TRANSFER"},
               OpenTicket(u, s, m)
        PROVE  Rests(t)
    <3>1. ticket[u] = NoTicket /\ NoTicket.status = "ABSENT"
      BY <2>4 DEF OpenTicket, NoTicket
    <3>2. ticket'[t] = ticket[t] /\ UNCHANGED <<till, dispenses, moves>>
      BY <2>1, <2>4, <3>1 DEF OpenTicket, fuelVars, cashVars
    <3> QED
      BY <3>2, SameCash, LeftAlone
  <2>5. ASSUME NEW r \in Tills, NEW u \in Tickets, CheckoutReads(r, u) \/ PaymentReads(r, u)
        PROVE  Rests(t)
    <3>1. PICK op \in {"CHECKOUT", "PAYMENT"} :
            /\ op = "CHECKOUT" => u # t
            /\ till' = [till EXCEPT ![r] = [op |-> op, ticket |-> u]]
      BY <2>1, <2>5 DEF CheckoutReads, PaymentReads
    <3>2. \A x \in Tills : \/ till'[x] \in {till[x], Free}
                           \/ till'[x].op = "CHECKOUT" => till'[x].ticket # t
      BY <2>1, <3>1
    <3>3. UNCHANGED <<ticket, dispenses, moves>>
      BY <2>5 DEF CheckoutReads, PaymentReads, cashVars, fuelVars
    <3> QED
      BY <3>2, <3>3, SameCash, LeftAlone
  <2>6. ASSUME NEW r \in Tills, CheckoutRuns(r) PROVE Rests(t)
    <3>1. till[r] \in Waiting /\ till[r].ticket \in Tickets /\ till[r].ticket # t
      BY <2>1, <2>6 DEF CheckoutRuns, AtRest, Waiting, Free
    <3>2. \A x \in Tills : till'[x] \in {till[x], Free}
      BY <2>1, <2>6 DEF CheckoutRuns
    <3> QED
      BY <2>6, <3>1, <3>2, CheckoutElsewhere DEF CheckoutRuns
  <2>7. ASSUME NEW r \in Tills, PaymentRuns(r) PROVE Rests(t)
    <3>1. till[r] \in Waiting /\ till[r].ticket \in Tickets
      BY <2>1, <2>7 DEF PaymentRuns, Waiting, Free
    <3>2. ticket'[t].status = ticket[t].status
      <4>1. CASE till[r].ticket = t
        <5>1. ticket[t] \in Rows
          BY <2>1 DEF NoTicket
        <5>2. ticket'[t] = [ticket[t] EXCEPT !.payment = "sync"]
          BY <2>1, <2>7, <4>1 DEF PaymentRuns
        <5> QED
          BY <5>1, <5>2 DEF Rows
      <4>2. CASE till[r].ticket # t
        BY <2>1, <2>7, <4>2 DEF PaymentRuns
      <4> QED
        BY <4>1, <4>2
    <3>3. /\ \A x \in Tills : till'[x] \in {till[x], Free}
          /\ UNCHANGED <<dispenses, moves>>
      BY <2>1, <2>7 DEF PaymentRuns, fuelVars
    <3> QED
      BY <3>2, <3>3, SameCash, LeftAlone
  <2>8. ASSUME NEW u \in Tickets, PosCycle(u) PROVE Rests(t)
    <3>1. u # t /\ \A x \in Tills : till'[x] \in {till[x], Free}
      BY <2>1, <2>8 DEF PosCycle, ToRetry
    <3> QED
      BY <2>8, <3>1, CheckoutElsewhere DEF PosCycle
  <2>9. ASSUME NEW u \in Tickets, VoidTicket(u) PROVE Rests(t)
    <3>1. u # t
      BY <2>1, <2>9 DEF VoidTicket
    <3>2. ticket'[t] = ticket[t] /\ UNCHANGED <<till, dispenses>>
      BY <2>1, <2>9, <3>1 DEF VoidTicket
    <3>3. \/ UNCHANGED moves
          \/ moves' = moves \cup {Movement(ticket[u].session, u, "REFUND")}
      BY <2>9 DEF VoidTicket, Refunded
    <3>4. CashOf(t)' = CashOf(t)
      BY <3>1, <3>3 DEF CashOf, Movement
    <3> QED
      BY <3>2, <3>4, LeftAlone
  <2>10. ASSUME NEW u \in Tickets, ReverseTransfer(u) PROVE UNCHANGED <<ticket, till, dispenses, moves>>
    BY <2>10 DEF ReverseTransfer, Reverse, fuelVars, posVars
  <2>11. ASSUME NEW u \in Tickets, NEW q \in Cancels,
                CancelSale(q, u) \/ RetrySale(q, u), OnlyFuel
         PROVE  UNCHANGED <<ticket, till, dispenses, moves>>
    BY <2>11 DEF CancelSale, RetrySale, Load, OnlyFuel, cashVars, posVars
  <2>12. ASSUME NEW u \in Tickets, FuelCycle(u), OnlyFuel
         PROVE  UNCHANGED <<ticket, till, dispenses, moves>>
    BY <2>12 DEF FuelCycle, OnlyFuel, cashVars, posVars
  <2>13. ASSUME NEW c \in Cashiers,
                OpenPosLook(c) \/ OpenPosRefused(c) \/ (Looks(c, "CASH") /\ OnlyCash)
         PROVE  UNCHANGED <<ticket, till, dispenses, moves>>
    BY <2>13 DEF OpenPosLook, OpenPosRefused, Looks, OnlyCash, fuelVars, posVars
  <2>14. ASSUME NEW s \in Sessions, ClosePos(s) \/ (CloseCash(s) /\ OnlyCash)
         PROVE  UNCHANGED <<ticket, till, dispenses, moves>>
    BY <2>14 DEF ClosePos, CloseCash, OnlyCash, fuelVars, posVars
  <2>15. ASSUME NEW q \in Cancels, RunOnCopy(q), OnlyFuel
         PROVE  UNCHANGED <<ticket, till, dispenses, moves>>
    BY <2>15 DEF RunOnCopy, OnlyFuel, cashVars, posVars
  <2> QED
    BY <2>2, <2>3, <2>4, <2>5, <2>6, <2>7, <2>8, <2>9, <2>10, <2>11, <2>12, <2>13, <2>14, <2>15
    DEF Next
<1> QED
  BY <1>1, Inductive, PTL DEF Spec, VoidedAtRestIsFinal

-----------------------------------------------------------------------------
(* The offline queue of the terminal.                                      *)

\* Rows of a queue r were given their keys, and the ticket of a DONE one is served.
Honest(r, keys, served) ==
  \A i \in RowIds : /\ r[i] # NoRow => keys[i] \in Keys
                    /\ r[i].status = "DONE" => served[keys[i]]
\* So were the rows that a drain replays.
KnownCopies ==
  \A b \in Tabs : /\ \A c \in snap[b] : keyOf[c.id] \in Keys
                  /\ busy[b] # Nothing => keyOf[busy[b].id] \in Keys
HonestEdits ==
  \A b \in Tabs : edit[b] # NoEdit =>
     /\ Honest(edit[b].read, keyOf, server)
     /\ edit[b].to \in Statuses => busy[b] # Nothing
     /\ edit[b].to = "DONE" => server[keyOf[busy[b].id]]

QueueInv == /\ QueueTypeOK /\ Honest(queue, keyOf, server) /\ KnownCopies /\ HonestEdits
            /\ LostOnlyToOverlaps

LEMMA RowKinds ==
  ASSUME NEW r \in Queues, NEW i \in RowIds
  PROVE /\ r[i] # NoRow => r[i] \in QueueRows
        /\ r[i].status \in Statuses <=> r[i] # NoRow
  BY DEF Queues, QueueRows, NoRow, Statuses, Waits

LEMMA EditKinds ==
  ASSUME QueueTypeOK, NEW b \in Tabs
  PROVE /\ edit[b].to \in Statuses \cup {"QUEUED"} <=> edit[b] # NoEdit
        /\ edit[b] # NoEdit => edit[b].key \in Keys /\ edit[b].read \in Queues
  BY DEF QueueTypeOK, Edits, NoEdit, Statuses, Waits

LEMMA BusyIsCopy ==
  ASSUME QueueTypeOK, NEW b \in Tabs, busy[b] # Nothing
  PROVE busy[b] \in QueueCopies /\ busy[b].id \in RowIds /\ busy[b].attempts \in Nat
  BY DEF QueueTypeOK, QueueCopies

LEMMA QueueInitInv == QueueInit => QueueInv
  BY QueueAssumption
  DEF QueueInit, QueueInv, QueueTypeOK, Queues, Honest, KnownCopies, HonestEdits,
      LostOnlyToOverlaps, Told, NoRow, NoEdit, Nothing

\* Keys are given to fresh rows only and the server keeps what it has.
Grows == /\ keyOf' \in [RowIds -> Keys \cup {"NONE"}] /\ server' \in [Keys -> BOOLEAN]
         /\ \A i \in RowIds : keyOf[i] \in Keys => keyOf'[i] = keyOf[i]
         /\ \A k \in Keys : server[k] => server'[k]

\* So what an honest queue or a copy says stays true.
LEMMA HonestKept ==
  ASSUME NEW r \in Queues, Honest(r, keyOf, server), Grows
  PROVE Honest(r, keyOf', server')
<1> SUFFICES ASSUME NEW i \in RowIds, r[i] # NoRow
             PROVE keyOf'[i] \in Keys /\ (r[i].status = "DONE" => server'[keyOf'[i]])
  BY DEF Honest, NoRow
<1>1. keyOf[i] \in Keys /\ (r[i].status = "DONE" => server[keyOf[i]])
  BY DEF Honest
<1>2. QED
  BY <1>1 DEF Grows

LEMMA OthersKept ==
  ASSUME QueueInv, Grows
  PROVE /\ Honest(queue, keyOf', server')
        /\ \A b \in Tabs : /\ \A c \in snap[b] : keyOf'[c.id] \in Keys
                           /\ busy[b] # Nothing => keyOf'[busy[b].id] \in Keys
        /\ \A b \in Tabs : edit[b] # NoEdit =>
             /\ Honest(edit[b].read, keyOf', server')
             /\ edit[b].to \in Statuses => busy[b] # Nothing
             /\ edit[b].to = "DONE" => server'[keyOf'[busy[b].id]]
<1>1. Honest(queue, keyOf', server')
  BY HonestKept DEF QueueInv, QueueTypeOK
<1>2. ASSUME NEW b \in Tabs
      PROVE /\ \A c \in snap[b] : keyOf'[c.id] \in Keys
            /\ busy[b] # Nothing => keyOf'[busy[b].id] = keyOf[busy[b].id] /\ keyOf[busy[b].id] \in Keys
  <2>1. \A c \in snap[b] : c.id \in RowIds
    BY DEF QueueInv, QueueTypeOK, QueueCopies
  <2>2. QED
    BY <2>1, BusyIsCopy DEF QueueInv, KnownCopies, Grows
<1>3. ASSUME NEW b \in Tabs, edit[b] # NoEdit
      PROVE /\ Honest(edit[b].read, keyOf', server')
            /\ edit[b].to \in Statuses => busy[b] # Nothing
            /\ edit[b].to = "DONE" => server'[keyOf'[busy[b].id]]
  <2>1. Honest(edit[b].read, keyOf', server')
    BY <1>3, EditKinds, HonestKept DEF QueueInv, HonestEdits
  <2>2. /\ edit[b].to \in Statuses => busy[b] # Nothing
        /\ edit[b].to = "DONE" => server[keyOf[busy[b].id]] /\ busy[b] # Nothing
    BY <1>3 DEF QueueInv, HonestEdits, Statuses
  <2>3. QED
    BY <1>2, <2>1, <2>2 DEF Grows
<1>4. QED
  BY <1>1, <1>2, <1>3

\* Writing back the queue r, made from what the tab had read by giving rows another status,
\* loses nothing but what came in since.
LEMMA Written ==
  ASSUME QueueInv, NEW b \in Tabs, NEW r \in Queues, Write(b, r), Grows,
         Honest(r, keyOf', server'),
         \A i \in RowIds : edit[b].read[i] # NoRow => r[i] # NoRow
  PROVE /\ queue' \in Queues
        /\ Honest(queue', keyOf', server')
        /\ \A i \in RowIds : r[i].status \in Waits => queue'[i] = r[i]
        /\ \A k \in Told \ (overwritten \cup Overwrites(b)) : Kept(k)'
<1>1. PICK D \in SUBSET DoneRows(r) : queue' = [i \in RowIds |-> IF i \in D THEN NoRow ELSE r[i]]
  BY DEF Write
<1>2. queue' \in Queues
  BY <1>1 DEF Queues
<1>3. \A i \in RowIds : queue'[i] = NoRow \/ queue'[i] = r[i]
  BY <1>1
<1>4. Honest(queue', keyOf', server')
  BY <1>3 DEF Honest, NoRow
<1>5. \A i \in RowIds : r[i].status \in Waits => queue'[i] = r[i]
  BY <1>1 DEF DoneRows, Waits
<1>6. ASSUME NEW k \in Told \ (overwritten \cup Overwrites(b)) PROVE Kept(k)'
  <2>1. k \in Keys /\ Kept(k)
    BY DEF QueueInv, LostOnlyToOverlaps, Told
  <2>2. CASE server[k]
    BY <2>1, <2>2 DEF Grows, Kept
  <2>3. CASE ~server[k]
    <3>1. PICK i \in RowIds : keyOf[i] = k /\ queue[i].status \in Waits
      BY <2>1, <2>3 DEF Kept, Active
    <3>2. edit[b].read[i] # NoRow
      BY <3>1 DEF Overwrites
    <3>3. r[i] # NoRow /\ keyOf'[i] = k
      BY <2>1, <3>1, <3>2 DEF Grows
    <3>4. CASE r[i].status = "DONE"
      BY <3>3, <3>4 DEF Kept, Honest
    <3>5. CASE r[i].status # "DONE"
      <4>1. r[i].status \in Waits
        BY <3>3, <3>5, RowKinds DEF Statuses
      <4>2. queue'[i].status \in Waits
        BY <1>5, <4>1
      <4>3. QED
        BY <3>3, <4>2 DEF Kept, Active
    <3>6. QED
      BY <3>4, <3>5
  <2>4. QED
    BY <2>2, <2>3
<1>7. QED
  BY <1>2, <1>4, <1>5, <1>6

LEMMA Delivered ==
  ASSUME QueueTypeOK, NEW k \in Keys, Delivers(k), UNCHANGED keyOf
  PROVE Grows
  BY DEF QueueTypeOK, Delivers, Grows

\* A step that leaves the queue and its keys alone loses nothing.
LEMMA NothingWritten ==
  ASSUME QueueInv, Grows, UNCHANGED <<queue, keyOf, overwritten>>
  PROVE LostOnlyToOverlaps'
<1> SUFFICES ASSUME NEW k \in Told' \ overwritten' PROVE Kept(k)'
  BY DEF LostOnlyToOverlaps
<1>1. k \in Keys /\ Kept(k)
  BY DEF QueueInv, LostOnlyToOverlaps, Told
<1>2. QED
  BY <1>1 DEF Kept, Active, Grows

LEMMA DirectInv ==
  ASSUME QueueInv, NEW k \in Keys, Direct(k)
  PROVE QueueInv'
<1>1. Grows /\ UNCHANGED <<queue, keyOf, edit, snap, busy, overwritten>>
  BY Delivered DEF Direct, QueueInv
<1>2. QueueTypeOK'
  BY <1>1 DEF QueueInv, QueueTypeOK, Grows
<1>3. LostOnlyToOverlaps'
  BY <1>1, NothingWritten
<1>4. Honest(queue, keyOf, server)' /\ KnownCopies' /\ HonestEdits'
  BY <1>1, OthersKept DEF KnownCopies, HonestEdits
<1>5. QED
  BY <1>2, <1>3, <1>4 DEF QueueInv

\* The first half of an update: the tab reads the queue.
LEMMA BeginsInv ==
  ASSUME QueueInv, NEW b \in Tabs, NEW to \in Statuses \cup {"QUEUED"}, NEW k \in Keys,
         Reads(b, to, k), UNCHANGED <<queue, keyOf, overwritten>>, Grows,
         snap' \in [Tabs -> SUBSET QueueCopies], busy' \in [Tabs -> QueueCopies \cup {Nothing}],
         KnownCopies', \A a \in Tabs \ {b} : busy'[a] = busy[a],
         to \in Statuses => busy'[b] # Nothing,
         to = "DONE" => server'[keyOf[busy'[b].id]]
  PROVE QueueInv'
<1> DEFINE e == [to |-> to, key |-> k, read |-> queue]
<1>1. e \in Edits /\ e # NoEdit /\ e.to = to /\ e.read = queue
  BY DEF QueueInv, QueueTypeOK, Edits, NoEdit, Statuses, Waits
<1>2. edit' = [edit EXCEPT ![b] = e]
  BY DEF Reads
<1> HIDE DEF e
<1>3. edit'[b] = e /\ \A a \in Tabs \ {b} : edit'[a] = edit[a]
  BY <1>2 DEF QueueInv, QueueTypeOK
<1>4. QueueTypeOK'
  BY <1>1, <1>2 DEF QueueInv, QueueTypeOK, Grows
<1>5. LostOnlyToOverlaps'
  BY NothingWritten
<1>6. Honest(queue, keyOf, server)'
  BY OthersKept
<1>7. HonestEdits'
  <2> SUFFICES ASSUME NEW a \in Tabs, edit'[a] # NoEdit
               PROVE /\ Honest(edit'[a].read, keyOf', server')
                     /\ edit'[a].to \in Statuses => busy'[a] # Nothing
                     /\ edit'[a].to = "DONE" => server'[keyOf'[busy'[a].id]]
    BY DEF HonestEdits
  <2>1. CASE a = b
    BY <1>1, <1>3, <1>6, <2>1
  <2>2. CASE a # b
    BY <1>3, <2>2, OthersKept
  <2>3. QED
    BY <2>1, <2>2
<1>8. QED
  BY <1>4, <1>5, <1>6, <1>7 DEF QueueInv

LEMMA BeginEnqueueInv ==
  ASSUME QueueInv, NEW b \in Tabs, NEW k \in Keys, BeginEnqueue(b, k)
  PROVE QueueInv'
<1>1. Grows /\ Reads(b, "QUEUED", k) /\ UNCHANGED <<queue, keyOf, snap, busy, overwritten>>
  BY Delivered DEF BeginEnqueue, QueueInv
<1>2. KnownCopies'
  BY <1>1 DEF QueueInv, KnownCopies
<1>3. "QUEUED" \notin Statuses
  BY DEF Statuses, Waits
<1>4. QED
  BY <1>1, <1>2, <1>3, BeginsInv DEF QueueInv, QueueTypeOK

LEMMA StartDrainInv ==
  ASSUME QueueInv, NEW b \in Tabs, StartDrain(b)
  PROVE QueueInv'
<1>1. PICK elapsed \in SUBSET HasStatus("PENDING") :
        snap' = [snap EXCEPT ![b] = {Copy(i) : i \in FirstOf(elapsed \cup HasStatus("FAILED"))}]
  BY DEF StartDrain
<1> DEFINE S == {Copy(i) : i \in FirstOf(elapsed \cup HasStatus("FAILED"))}
<1>2. \A c \in S : c \in QueueCopies /\ keyOf[c.id] \in Keys
  <2> SUFFICES ASSUME NEW i \in RowIds, queue[i].status \in Statuses
               PROVE Copy(i) \in QueueCopies /\ keyOf[Copy(i).id] \in Keys
    BY DEF FirstOf, HasStatus, Statuses, Waits
  <2>1. queue[i] # NoRow /\ queue[i] \in QueueRows
    BY RowKinds DEF QueueInv, QueueTypeOK
  <2>2. QED
    BY <2>1 DEF QueueInv, Honest, Copy, QueueCopies, QueueRows
<1>3. UNCHANGED <<queue, keyOf, edit, busy, server, overwritten>>
  BY DEF StartDrain
<1> HIDE DEF S
<1>4. snap' = [snap EXCEPT ![b] = S]
  BY <1>1 DEF S
<1>5. QueueTypeOK'
  BY <1>2, <1>3, <1>4 DEF QueueInv, QueueTypeOK
<1>6. KnownCopies'
  BY <1>2, <1>3, <1>4 DEF QueueInv, QueueTypeOK, KnownCopies
<1>7. QED
  BY <1>3, <1>5, <1>6
  DEF QueueInv, Honest, HonestEdits, LostOnlyToOverlaps, Told, Kept, Active

LEMMA BeginMarkInv ==
  ASSUME QueueInv, NEW b \in Tabs, BeginMark(b)
  PROVE QueueInv'
<1>1. PICK c \in snap[b] : /\ snap' = [snap EXCEPT ![b] = @ \ {c}]
                           /\ busy' = [busy EXCEPT ![b] = c]
                           /\ Reads(b, "PROCESSING", keyOf[c.id])
  BY DEF BeginMark
<1>2. UNCHANGED <<queue, keyOf, server, overwritten>>
  BY DEF BeginMark
<1>3. c \in QueueCopies /\ c # Nothing /\ keyOf[c.id] \in Keys
  <2>1. c \in QueueCopies
    BY DEF QueueInv, QueueTypeOK
  <2>2. c # Nothing
    BY <2>1 DEF QueueCopies, Nothing
  <2>3. QED
    BY <2>1, <2>2 DEF QueueInv, KnownCopies
<1>4. Grows
  BY <1>2 DEF Grows, QueueInv, QueueTypeOK
<1>5. /\ snap' \in [Tabs -> SUBSET QueueCopies] /\ busy' \in [Tabs -> QueueCopies \cup {Nothing}]
      /\ busy'[b] = c /\ \A a \in Tabs \ {b} : busy'[a] = busy[a]
      /\ \A a \in Tabs : snap'[a] \subseteq snap[a]
  BY <1>1, <1>3 DEF QueueInv, QueueTypeOK
<1>6. KnownCopies'
  BY <1>2, <1>3, <1>5 DEF QueueInv, KnownCopies
<1>7. "PROCESSING" \in Statuses
  BY DEF Statuses, Waits
<1>8. QED
  BY <1>1, <1>2, <1>3, <1>4, <1>5, <1>6, <1>7, BeginsInv

LEMMA BeginSuccessInv ==
  ASSUME QueueInv, NEW b \in Tabs, BeginSuccess(b)
  PROVE QueueInv'
<1> DEFINE k == keyOf[busy[b].id]
<1>1. busy[b] # Nothing /\ k \in Keys
  BY DEF BeginSuccess, QueueInv, KnownCopies
<1>2. /\ server' = [server EXCEPT ![k] = TRUE] /\ Reads(b, "DONE", k)
      /\ UNCHANGED <<queue, keyOf, snap, busy, overwritten>>
  BY DEF BeginSuccess
<1>3. Grows /\ server'[k]
  BY <1>1, <1>2 DEF Grows, QueueInv, QueueTypeOK
<1>4. KnownCopies'
  BY <1>2 DEF QueueInv, KnownCopies
<1>5. "DONE" \in Statuses
  BY DEF Statuses
<1>6. QED
  BY <1>1, <1>2, <1>3, <1>4, <1>5, BeginsInv DEF QueueInv, QueueTypeOK

LEMMA BeginFailureInv ==
  ASSUME QueueInv, NEW b \in Tabs, BeginFailure(b)
  PROVE QueueInv'
<1> DEFINE k == keyOf[busy[b].id]
<1>1. busy[b] # Nothing /\ k \in Keys
  BY DEF BeginFailure, QueueInv, KnownCopies
<1>2. PICK retryable \in BOOLEAN : Reads(b, AfterError(retryable, busy[b].attempts + 1), k)
  BY DEF BeginFailure
<1>3. Delivers(k) /\ UNCHANGED <<queue, keyOf, snap, busy, overwritten>>
  BY DEF BeginFailure
<1>4. Grows
  BY <1>1, <1>3, Delivered DEF QueueInv
<1>5. KnownCopies'
  BY <1>3 DEF QueueInv, KnownCopies
<1> DEFINE to == AfterError(retryable, busy[b].attempts + 1)
<1>6. to \in Statuses /\ to # "DONE"
  BY DEF AfterError, Statuses, Waits
<1> HIDE DEF to
<1>7. Reads(b, to, k)
  BY <1>2 DEF to
<1>8. QED
  BY <1>1, <1>3, <1>4, <1>5, <1>6, <1>7, BeginsInv DEF QueueInv, QueueTypeOK

\* The second half: what is written, and that the other tabs' edits stay honest.
LEMMA WritesInv ==
  ASSUME QueueInv, NEW b \in Tabs, edit[b] # NoEdit, NEW r \in Queues, Write(b, r), Grows,
         Honest(r, keyOf', server'),
         \A i \in RowIds : edit[b].read[i] # NoRow => r[i] # NoRow,
         UNCHANGED snap, \A a \in Tabs : busy'[a] \in {busy[a], Nothing},
         \A a \in Tabs \ {b} : busy'[a] = busy[a],
         busy' \in [Tabs -> QueueCopies \cup {Nothing}], overwritten' \in SUBSET Keys,
         \A k \in Told' \ overwritten' : k \in Told \ (overwritten \cup Overwrites(b)) \/ Kept(k)'
  PROVE QueueInv'
<1>1. /\ queue' \in Queues /\ Honest(queue, keyOf, server)'
      /\ \A k \in Told \ (overwritten \cup Overwrites(b)) : Kept(k)'
  BY Written
<1>2. edit' = [edit EXCEPT ![b] = NoEdit]
  BY DEF Write
<1>3. QueueTypeOK'
  BY <1>1, <1>2 DEF QueueInv, QueueTypeOK, Grows
<1>4. KnownCopies'
  BY OthersKept DEF KnownCopies
<1>5. HonestEdits'
  <2>1. edit'[b] = NoEdit /\ \A a \in Tabs \ {b} : edit'[a] = edit[a]
    BY <1>2 DEF QueueInv, QueueTypeOK
  <2>2. QED
    BY <2>1, OthersKept DEF HonestEdits
<1>6. LostOnlyToOverlaps'
  BY <1>1 DEF LostOnlyToOverlaps
<1>7. QED
  BY <1>1, <1>3, <1>4, <1>5, <1>6 DEF QueueInv

LEMMA OverwritesKeys ==
  ASSUME QueueInv, NEW b \in Tabs
  PROVE Overwrites(b) \in SUBSET Keys
<1>1. \A i \in RowIds : queue[i].status \in Waits => queue[i] # NoRow
  BY DEF Waits, NoRow
<1>2. QED
  BY <1>1 DEF Overwrites, QueueInv, Honest

LEMMA EnqueueInv ==
  ASSUME QueueInv, NEW b \in Tabs, NEW i \in RowIds, Enqueue(b, i)
  PROVE QueueInv'
<1> DEFINE read == edit[b].read
<1>0. PICK k \in Keys : k = edit[b].key
  BY EditKinds DEF Enqueue, QueueInv, NoEdit
<1>1. /\ edit[b] # NoEdit /\ read \in Queues /\ Honest(read, keyOf, server)
      /\ overwritten' = (overwritten \cup Overwrites(b)) \ {k}
      /\ UNCHANGED <<snap, busy, server>>
  BY <1>0, EditKinds DEF Enqueue, QueueInv, HonestEdits, NoEdit
<1>2. overwritten' \in SUBSET Keys
  BY <1>1, OverwritesKeys DEF QueueInv, QueueTypeOK
<1>3. CASE \E j \in RowIds : Active(read, j, k)
  <2>1. Active(read, i, k) /\ Write(b, read) /\ UNCHANGED keyOf
    BY <1>0, <1>3 DEF Enqueue
  <2>2. Grows
    BY <1>1, <2>1 DEF Grows, QueueInv, QueueTypeOK
  <2>3. Honest(read, keyOf', server')
    BY <1>1, <2>2, HonestKept
  <2>4. Kept(k)'
    <3>1. queue'[i] = read[i]
      BY <1>1, <2>1, <2>2, <2>3, Written DEF Active
    <3>2. QED
      BY <2>1, <3>1 DEF Kept, Active
  <2>5. Told' = Told
    BY <2>1 DEF Told
  <2> HIDE DEF read
  <2>6. \A q \in Told' \ overwritten' : q \in Told \ (overwritten \cup Overwrites(b)) \/ Kept(q)'
    BY <1>1, <2>4, <2>5
  <2>7. QED
    BY <1>1, <1>2, <2>1, <2>2, <2>3, <2>6, WritesInv DEF read, QueueInv, QueueTypeOK
<1>4. CASE ~\E j \in RowIds : Active(read, j, k)
  <2> DEFINE r == [read EXCEPT ![i] = NewRow]
  <2>1. keyOf[i] = "NONE" /\ keyOf' = [keyOf EXCEPT ![i] = k] /\ Write(b, r)
    BY <1>0, <1>4 DEF Enqueue
  <2>2. Grows
    BY <1>1, <2>1, QueueAssumption DEF Grows, QueueInv, QueueTypeOK
  <2>3. NewRow \in QueueRows /\ NewRow.status = "PENDING" /\ NewRow # NoRow
    BY DEF NewRow, QueueRows, NoRow, Statuses, Waits
  <2>4. r \in Queues /\ r[i] = NewRow /\ \A j \in RowIds \ {i} : r[j] = read[j]
    BY <1>1, <2>3 DEF Queues
  <2>5. keyOf'[i] = k
    BY <2>1 DEF QueueInv, QueueTypeOK
  <2> HIDE DEF r
  <2>6. Honest(r, keyOf', server')
    BY <1>1, <2>2, <2>3, <2>4, <2>5, HonestKept DEF Honest
  <2>7. \A j \in RowIds : read[j] # NoRow => r[j] # NoRow
    BY <2>3, <2>4
  <2>8. Kept(k)'
    <3>1. queue'[i] = r[i]
      BY <1>1, <2>1, <2>2, <2>3, <2>4, <2>6, <2>7, Written DEF Waits
    <3>2. QED
      BY <2>3, <2>4, <2>5, <3>1 DEF Kept, Active, Waits
  <2>9. Told' \subseteq Told \cup {k}
    BY <2>1 DEF Told, QueueInv, QueueTypeOK
  <2>10. \A q \in Told' \ overwritten' : q \in Told \ (overwritten \cup Overwrites(b)) \/ Kept(q)'
    BY <1>1, <2>8, <2>9
  <2>11. QED
    BY <1>1, <1>2, <2>1, <2>2, <2>4, <2>6, <2>7, <2>10, WritesInv DEF QueueInv, QueueTypeOK
<1>5. QED
  BY <1>3, <1>4

LEMMA UpdateInv ==
  ASSUME QueueInv, NEW b \in Tabs, Update(b)
  PROVE QueueInv'
<1> DEFINE i == busy[b].id
           to == edit[b].to
           read == edit[b].read
           r == Put(b)
           n == IF to \in {"PENDING", "FAILED"} THEN CountedTo(busy[b].attempts + 1)
                ELSE read[i].attempts
<1>1. /\ to \in Statuses /\ Write(b, r) /\ UNCHANGED <<keyOf, snap, server>>
      /\ overwritten' = overwritten \cup Overwrites(b)
      /\ busy' = IF to = "PROCESSING" THEN busy ELSE [busy EXCEPT ![b] = Nothing]
  BY DEF Update
<1>2. edit[b] # NoEdit /\ read \in Queues
  BY <1>1, EditKinds DEF QueueInv
<1>3. /\ Honest(read, keyOf, server) /\ busy[b] # Nothing
      /\ to = "DONE" => server[keyOf[i]]
  BY <1>1, <1>2 DEF QueueInv, HonestEdits
<1>4. i \in RowIds /\ busy[b].attempts \in Nat
  BY <1>3, BusyIsCopy DEF QueueInv
<1>5. Grows
  BY <1>1 DEF Grows, QueueInv, QueueTypeOK
<1>6. /\ r \in Queues
      /\ \A j \in RowIds : /\ read[j] # NoRow => r[j] # NoRow
                           /\ r[j] # NoRow => read[j] # NoRow
                           /\ r[j].status = "DONE" => read[j].status = "DONE" \/ (j = i /\ to = "DONE")
  <2>1. CASE read[i] = NoRow
    <3>1. r = read
      BY <2>1 DEF Put
    <3>2. QED
      BY <1>2, <3>1
  <2>2. CASE read[i] # NoRow
    <3> DEFINE new == [status |-> to, attempts |-> n]
    <3>1. read[i] \in QueueRows
      BY <1>2, <1>4, <2>2, RowKinds
    <3>2. n \in Nat
      BY <1>4, <3>1, QueueAssumption DEF CountedTo, QueueRows
    <3>3. r = [read EXCEPT ![i] = new]
      BY <1>4, <2>2 DEF Put
    <3> HIDE DEF n, read, to, i, r
    <3>4. new \in QueueRows /\ new.status = to /\ new # NoRow
      BY <1>1, <3>2 DEF QueueRows, NoRow, Statuses, Waits
    <3> HIDE DEF new
    <3>5. r \in Queues /\ r[i] = new /\ \A j \in RowIds \ {i} : r[j] = read[j]
      BY <1>2, <1>4, <3>3, <3>4 DEF Queues
    <3>6. QED
      BY <2>2, <3>4, <3>5
  <2>3. QED
    BY <2>1, <2>2
<1> HIDE DEF r, n
<1>7. Honest(r, keyOf', server')
  <2> SUFFICES ASSUME NEW j \in RowIds, r[j] # NoRow
               PROVE keyOf'[j] \in Keys /\ (r[j].status = "DONE" => server'[keyOf'[j]])
    BY DEF Honest, NoRow
  <2>1. keyOf[j] \in Keys /\ (read[j].status = "DONE" => server[keyOf[j]])
    BY <1>3, <1>6 DEF Honest
  <2>2. QED
    BY <1>1, <1>3, <1>6, <2>1
<1>8. overwritten' \in SUBSET Keys
  BY <1>1, OverwritesKeys DEF QueueInv, QueueTypeOK
<1>9. /\ busy' \in [Tabs -> QueueCopies \cup {Nothing}]
      /\ \A a \in Tabs : busy'[a] \in {busy[a], Nothing}
      /\ \A a \in Tabs \ {b} : busy'[a] = busy[a]
  BY <1>1 DEF QueueInv, QueueTypeOK
<1>10. \A k \in Told' \ overwritten' : k \in Told \ (overwritten \cup Overwrites(b))
  BY <1>1 DEF Told
<1>11. QED
  BY <1>1, <1>2, <1>5, <1>6, <1>7, <1>8, <1>9, <1>10, WritesInv

LEMMA CrashInv ==
  ASSUME QueueInv, NEW b \in Tabs, Crash(b)
  PROVE QueueInv'
<1>1. QueueTypeOK' /\ Honest(queue, keyOf, server)'
  BY DEF Crash, QueueInv, QueueTypeOK, Honest
<1>2. KnownCopies' /\ HonestEdits'
  BY DEF Crash, QueueInv, QueueTypeOK, KnownCopies, HonestEdits, Honest
<1>3. LostOnlyToOverlaps'
  BY DEF Crash, QueueInv, LostOnlyToOverlaps, Told, Kept, Active
<1>4. QED
  BY <1>1, <1>2, <1>3 DEF QueueInv

LEMMA QueueStepInv == QueueInv /\ [QueueNext]_queueVars => QueueInv'
<1>1. ASSUME QueueInv, UNCHANGED queueVars PROVE QueueInv'
  BY <1>1
  DEF queueVars, QueueInv, QueueTypeOK, Honest, KnownCopies, HonestEdits, LostOnlyToOverlaps,
      Told, Kept, Active
<1>2. ASSUME QueueInv, QueueNext PROVE QueueInv'
  BY <1>2, DirectInv, BeginEnqueueInv, EnqueueInv, StartDrainInv, BeginMarkInv,
     BeginSuccessInv, BeginFailureInv, UpdateInv, CrashInv
  DEF QueueNext
<1>3. QED
  BY <1>1, <1>2

THEOREM QueueInductive == QueueSpec => []QueueInv
  BY QueueInitInv, QueueStepInv, PTL DEF QueueSpec

\* Rows, snapshots, updates under way and the rows in work keep the types of
\* PosOfflineCommand.
THEOREM QueueTypeCorrect == QueueSpec => []QueueTypeOK
<1>1. QueueInv => QueueTypeOK
  BY DEF QueueInv
<1>2. QED
  BY <1>1, QueueInductive, PTL

\* A ticket reported as queued is in the queue until the server has it, however many tabs
\* drain the same rows or die, unless another tab wrote back a queue that it had read
\* before the ticket came in (updateQueue, writeQueueState, drainPosOfflineQueue).
THEOREM LostOnlyToOverlapsHolds == QueueSpec => []LostOnlyToOverlaps
<1>1. QueueInv => LostOnlyToOverlaps
  BY DEF QueueInv
<1>2. QED
  BY <1>1, QueueInductive, PTL

\* With one tab, or with updateQueue under a lock that the tabs share, no two updates
\* overlap ...
UpdatesApart == \A a, b \in Tabs : edit[a] # NoEdit /\ edit[b] # NoEdit => a = b

\* ... what an update has read is the queue as it is ...
ReadIsCurrent ==
  overwritten = {} /\ \A b \in Tabs : edit[b] # NoEdit => edit[b].read = queue

LEMMA StaysCurrent ==
  ASSUME QueueInv, UpdatesApart, ReadIsCurrent, [QueueNext]_queueVars
  PROVE ReadIsCurrent'
<1>1. edit \in [Tabs -> Edits \cup {NoEdit}]
  BY DEF QueueInv, QueueTypeOK
<1>2. ASSUME NEW b \in Tabs, NEW to, NEW k, Reads(b, to, k), UNCHANGED <<queue, overwritten>>
      PROVE ReadIsCurrent'
  BY <1>1, <1>2 DEF Reads, ReadIsCurrent
<1>3. ASSUME NEW b \in Tabs, NEW r, edit[b] # NoEdit, Write(b, r),
             overwritten' \subseteq overwritten \cup Overwrites(b)
      PROVE ReadIsCurrent'
  <2>1. Overwrites(b) = {}
    BY <1>3 DEF ReadIsCurrent, Overwrites, NoRow, Waits
  <2>2. \A a \in Tabs : edit'[a] = NoEdit
    BY <1>1, <1>3 DEF UpdatesApart, Write
  <2>3. QED
    BY <1>3, <2>1, <2>2 DEF ReadIsCurrent
<1>4. ASSUME UNCHANGED <<queue, overwritten>>, \A b \in Tabs : edit'[b] \in {edit[b], NoEdit}
      PROVE ReadIsCurrent'
  BY <1>4 DEF ReadIsCurrent
<1>5. CASE UNCHANGED queueVars
  BY <1>4, <1>5 DEF queueVars
<1>6. ASSUME NEW k \in Keys, Direct(k) PROVE ReadIsCurrent'
  BY <1>4, <1>6 DEF Direct
<1>7. ASSUME NEW b \in Tabs, NEW k \in Keys, BeginEnqueue(b, k) PROVE ReadIsCurrent'
  BY <1>2, <1>7 DEF BeginEnqueue
<1>8. ASSUME NEW b \in Tabs, NEW i \in RowIds, Enqueue(b, i) PROVE ReadIsCurrent'
  <2>1. edit[b] # NoEdit /\ \E r : Write(b, r)
    BY <1>8 DEF Enqueue, NoEdit
  <2>2. QED
    BY <1>3, <1>8, <2>1 DEF Enqueue
<1>9. ASSUME NEW b \in Tabs, StartDrain(b) PROVE ReadIsCurrent'
  BY <1>4, <1>9 DEF StartDrain
<1>10. ASSUME NEW b \in Tabs, BeginMark(b) PROVE ReadIsCurrent'
  BY <1>2, <1>10 DEF BeginMark
<1>11. ASSUME NEW b \in Tabs, BeginSuccess(b) PROVE ReadIsCurrent'
  BY <1>2, <1>11 DEF BeginSuccess
<1>12. ASSUME NEW b \in Tabs, BeginFailure(b) PROVE ReadIsCurrent'
  <2>1. UNCHANGED <<queue, overwritten>> /\ \E to, k : Reads(b, to, k)
    BY <1>12 DEF BeginFailure
  <2>2. QED
    BY <1>2, <2>1
<1>13. ASSUME NEW b \in Tabs, Update(b) PROVE ReadIsCurrent'
  <2>1. edit[b] # NoEdit
    BY <1>13 DEF Update, NoEdit, Statuses, Waits
  <2>2. QED
    BY <1>3, <1>13, <2>1 DEF Update
<1>14. ASSUME NEW b \in Tabs, Crash(b) PROVE ReadIsCurrent'
  BY <1>1, <1>4, <1>14 DEF Crash
<1>15. QED
  BY <1>5, <1>6, <1>7, <1>8, <1>9, <1>10, <1>11, <1>12, <1>13, <1>14 DEF QueueNext

\* ... and no queued ticket is lost at all.
THEOREM NothingLostIfApart == QueueSpec /\ []UpdatesApart => []NothingLost
<1>1. QueueInit => ReadIsCurrent
  BY DEF QueueInit, ReadIsCurrent, NoEdit
<1>2. QueueInv /\ UpdatesApart /\ ReadIsCurrent /\ [QueueNext]_queueVars => ReadIsCurrent'
  BY StaysCurrent
<1>3. QueueInv /\ ReadIsCurrent => NothingLost
  BY DEF QueueInv, ReadIsCurrent, LostOnlyToOverlaps, NothingLost
<1>4. QED
  BY <1>1, <1>2, <1>3, QueueInductive, PTL DEF QueueSpec
=============================================================================
