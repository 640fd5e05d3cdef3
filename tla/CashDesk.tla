------------------------------ MODULE CashDesk ------------------------------
(***************************************************************************)
(* Cash sessions and payment intents of one branch, as the point of sale  *)
(* uses them.                                                             *)
(*                                                                         *)
(* Movements and counts lock the session and are one step.  Opening a      *)
(* session locks the OPEN ones it finds, which locks nothing when there is *)
(* none: finding none and inserting are two steps.  A movement is unique   *)
(* in its session by its key, so the movements of a session are a set.     *)
(* The amount expected in a session is the sum of its movements.           *)
(***************************************************************************)
EXTENDS Integers, Sequences, Retail

CONSTANTS
  Sessions,   \* ids of cash sessions
  Cashiers    \* requests that open a session

VARIABLES
  cash,       \* cash[s]: status of the session
  moves,      \* movements posted
  intent,     \* intent[t][k]: the payment intent of the ticket under key k
  opening     \* opening[c]: what the request found no OPEN session for

cashVars == <<cash, moves, intent, opening>>

\* The checkout and the POS_PAYMENT_INTENT command use a key of their own.
IntentKeys == {"payment", "sync"}
IntentStatuses == {"NONE", "INTENDED", "CAPTURED", "REFUNDED"}
Movements == [session : Sessions, ticket : Tickets, kind : {"INCOME", "REFUND"}]

CashTypeOK ==
  /\ cash \in [Sessions -> {"ABSENT", "OPEN", "CLOSED"}]
  /\ moves \in SUBSET Movements
  /\ intent \in [Tickets -> [IntentKeys -> IntentStatuses]]
  /\ opening \in [Cashiers -> {"IDLE", "CASH", "POS"}]

CashInit ==
  /\ cash = [s \in Sessions |-> "ABSENT"]
  /\ moves = {}
  /\ intent = [t \in Tickets |-> [k \in IntentKeys |-> "NONE"]]
  /\ opening = [c \in Cashiers |-> "IDLE"]

-----------------------------------------------------------------------------
\* open_cash_session: the look for an OPEN session, and the insertion.
Looks(c, what) ==
  /\ opening[c] = "IDLE"
  /\ \A s \in Sessions : cash[s] # "OPEN"
  /\ opening' = [opening EXCEPT ![c] = what]
  /\ UNCHANGED <<cash, moves, intent>>
Inserts(c, s) ==
  /\ cash[s] = "ABSENT"
  /\ cash' = [cash EXCEPT ![s] = "OPEN"]
  /\ opening' = [opening EXCEPT ![c] = "IDLE"]
  /\ UNCHANGED <<moves, intent>>
OpenCash(c, s) == opening[c] = "CASH" /\ Inserts(c, s)

\* post_cash_movement, with a key: a movement that exists is answered, but only while
\* the session takes movements.
TakesMoves(s) == cash[s] = "OPEN"
Movement(s, t, k) == [session |-> s, ticket |-> t, kind |-> k]

\* close_cash_session: a CLOSED session is answered without change.
CloseCash(s) ==
  /\ cash[s] = "OPEN"
  /\ cash' = [cash EXCEPT ![s] = "CLOSED"]
  /\ UNCHANGED <<moves, intent, opening>>

\* create_payment_intent and capture_payment_intent, in place: what is CAPTURED stays,
\* what was given back cannot be captured.
Created(i) == IF i = "NONE" THEN "INTENDED" ELSE i
Capturable(i) == i # "REFUNDED"

\* reverse_captured_payment_intent, which takes transfers only: the intent of a checkout
\* carries the payment method of the ticket, the one of the sync command carries none.
Reverse(t, method) ==
  /\ method = "TRANSFER"
  /\ intent[t]["payment"] = "CAPTURED"
  /\ intent' = [intent EXCEPT ![t]["payment"] = "REFUNDED"]
  /\ UNCHANGED <<cash, moves, opening>>
=============================================================================
