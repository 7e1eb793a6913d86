------------------------------ MODULE MCTickets ------------------------------
(* One ticket and up to three handlers in flight.                             *)
EXTENDS Tickets, TLC

CONSTANTS t1, q1, q2, q3
=============================================================================
