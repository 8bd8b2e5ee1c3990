----------------------------- MODULE MCEvmPayment -----------------------------
(* Two token payments of different amounts, or a token payment and a       *)
(* lending payment.  An allowance of 1 is enough for the first only.       *)
EXTENDS EvmPayment

CONSTANTS p1, p2

PaymentCalls == Payments \X Steps

KindsOf == {[p \in Payments |-> IF p = p2 THEN k ELSE "token"] : k \in {"token", "lending"}}

Amounts == [p \in Payments |-> IF p = p1 THEN 1 ELSE 2]

Gases == [reset |-> <<29, 46>>, approve |-> <<29, 46>>, pay |-> <<100, 117>>]
=============================================================================
