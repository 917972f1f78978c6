----------------------------- MODULE MCDelivery -----------------------------
(* Small instances of Delivery for TLC: alice writes to bob.               *)
EXTENDS Delivery, TLC
CONSTANTS alice, bob, mix, m1, m2, m3, high

MCSrc == [m \in Mote |-> alice]
MCDst == [m \in Mote |-> bob]
MCLifetime == [m \in Mote |-> RetryDeadline]
MCSuite == [m \in Mote |-> IF m \in high THEN 2 ELSE 1]
=============================================================================
