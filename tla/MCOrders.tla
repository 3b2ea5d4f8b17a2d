------------------------------ MODULE MCOrders ------------------------------
(* Small instances of Orders: u1 invited u2, u2 invited u3.                *)
EXTENDS Orders, TLC

CONSTANTS u1, u2, u3

Chain == (u1 :> NoUser) @@ (u2 :> u1) @@ (u3 :> u2)

\* u1 invited u2
Pair == (u1 :> NoUser) @@ (u2 :> u1)

\* two times below 20, three times from there on
TwoTiers == <<[below |-> 20, times |-> 2], [below |-> 0, times |-> 3]>>

Levels == (1 :> [volume |-> 10, rate |-> 20]) @@ (3 :> [volume |-> 40, rate |-> 50])

\* an admin has made u2 and his inviter V3
Promoted == [u \in {u1, u2} |-> 3]

\* the balance of u1 covers one more order of 10
OneMore == [u \in Users |-> IF u = u1 THEN 10 ELSE 0]

\* the orders of u2 and u3, who have one each
Two == <<[by |-> u2, amount |-> 10], [by |-> u3, amount |-> 10]>>

\* an order of u1 and one of u2
OneEach == <<[by |-> u1, amount |-> 10], [by |-> u2, amount |-> 10]>>

\* an admin settles the second one only
SomeOrders == {{2}}

OneProcess == [s \in Settlers |-> CHOOSE i \in Instances : TRUE]
OwnProcess == LET p == CHOOSE f \in [Settlers -> Instances] : \A s, t \in Settlers : f[s] = f[t] => s = t
              IN p

RequestSymmetry == Permutations(Requests)
=============================================================================
