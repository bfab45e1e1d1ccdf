---- MODULE MCSpendIngest ----
(***************************************************************************)
(* Instances of SpendIngest for TLC: q1 and q3 are requests of alice, of   *)
(* tenant acme; q2 is a request of bob, of tenant globex.                  *)
(***************************************************************************)
EXTENDS SpendIngest, TLC

CONSTANTS r1, r2, r3, q1, q2, q3, alice, bob, acme, globex, w1, w2, b1

\* Every row its own request.
MCOwnRid == [r \in Rows |-> IF r = r1 THEN q1 ELSE IF r = r2 THEN q2 ELSE q3]
\* r1 and r3 are rows of alice.
MCOwner == [q \in Rids |-> IF q = q2 THEN bob ELSE alice]
MCHome == [u \in Users |-> IF u = bob THEN globex ELSE acme]
\* The whole clock, and its second half.
MCWindows == {<<1, MaxTime + 1>>, <<2, MaxTime + 1>>}
MCFirstHalf == {<<1, 2>>}
\* The two replicas are interchangeable.
MCSymmetry == Permutations({w1, w2})
====
