---- MODULE MCWorkerProcess ----
(***************************************************************************)
(* Instances of WorkerProcess for TLC: one job of each kind.               *)
(***************************************************************************)
EXTENDS WorkerProcess

CONSTANTS rollup, email, tick, backfill, acme, globex

MCKind == [j \in Jobs |-> CASE j = rollup -> "rollup" [] j = email -> "email"
                            [] j = tick -> "system" [] OTHER -> "backfill"]
MCTenantOf == [j \in Jobs |-> IF j = email THEN globex ELSE acme]
====
