---- MODULE MCDailyJobs ----
(***************************************************************************)
(* Instances of DailyJobs for TLC: a is a request of acme, b a request of  *)
(* globex, and x a row of another client of LiteLLM, whose end_user is not *)
(* a UUID.                                                                 *)
(***************************************************************************)
EXTENDS DailyJobs

CONSTANTS a, b, x, acme, globex

MCTenant == [r \in Rows |-> CASE r = a -> acme [] r = b -> globex [] OTHER -> Malformed]
====
