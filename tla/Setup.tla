---- MODULE Setup ----
(***************************************************************************)
(* What first-run setup promises.  The gate (setup_state) is closed by one *)
(* process at a time; only the process that closed it makes or unmakes an  *)
(* admin and opens it again.  A process may stop at any point, and then    *)
(* the gate stays as it is.                                                *)
(*                                                                         *)
(* Source: apps/api/src/routes/setup-admin.ts, the header of the file, and *)
(* the comment on completeSetupAdmin in apps/api/src/index.ts.             *)
(***************************************************************************)
CONSTANTS Processes, Users

VARIABLES gate, holders, admins

Init ==
  /\ gate \in {"open", "closed"}
  /\ holders = {}
  /\ admins = {}

Close(p) ==
  /\ gate = "open"
  /\ holders = {}
  /\ gate' = "closed"
  /\ holders' = {p}
  /\ UNCHANGED admins

\* A promotion that is reported failed may have taken effect: the holder
\* tries to undo it before it opens the gate.
Promote(p, u) ==
  /\ p \in holders
  /\ admins' \in {admins \cup {u}, admins}
  /\ holders' \in {holders \ {p}, holders}
  /\ UNCHANGED gate

Demote(p, u) ==
  /\ p \in holders
  /\ admins' = admins \ {u}
  /\ UNCHANGED <<gate, holders>>

Reopen(p) ==
  /\ p \in holders
  /\ gate' = "open"
  /\ holders' = holders \ {p}
  /\ UNCHANGED admins

Stop(p) ==
  /\ holders' = holders \ {p}
  /\ UNCHANGED <<gate, admins>>

\* The account of a user is deleted.
Leave(u) ==
  /\ admins' = admins \ {u}
  /\ UNCHANGED <<gate, holders>>

Next ==
  \/ \E p \in Processes : Close(p) \/ Reopen(p) \/ Stop(p)
  \/ \E p \in Processes, u \in Users : Promote(p, u) \/ Demote(p, u)
  \/ \E u \in Users : Leave(u)

Spec == Init /\ [][Next]_<<gate, holders, admins>>
====
