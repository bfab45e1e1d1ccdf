---- MODULE MCDesktopSignIn ----
(***************************************************************************)
(* An instance of DesktopSignIn for TLC.                                   *)
(***************************************************************************)
EXTENDS DesktopSignIn, TLC

MCMapping == ("home" :> "t0") @@ ("away" :> "t1")
MCRoles == ("heads" :> "admin") @@ ("staff" :> "member") @@ ("guests" :> "viewer")
\* The priority leaves the viewers out.
MCPriority == <<"admin", "member">>
MCClaims == {
  [key |-> "home", groups |-> <<"guests", "staff">>],
  [key |-> "home", groups |-> <<"staff", "choir", "heads">>],
  [key |-> "home", groups |-> <<"choir">>],
  [key |-> "home", groups |-> <<"heads", "odd">>],
  [key |-> "away", groups |-> <<"staff">>],
  [key |-> "else", groups |-> <<"staff">>],
  [key |-> "missing", groups |-> <<"staff">>],
  [key |-> "odd", groups |-> <<>>]}
====
