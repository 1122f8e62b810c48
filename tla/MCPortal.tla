------------------------------ MODULE MCPortal ------------------------------
(* A player and a coach share a browser. *)
EXTENDS Portal, TLC

CONSTANTS ali, sara

MCRoleOf == (ali :> "player") @@ (sara :> "coach")
=============================================================================
