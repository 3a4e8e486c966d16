-------------------------- MODULE MCSessionService -------------------------
(* Instances of SessionService for TLC. *)
EXTENDS SessionService, TLC

CONSTANTS core, apt, r1, r2

\* A client of each module.
OwnTokens == r1 :> core @@ r2 :> apt
=============================================================================
