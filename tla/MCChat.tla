-------------------------------- MODULE MCChat --------------------------------
(* Bounded instances of Chat. *)
EXTENDS Chat, TLC

CONSTANTS u1, u2, u3

OneNoneNone == u1 :> 1 @@ u2 :> 0 @@ u3 :> 0
=============================================================================
