---------------------------- MODULE MCRegistration ----------------------------
(* Model values and bounds for checking Registration.                       *)
EXTENDS Registration, TLC

CONSTANTS dot, dash, other, k1, k2, f1, f2, phone, tablet

\* a.b@x and a-b@x are two addresses with one key.
MCSafeEmail == [e \in Emails |-> IF e = other THEN k2 ELSE k1]

\* Both presses on one screen, or one on each device; and for one address, for
\* two with one key, or for two with different keys.
MCPresses ==
    {(f1 :> [device |-> phone, email |-> e1]) @@ (f2 :> [device |-> d, email |-> e2]) :
        d \in Devices, <<e1, e2>> \in {<<dot, dot>>, <<dot, dash>>, <<dot, other>>}}
=============================================================================
