------------------------------ MODULE MCAccounts ------------------------------
(* Two addresses with one key, both registered on a phone, one after the   *)
(* other; the account of the first is used on a tablet.                    *)
EXTENDS Accounts, TLC

CONSTANTS dot, dash, s1, s2, phone, tablet

MCDeviceOf == (dot :> phone) @@ (dash :> phone) @@ (s1 :> tablet) @@ (s2 :> tablet)
MCOwnerOf == (s1 :> dot) @@ (s2 :> dot)
=============================================================================
