------------------------------ MODULE MCServices ------------------------------
(* A small instance of the services for TLC.                                 *)
EXTENDS OpenVPN, TLC

CONSTANTS k1, k2

\* One key comes back; the other is only added, listed and removed.
Links == (k1 :> 2 @@ k2 :> 0)
=============================================================================
