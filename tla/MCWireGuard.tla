---------------------------- MODULE MCWireGuard ----------------------------
(* Small networks for WireGuard.  The IPv4 network crosses the end of a    *)
(* block of 256 addresses: its hosts are 253, 254 and 257 to 259.          *)
EXTENDS WireGuard, TLC

CONSTANTS k1, k2, k3

KeySymmetry == Permutations(Key)
=============================================================================
