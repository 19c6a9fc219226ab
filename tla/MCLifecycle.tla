---------------------------- MODULE MCLifecycle -----------------------------
(* Small instances of Lifecycle for TLC.                                   *)
EXTENDS Lifecycle

AllKinds == {"wireguard", "amneziawg", "openvpn", "v2ray", "xray", "hysteria2"}

\* One lets mail out, the other the API port and the Handshake resolver in.
TwoPolicies ==
  {[AllowSMTP |-> TRUE, APIPort |-> FALSE, Resolver |-> FALSE],
   [AllowSMTP |-> FALSE, APIPort |-> TRUE, Resolver |-> TRUE]}
=============================================================================
