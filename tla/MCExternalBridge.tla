-------------------------- MODULE MCExternalBridge --------------------------
(* Instances of ExternalBridge for TLC. *)
EXTENDS ExternalBridge

Ask(h, n, found, mtu) == [host |-> h, nic |-> n, found |-> found, mtu |-> mtu]

MCRequests ==
  { <<Ask("h0", "e0", TRUE, TRUE), Ask("h1", "e1", TRUE, FALSE)>>,
    \* The same interface for two hosts, and a host that does not exist.
    <<Ask("hx", "e1", FALSE, FALSE), Ask("h0", "e0", TRUE, FALSE), Ask("h1", "e0", TRUE, TRUE)>> }
=============================================================================
