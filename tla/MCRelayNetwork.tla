--------------------------- MODULE MCRelayNetwork ---------------------------
(***************************************************************************)
(* RelayNetwork on the network of my_topo1.py: h1 talks over switches s2,  *)
(* s3 and s4 to h3.  The diamond is routes.xml of simulation_1; the ring   *)
(* lets s3 send to s4 as well, so that s3 and s4 form a ring.              *)
(***************************************************************************)
EXTENDS RelayNetwork

DeviceNodes == {"h1", "s2", "s3", "s4", "h3"}
DeviceHosts == {"h1", "h3"}

\* Ports are named by the nodes they join.
DevicePorts == {"h1s2", "s2s3", "s2s4", "s3s4", "s4s3", "s3h3"}

PortOwner == [p \in DevicePorts |->
    CASE p = "h1s2" -> "h1"
      [] p \in {"s2s3", "s2s4"} -> "s2"
      [] p \in {"s3s4", "s3h3"} -> "s3"
      [] p = "s4s3" -> "s4"]

PortPeer == [p \in DevicePorts |->
    CASE p = "h1s2" -> "s2"
      [] p \in {"s2s3", "s4s3"} -> "s3"
      [] p \in {"s2s4", "s3s4"} -> "s4"
      [] p = "s3h3" -> "h3"]

TalkerPort == [f \in Flows |-> "h1s2"]

GroupRoutes(s3Ports) == [f \in Flows |-> [n \in DeviceNodes |->
    CASE n = "s2" -> {"s2s3", "s2s4"}
      [] n = "s3" -> s3Ports
      [] n = "s4" -> {"s4s3"}
      [] OTHER -> {}]]

\* Individual addresses: s3 and s4 know the ports of s2 and s4 that send to them.
ByPeer == [p \in DevicePorts |->
    CASE p \in {"s2s3", "s4s3"} -> {"s3h3"}
      [] p = "s2s4" -> {"s4s3"}
      [] OTHER -> {}]

DeviceProfiles == {"diamond", "ring"}

DeviceRoutes == [c \in DeviceProfiles |->
    IF c = "diamond"
    THEN [group |-> GroupRoutes({"s3h3"}), individual |-> ByPeer]
    ELSE [group |-> GroupRoutes({"s3h3", "s3s4"}), individual |-> [p \in DevicePorts |-> {}]]]
=============================================================================
