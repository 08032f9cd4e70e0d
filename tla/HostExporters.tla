--------------------------- MODULE HostExporters ---------------------------
(***************************************************************************)
(* The exporters of a host, each a process of its own that shares nothing  *)
(* with the others: a behaviour is one of any of them, with the constants  *)
(* of a small host.                                                        *)
(***************************************************************************)
EXTENDS RelayExporter, OpenbaoExporter, LibvirtExporter, HostCollectors

VARIABLE exporter   \* which one runs

vars == <<exporter, relayVars, openbaoVars, libvirtVars, hostVars>>

Init ==
  /\ exporter \in {"relay", "openbao", "libvirt", "network"}
  /\ RelayInit /\ OpenbaoInit /\ LibvirtInit /\ HostInit

Next ==
  /\ \/ /\ exporter = "relay" /\ RelayNext
        /\ UNCHANGED <<openbaoVars, libvirtVars, hostVars>>
     \/ /\ exporter = "openbao" /\ OpenbaoNext
        /\ UNCHANGED <<relayVars, libvirtVars, hostVars>>
     \/ /\ exporter = "libvirt" /\ LibvirtNext
        /\ UNCHANGED <<relayVars, openbaoVars, hostVars>>
     \/ /\ exporter = "network" /\ HostNext
        /\ UNCHANGED <<relayVars, openbaoVars, libvirtVars>>
  /\ UNCHANGED exporter

Spec == Init /\ [][Next]_vars

-----------------------------------------------------------------------------
\* Each exporter's variables keep their types.
TypeOK == RelayTypeOK /\ OpenbaoTypeOK /\ LibvirtTypeOK /\ HostTypeOK

-----------------------------------------------------------------------------
\* A small host.
MCNode(n, a) == [node |-> n, addressed |-> a]
MCConfigs == {{MCNode("n1", TRUE)},
              {MCNode("n1", TRUE), MCNode("n2", TRUE), MCNode("n3", FALSE)}}

\* Two domains share a name, so one of them may follow the other.
MCDomains == {[uuid |-> 1, name |-> "web"], [uuid |-> 2, name |-> "web"],
              [uuid |-> 3, name |-> "db"]}

MCSocket(f, i, l, lp, r, rp, s) ==
  [file |-> f, inode |-> i, laddr |-> l, lport |-> lp, raddr |-> r,
   rport |-> rp, state |-> s]
MCSockets ==
  {MCSocket("tcp", 1, "0.0.0.0", 80, "0.0.0.0", 0, "LISTEN"),
   MCSocket("tcp", 2, "0.0.0.0", 80, "0.0.0.0", 0, "LISTEN"),
   MCSocket("tcp", 3, "host", 80, "peer", 99, "ESTABLISHED"),
   MCSocket("tcp", 4, "host", 80, "peer", 98, "TIME_WAIT"),
   MCSocket("tcp", 5, "host", 97, "peer", 443, "ESTABLISHED"),
   MCSocket("tcp6", 6, "::", 443, "::", 0, "LISTEN"),
   MCSocket("udp", 7, "0.0.0.0", 53, "0.0.0.0", 0, "CLOSE"),
   MCSocket("udp6", 8, "::", 53, "::", 0, "CLOSE")}
MCNeighbors ==
  {[ip |-> "peer", v4 |-> TRUE, device |-> "eth0"],
   [ip |-> "peer", v4 |-> TRUE, device |-> "br0"],
   [ip |-> "gateway", v4 |-> TRUE, device |-> "eth0"],
   [ip |-> "peer6", v4 |-> FALSE, device |-> "eth0"]}
\* eth1 may be moved from the bridge to the bond.
MCLinks ==
  {[name |-> "br0", type |-> "bridge", master |-> ""],
   [name |-> "bond0", type |-> "bond", master |-> "br0"],
   [name |-> "eth0", type |-> "physical", master |-> "bond0"],
   [name |-> "eth1", type |-> "physical", master |-> "br0"],
   [name |-> "eth1", type |-> "physical", master |-> "bond0"]}
MCFlows == {[protocol |-> p, port |-> d] : p \in {"tcp", "icmp"}, d \in {53, 80}}
MCRule(i, c, v) == [chain |-> "input", index |-> i, comment |-> c, verdict |-> v]
MCRules == {MCRule("0", "", "accept"), MCRule("1", "", "drop"),
            MCRule("2", "ssh", "reject")}
MCSAs == {[name |-> "vpn", uid |-> 1, host |-> "peer"],
          [name |-> "vpn", uid |-> 2, host |-> "peer"],
          [name |-> "lab", uid |-> 3, host |-> "peer"]}
=============================================================================
