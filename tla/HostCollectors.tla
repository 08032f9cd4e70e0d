--------------------------- MODULE HostCollectors ---------------------------
(***************************************************************************)
(* The collectors that network_exporter and ipsec_exporter register: each  *)
(* scrape reads tables of the kernel, or asks charon, one after the other, *)
(* while the host changes, and turns what it read into series.             *)
(*                                                                         *)
(* The collectors share nothing, so the model follows one scrape of one    *)
(* collector at a time, and a read finds any part of what its table may    *)
(* hold.  A series is [metric, labels, of]: of is what it was made for,    *)
(* and two series of one metric with the same labels are a clash, which    *)
(* the registry answers by dropping the second.                            *)
(***************************************************************************)
EXTENDS Integers, FiniteSets, Sequences

CONSTANTS
  Sockets,     \* [file, inode, laddr, lport, raddr, rport, state]
  Neighbors,   \* [ip, v4, device]
  Links,       \* [name, type, master]
  Flows,       \* [protocol, port]: what conntrack lists, the destination port
  Rules,       \* [chain, index, comment, verdict]
  SAs,         \* [name, uid, host]
  States,      \* --tcp-connection-states
  MaxEntries   \* --max-arp-entries, --max-graph-edges, --max-tcp-connections

ASSUME HostAssumption ==
  /\ MaxEntries \in Nat \ {0}
  /\ IsFiniteSet(Sockets) /\ IsFiniteSet(Neighbors)
  /\ \A n \in Neighbors : /\ n = [ip |-> n.ip, v4 |-> n.v4, device |-> n.device]
                         /\ n.v4 \in BOOLEAN
  /\ \A a \in SAs : a = [name |-> a.name, uid |-> a.uid, host |-> a.host]

VARIABLES
  latched,    \* firewallCollector.unavailable
  obstacle,   \* history: what the probe met
  collector,  \* the one that is scraped, "none"
  unread,       \* the tables it has not read
  table,      \* what it read
  result      \* what it sent

hostVars == <<latched, obstacle, collector, unread, table, result>>

SocketFiles == <<"tcp", "tcp6", "udp", "udp6">>
Reads == [arp       |-> <<"neighbors", "devices">>,
          iface     |-> <<"links", "masters">>,
          netgraph  |-> SocketFiles,
          conntrack |-> SocketFiles \o <<"flows">>,
          tcpstate  |-> <<"tcp", "tcp6">>,
          firewall  |-> <<"rules", "policies">>,
          ipsec     |-> <<"available", "sas", "stats">>]
Collectors == DOMAIN Reads
Tables == UNION {{Reads[c][i] : i \in DOMAIN Reads[c]} : c \in Collectors}

\* A file that is not there is read as empty.
SocketRows(file) == {s \in Sockets : s.file = file}
FlowRows == {f \in Flows : f.protocol \in {"tcp", "udp"}}

\* What a table may hold; for "devices" the names that lookups by index still
\* find, for "masters" the links whose master sysfs shows when it is read.
Contents(t) ==
  CASE t \in {"tcp", "tcp6", "udp", "udp6"} -> SocketRows(t)
    [] t = "neighbors" -> Neighbors
    [] t = "devices"   -> {n.device : n \in Neighbors}
    [] t = "links"     -> Links
    [] t = "masters"   -> {l \in Links : l.master # ""}
    [] t = "flows"     -> FlowRows
    [] t = "rules"     -> Rules
    [] t = "sas"       -> SAs
    [] OTHER           -> {}

\* A directory of sysfs has one entry of a name.
Readings(t) ==
  {rows \in SUBSET Contents(t) :
     t \in {"links", "masters"} => \A a, b \in rows : a.name = b.name => a = b}

NoResult == [of |-> "none", series |-> {}, truncated |-> FALSE,
             gauge |-> "none", failed |-> FALSE]
Nothing == [t \in Tables |-> {}]


\* An error of the probe is passing, or stays as long as the process; the
\* namespace is the process's own, or that of --host-netns, opened or not.
Errors == {"none", "passing", "lasting"}
Namespaces == {"own", "opened", "unopened"}
NoObstacle == [namespace |-> "own", error |-> "none"]

HostInit ==
  /\ latched = FALSE /\ obstacle = NoObstacle /\ collector = "none"
  /\ unread = <<>> /\ table = Nothing /\ result = NoResult

\* NewWithNetNS: the probe when the process starts.  An error of the netlink
\* socket disables the collector if it is one that stays, an error of opening
\* the namespace whatever it is.
Probe(namespace, error) ==
  /\ namespace = "unopened" => error # "none"
  /\ collector = "none" /\ result = NoResult
  /\ obstacle' = [namespace |-> namespace, error |-> error]
  /\ latched' = (error = "lasting" \/ namespace = "unopened")
  /\ UNCHANGED <<collector, unread, table, result>>

Begin(c) ==
  /\ collector = "none" /\ ~(c = "firewall" /\ latched)
  /\ collector' = c /\ unread' = Reads[c] /\ table' = Nothing
  /\ result' = [NoResult EXCEPT !.of = c]
  /\ UNCHANGED <<latched, obstacle>>
BeginLatched ==
  /\ collector = "none" /\ latched
  /\ table' = Nothing
  /\ result' = [NoResult EXCEPT !.of = "firewall", !.gauge = "0"]
  /\ UNCHANGED <<latched, obstacle, collector, unread>>

ReadTable ==
  /\ unread # <<>>
  /\ \E rows \in Readings(Head(unread)) :
       table' = [table EXCEPT ![Head(unread)] = rows]
  /\ unread' = Tail(unread)
  /\ UNCHANGED <<latched, obstacle, collector, result>>

-----------------------------------------------------------------------------
Series(metric, labels, of) == [metric |-> metric, labels |-> labels, of |-> of]

Protocol(s) == IF s.file \in {"tcp", "tcp6"} THEN "tcp" ELSE "udp"
Listening(s) ==
  \/ Protocol(s) = "tcp" /\ s.state = "LISTEN"
  \/ Protocol(s) = "udp" /\ s.state = "CLOSE" /\ s.raddr = "0.0.0.0"

SocketsRead == UNION {table[f] : f \in {"tcp", "tcp6", "udp", "udp6"}}
ListeningPorts == {<<s.lport, Protocol(s)>> : s \in {x \in SocketsRead : Listening(x)}}
Served(s) == <<s.lport, Protocol(s)>> \in ListeningPorts

\* arp: IPv4 entries whose link could be named.
Named == {n \in table["neighbors"] : n.device \in table["devices"]}
ArpEntries ==
  {Series("arp", <<n.ip, n.device>>, n) :
     n \in {m \in Named : m.v4}}

\* iface: every link, and its membership if the master is listed.  The master
\* is read after the list, when the link may have another one.
MasterTypeOrBond(l) ==   \* mutated form: unknown masters are bonds
  IF \E m \in table["links"] : m.name = l.master
  THEN (CHOOSE m \in table["links"] : m.name = l.master).type ELSE "bond"
MasterType(l) ==
  IF \E m \in table["links"] : m.name = l.master
  THEN (CHOOSE m \in table["links"] : m.name = l.master).type ELSE ""
IfaceSeries ==
  {Series("type", <<l.name, l.type>>, l) : l \in table["links"]} \union
  {Series(MasterType(l), <<l.master, l.name>>, l) :
     l \in {m \in table["masters"] :
              /\ MasterType(m) \in {"bond", "bridge"}
              /\ \E k \in table["links"] : k.name = m.name}}

\* netgraph: one edge for a remote host, a port and a direction.
EdgeOf(s) == IF Served(s) THEN <<s.raddr, s.lport, "inbound">>
                          ELSE <<s.raddr, s.rport, "outbound">>
GraphSockets ==
  {s \in SocketsRead : ~Listening(s) /\ {s.laddr, s.raddr}
                         \intersect {"0.0.0.0", "127.0.0.1"} = {}}
Edges == {Series("edge", EdgeOf(s), EdgeOf(s)) : s \in GraphSockets}

\* tcpstate: every socket that is not loopback on both sides.
TcpSeries ==
  {Series("tcp", <<s.laddr, s.lport, s.raddr, s.rport, s.state>>, s) :
     s \in {x \in SocketsRead : /\ x.state \in States
                                /\ ~({x.laddr, x.raddr} \subseteq
                                     {"0.0.0.0", "127.0.0.1", "::1", "::"})}}

\* conntrack: ports that listen, and the connections to them.
PortSeries ==
  {Series("listen", <<s.lport, Protocol(s), s.laddr>>,
          <<s.lport, Protocol(s), s.laddr>>) :
     s \in {x \in SocketsRead : Listening(x)}} \union
  {Series("connections", <<s.lport, Protocol(s), s.state>>,
          <<s.lport, Protocol(s), s.state>>) :
     s \in {x \in SocketsRead : ~Listening(x) /\ Served(x)}}

\* ... and the bytes of the flows to them, read last.
FlowSeries ==
  {Series("bytes", <<f.port, f.protocol>>, <<f.port, f.protocol>>) :
     f \in {x \in table["flows"] : <<x.port, x.protocol>> \in ListeningPorts}}

\* firewall: rules that drop or reject, by comment or position in the chain.
RuleLabel(r) == IF r.comment = "" THEN r.index ELSE r.comment
DropRejectRules == {r \in table["rules"] : r.verdict \in {"drop", "reject"}}
RuleSeries ==
  {Series(r.verdict, <<r.chain, RuleLabel(r)>>, r) : r \in DropRejectRules}

\* ipsec: the IKE SAs.
SALabels(sa) == <<sa.name, sa.uid, sa.host>>
SASeries == {Series("ike_sa", SALabels(sa), sa) : sa \in table["sas"]}

\* What the collector sends when all its tables are read.
Eligible(c) ==
  CASE c = "arp"       -> ArpEntries
    [] c = "iface"     -> IfaceSeries
    [] c = "netgraph"  -> Edges
    [] c = "tcpstate"  -> TcpSeries
    [] c = "conntrack" -> PortSeries \union FlowSeries
    [] c = "firewall"  -> RuleSeries
    [] c = "ipsec"     -> SASeries
    [] OTHER           -> {}

Limited == {"arp", "netgraph", "tcpstate"}
HasGauge == {"conntrack", "firewall", "ipsec"}

\* The loop that sends entries, in the order of the kernel or of a Go map,
\* looks before each of them whether there is room.
Full(sent) == Cardinality(sent) >= MaxEntries
SendEntry ==
  /\ collector \in Limited /\ unread = <<>>
  /\ \E e \in Eligible(collector) \ result.series :
       IF Full(result.series)
       THEN /\ result' = [result EXCEPT !.truncated = TRUE]
            /\ collector' = "none"
       ELSE /\ result' = [result EXCEPT !.series = @ \union {e}]
            /\ UNCHANGED collector
  /\ UNCHANGED <<latched, obstacle, unread, table>>

SendAll ==
  /\ collector # "none" /\ unread = <<>>
  /\ collector \in Limited => result.series = Eligible(collector)
  /\ result' = [result EXCEPT !.series = Eligible(collector),
       !.gauge = IF collector \in HasGauge THEN "1" ELSE "none"]
  /\ collector' = "none"
  /\ UNCHANGED <<latched, obstacle, unread, table>>

\* A read fails: what was sent before it stays, and the gauge that says so is
\* 0, or an error stands in its place.
SentBefore ==
  CASE Head(unread) = "flows"    -> PortSeries
    [] Head(unread) = "policies" -> RuleSeries
    [] Head(unread) = "stats"    -> SASeries
    [] OTHER                   -> {}
GaugeBefore ==
  CASE Head(unread) \in {"flows", "rules", "policies", "available"} -> "0"
    [] Head(unread) \in {"sas", "stats"}                            -> "1"
    [] OTHER                                                      -> "none"
ReadFails ==
  /\ unread # <<>> /\ Head(unread) \notin {"devices", "masters"}
  /\ result' = [result EXCEPT !.series = SentBefore, !.gauge = GaugeBefore,
                              !.failed = TRUE]
  /\ collector' = "none" /\ unread' = <<>>
  /\ UNCHANGED <<latched, obstacle, table>>

HostNext ==
  \/ \E namespace \in Namespaces, error \in Errors : Probe(namespace, error)
  \/ \E c \in Collectors : Begin(c)
  \/ BeginLatched \/ ReadTable \/ ReadFails \/ SendEntry \/ SendAll

HostSpec == HostInit /\ [][HostNext]_hostVars

-----------------------------------------------------------------------------
HostTypeOK ==
  /\ latched \in BOOLEAN /\ obstacle \in [namespace : Namespaces, error : Errors]
  /\ collector \in Collectors \union {"none"}
  /\ unread \in Seq(Tables) /\ (collector = "none" => unread = <<>>)
  /\ \A t \in Tables : table[t] \subseteq Contents(t)
  /\ result.of \in Collectors \union {"none"}
  /\ result.gauge \in {"none", "0", "1"} /\ result.failed \in BOOLEAN

\* A list that is not marked as truncated is complete, and one that is marked
\* has as many entries as the limit allows and was longer
\* (network_exporter.md:122).
HostTruncationHonest ==
  collector = "none" /\ result.of \in Limited /\ ~result.failed =>
    /\ ~result.truncated => result.series = Eligible(result.of)
    /\ result.truncated => /\ Cardinality(result.series) = MaxEntries
                           /\ Cardinality(Eligible(result.of)) > MaxEntries
    /\ Cardinality(result.series) <= MaxEntries

\* No two series of a scrape have the same labels, which would make the
\* registry report an error and drop one of them.
HostSeriesDistinct ==
  result.of \in Collectors \ {"tcpstate", "firewall"} =>
    \A a, b \in result.series :
      a.metric = b.metric /\ a.labels = b.labels => a = b

\* Series that refer to others find them in the same scrape, though they come
\* from tables read at different times: connections and bytes a port that
\* listens, a member of a bond or bridge its master.
HostSeriesRefer ==
  \A a \in result.series :
    /\ a.metric \in {"connections", "bytes"} =>
         \E b \in result.series : /\ b.metric = "listen"
                                  /\ SubSeq(b.labels, 1, 2) = SubSeq(a.labels, 1, 2)
    /\ a.metric \in {"bond", "bridge"} =>
         \E b \in result.series : b.metric = "type" /\ b.labels = <<a.labels[1], a.metric>>

\* The firewall collector is down only if this scrape failed, if the probe met
\* an error that stays for the life of the process, or if the namespace of
\* --host-netns could not be opened at the start.
HostFirewallRecovers ==
  result.of = "firewall" /\ result.gauge = "0" =>
    result.failed \/ obstacle.error = "lasting" \/ obstacle.namespace = "unopened"

\* What is documented instead: the probe "only latches for conditions that are a
\* property of the deployment", "anything else [...] deliberately does NOT
\* latch" (firewall.go:100 to 109).  The code does otherwise: an open that fails
\* for a moment disables the collector too (firewall.go:85).
FirewallLatchesForGood ==
  result.of = "firewall" /\ result.gauge = "0" =>
    result.failed \/ obstacle.error = "lasting"

\* The series of one scrape, read from tables that change in between, make one
\* picture, and one that is cut or missing says so.
HostSeriesSound ==
  /\ HostTruncationHonest /\ HostSeriesDistinct
  /\ HostSeriesRefer /\ HostFirewallRecovers
=============================================================================
