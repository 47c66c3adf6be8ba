----------------------------- MODULE UfwRenderer -----------------------------
(***************************************************************************)
(* From a firewall rule to UFW commands:                                   *)
(*   backend/src/modules/firewall/domain/firewall.validators.ts            *)
(*   backend/src/modules/firewall/application/ufw-firewall.adapter.ts      *)
(*                                                                         *)
(* A rule has targets of several kinds and ports, and what is not said     *)
(* becomes "any" source or no port at all, so a target that is overlooked  *)
(* widens the rule.  Names, descriptions, priorities and the spelling of   *)
(* addresses are left out: they are refused or passed on as they are.      *)
(* A port is <<p>>, a range <<from, to>>.                                  *)
(***************************************************************************)
EXTENDS Integers, Sequences, FiniteSets

CONSTANTS
  AnySource,   \* the source "any"
  NoPort       \* no port argument

-----------------------------------------------------------------------------
(* What a request carries: a FirewallRule *)

Targets(r) == {r.targets[i] : i \in DOMAIN r.targets}

Listed(r) == {r.ports[i] : i \in DOMAIN r.ports}

\* A port or a range of ports, in range or not.
IsPorts(port) == port \in Seq(Int) /\ Len(port) \in 1..2

NetworkKinds == {"ip", "cidr"}
PortKinds    == {"port", "port_range"}

IsRule(r) ==
  /\ r.targets \in Seq(Targets(r)) /\ r.ports \in Seq(Listed(r))
  /\ \A port \in Listed(r) : IsPorts(port)
  /\ \A t \in Targets(r) : t.kind \in PortKinds => IsPorts(t.value)

-----------------------------------------------------------------------------
(* Validation *)

MaxPort == 65535

AssertPort(p) == p \in 1..MaxPort

\* assertPort, assertPortRange
AssertPorts(port) ==
  /\ \A i \in DOMAIN port : AssertPort(port[i])
  /\ Len(port) = 2 => port[1] <= port[2]

ValidTargets(r) ==
  /\ r.targets # <<>>
  /\ \A i \in DOMAIN r.targets :
       /\ r.targets[i].kind \in PortKinds => AssertPorts(r.targets[i].value)
       /\ r.type = "geo_block" => r.targets[i].kind = "country"
       /\ r.type \in {"blacklist", "whitelist", "botnet_block"} =>
            r.targets[i].kind # "country"

\* validateFirewallRule
Valid(r) ==
  /\ \A i \in DOMAIN r.ports : AssertPorts(r.ports[i])
  /\ ValidTargets(r)
  /\ r.type = "rate_limit" => r.rateLimit
  /\ r.type = "geo_block" => r.action = "deny"
  /\ r.type = "whitelist" => r.action = "allow"

-----------------------------------------------------------------------------
(* Rendering *)

UfwAction(r) == IF r.type = "rate_limit" THEN "limit" ELSE r.action

\* What UFW cannot express is refused.
Supported(r) ==
  /\ \A i \in DOMAIN r.targets : r.targets[i].kind # "country"
  /\ r.protocol # "icmp"
  /\ UfwAction(r) # "log"

\* The k-th number of I.
Kth(I, k) == CHOOSE i \in I : Cardinality({j \in I : j <= i}) = k

\* The elements of s at the positions I, in order: a filter of s.
Chosen(s, I) == [k \in 1..Cardinality(I) |-> s[Kth(I, k)]]

OfKinds(targets, kinds) == {i \in DOMAIN targets : targets[i].kind \in kinds}

\* The values of the targets of some kinds, in order.
Values(targets, kinds) ==
  Chosen([i \in DOMAIN targets |-> targets[i].value], OfKinds(targets, kinds))

\* Mutant: a range of addresses is not a source.
SourcesOfHosts(r) ==
  LET found == Values(r.targets, {"ip"})
  IN  IF found = <<>> THEN <<AnySource>> ELSE found

\* networkTargetsOrAny
Sources(r) ==
  LET found == Values(r.targets, NetworkKinds)
  IN  IF found = <<>> THEN <<AnySource>> ELSE found

Firsts(s) == {i \in DOMAIN s : \A j \in 1..(i - 1) : s[j] # s[i]}

\* The first occurrence of every element, in order: [...new Set(s)].
Deduplicated(s) == Chosen(s, Firsts(s))

\* portsFromRule: the ports of the rule, then those among its targets.
Ports(r) ==
  LET given == r.ports \o Values(r.targets, PortKinds)
  IN  IF given = <<>> THEN <<NoPort>> ELSE Deduplicated(given)

\* One command per source and port, source by source.
Render(r) ==
  LET m == Len(Ports(r))
  IN  [i \in 1..(Len(Sources(r)) * m) |->
         [action |-> UfwAction(r),
          source |-> Sources(r)[((i - 1) \div m) + 1],
          port |-> Ports(r)[((i - 1) % m) + 1],
          protocol |-> r.protocol]]

-----------------------------------------------------------------------------
(* What rendering promises, of a rule r and the commands for it *)

Covered(commands) == {<<commands[i].source, commands[i].port>> :
                        i \in DOMAIN commands}

OrDefault(S, default) == IF S = {} THEN {default} ELSE S

Named(r, kinds) == {t.value : t \in {x \in Targets(r) : x.kind \in kinds}}

\* What is asked for: every address of the rule on every one of its ports.
Asked(r) ==
  OrDefault(Named(r, NetworkKinds), AnySource)
    \X OrDefault(Listed(r) \cup Named(r, PortKinds), NoPort)

Repeats(s) == \E i, j \in DOMAIN s : i # j /\ s[i] = s[j]

InRange(port) ==
  /\ \A i \in DOMAIN port : port[i] \in 1..MaxPort
  /\ \A i, j \in DOMAIN port : i < j => port[i] <= port[j]
=============================================================================
