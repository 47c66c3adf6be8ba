------------------------------ MODULE MCFirewall ------------------------------
(* Instances of Firewall for TLC: one request carries every rule with up to   *)
(* two targets and ports, the other a rule that shares commands with some.    *)
EXTENDS Firewall, TLC

CONSTANTS r1, r2, net1, net2, cc

SomeTargets ==
  [kind : {"ip"}, value : {net1}] \cup
  [kind : {"cidr"}, value : {net2}] \cup
  [kind : {"country"}, value : {cc}] \cup
  [kind : {"port"}, value : {<<22>>, <<65536>>}] \cup
  [kind : {"port_range"}, value : {<<80, 443>>, <<443, 80>>}]

UpTo(n, S) == UNION {[1..k -> S] : k \in 0..n}

\* All the targets and ports of one type, and all types with one target.
AllRules ==
  [type : {"blacklist"}, action : {"deny"}, protocol : {"tcp"},
   targets : UpTo(2, SomeTargets), ports : UpTo(2, {<<22>>, <<80, 443>>}),
   rateLimit : {FALSE}] \cup
  [type : {"blacklist", "whitelist", "rate_limit", "geo_block"},
   action : {"allow", "deny", "limit", "log"}, protocol : {"tcp", "icmp"},
   targets : UpTo(1, SomeTargets), ports : {<<>>, <<<<22>>>>},
   rateLimit : BOOLEAN]

Other == [type |-> "blacklist", action |-> "deny", protocol |-> "tcp",
          targets |-> <<[kind |-> "ip", value |-> net1],
                        [kind |-> "cidr", value |-> net2]>>,
          ports |-> <<<<22>>>>, rateLimit |-> FALSE]

UfwRules ==
  [action : {"allow", "deny", "limit"}, source : {net1, net2, AnySource},
   port : {<<22>>, <<65536>>, <<80, 443>>, <<443, 80>>, NoPort},
   protocol : {"tcp"}]

RulesOf == r1 :> AllRules @@ r2 :> {Other}

Hosts == {{}, {Render(Other)[1]}}
=============================================================================
