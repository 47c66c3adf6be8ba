---------------------------- MODULE FirewallProofs ----------------------------
(***************************************************************************)
(* What Firewall promises, for any number of interleaved requests, any     *)
(* rules and any rules on the host: the commands for a rule cover it, what *)
(* a rejected request leaves, and what is enforced of an applied one.      *)
(***************************************************************************)
EXTENDS Firewall, FiniteSetTheorems, TLAPS

-----------------------------------------------------------------------------
(* Lists *)

\* The numbers of a finite set of naturals can be told by their ranks.
LEMMA KthFacts ==
  ASSUME NEW n \in Nat, NEW I \in SUBSET (1..n)
  PROVE  /\ Cardinality(I) \in Nat
         /\ \A k \in 1..Cardinality(I) : Kth(I, k) \in I
         /\ \A i \in I : \E k \in 1..Cardinality(I) : Kth(I, k) = i
         /\ \A j, k \in 1..Cardinality(I) : Kth(I, j) = Kth(I, k) => j = k
         /\ I # {} => \E m \in I : \A j \in I : m <= j
<1> DEFINE Upto(i) == {j \in I : j <= i}
           f == [i \in I |-> Cardinality(Upto(i))]
<1>1. IsFiniteSet(I) /\ Cardinality(I) \in Nat
  <2>1. IsFiniteSet(1..n)
    BY FS_Interval
  <2>2. IsFiniteSet(I)
    BY <2>1, FS_Subset
  <2> QED
    BY <2>2, FS_CardinalityType
<1>2. ASSUME NEW i \in I
      PROVE  IsFiniteSet(Upto(i)) /\ f[i] \in 1..Cardinality(I)
  <2>1. Upto(i) \in SUBSET I /\ i \in Upto(i)
    OBVIOUS
  <2>2. IsFiniteSet(Upto(i)) /\ Cardinality(Upto(i)) <= Cardinality(I)
    BY <1>1, <2>1, FS_Subset
  <2>3. Cardinality(Upto(i)) \in Nat /\ Cardinality(Upto(i)) # 0
    BY <2>1, <2>2, FS_CardinalityType, FS_EmptySet
  <2> QED
    BY <1>1, <2>2, <2>3
<1>3. ASSUME NEW i \in I, NEW j \in I, i < j PROVE f[i] < f[j]
  <2>0. \A x \in I : x \in Int
    OBVIOUS
  <2>1. Upto(i) \in SUBSET Upto(j)
    <3>1. \A x \in I : x <= i => x <= j
      BY <2>0, <1>3
    <3> QED
      BY <3>1
  <2>3. j \in Upto(j) /\ j \notin Upto(i)
    BY <2>0, <1>3
  <2>2. /\ Cardinality(Upto(i)) <= Cardinality(Upto(j))
        /\ Cardinality(Upto(i)) = Cardinality(Upto(j)) => Upto(i) = Upto(j)
    BY <1>2, <2>1, FS_Subset
  <2> QED
    BY <1>2, <2>2, <2>3
<1>4. f \in Injection(I, 1..Cardinality(I))
  <2>1. f \in [I -> 1..Cardinality(I)]
    BY <1>2
  <2>2. ASSUME NEW i \in I, NEW j \in I, f[i] = f[j] PROVE i = j
    BY <1>2, <1>3, <2>2
  <2> QED
    BY <2>1, <2>2 DEF Injection, IsInjective
<1>5. f \in Surjection(I, 1..Cardinality(I))
  <2>1. IsFiniteSet(1..Cardinality(I)) /\ Cardinality(1..Cardinality(I)) = Cardinality(I)
    BY <1>1, FS_Interval
  <2> QED
    BY <1>4, <2>1, FS_Injection
<1>6. ASSUME NEW k \in 1..Cardinality(I) PROVE Kth(I, k) \in I /\ f[Kth(I, k)] = k
  <2>1. \E i \in I : Cardinality({j \in I : j <= i}) = k
    BY <1>5 DEF Surjection
  <2> QED
    BY <2>1 DEF Kth
<1>7. ASSUME NEW i \in I PROVE \E k \in 1..Cardinality(I) : Kth(I, k) = i
  <2>1. f[i] \in 1..Cardinality(I)
    BY <1>2
  <2>2. Kth(I, f[i]) \in I /\ f[Kth(I, f[i])] = f[i]
    BY <1>6, <2>1
  <2>3. Kth(I, f[i]) = i
    BY <1>4, <2>2 DEF Injection, IsInjective
  <2> QED
    BY <2>1, <2>3
<1>8. ASSUME NEW j \in 1..Cardinality(I), NEW k \in 1..Cardinality(I),
             Kth(I, j) = Kth(I, k)
      PROVE  j = k
  BY <1>6, <1>8
<1>9. ASSUME I # {} PROVE \E m \in I : \A j \in I : m <= j
  <2>1. Cardinality(I) # 0
    BY <1>1, <1>9, FS_EmptySet
  <2>2. PICK m \in I : Cardinality(Upto(m)) = 1
    <3>1. 1 \in 1..Cardinality(I)
      BY <1>1, <2>1
    <3>2. Kth(I, 1) \in I /\ f[Kth(I, 1)] = 1
      BY <1>6, <3>1
    <3> QED
      BY <3>2
  <2>3. PICK x : Upto(m) = {x}
    BY <1>2, <2>2, FS_Singleton
  <2>4. \A j \in I : j <= m => j = m
    BY <2>3
  <2>5. \A x1, y1 \in I : x1 <= y1 \/ y1 <= x1
    OBVIOUS
  <2> QED
    BY <2>4, <2>5
<1> QED
  BY <1>1, <1>6, <1>7, <1>8, <1>9

\* The elements of a sequence at some positions.
LEMMA ChosenFacts ==
  ASSUME NEW s, DOMAIN s = 1..Len(s), Len(s) \in Nat, NEW I \in SUBSET DOMAIN s
  PROVE  /\ Len(Chosen(s, I)) \in Nat /\ DOMAIN Chosen(s, I) = 1..Len(Chosen(s, I))
         /\ \A k \in DOMAIN Chosen(s, I) : \E i \in I : Chosen(s, I)[k] = s[i]
         /\ \A i \in I : \E k \in DOMAIN Chosen(s, I) : Chosen(s, I)[k] = s[i]
         /\ Chosen(s, I) = [k \in 1..Len(Chosen(s, I)) |-> Chosen(s, I)[k]]
         /\ (\A i, j \in I : s[i] = s[j] => i = j) => ~Repeats(Chosen(s, I))
<1>1. /\ Cardinality(I) \in Nat
      /\ \A k \in 1..Cardinality(I) : Kth(I, k) \in I
      /\ \A i \in I : \E k \in 1..Cardinality(I) : Kth(I, k) = i
      /\ \A j, k \in 1..Cardinality(I) : Kth(I, j) = Kth(I, k) => j = k
  BY KthFacts
<1>2. Len(Chosen(s, I)) = Cardinality(I) /\ DOMAIN Chosen(s, I) = 1..Cardinality(I)
  BY <1>1 DEF Chosen
<1> QED
  BY <1>1, <1>2 DEF Chosen, Repeats

\* Counting through a table of m columns, row by row, meets every cell once.
LEMMA TableFacts ==
  ASSUME NEW l \in Nat, NEW m \in Nat
  PROVE  /\ l * m \in Nat
         /\ l # 0 /\ m # 0 => l * m # 0
         /\ \A i \in 1..(l * m) : /\ ((i - 1) \div m) + 1 \in 1..l
                                  /\ ((i - 1) % m) + 1 \in 1..m
         /\ \A a \in 1..l, b \in 1..m : \E i \in 1..(l * m) :
              a = ((i - 1) \div m) + 1 /\ b = ((i - 1) % m) + 1
         /\ \A i, j \in 1..(l * m) :
              /\ ((i - 1) \div m) + 1 = ((j - 1) \div m) + 1
              /\ ((i - 1) % m) + 1 = ((j - 1) % m) + 1
              => i = j
<1>1. l * m \in Nat /\ (l # 0 /\ m # 0 => l * m # 0)
  OBVIOUS
<1>2. ASSUME NEW i \in 1..(l * m)
      PROVE  /\ (i - 1) \div m \in Nat /\ (i - 1) % m \in 0..(m - 1)
             /\ i - 1 = m * ((i - 1) \div m) + ((i - 1) % m) /\ m \in Nat \ {0}
  <2>1. m # 0
    BY <1>1
  <2>2. i - 1 \in Nat /\ m \in Nat \ {0}
    BY <1>1, <2>1
  <2> QED
    BY <2>2
<1>3. ASSUME NEW q \in Nat, NEW t \in 0..(m - 1), NEW p \in Nat, NEW u \in 0..(m - 1),
             m * q + t = m * p + u
      PROVE  q = p /\ t = u
  <2>1. ASSUME NEW x \in Nat, NEW y \in Nat, x < y PROVE m * x + m <= m * y
    <3>1. m * (y - x - 1) >= 0
      BY <2>1
    <3> QED
      BY <3>1, <2>1
  <2>2. ~(q < p)
    BY <2>1, <1>3
  <2>3. ~(p < q)
    BY <2>1, <1>3
  <2> QED
    BY <2>2, <2>3, <1>3
<1>4. ASSUME NEW i \in 1..(l * m) PROVE (i - 1) \div m < l
  <2> DEFINE q == (i - 1) \div m
  <2>1. q \in Nat /\ m * q <= i - 1 /\ m \in Nat \ {0}
    BY <1>2
  <2>2. m * q < l * m
    BY <2>1, <1>1
  <2> HIDE DEF q
  <2>3. q < l
    BY <2>1, <2>2
  <2> QED
    BY <2>3 DEF q
<1>5. ASSUME NEW a \in 1..l, NEW b \in 1..m
      PROVE  \E i \in 1..(l * m) :
               a = ((i - 1) \div m) + 1 /\ b = ((i - 1) % m) + 1
  <2>1. PICK i \in 1..(l * m) : i = m * (a - 1) + b
    <3>1. m * (a - 1) \in Nat /\ m * (l - a) \in Nat
      OBVIOUS
    <3>2. m * (a - 1) + m + m * (l - a) = l * m
      OBVIOUS
    <3> QED
      BY <3>1, <3>2
  <2>2. m * (a - 1) + (b - 1) = m * ((i - 1) \div m) + ((i - 1) % m)
    <3>1. m * (a - 1) + (b - 1) = i - 1
      BY <2>1
    <3> QED
      BY <3>1, <1>2
  <2>3. a - 1 = (i - 1) \div m /\ b - 1 = (i - 1) % m
    <3>1. (i - 1) \div m \in Nat /\ (i - 1) % m \in 0..(m - 1)
      BY <2>1, <1>2
    <3>2. a - 1 \in Nat /\ b - 1 \in 0..(m - 1)
      OBVIOUS
    <3> QED
      BY <2>2, <3>1, <3>2, <1>3
  <2>4. (i - 1) \div m \in Nat /\ (i - 1) % m \in Nat
    BY <1>2
  <2> QED
    BY <2>3, <2>4
<1>6. ASSUME NEW i \in 1..(l * m), NEW j \in 1..(l * m),
             (i - 1) \div m = (j - 1) \div m, (i - 1) % m = (j - 1) % m
      PROVE  i = j
  <2>1. i - 1 = j - 1
    BY <1>2, <1>6
  <2> QED
    BY <2>1
<1>7. \A i \in 1..(l * m) :
        ((i - 1) \div m) + 1 \in 1..l /\ ((i - 1) % m) + 1 \in 1..m
  BY <1>2, <1>4
<1>8. \A i, j \in 1..(l * m) :
        /\ ((i - 1) \div m) + 1 = ((j - 1) \div m) + 1
        /\ ((i - 1) % m) + 1 = ((j - 1) % m) + 1
        => i = j
  BY <1>2, <1>6
<1> QED
  BY <1>1, <1>5, <1>7, <1>8

-----------------------------------------------------------------------------
(* Rendering *)

Elements(s) == {s[i] : i \in DOMAIN s}

Listing(s) ==
  Len(s) \in Nat /\ DOMAIN s = 1..Len(s) /\ s = [i \in 1..Len(s) |-> s[i]]

\* The values of the targets of some kinds: theirs, and no others.
LEMMA ValuesFacts ==
  ASSUME NEW r, IsRule(r), NEW kinds
  PROVE  /\ Listing(Values(r.targets, kinds))
         /\ Elements(Values(r.targets, kinds)) = Named(r, kinds)
<1> DEFINE s == [i \in DOMAIN r.targets |-> r.targets[i].value]
           I == OfKinds(r.targets, kinds)
<1>1. DOMAIN s = 1..Len(s) /\ Len(s) \in Nat /\ I \in SUBSET DOMAIN s
  BY DEF IsRule, OfKinds
<1>2. /\ Listing(Chosen(s, I))
      /\ \A k \in DOMAIN Chosen(s, I) : \E i \in I : Chosen(s, I)[k] = s[i]
      /\ \A i \in I : \E k \in DOMAIN Chosen(s, I) : Chosen(s, I)[k] = s[i]
  <2> HIDE DEF s, I
  <2> QED
    BY <1>1, ChosenFacts DEF Listing
<1>3. Elements(Chosen(s, I)) = {s[i] : i \in I}
  <2> HIDE DEF s, I
  <2> QED
    BY <1>2 DEF Elements
<1>4. {s[i] : i \in I} = Named(r, kinds)
  BY DEF OfKinds, Named, Targets
<1> QED
  BY <1>2, <1>3, <1>4 DEF Values

\* A list without its repetitions has the same elements, each once.
LEMMA DeduplicatedFacts ==
  ASSUME NEW s, Listing(s)
  PROVE  /\ Listing(Deduplicated(s)) /\ Elements(Deduplicated(s)) = Elements(s)
         /\ ~Repeats(Deduplicated(s))
<1> DEFINE I == Firsts(s)
<1>1. I \in SUBSET DOMAIN s /\ DOMAIN s = 1..Len(s) /\ Len(s) \in Nat
  BY DEF Firsts, Listing
<1>2. \A i, j \in I : s[i] = s[j] => i = j
  <2>1. ASSUME NEW i \in I, NEW j \in I, i < j PROVE s[i] # s[j]
    <3>1. i \in 1..(j - 1)
      BY <1>1, <2>1
    <3> QED
      BY <3>1 DEF Firsts
  <2>2. \A i, j \in I : i # j => i < j \/ j < i
    BY <1>1
  <2> QED
    BY <2>1, <2>2
<1>3. /\ Listing(Chosen(s, I)) /\ ~Repeats(Chosen(s, I))
      /\ \A k \in DOMAIN Chosen(s, I) : \E i \in I : Chosen(s, I)[k] = s[i]
      /\ \A i \in I : \E k \in DOMAIN Chosen(s, I) : Chosen(s, I)[k] = s[i]
  <2> HIDE DEF I
  <2> QED
    BY <1>1, <1>2, ChosenFacts DEF Listing
<1>4. ASSUME NEW i \in DOMAIN s PROVE \E j \in I : s[j] = s[i]
  <2> DEFINE J == {j \in DOMAIN s : s[j] = s[i]}
  <2>1. J \in SUBSET (1..Len(s)) /\ J # {}
    BY <1>1
  <2>2. PICK m \in J : \A j \in J : m <= j
    <3> HIDE DEF J
    <3> QED
      BY <1>1, <2>1, KthFacts
  <2>3. ASSUME NEW j \in 1..(m - 1) PROVE s[j] # s[m]
    BY <1>1, <2>2
  <2>4. m \in I
    BY <2>2, <2>3 DEF Firsts
  <2> QED
    BY <2>2, <2>4
<1>5. Elements(Chosen(s, I)) = Elements(s)
  <2> HIDE DEF I
  <2> QED
    BY <1>1, <1>3, <1>4 DEF Elements
<1> QED
  BY <1>3, <1>5 DEF Deduplicated

\* The sources are the addresses of the rule, or any.
LEMMA SourcesFacts ==
  ASSUME NEW r, IsRule(r)
  PROVE  /\ Listing(Sources(r)) /\ Len(Sources(r)) # 0
         /\ Elements(Sources(r)) = OrDefault(Named(r, NetworkKinds), AnySource)
         /\ ~Repeats(Values(r.targets, NetworkKinds)) => ~Repeats(Sources(r))
<1> DEFINE v == Values(r.targets, NetworkKinds)
<1>1. Listing(v) /\ Elements(v) = Named(r, NetworkKinds)
  BY ValuesFacts
<1>2. CASE v = <<>>
  <2>1. Sources(r) = <<AnySource>> /\ Named(r, NetworkKinds) = {}
    BY <1>1, <1>2 DEF Sources, Elements
  <2> QED
    BY <2>1 DEF Listing, Elements, OrDefault, Repeats
<1>3. CASE v # <<>>
  <2>1. Sources(r) = v /\ Len(v) # 0
    BY <1>1, <1>3 DEF Sources, Listing
  <2>2. Named(r, NetworkKinds) # {}
    <3>1. 1 \in DOMAIN v
      BY <1>1, <2>1 DEF Listing
    <3> QED
      BY <1>1, <3>1 DEF Elements
  <2> QED
    BY <1>1, <2>1, <2>2 DEF OrDefault
<1> QED
  BY <1>2, <1>3

\* The ports are those of the rule and of its targets, each once, or none.
LEMMA PortsFacts ==
  ASSUME NEW r, IsRule(r)
  PROVE  /\ Listing(Ports(r)) /\ Len(Ports(r)) # 0 /\ ~Repeats(Ports(r))
         /\ Elements(Ports(r)) =
              OrDefault(Listed(r) \cup Named(r, PortKinds), NoPort)
<1> DEFINE v == Values(r.targets, PortKinds)
           given == r.ports \o v
<1>1. Listing(v) /\ Elements(v) = Named(r, PortKinds)
  BY ValuesFacts
<1>2. v \in Seq(Elements(v)) /\ r.ports \in Seq(Listed(r))
  <2>1. \A i \in 1..Len(v) : v[i] \in Elements(v)
    BY <1>1 DEF Listing, Elements
  <2> HIDE DEF v
  <2>2. [i \in 1..Len(v) |-> v[i]] \in Seq(Elements(v))
    BY <1>1, <2>1 DEF Listing
  <2> QED
    BY <1>1, <2>2 DEF Listing, IsRule
<1>3. /\ Len(given) = Len(r.ports) + Len(v) /\ Len(r.ports) \in Nat /\ Len(v) \in Nat
      /\ DOMAIN given = 1..(Len(r.ports) + Len(v))
      /\ given = [i \in 1..Len(given) |-> given[i]]
      /\ DOMAIN r.ports = 1..Len(r.ports) /\ DOMAIN v = 1..Len(v)
      /\ \A i \in 1..Len(r.ports) : given[i] = r.ports[i]
      /\ \A i \in 1..Len(v) : given[Len(r.ports) + i] = v[i]
      /\ \A i \in 1..(Len(r.ports) + Len(v)) :
           i > Len(r.ports) => given[i] = v[i - Len(r.ports)]
  <2> HIDE DEF v
  <2> QED
    BY <1>2
<1>4. Listing(given)
  <2> HIDE DEF v, given
  <2> QED
    BY <1>3 DEF Listing
<1>5. Elements(given) = Listed(r) \cup Named(r, PortKinds)
  <2>1. Elements(given) = Elements(r.ports) \cup Elements(v)
    <3> HIDE DEF v, given
    <3>1. \A i \in 1..(Len(r.ports) + Len(v)) :
            given[i] \in Elements(r.ports) \cup Elements(v)
      <4>1. ASSUME NEW i \in 1..(Len(r.ports) + Len(v)), i > Len(r.ports)
            PROVE  i - Len(r.ports) \in 1..Len(v)
        BY <1>3, <4>1
      <4> QED
        BY <1>3, <4>1 DEF Elements
    <3>2. \A i \in 1..Len(r.ports) : i \in DOMAIN given
      BY <1>3
    <3>3. \A i \in 1..Len(v) : Len(r.ports) + i \in DOMAIN given
      BY <1>3
    <3> QED
      BY <1>3, <3>1, <3>2, <3>3 DEF Elements
  <2> QED
    BY <2>1, <1>1 DEF Elements, Listed
<1> HIDE DEF v, given
<1>6. CASE given = <<>>
  <2>1. Ports(r) = <<NoPort>> /\ Listed(r) \cup Named(r, PortKinds) = {}
    BY <1>5, <1>6 DEF Ports, Elements, given, v
  <2> QED
    BY <2>1 DEF Listing, Elements, OrDefault, Repeats
<1>7. CASE given # <<>>
  <2>1. Ports(r) = Deduplicated(given) /\ Len(given) # 0
    <3>1. Ports(r) = Deduplicated(given)
      BY <1>7 DEF Ports, given, v
    <3>2. Len(given) = 0 => given = <<>>
      BY <1>4 DEF Listing
    <3> QED
      BY <1>7, <3>1, <3>2
  <2>2. Listing(Ports(r)) /\ ~Repeats(Ports(r)) /\ Elements(Ports(r)) = Elements(given)
    BY <1>4, <2>1, DeduplicatedFacts
  <2>3. 1 \in DOMAIN given
    BY <1>4, <2>1 DEF Listing
  <2>4. Elements(given) # {}
    BY <2>3 DEF Elements
  <2>5. Len(Ports(r)) # 0
    <3>1. Len(Ports(r)) = 0 => DOMAIN Ports(r) = {}
      BY <2>2 DEF Listing
    <3> QED
      BY <2>2, <2>4, <3>1 DEF Elements
  <2> QED
    BY <1>5, <2>2, <2>4, <2>5 DEF OrDefault
<1> QED
  BY <1>6, <1>7

\* The commands for a rule are its sources on its ports: all of them, no
\* others, each once.
LEMMA RenderFacts ==
  ASSUME NEW r, IsRule(r)
  PROVE  /\ Listing(Render(r)) /\ Len(Render(r)) # 0 /\ Covered(Render(r)) = Asked(r)
         /\ \A i \in DOMAIN Render(r) :
              /\ Render(r)[i] = [action |-> UfwAction(r), source |-> Render(r)[i].source,
                                 port |-> Render(r)[i].port, protocol |-> r.protocol]
              /\ Render(r)[i].port \in Elements(Ports(r))
         /\ ~Repeats(Values(r.targets, NetworkKinds)) => ~Repeats(Render(r))
<1> DEFINE S == Sources(r)
           P == Ports(r)
           m == Len(Ports(r))
           n == Len(Sources(r)) * Len(Ports(r))
           a(i) == ((i - 1) \div m) + 1
           b(i) == ((i - 1) % m) + 1
<1>1. /\ Listing(S) /\ Len(S) # 0 /\ Listing(P) /\ m # 0 /\ ~Repeats(P)
      /\ Elements(S) = OrDefault(Named(r, NetworkKinds), AnySource)
      /\ Elements(P) = OrDefault(Listed(r) \cup Named(r, PortKinds), NoPort)
      /\ ~Repeats(Values(r.targets, NetworkKinds)) => ~Repeats(S)
  BY SourcesFacts, PortsFacts
<1>2. /\ n \in Nat /\ n # 0
      /\ \A i \in 1..n : a(i) \in 1..Len(S) /\ b(i) \in 1..m
      /\ \A x \in 1..Len(S), y \in 1..m : \E i \in 1..n : x = a(i) /\ y = b(i)
      /\ \A i, j \in 1..n : a(i) = a(j) /\ b(i) = b(j) => i = j
  BY <1>1, TableFacts DEF Listing
<1>3. /\ Render(r) = [i \in 1..n |-> [action |-> UfwAction(r), source |-> S[a(i)],
                                      port |-> P[b(i)], protocol |-> r.protocol]]
  BY DEF Render
<1> HIDE DEF S, P, m, n, a, b
<1>4. /\ Len(Render(r)) = n /\ DOMAIN Render(r) = 1..n
      /\ \A i \in 1..n :
           /\ Render(r)[i] = [action |-> UfwAction(r), source |-> S[a(i)],
                              port |-> P[b(i)], protocol |-> r.protocol]
           /\ Render(r)[i].source = S[a(i)] /\ Render(r)[i].port = P[b(i)]
  BY <1>2, <1>3
<1>5. Listing(Render(r))
  BY <1>2, <1>3, <1>4 DEF Listing
<1>6. /\ \A i \in 1..n : S[a(i)] \in Elements(S) /\ P[b(i)] \in Elements(P)
      /\ \A x \in Elements(S), y \in Elements(P) :
           \E i \in 1..n : x = S[a(i)] /\ y = P[b(i)]
  <2>1. DOMAIN S = 1..Len(S) /\ DOMAIN P = 1..m
    BY <1>1 DEF Listing, m, P
  <2> QED
    BY <1>2, <2>1 DEF Elements
<1>7. Covered(Render(r)) = {<<S[a(i)], P[b(i)]>> : i \in 1..n}
  BY <1>4 DEF Covered
<1>8. Covered(Render(r)) = Elements(S) \X Elements(P)
  BY <1>6, <1>7
<1>9. ~Repeats(S) => ~Repeats(Render(r))
  <2> SUFFICES ASSUME ~Repeats(S), NEW i \in 1..n, NEW j \in 1..n,
                      Render(r)[i] = Render(r)[j]
               PROVE  i = j
    BY <1>4 DEF Repeats
  <2>1. S[a(i)] = S[a(j)] /\ P[b(i)] = P[b(j)]
    BY <1>4
  <2>2. DOMAIN S = 1..Len(S) /\ DOMAIN P = 1..m
    BY <1>1 DEF Listing, m, P
  <2>3. a(i) = a(j) /\ b(i) = b(j)
    BY <1>1, <1>2, <2>1, <2>2 DEF Repeats
  <2> QED
    BY <1>2, <2>3
<1>10. Covered(Render(r)) = Asked(r)
  BY <1>1, <1>8 DEF Asked
<1>11. \A i \in DOMAIN Render(r) :
         /\ Render(r)[i] = [action |-> UfwAction(r), source |-> Render(r)[i].source,
                            port |-> Render(r)[i].port, protocol |-> r.protocol]
         /\ Render(r)[i].port \in Elements(Ports(r))
  BY <1>4, <1>6 DEF P
<1> QED
  BY <1>1, <1>2, <1>4, <1>5, <1>9, <1>10, <1>11

-----------------------------------------------------------------------------
(* Rollback *)

\* Before it is accepted a request has added nothing.  While it applies, what
\* it has added is among the commands it has recorded; while it rolls back,
\* also the rule of the command that failed.
Residue(r) ==
  /\ pc[r] = "new" => added[r] = {} /\ count[r] = 0
  /\ pc[r] = "applying" => added[r] \subseteq Prefix(r, count[r])
  /\ pc[r] = "rollingBack" =>
       \E i \in 1..Len(commands[r]) :
         added[r] \subseteq Prefix(r, count[r]) \cup {commands[r][i]}
  /\ pc[r] = "rejected" =>
       \E i \in 1..Len(commands[r]) : added[r] \subseteq {commands[r][i]}

IInv == TypeOK /\ \A r \in Req : Residue(r)

\* The commands of a rule are a sequence of host rules.
LEMMA CommandsType ==
  ASSUME TypeOK, NEW r \in Req
  PROVE  /\ commands[r] \in Seq(HostRule) /\ Len(commands[r]) \in Nat
         /\ \A i \in 1..Len(commands[r]) : commands[r][i] \in HostRule
BY DEF TypeOK

\* No request has begun.
LEMMA IInvInit == Init => IInv
<1> SUFFICES ASSUME Init PROVE IInv
  OBVIOUS
<1>1. host \subseteq HostRule
  BY FirewallAssumption DEF FirewallAssumption, Init
<1>2. \A r \in Req : /\ commands[r] = <<>> /\ Len(commands[r]) = 0
                     /\ pc[r] = "new" /\ added[r] = {} /\ count[r] = 0
  BY DEF Init
<1>3. TypeOK
  BY <1>1, <1>2 DEF Init, TypeOK
<1>4. \A r \in Req : Residue(r)
  BY <1>2 DEF Residue
<1> QED
  BY <1>3, <1>4 DEF IInv

\* Nobody's residue grows when a rule is deleted, or when another request
\* adds one.
LEMMA OthersKeepResidue ==
  ASSUME IInv, NEW r \in Req, NEW q \in Req \ {r},
         commands'[q] = commands[q], pc'[q] = pc[q], count'[q] = count[q],
         added'[q] \subseteq added[q]
  PROVE  Residue(q)'
BY DEF IInv, Residue, Prefix

\* A command adds its own rule, and for its own request, if any.
LEMMA HostAddsType ==
  ASSUME TypeOK, NEW r \in Req, NEW x \in HostRule, MaybeAdds(r, x)
  PROVE  /\ host' \subseteq HostRule
         /\ added' \in [Req -> SUBSET HostRule]
         /\ added'[r] \subseteq added[r] \cup {x}
         /\ \A q \in Req \ {r} : added'[q] \subseteq added[q]
BY DEF TypeOK, MaybeAdds, HostAdds, Beside

\* What is left after a deletion are rules of the host.
LEMMA HostDeletesType ==
  ASSUME TypeOK, NEW x \in HostRule, MaybeDeletes(x)
  PROVE  /\ host' \subseteq HostRule
         /\ added' \in [Req -> SUBSET HostRule]
         /\ \A q \in Req : added'[q] \subseteq added[q]
BY DEF TypeOK, MaybeDeletes, HostDeletes

\* The next command of a request is run.
LEMMA IInvApply ==
  ASSUME IInv, NEW r \in Req, ApplyOk(r) \/ ApplyFails(r)
  PROVE  IInv'
<1> DEFINE x == NextCommand(r)
<1>1. /\ commands' = commands /\ count[r] \in Nat /\ count[r] < Len(commands[r])
      /\ count[r] + 1 \in 1..Len(commands[r]) /\ x \in HostRule
      /\ MaybeAdds(r, x) /\ pc[r] = "applying"
  BY CommandsType DEF ApplyOk, ApplyFails, IInv, TypeOK, NextCommand, MaybeAdds
<1>2. TypeOK'
  <2>2. count' \in [Req -> Nat] /\ \A q \in Req : count'[q] <= Len(commands[q])
    <3>1. count' = count \/ count' = [count EXCEPT ![r] = @ + 1]
      BY DEF ApplyOk, ApplyFails
    <3>2. count' \in [Req -> Nat]
      BY <1>1, <3>1 DEF IInv, TypeOK
    <3>3. ASSUME NEW q \in Req PROVE count'[q] <= Len(commands[q])
      <4>1. Len(commands[q]) \in Nat /\ count[q] \in Nat
        BY CommandsType DEF IInv, TypeOK
      <4>2. CASE q = r
        BY <1>1, <3>1, <4>1, <4>2 DEF IInv, TypeOK
      <4>3. CASE q # r
        <5>1. count'[q] = count[q]
          BY <3>1, <4>3 DEF IInv, TypeOK
        <5> QED
          BY <5>1 DEF IInv, TypeOK
      <4> QED
        BY <4>2, <4>3
    <3> QED
      BY <3>2, <3>3
  <2>3. pc' \in [Req -> {"new", "applying", "rollingBack"} \cup Answers]
    BY DEF ApplyOk, ApplyFails, IInv, TypeOK
  <2> QED
    BY <1>1, <2>2, <2>3, HostAddsType DEF IInv, TypeOK
<1>3. \A q \in Req \ {r} : Residue(q)'
  BY <1>1, HostAddsType, OthersKeepResidue DEF ApplyOk, ApplyFails, IInv, TypeOK
<1>4. added'[r] \subseteq Prefix(r, count[r]) \cup {x}
  BY <1>1, HostAddsType DEF IInv, Residue
<1>5. CASE ApplyOk(r)
  <2>1. pc'[r] = "applying" /\ count'[r] = count[r] + 1
    BY <1>5 DEF ApplyOk, IInv, TypeOK
  <2>2. Prefix(r, count[r]) \cup {x} \subseteq Prefix(r, count[r] + 1)
    BY <1>1 DEF Prefix, NextCommand
  <2>3. Residue(r)'
    BY <1>1, <1>4, <2>1, <2>2 DEF Residue, Prefix
  <2> QED
    BY <1>2, <1>3, <2>3 DEF IInv
<1>6. CASE ApplyFails(r)
  <2>1. pc'[r] = "rollingBack" /\ count'[r] = count[r]
    BY <1>6 DEF ApplyFails, IInv, TypeOK
  <2>2. Residue(r)'
    BY <1>1, <1>4, <2>1 DEF Residue, Prefix, NextCommand
  <2> QED
    BY <1>2, <1>3, <2>2 DEF IInv
<1> QED
  BY <1>5, <1>6

\* The next command of a request is taken back.
LEMMA IInvRollbackOk ==
  ASSUME IInv, NEW r \in Req, RollbackOk(r)
  PROVE  IInv'
<1> DEFINE x == LastApplied(r)
<1>1. /\ commands' = commands /\ pc' = pc /\ pc[r] = "rollingBack"
      /\ count[r] \in 1..Len(commands[r]) /\ x \in HostRule
      /\ HostDeletes(x) /\ count' = [count EXCEPT ![r] = @ - 1]
  BY CommandsType DEF RollbackOk, IInv, TypeOK, LastApplied
<1>2. TypeOK'
  <2>1. count' \in [Req -> Nat] /\ \A q \in Req : count'[q] <= Len(commands[q])
    BY <1>1, CommandsType DEF IInv, TypeOK
  <2> QED
    BY <1>1, <2>1, HostDeletesType DEF MaybeDeletes, IInv, TypeOK
<1>3. \A q \in Req \ {r} : Residue(q)'
  BY <1>1, HostDeletesType, OthersKeepResidue DEF MaybeDeletes, IInv, TypeOK
<1>4. Prefix(r, count[r]) \ {x} \subseteq Prefix(r, count[r] - 1)
  BY <1>1, CommandsType DEF Prefix, LastApplied, IInv
<1>5. added'[r] = added[r] \ {x} /\ count'[r] = count[r] - 1
  BY <1>1 DEF HostDeletes, IInv, TypeOK
<1>6. Residue(r)'
  <2>1. PICK i \in 1..Len(commands[r]) :
          added[r] \subseteq Prefix(r, count[r]) \cup {commands[r][i]}
    BY <1>1 DEF IInv, Residue
  <2>2. added'[r] \subseteq Prefix(r, count[r] - 1) \cup {commands[r][i]}
    BY <2>1, <1>4, <1>5
  <2>3. Prefix(r, count[r])' = Prefix(r, count[r] - 1)
    BY <1>1, <1>5 DEF Prefix
  <2> QED
    BY <1>1, <1>5, <2>2, <2>3 DEF Residue
<1> QED
  BY <1>2, <1>3, <1>6 DEF IInv

\* A request is received, and validated or refused.
LEMMA IInvReceive ==
  ASSUME IInv, NEW r \in Req, Refuse(r) \/ Accept(r)
  PROVE  IInv'
<1>1. /\ host' = host /\ count' = count /\ added' = added
      /\ pc[r] = "new" /\ added[r] = {} /\ count[r] = 0
  BY DEF Refuse, Accept, IInv, Residue
<1>2. commands' \in [Req -> Seq(HostRule)]
      /\ \A q \in Req \ {r} : commands'[q] = commands[q]
  <2>1. CASE Accept(r)
    <3>1. PICK x \in DOMAIN Plan : commands' = [commands EXCEPT ![r] = Plan[x]]
      BY <2>1 DEF Accept
    <3>2. Plan[x] \in Seq(HostRule)
      BY FirewallAssumption DEF FirewallAssumption
    <3> QED
      BY <3>1, <3>2 DEF IInv, TypeOK
  <2>2. CASE Refuse(r)
    BY <2>2 DEF Refuse, IInv, TypeOK
  <2> QED
    BY <2>1, <2>2
<1>3. pc' \in [Req -> {"new", "applying", "rollingBack"} \cup Answers]
      /\ pc'[r] \in {"refused", "applying"}
      /\ \A q \in Req \ {r} : pc'[q] = pc[q]
  BY DEF Refuse, Accept, IInv, TypeOK, Answers
<1>4. \A q \in Req : count'[q] <= Len(commands'[q])
  <2>1. count'[r] <= Len(commands'[r])
    <3>1. commands'[r] \in Seq(HostRule)
      BY <1>2
    <3>2. Len(commands'[r]) \in Nat
      BY <3>1
    <3> QED
      BY <3>2, <1>1
  <2>2. ASSUME NEW q \in Req \ {r} PROVE count'[q] <= Len(commands'[q])
    BY <1>1, <1>2 DEF IInv, TypeOK
  <2> QED
    BY <2>1, <2>2
<1>5. TypeOK'
  BY <1>1, <1>2, <1>3, <1>4 DEF IInv, TypeOK
<1>6. Residue(r)'
  BY <1>1, <1>3 DEF Residue
<1>7. \A q \in Req \ {r} : Residue(q)'
  BY <1>1, <1>2, <1>3, OthersKeepResidue DEF IInv, TypeOK
<1> QED
  BY <1>5, <1>6, <1>7 DEF IInv

\* A request is answered.
LEMMA IInvEnd ==
  ASSUME IInv, NEW r \in Req,
         ApplyDone(r) \/ RollbackFails(r) \/ RollbackDone(r)
  PROVE  IInv'
<1>1. commands' = commands /\ count' = count
  BY DEF ApplyDone, RollbackFails, RollbackDone
<1>2. /\ host' \subseteq HostRule /\ added' \in [Req -> SUBSET HostRule]
      /\ \A q \in Req : added'[q] \subseteq added[q]
  <2>1. CASE RollbackFails(r)
    <3>1. LastApplied(r) \in HostRule /\ MaybeDeletes(LastApplied(r))
      BY <2>1, CommandsType DEF RollbackFails, LastApplied, IInv, TypeOK
    <3> QED
      BY <3>1, HostDeletesType DEF IInv
  <2> QED
    BY <2>1 DEF ApplyDone, RollbackDone, IInv, TypeOK
<1>3. pc' \in [Req -> {"new", "applying", "rollingBack"} \cup Answers]
      /\ \A q \in Req \ {r} : pc'[q] = pc[q]
  BY DEF ApplyDone, RollbackFails, RollbackDone, IInv, TypeOK, Answers
<1>4. \A q \in Req \ {r} : Residue(q)'
  BY <1>1, <1>2, <1>3, OthersKeepResidue
<1>5. Residue(r)'
  <2>1. CASE RollbackDone(r)
    <3>1. Prefix(r, 0) = {}
      BY DEF Prefix
    <3> QED
      BY <2>1, <3>1, <1>1, <1>2 DEF RollbackDone, IInv, TypeOK, Residue
  <2>2. CASE ApplyDone(r) \/ RollbackFails(r)
    BY <2>2 DEF ApplyDone, RollbackFails, IInv, TypeOK, Residue
  <2> QED
    BY <2>1, <2>2
<1>6. TypeOK'
  BY <1>1, <1>2, <1>3 DEF IInv, TypeOK
<1> QED
  BY <1>4, <1>5, <1>6 DEF IInv

\* Every step keeps the invariant.
LEMMA IInvNext == IInv /\ [Next]_vars => IInv'
<1>1. ASSUME IInv, UNCHANGED vars PROVE IInv'
  BY <1>1 DEF vars, IInv, TypeOK, Residue, Prefix
<1> QED
  BY <1>1, IInvReceive, IInvApply, IInvRollbackOk, IInvEnd DEF Next, Step

\* The counters and lists of applyRule keep their types, and it never counts
\* more commands than it was given.
THEOREM TypeCorrect == Spec => []TypeOK
<1>1. IInv /\ [Next]_vars => IInv'
  BY IInvNext
<1>2. IInv => TypeOK
  BY DEF IInv
<1> QED
  BY <1>1, <1>2, IInvInit, PTL DEF Spec

\* A rejected request leaves at most one rule it added, whatever requests
\* interleave and whichever commands fail, with or without effect.
THEOREM RollbackCorrect == Spec => []RejectedLeavesOneRule
<1>1. IInv /\ [Next]_vars => IInv'
  BY IInvNext
<1>2. IInv => RejectedLeavesOneRule
  BY DEF IInv, Residue, RejectedLeavesOneRule
<1> QED
  BY <1>1, <1>2, IInvInit, PTL DEF Spec

-----------------------------------------------------------------------------
(* Enforcement *)

\* Another request has commands for the traffic of c under another action, or
\* has begun to take its own back.
Contested(r, c) ==
  \E q \in Taken \ {r} :
    /\ <<c.source, c.port>> \in Covered(commands[q])
    /\ \/ UfwAction(rule[q]) # UfwAction(rule[r])
       \/ pc[q] \in {"rollingBack", "rejected", "rollbackFailed"}

\* The commands are those of the rule.
RuleInv(r) ==
  /\ r \in Taken => rule[r] \in RuleOf[r] \cap DOMAIN Plan /\ commands[r] = Plan[rule[r]]
  /\ pc[r] = "applied" => count[r] = Len(commands[r])

\* Every command that succeeded holds, or is contested.
Enforced(r) ==
  pc[r] \in {"applying", "applied"} =>
    \A i \in 1..count[r] : commands[r][i] \in host \/ Contested(r, commands[r][i])

AppliedInv ==
  /\ IInv /\ rule = [r \in Req |-> rule[r]]
  /\ \A r \in Req : RuleInv(r) /\ Enforced(r)

\* What the commands of a request are.
LEMMA TakenFacts ==
  ASSUME NEW r \in Taken, RuleInv(r)
  PROVE  /\ IsRule(rule[r]) /\ Valid(rule[r]) /\ Supported(rule[r])
         /\ commands[r] = Render(rule[r])
         /\ Listing(commands[r]) /\ commands[r] # <<>>
         /\ Covered(commands[r]) = Asked(rule[r])
         /\ \A i \in DOMAIN commands[r] :
              /\ commands[r][i] = [action |-> UfwAction(rule[r]),
                                   source |-> commands[r][i].source,
                                   port |-> commands[r][i].port,
                                   protocol |-> rule[r].protocol]
              /\ commands[r][i].port \in Elements(Ports(rule[r]))
         /\ ~Repeats(Values(rule[r].targets, NetworkKinds)) => ~Repeats(commands[r])
<1> DEFINE x == rule[r]
<1>1. /\ r \in Req /\ x \in RuleOf[r] \cap DOMAIN Plan /\ commands[r] = Plan[x]
  BY DEF RuleInv, Taken
<1>2. IsRule(x) /\ Plan = Rendered
  BY <1>1, RenderingAssumption DEF RenderingAssumption
<1>3. Valid(x) /\ Supported(x) /\ commands[r] = Render(x)
  BY <1>1, <1>2 DEF Rendered
<1> HIDE DEF x
<1>4. Listing(Render(x)) /\ Len(Render(x)) # 0
  BY <1>2, RenderFacts
<1>5. Render(x) # <<>>
  BY <1>4
<1> QED
  BY <1>2, <1>3, <1>4, <1>5, RenderFacts DEF x

\* A request that was taken is not forgotten, nor changes its rule.
LEMMA StepFacts ==
  ASSUME AppliedInv, NEW q \in Req, Step(q), NEW r \in Taken
  PROVE  /\ r \in Taken' /\ commands'[r] = commands[r] /\ rule'[r] = rule[r]
         /\ pc[r] \in {"rollingBack", "rejected", "rollbackFailed"} =>
              pc'[r] \in {"rollingBack", "rejected", "rollbackFailed"}
<1>1. r \in Req /\ pc[r] \in {"applying", "rollingBack", "applied", "rejected",
                              "rollbackFailed"}
  BY DEF Taken, AppliedInv, IInv, TypeOK, Answers
<1>2. CASE q = r
  BY <1>1, <1>2 DEF Step, Refuse, Accept, ApplyOk, ApplyFails, ApplyDone,
                    RollbackOk,
     RollbackFails, RollbackDone, Taken, AppliedInv, IInv, TypeOK
<1>3. CASE q # r
  <2>1. pc'[r] = pc[r] /\ commands'[r] = commands[r] /\ rule'[r] = rule[r]
    BY <1>1, <1>3 DEF Step, Refuse, Accept, ApplyOk, ApplyFails, ApplyDone,
                      RollbackOk,
       RollbackFails, RollbackDone, AppliedInv, IInv, TypeOK
  <2> QED
    BY <1>1, <2>1 DEF Taken
<1> QED
  BY <1>2, <1>3

\* What is contested stays so.
LEMMA ContestedStays ==
  ASSUME AppliedInv, NEW q \in Req, Step(q), NEW r \in Taken, NEW c, Contested(r, c)
  PROVE  Contested(r, c)'
<1>1. PICK p \in Taken \ {r} :
        /\ <<c.source, c.port>> \in Covered(commands[p])
        /\ \/ UfwAction(rule[p]) # UfwAction(rule[r])
           \/ pc[p] \in {"rollingBack", "rejected", "rollbackFailed"}
  BY DEF Contested
<1>2. /\ p \in Taken' /\ commands'[p] = commands[p] /\ rule'[p] = rule[p]
      /\ rule'[r] = rule[r]
      /\ pc[p] \in {"rollingBack", "rejected", "rollbackFailed"} =>
           pc'[p] \in {"rollingBack", "rejected", "rollbackFailed"}
  BY StepFacts
<1> QED
  BY <1>1, <1>2 DEF Contested

\* A command that holds goes on to hold, or is contested from now on.
LEMMA HeldOrContested ==
  ASSUME AppliedInv, NEW q \in Req, Step(q), NEW r \in Taken,
         pc'[r] \in {"applying", "applied"},
         NEW i \in DOMAIN commands[r], NEW c \in host, c = commands[r][i]
  PROVE  c \in host' \/ Contested(r, c)'
<1>1. r \in Req /\ RuleInv(r) /\ RuleInv(q) /\ TypeOK
  BY DEF Taken, AppliedInv, IInv
<1>2. CASE ApplyOk(q) \/ ApplyFails(q)
  <2>1. /\ q \in Taken /\ count[q] + 1 \in 1..Len(commands[q])
        /\ MaybeAdds(q, commands[q][count[q] + 1])
    BY <1>1, <1>2, CommandsType DEF ApplyOk, ApplyFails, Taken, NextCommand,
                                    MaybeAdds,
       TypeOK
  <2>2. PICK k \in DOMAIN commands[q] : MaybeAdds(q, commands[q][k])
    BY <1>1, <2>1, TakenFacts DEF Listing
  <2> DEFINE x == commands[q][k]
  <2>3. /\ x \in HostRule /\ c \in HostRule
        /\ x = [action |-> UfwAction(rule[q]), source |-> x.source,
                port |-> x.port, protocol |-> rule[q].protocol]
        /\ c = [action |-> UfwAction(rule[r]), source |-> c.source,
                port |-> c.port, protocol |-> rule[r].protocol]
    BY <1>1, <2>1, TakenFacts, CommandsType DEF Listing, Taken
  <2>4. Match(x) = Matched(x) /\ Match(c) = Matched(c)
    BY <2>3, RenderingAssumption DEF RenderingAssumption
  <2> HIDE DEF x
  <2>5. CASE c \in host'
    BY <2>5
  <2>6. CASE c \notin host'
    <3>1. Match(x) = Match(c) /\ x # c
      BY <2>2, <2>6 DEF MaybeAdds, HostAdds, Beside, x
    <3>2. x.source = c.source /\ x.port = c.port /\ x.protocol = c.protocol
      BY <2>4, <3>1 DEF Matched
    <3>3. UfwAction(rule[q]) # UfwAction(rule[r])
      <4>1. x.protocol = rule[q].protocol /\ c.protocol = rule[r].protocol
        BY <2>3
      <4> QED
        BY <2>3, <3>1, <3>2, <4>1
    <3>4. q # r
      BY <3>3
    <3>5. <<c.source, c.port>> \in Covered(commands[q])
      BY <3>2 DEF Covered, x
    <3>6. Contested(r, c)
      BY <2>1, <3>3, <3>4, <3>5 DEF Contested
    <3> QED
      BY <3>6, ContestedStays
  <2> QED
    BY <2>5, <2>6
<1>3. CASE RollbackOk(q) \/ RollbackFails(q)
  <2>1. /\ q \in Taken /\ count[q] \in 1..Len(commands[q])
        /\ MaybeDeletes(commands[q][count[q]]) /\ pc[q] = "rollingBack"
        /\ pc'[q] \in {"rollingBack", "rollbackFailed"}
    BY <1>1, <1>3, CommandsType DEF RollbackOk, RollbackFails, Taken,
                                    LastApplied,
       MaybeDeletes, TypeOK
  <2>2. PICK k \in DOMAIN commands[q] : MaybeDeletes(commands[q][k])
    BY <1>1, <2>1, TakenFacts DEF Listing
  <2>3. CASE c \in host'
    BY <2>3
  <2>4. CASE c \notin host'
    <3>1. c = commands[q][k]
      BY <2>2, <2>4 DEF MaybeDeletes, HostDeletes
    <3>2. <<c.source, c.port>> \in Covered(commands[q]) /\ q # r
      BY <2>1, <3>1 DEF Covered
    <3>3. Contested(r, c)
      BY <2>1, <3>2 DEF Contested
    <3> QED
      BY <3>3, ContestedStays
  <2> QED
    BY <2>3, <2>4
<1>4. CASE Refuse(q) \/ Accept(q) \/ ApplyDone(q) \/ RollbackDone(q)
  BY <1>4 DEF Refuse, Accept, ApplyDone, RollbackDone
<1> QED
  BY <1>2, <1>3, <1>4 DEF Step

\* Every step keeps what has been applied enforced, or contested.
LEMMA AppliedInvStep ==
  ASSUME AppliedInv, NEW q \in Req, Step(q)
  PROVE  AppliedInv'
<1>1. IInv'
  <2>1. Next
    BY DEF Next
  <2> QED
    BY <2>1, IInvNext DEF AppliedInv
<1>2. rule' = [r \in Req |-> rule'[r]]
  BY DEF AppliedInv, Step, Refuse, Accept, ApplyOk, ApplyFails, ApplyDone,
         RollbackOk,
     RollbackFails, RollbackDone
<1>3. ASSUME NEW r \in Req PROVE RuleInv(r)'
  <2>1. CASE r \in Taken
    <3>1. /\ r \in Taken' /\ commands'[r] = commands[r] /\ rule'[r] = rule[r]
      BY <2>1, StepFacts
    <3>2. RuleInv(r)
      BY DEF AppliedInv
    <3>3. pc'[r] = "applied" => count'[r] = Len(commands[r])
      BY <3>2 DEF RuleInv, Step, Refuse, Accept, ApplyOk, ApplyFails, ApplyDone,
         RollbackOk, RollbackFails, RollbackDone, AppliedInv, IInv, TypeOK
    <3> QED
      BY <2>1, <3>1, <3>2, <3>3 DEF RuleInv
  <2>2. CASE r \notin Taken /\ q = r
    <3>1. pc[r] \in {"new", "refused"}
      BY <2>2 DEF Taken
    <3>2. Refuse(r) \/ Accept(r)
      BY <2>2, <3>1 DEF Step, ApplyOk, ApplyFails, ApplyDone, RollbackOk,
                        RollbackFails,
         RollbackDone
    <3>3. CASE Refuse(r)
      <4>1. pc'[r] = "refused"
        BY <3>3 DEF Refuse, AppliedInv, IInv, TypeOK
      <4> QED
        BY <4>1 DEF RuleInv, Taken
    <3>4. CASE Accept(r)
      <4>1. pc'[r] = "applying"
        BY <3>4 DEF Accept, AppliedInv, IInv, TypeOK
      <4>2. PICK x \in RuleOf[r] \cap DOMAIN Plan :
              rule' = [rule EXCEPT ![r] = x] /\ commands' = [commands EXCEPT ![r] = Plan[x]]
        BY <3>4 DEF Accept
      <4>3. rule'[r] = x /\ commands'[r] = Plan[x]
        BY <4>2 DEF AppliedInv, IInv, TypeOK
      <4> QED
        BY <4>1, <4>3 DEF RuleInv
    <3> QED
      BY <3>2, <3>3, <3>4
  <2>3. CASE r \notin Taken /\ q # r
    <3>1. pc'[r] = pc[r]
      BY <2>3 DEF Step, Refuse, Accept, ApplyOk, ApplyFails, ApplyDone,
                  RollbackOk,
         RollbackFails, RollbackDone, AppliedInv, IInv, TypeOK
    <3> QED
      BY <2>3, <3>1 DEF RuleInv, Taken
  <2> QED
    BY <2>1, <2>2, <2>3
<1>4. ASSUME NEW r \in Req PROVE Enforced(r)'
  <2> SUFFICES ASSUME pc'[r] \in {"applying", "applied"}, NEW i \in 1..count'[r]
               PROVE  commands'[r][i] \in host' \/ Contested(r, commands[r][i])'
    BY DEF Enforced
  <2>1. Enforced(r) /\ TypeOK /\ Residue(r) /\ RuleInv(r)
    BY DEF AppliedInv, IInv
  <2>2. CASE Accept(r) /\ q = r
    <3>1. count'[r] = 0
      BY <2>1, <2>2 DEF Accept, Residue
    <3> QED
      BY <3>1
  <2>3. CASE ~(Accept(r) /\ q = r)
    <3>1. r \in Taken /\ pc[r] \in {"applying", "applied"}
      BY <2>1, <2>3 DEF Step, Refuse, Accept, ApplyOk, ApplyFails, ApplyDone,
                        RollbackOk,
         RollbackFails, RollbackDone, TypeOK, Taken
    <3>2. commands'[r] = commands[r]
      BY <3>1, StepFacts
    <3>3. /\ count[r] \in Nat /\ count'[r] \in {count[r], count[r] + 1}
          /\ count'[r] = count[r] + 1 => ApplyOk(r)
      BY <2>1, <3>1 DEF Step, Refuse, Accept, ApplyOk, ApplyFails, ApplyDone,
                        RollbackOk,
         RollbackFails, RollbackDone, TypeOK
    <3>4. CASE i \in 1..count[r]
      <4>1. i \in DOMAIN commands[r]
        BY <2>1, <3>1, <3>4, CommandsType, TakenFacts DEF TypeOK, Listing
      <4>2. PICK c : c = commands[r][i]
        OBVIOUS
      <4>3. c \in host \/ Contested(r, c)
        BY <2>1, <3>1, <3>4, <4>2 DEF Enforced
      <4>4. c \in host' \/ Contested(r, c)'
        BY <3>1, <4>1, <4>2, <4>3, HeldOrContested, ContestedStays
      <4>5. c = commands'[r][i]
        BY <3>2, <4>2
      <4> QED
        BY <4>4, <4>5 DEF Contested
    <3>5. CASE i \notin 1..count[r]
      <4>1. i = count[r] + 1 /\ ApplyOk(r)
        BY <3>3, <3>5
      <4>2. commands[r][i] \in host'
        BY <4>1 DEF ApplyOk, HostAdds, NextCommand
      <4> QED
        BY <3>2, <4>2
    <3> QED
      BY <3>4, <3>5
  <2> QED
    BY <2>2, <2>3
<1> QED
  BY <1>1, <1>2, <1>3, <1>4 DEF AppliedInv

\* What is known of the rules applied holds in every reachable state.
LEMMA AppliedInvAlways == Spec => []AppliedInv
<1>1. Init => AppliedInv
  <2> SUFFICES ASSUME Init PROVE AppliedInv
    OBVIOUS
  <2>1. IInv
    BY IInvInit
  <2>2. \A r \in Req : RuleInv(r) /\ Enforced(r)
    BY DEF Init, RuleInv, Enforced, Taken
  <2> QED
    BY <2>1, <2>2 DEF AppliedInv, Init
<1>2. AppliedInv /\ [Next]_vars => AppliedInv'
  <2>1. ASSUME AppliedInv, UNCHANGED vars PROVE AppliedInv'
    <3>1. IInv'
      BY <2>1, IInvNext DEF AppliedInv
    <3> QED
      BY <2>1, <3>1 DEF vars, AppliedInv, RuleInv, Enforced, Contested, Taken
  <2> QED
    BY <2>1, AppliedInvStep DEF Next
<1> QED
  BY <1>1, <1>2, PTL DEF Spec

\* The commands of a request match what its rule asks for, are in range, and
\* repeat nothing the rule does not: for lists of any length.
THEOREM RenderingCorrect == Spec => []RenderCoversRule
<1>1. AppliedInv => RenderCoversRule
  <2> SUFFICES ASSUME AppliedInv, NEW r \in Taken
               PROVE  /\ commands[r] # <<>> /\ Covered(commands[r]) = Asked(rule[r])
                      /\ \A i \in DOMAIN commands[r] :
                           commands[r][i].port # NoPort => InRange(commands[r][i].port)
                      /\ ~Repeats(Values(rule[r].targets, NetworkKinds)) =>
                           ~Repeats(commands[r])
    BY DEF RenderCoversRule
  <2>1. RuleInv(r)
    BY DEF AppliedInv, Taken
  <2>2. ASSUME NEW i \in DOMAIN commands[r], commands[r][i].port # NoPort
        PROVE  InRange(commands[r][i].port)
    <3> DEFINE port == commands[r][i].port
    <3>1. IsRule(rule[r]) /\ Valid(rule[r]) /\ port \in Elements(Ports(rule[r]))
      BY <2>1, TakenFacts
    <3>2. port \in Listed(rule[r]) \cup Named(rule[r], PortKinds)
      BY <2>2, <3>1, PortsFacts DEF OrDefault
    <3> HIDE DEF port
    <3>3. IsPorts(port) /\ AssertPorts(port)
      BY <3>1, <3>2 DEF IsRule, Valid, ValidTargets, Listed, Named, Targets
    <3>4. Len(port) \in 1..2 /\ DOMAIN port = 1..Len(port)
      BY <3>3 DEF IsPorts
    <3>5. \A j, k \in DOMAIN port : j < k => port[j] <= port[k]
      BY <3>3, <3>4 DEF AssertPorts
    <3>6. \A j \in DOMAIN port : port[j] \in 1..MaxPort
      BY <3>3 DEF AssertPorts, AssertPort
    <3>7. InRange(port)
      BY <3>5, <3>6 DEF InRange
    <3> QED
      BY <3>7 DEF port
  <2> QED
    BY <2>1, <2>2, TakenFacts
<1> QED
  BY <1>1, AppliedInvAlways, PTL

\* What an applied rule asks for is enforced with its action, or contested.
THEOREM ApplicationCorrect == Spec => []AppliedIsEnforced
<1>1. AppliedInv => AppliedIsEnforced
  <2> SUFFICES ASSUME AppliedInv, NEW r \in Req, pc[r] = "applied",
                      NEW a \in Asked(rule[r])
               PROVE  \/ \E x \in host : /\ <<x.source, x.port>> = a
                                         /\ x.action = UfwAction(rule[r])
                      \/ \E q \in Taken \ {r} :
                           /\ a \in Covered(commands[q])
                           /\ \/ UfwAction(rule[q]) # UfwAction(rule[r])
                              \/ pc[q] \in {"rollingBack", "rejected", "rollbackFailed"}
    BY DEF AppliedIsEnforced
  <2>1. r \in Taken /\ RuleInv(r) /\ Enforced(r)
    BY DEF Taken, AppliedInv
  <2>2. a \in Covered(commands[r]) /\ DOMAIN commands[r] = 1..count[r]
    BY <2>1, TakenFacts DEF RuleInv, Listing
  <2>3. PICK i \in DOMAIN commands[r] : a = <<commands[r][i].source, commands[r][i].port>>
    BY <2>2 DEF Covered
  <2>4. commands[r][i].action = UfwAction(rule[r])
    <3>1. commands[r][i] = [action |-> UfwAction(rule[r]),
                            source |-> commands[r][i].source,
                            port |-> commands[r][i].port,
                            protocol |-> rule[r].protocol]
      BY <2>1, TakenFacts
    <3> QED
      BY <3>1
  <2>5. commands[r][i] \in host \/ Contested(r, commands[r][i])
    BY <2>1, <2>2 DEF Enforced
  <2> QED
    BY <2>3, <2>4, <2>5 DEF Contested
<1> QED
  BY <1>1, AppliedInvAlways, PTL
=============================================================================
