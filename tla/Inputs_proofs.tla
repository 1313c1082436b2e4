---------------------------- MODULE Inputs_proofs ----------------------------
(***************************************************************************)
(* What the parts of pgrok and pgrokd without state make of their inputs,  *)
(* for all addresses, rules, paths, configurations and ports.              *)
(***************************************************************************)
EXTENDS Inputs, FiniteSetTheorems, WellFoundedInduction, TLAPS

\* Induction over the natural numbers, as a fact about a set of them.
LEMMA EveryNumber ==
    ASSUME NEW T \in SUBSET Nat, 0 \in T, \A n \in T : n + 1 \in T
    PROVE  T = Nat
  <1> SUFFICES ASSUME Nat \ T # {} PROVE FALSE
    OBVIOUS
  <1> DEFINE R == OpToRel(<, Nat)
  <1>1. IsWellFoundedOn(R, Nat)
    BY NatLessThanWellFounded
  <1>2. \A x, y \in Nat : x < y => <<x, y>> \in R
    BY DEF OpToRel
  <1> HIDE DEF R
  <1>3. PICK m \in Nat \ T : \A y \in Nat \ T : ~(<<y, m>> \in R)
    <2>1. Nat \ T \subseteq Nat
      OBVIOUS
    <2> QED
      BY <1>1, <2>1, WFMin
  <1>4. m \in Nat /\ m # 0 /\ m - 1 \in Nat /\ m - 1 < m
    BY <1>3
  <1>5. m - 1 \in T
    BY <1>2, <1>3, <1>4
  <1>6. (m - 1) + 1 = m
    BY <1>4
  <1> QED
    BY <1>3, <1>5, <1>6
----------------------------------------------------------------------------
\* The rules of dynamic_forwards.

IsRule(line) == Len(line) = 2

\* The map that has been made of n lines, in the way of Proxies.
IsTable(lines, n, after) ==
    after = [k \in 0 .. n |->
                IF k = 0 THEN <<>>
                ELSE IF Len(lines[k]) = 2 THEN Put(after[k - 1], lines[k][1], lines[k][2])
                ELSE after[k - 1]]

\* A map of n lines has the prefixes of their rules, each with the address of the
\* last of them.
Keeps(lines, n, proxies) ==
    /\ DOMAIN proxies = {lines[i][1] : i \in {j \in 1 .. n : IsRule(lines[j])}}
    /\ \A prefix \in DOMAIN proxies : \E i \in 1 .. n :
           /\ IsRule(lines[i]) /\ lines[i][1] = prefix /\ proxies[prefix] = lines[i][2]
           /\ \A j \in 1 .. n : (j > i /\ IsRule(lines[j])) => lines[j][1] # prefix

LEMMA TableExists ==
    ASSUME NEW lines, NEW N \in Nat
    PROVE  \E after : IsTable(lines, N, after)
  <1> DEFINE T == {n \in Nat : \E after : IsTable(lines, n, after)}
  <1>1. 0 \in T
    <2> DEFINE table == [k \in 0 .. 0 |-> <<>>]
    <2>1. IsTable(lines, 0, table)
      BY DEF IsTable
    <2> QED
      BY <2>1
  <1>2. ASSUME NEW n \in T PROVE n + 1 \in T
    <2>1. n \in Nat /\ n + 1 \in Nat
      OBVIOUS
    <2>2. PICK before : IsTable(lines, n, before)
      OBVIOUS
    <2> DEFINE line == lines[n + 1]
               last == IF Len(line) = 2 THEN Put(before[n], line[1], line[2]) ELSE before[n]
               table == [k \in 0 .. n + 1 |-> IF k = n + 1 THEN last ELSE before[k]]
    <2>3. \A k \in 0 .. n : table[k] = before[k]
      BY <2>1
    <2>4. table[n + 1] = last
      BY <2>1
    <2> HIDE DEF last
    <2>5. ASSUME NEW k \in 0 .. n + 1
          PROVE  table[k] = IF k = 0 THEN <<>>
                            ELSE IF Len(lines[k]) = 2
                                 THEN Put(table[k - 1], lines[k][1], lines[k][2])
                                 ELSE table[k - 1]
      <3>1. CASE k = n + 1
        <4>1. k # 0 /\ k - 1 = n /\ n \in 0 .. n
          BY <2>1, <3>1
        <4>2. table[k - 1] = before[n]
          BY <2>3, <4>1
        <4> QED
          BY <2>4, <3>1, <4>1, <4>2 DEF last
      <3>2. CASE k = 0
        BY <2>1, <2>2, <2>3, <3>2 DEF IsTable
      <3>3. CASE k # n + 1 /\ k # 0
        <4>1. k \in 0 .. n /\ k - 1 \in 0 .. n
          BY <2>1, <3>3
        <4>2. table[k] = before[k] /\ table[k - 1] = before[k - 1]
          BY <2>3, <4>1
        <4>3. before[k] = IF Len(lines[k]) = 2
                          THEN Put(before[k - 1], lines[k][1], lines[k][2])
                          ELSE before[k - 1]
          BY <2>2, <3>3, <4>1 DEF IsTable
        <4> QED
          BY <3>3, <4>2, <4>3
      <3> QED
        BY <3>1, <3>2, <3>3
    <2>6. IsTable(lines, n + 1, table)
      <3> HIDE DEF table
      <3>1. table = [k \in 0 .. n + 1 |-> table[k]]
        BY DEF table
      <3> QED
        BY <2>5, <3>1 DEF IsTable
    <2> HIDE DEF table
    <2> QED
      BY <2>1, <2>6
  <1> HIDE DEF T
  <1>3. T = Nat
    <2>1. T \in SUBSET Nat
      BY DEF T
    <2> QED
      BY <1>1, <1>2, <2>1, EveryNumber
  <1> QED
    BY <1>3 DEF T

LEMMA TableKeeps ==
    ASSUME NEW lines, NEW N \in Nat, NEW after, IsTable(lines, N, after)
    PROVE  Keeps(lines, N, after[N])
  <1> DEFINE T == {n \in Nat : n <= N => Keeps(lines, n, after[n])}
  <1>1. 0 \in T
    <2>1. after[0] = <<>>
      BY DEF IsTable
    <2>2. DOMAIN after[0] = {}
      BY <2>1
    <2> QED
      BY <2>2 DEF Keeps
  <1>2. ASSUME NEW n \in T PROVE n + 1 \in T
    <2>1. n \in Nat /\ n + 1 \in Nat
      OBVIOUS
    <2> SUFFICES ASSUME n + 1 <= N PROVE Keeps(lines, n + 1, after[n + 1])
      BY <2>1
    <2>2. Keeps(lines, n, after[n])
      BY <2>1
    <2>3. /\ n + 1 \in 0 .. N /\ n + 1 # 0 /\ (n + 1) - 1 = n
          /\ 1 .. n + 1 = (1 .. n) \cup {n + 1}
          /\ \A i \in 1 .. n : n + 1 > i /\ ~(i > n + 1)
          /\ ~(n + 1 > n + 1)
      BY <2>1
    <2>4. after[n + 1] = IF IsRule(lines[n + 1])
                         THEN Put(after[n], lines[n + 1][1], lines[n + 1][2])
                         ELSE after[n]
      BY <2>3 DEF IsTable, IsRule
    <2> DEFINE old == after[n]
               new == after[n + 1]
               p == lines[n + 1][1]
               addr == lines[n + 1][2]
    <2>5. Keeps(lines, n, old)
      BY <2>2
    <2>6. CASE IsRule(lines[n + 1])
      <3>1. new = Put(old, p, addr)
        BY <2>4, <2>6
      <3> HIDE DEF old, new
      <3>2. /\ DOMAIN new = {p} \cup DOMAIN old
            /\ new[p] = addr
            /\ \A prefix \in DOMAIN old : prefix # p => new[prefix] = old[prefix]
        BY <3>1 DEF Put
      <3>3. DOMAIN new = {lines[i][1] : i \in {j \in 1 .. n + 1 : IsRule(lines[j])}}
        BY <2>3, <2>5, <2>6, <3>2 DEF Keeps
      <3>4. ASSUME NEW prefix \in DOMAIN new
            PROVE  \E i \in 1 .. n + 1 :
                       /\ IsRule(lines[i]) /\ lines[i][1] = prefix /\ new[prefix] = lines[i][2]
                       /\ \A j \in 1 .. n + 1 : (j > i /\ IsRule(lines[j])) => lines[j][1] # prefix
        <4>1. CASE prefix = p
          BY <2>3, <2>6, <3>2, <4>1
        <4>2. CASE prefix # p
          <5>1. prefix \in DOMAIN old /\ new[prefix] = old[prefix]
            BY <3>2, <4>2
          <5> QED
            BY <2>3, <2>5, <4>2, <5>1 DEF Keeps
        <4> QED
          BY <4>1, <4>2
      <3>5. Keeps(lines, n + 1, new)
        BY <3>3, <3>4 DEF Keeps
      <3> QED
        BY <3>5 DEF new
    <2>7. CASE ~IsRule(lines[n + 1])
      <3>1. new = old
        BY <2>4, <2>7
      <3> HIDE DEF old, new
      <3>2. Keeps(lines, n + 1, old)
        BY <2>3, <2>5, <2>7 DEF Keeps
      <3> QED
        BY <3>1, <3>2 DEF new
    <2> QED
      BY <2>6, <2>7
  <1> HIDE DEF T
  <1>3. T = Nat
    <2>1. T \in SUBSET Nat
      BY DEF T
    <2> QED
      BY <1>1, <1>2, <2>1, EveryNumber
  <1> QED
    BY <1>3 DEF T

LEMMA ProxiesKeep ==
    ASSUME NEW lines \in Seq(Lines)
    PROVE  Keeps(lines, Len(lines), Proxies(lines))
  <1> DEFINE after == CHOOSE f : IsTable(lines, Len(lines), f)
  <1>1. Len(lines) \in Nat
    OBVIOUS
  <1>2. IsTable(lines, Len(lines), after)
    BY <1>1, TableExists
  <1>3. Proxies(lines) = after[Len(lines)]
    BY DEF Proxies, IsTable
  <1> HIDE DEF after
  <1> QED
    BY <1>1, <1>2, <1>3, TableKeeps

LEMMA ForwardsFollow ==
    ASSUME NEW lines \in Seq(Lines), NEW default, NEW path, NEW used \in Forwards(lines, default, path)
    PROVE  FollowsRules(lines, default, path, used)
  <1> DEFINE proxies == Proxies(lines)
             matches == {prefix \in DOMAIN proxies : IsPrefix(prefix, path)}
             rules == {i \in DOMAIN lines : Len(lines[i]) = 2 /\ IsPrefix(lines[i][1], path)}
             last  == {i \in rules : \A j \in rules : j > i => lines[j][1] # lines[i][1]}
  <1>1. Keeps(lines, Len(lines), proxies) /\ DOMAIN lines = 1 .. Len(lines)
    BY ProxiesKeep
  <1>2. used \in IF matches = {} THEN {default} ELSE {proxies[prefix] : prefix \in matches}
    BY DEF Forwards
  <1> HIDE DEF proxies
  <1>3. CASE rules = {}
    <2>1. matches = {}
      BY <1>1, <1>3 DEF Keeps, IsRule
    <2> QED
      BY <1>2, <1>3, <2>1 DEF FollowsRules
  <1>4. CASE rules # {}
    <2>1. matches # {}
      BY <1>1, <1>4 DEF Keeps, IsRule
    <2>2. PICK prefix \in matches : used = proxies[prefix]
      BY <1>2, <2>1
    <2>3. PICK i \in 1 .. Len(lines) :
              /\ IsRule(lines[i]) /\ lines[i][1] = prefix /\ proxies[prefix] = lines[i][2]
              /\ \A j \in 1 .. Len(lines) : (j > i /\ IsRule(lines[j])) => lines[j][1] # prefix
      BY <1>1, <2>2 DEF Keeps
    <2>4. i \in last
      BY <1>1, <2>2, <2>3 DEF IsRule
    <2> QED
      BY <1>4, <2>2, <2>3, <2>4 DEF FollowsRules
  <1> QED
    BY <1>3, <1>4
----------------------------------------------------------------------------
\* The derived addresses.

Element == AddressChars \cup {"http", "localhost"}

Signs == {"+", "-"}

LEMMA SeqEqual ==
    ASSUME NEW C, NEW s \in Seq(C), NEW t \in Seq(C), Len(s) = Len(t),
           \A i \in 1 .. Len(s) : s[i] = t[i]
    PROVE  s = t
  OBVIOUS

\* What stands before and after the first elements.
LEMMA Prefixed ==
    ASSUME NEW e \in Element, NEW s \in Seq(Element)
    PROVE  /\ <<e>> \o s \in Seq(Element)
           /\ <<e>> \o s # <<>> /\ Head(<<e>> \o s) = e /\ Tail(<<e>> \o s) = s
           /\ Len(<<e>> \o s) = Len(s) + 1 /\ (<<e>> \o s)[1] = e
           /\ \A i \in 1 .. Len(s) : (<<e>> \o s)[i + 1] = s[i]
  OBVIOUS

LEMMA UnsignedFacts ==
    ASSUME NEW s \in Seq(Element)
    PROVE  /\ Unsigned(s) \in Seq(Element)
           /\ \/ s # <<>> /\ Head(s) \in Signs /\ Unsigned(s) = Tail(s)
              \/ (s # <<>> => Head(s) \notin Signs) /\ Unsigned(s) = s
  <1>1. s # <<>> => Tail(s) \in Seq(Element)
    OBVIOUS
  <1> QED
    BY <1>1 DEF Unsigned, Signs

\* A number has the characters of one, and is not empty.
LEMMA NumberFacts ==
    ASSUME NEW s \in Seq(Element), IsNumber(s)
    PROVE  s # <<>> /\ \A i \in DOMAIN s : s[i] \in Signs \cup Digits
  <1>1. CASE s # <<>> /\ Head(s) \in Signs
    <2>1. Len(s) \in Nat /\ DOMAIN s = 1 .. Len(s) /\ s[1] \in Signs
      BY <1>1
    <2>2. DOMAIN Tail(s) = 1 .. Len(s) - 1 /\ \A i \in DOMAIN Tail(s) : Tail(s)[i] = s[i + 1]
      BY <1>1
    <2>3. \A i \in DOMAIN Tail(s) : Tail(s)[i] \in Digits
      BY <1>1 DEF IsNumber, Unsigned, Signs
    <2>4. ASSUME NEW i \in DOMAIN s, i # 1 PROVE s[i] \in Digits
      <3>1. i - 1 \in DOMAIN Tail(s) /\ (i - 1) + 1 = i
        BY <2>1, <2>2, <2>4
      <3> QED
        BY <2>2, <2>3, <3>1
    <2> QED
      BY <1>1, <2>1, <2>4
  <1>2. CASE ~(s # <<>> /\ Head(s) \in Signs)
    BY <1>2 DEF IsNumber, Unsigned, Signs
  <1> QED
    BY <1>1, <1>2

\* The zeros in front are the first so many elements.
LEMMA ZerosFacts ==
    ASSUME NEW s \in Seq(Element)
    PROVE  /\ Cardinality(LeadingZeros(s)) \in 0 .. Len(s)
           /\ IsFiniteSet(LeadingZeros(s))
  <1>1. Len(s) \in Nat /\ DOMAIN s = 1 .. Len(s)
    OBVIOUS
  <1>2. LeadingZeros(s) \subseteq 1 .. Len(s)
    BY <1>1 DEF LeadingZeros
  <1>3. IsFiniteSet(1 .. Len(s)) /\ Cardinality(1 .. Len(s)) = Len(s)
    BY <1>1, FS_Interval
  <1>4. /\ IsFiniteSet(LeadingZeros(s))
        /\ Cardinality(LeadingZeros(s)) <= Len(s)
    BY <1>2, <1>3, FS_Subset
  <1>5. Cardinality(LeadingZeros(s)) \in Nat
    BY <1>4, FS_CardinalityType
  <1> QED
    BY <1>1, <1>4, <1>5

\* What is printed of a number is a sequence of digits behind at most one sign.
LEMMA ValueFacts ==
    ASSUME NEW s \in Seq(Element), \A i \in DOMAIN s : s[i] \in Digits
    PROVE  Value(s) \in Seq(Digits)
  <1>1. Cardinality(LeadingZeros(s)) \in 0 .. Len(s) /\ Len(s) \in Nat
    BY ZerosFacts
  <1>2. PICK zeros \in Nat : zeros = Cardinality(LeadingZeros(s))
    BY <1>1
  <1>3. s \in Seq(Digits)
    OBVIOUS
  <1>4. zeros + 1 \in 1 .. Len(s) + 1 /\ Len(s) \in 0 .. Len(s)
    BY <1>1, <1>2
  <1>5. SubSeq(s, zeros + 1, Len(s)) \in Seq(Digits)
    BY <1>1, <1>3, <1>4
  <1>6. <<"0">> \in Seq(Digits)
    BY DEF Digits
  <1> QED
    BY <1>2, <1>5, <1>6 DEF Value

LEMMA PrintedFacts ==
    ASSUME NEW s \in Seq(Element), IsNumber(s)
    PROVE  /\ Printed(s) \in Seq(Element)
           /\ \A i \in DOMAIN Printed(s) : Printed(s)[i] \in Signs \cup Digits
  <1>1. Unsigned(s) \in Seq(Element) /\ \A i \in DOMAIN Unsigned(s) : Unsigned(s)[i] \in Digits
    BY UnsignedFacts DEF IsNumber
  <1>2. PICK v \in Seq(Digits) : v = Value(Unsigned(s))
    BY <1>1, ValueFacts
  <1>3. Digits \subseteq Element /\ "-" \in Signs /\ Signs \subseteq Element
    BY DEF Digits, Signs, Element, AddressChars
  <1>4. v \in Seq(Signs \cup Digits) /\ <<"-">> \o v \in Seq(Signs \cup Digits)
    BY <1>3
  <1>5. Printed(s) \in Seq(Signs \cup Digits)
    BY <1>2, <1>4 DEF Printed
  <1> QED
    BY <1>3, <1>5

\* A zero in front is not printed.
LEMMA AnotherZero ==
    ASSUME NEW s \in Seq(Element), s # <<>>, Head(s) \in Digits, IsNumber(s)
    PROVE  /\ IsNumber(<<"0">> \o s) /\ Printed(<<"0">> \o s) = Value(s)
           /\ Printed(s) = Value(s)
  <1> DEFINE long == <<"0">> \o s
  <1>1. Head(s) \notin Signs /\ "0" \notin Signs /\ "0" \in Element /\ "0" \in Digits
    BY DEF Digits, Signs, Element, AddressChars
  <1>2. Unsigned(s) = s /\ \A i \in DOMAIN s : s[i] \in Digits
    BY <1>1 DEF Unsigned, IsNumber, Signs
  <1>3. /\ long \in Seq(Element) /\ long # <<>> /\ Head(long) = "0"
        /\ Len(long) = Len(s) + 1 /\ Len(s) \in Nat /\ long[1] = "0"
        /\ \A i \in 1 .. Len(s) : long[i + 1] = s[i]
        /\ DOMAIN long = 1 .. Len(s) + 1 /\ DOMAIN s = 1 .. Len(s)
    BY <1>1, Prefixed
  <1> HIDE DEF long
  <1>4. Unsigned(long) = long
    BY <1>1, <1>3 DEF Unsigned, Signs
  <1>5. \A i \in DOMAIN long : long[i] \in Digits
    <2> SUFFICES ASSUME NEW i \in 1 .. Len(s) + 1 PROVE long[i] \in Digits
      BY <1>3
    <2>1. CASE i = 1
      BY <1>1, <1>3, <2>1
    <2>2. CASE i # 1
      <3>1. i - 1 \in 1 .. Len(s) /\ (i - 1) + 1 = i
        BY <1>3, <2>2
      <3>2. long[i] = s[i - 1]
        BY <1>3, <3>1
      <3> QED
        BY <1>2, <1>3, <3>1, <3>2
    <2> QED
      BY <2>1, <2>2
  <1>6. LeadingZeros(long) = {1} \cup {i + 1 : i \in LeadingZeros(s)}
    <2>1. ASSUME NEW k \in LeadingZeros(long), k # 1
          PROVE  k - 1 \in LeadingZeros(s) /\ (k - 1) + 1 = k
      <3>1. k - 1 \in 1 .. Len(s) /\ k \in Int /\ (k - 1) + 1 = k
        BY <1>3, <2>1 DEF LeadingZeros
      <3>2. ASSUME NEW j \in 1 .. k - 1 PROVE s[j] = "0"
        <4>1. j \in 1 .. Len(s) /\ j + 1 \in 1 .. k
          BY <1>3, <3>1
        <4> QED
          BY <1>3, <2>1, <4>1 DEF LeadingZeros
      <3> QED
        BY <1>3, <3>1, <3>2 DEF LeadingZeros
    <2>2. 1 \in LeadingZeros(long)
      BY <1>3 DEF LeadingZeros
    <2>3. ASSUME NEW i \in LeadingZeros(s) PROVE i + 1 \in LeadingZeros(long)
      <3>1. i \in 1 .. Len(s) /\ i + 1 \in 1 .. Len(s) + 1
        BY <1>3 DEF LeadingZeros
      <3>2. ASSUME NEW j \in 1 .. i + 1 PROVE long[j] = "0"
        <4>1. CASE j = 1
          BY <1>3, <4>1
        <4>2. CASE j # 1
          <5>1. j - 1 \in 1 .. i /\ j - 1 \in 1 .. Len(s) /\ (j - 1) + 1 = j
            BY <3>1, <4>2
          <5>2. long[j] = s[j - 1]
            BY <1>3, <5>1
          <5> QED
            BY <2>3, <5>1, <5>2 DEF LeadingZeros
        <4> QED
          BY <4>1, <4>2
      <3> QED
        BY <1>3, <3>1, <3>2 DEF LeadingZeros
    <2> QED
      BY <2>1, <2>2, <2>3
  <1>7. Cardinality(LeadingZeros(long)) = Cardinality(LeadingZeros(s)) + 1
    <2> DEFINE Z == LeadingZeros(s)
               up == [i \in Z |-> i + 1]
    <2>1. IsFiniteSet(Z) /\ Z \subseteq 1 .. Len(s)
      BY <1>3, ZerosFacts DEF LeadingZeros
    <2> HIDE DEF Z
    <2>2. up \in Bijection(Z, {i + 1 : i \in Z})
      BY <2>1 DEF Bijection, Injection, Surjection, IsInjective
    <2>3. /\ IsFiniteSet({i + 1 : i \in Z})
          /\ Cardinality({i + 1 : i \in Z}) = Cardinality(Z)
      <3> HIDE DEF up
      <3>1. ExistsBijection(Z, {i + 1 : i \in Z})
        BY <2>2 DEF ExistsBijection
      <3> QED
        BY <2>1, <3>1, FS_Bijection
    <2>4. 1 \notin {i + 1 : i \in Z}
      BY <1>3, <2>1
    <2>5. Cardinality({i + 1 : i \in Z} \cup {1}) = Cardinality({i + 1 : i \in Z}) + 1
      BY <2>3, <2>4, FS_AddElement
    <2>6. {1} \cup {i + 1 : i \in Z} = {i + 1 : i \in Z} \cup {1}
      OBVIOUS
    <2> QED
      BY <1>6, <2>3, <2>5, <2>6 DEF Z
  <1>8. PICK z \in 0 .. Len(s) : z = Cardinality(LeadingZeros(s))
    BY ZerosFacts
  <1>9. Value(long) = Value(s)
    <2>1. CASE z = Len(s)
      <3>1. Value(s) = <<"0">>
        BY <1>8, <2>1 DEF Value
      <3>2. Cardinality(LeadingZeros(long)) = Len(long)
        BY <1>3, <1>7, <1>8, <2>1
      <3> QED
        BY <3>1, <3>2 DEF Value
    <2>2. CASE z # Len(s)
      <3>1. /\ z + 1 \in 1 .. Len(s) /\ z + 2 \in 1 .. Len(s) + 1 /\ z \in Nat
            /\ (z + 1) + 1 = z + 2 /\ z + 1 # Len(s) + 1
        BY <1>3, <1>8, <2>2
      <3> DEFINE u == SubSeq(s, z + 1, Len(s))
                 v == SubSeq(long, z + 2, Len(s) + 1)
      <3>2. u \in Seq(Element) /\ Len(u) = Len(s) - z /\ \A i \in 1 .. Len(s) - z : u[i] = s[z + i]
        BY <1>3, <3>1
      <3>3. /\ v \in Seq(Element) /\ Len(v) = Len(s) - z
            /\ \A i \in 1 .. Len(s) - z : v[i] = long[z + i + 1]
        BY <1>3, <3>1
      <3> HIDE DEF u, v
      <3>4. \A i \in 1 .. Len(s) - z : z + i \in 1 .. Len(s)
        BY <1>3, <3>1
      <3>5. \A i \in 1 .. Len(s) - z : v[i] = u[i]
        BY <1>3, <3>2, <3>3, <3>4
      <3>6. u = v
        BY <3>2, <3>3, <3>5, SeqEqual
      <3>7. Value(s) = u /\ Value(long) = v
        BY <1>3, <1>7, <1>8, <2>2, <3>1 DEF Value, u, v
      <3> QED
        BY <3>6, <3>7
    <2> QED
      BY <2>1, <2>2
  <1>10. IsNumber(long)
    BY <1>2, <1>3, <1>4, <1>5, <1>9 DEF IsNumber
  <1>11. Printed(long) = Value(s) /\ Printed(s) = Value(s)
    BY <1>1, <1>2, <1>3, <1>4, <1>9 DEF Printed, Signs
  <1> QED
    BY <1>10, <1>11 DEF long

\* Nothing but digits and signs makes a number.
LEMMA NoNumber ==
    ASSUME NEW e \in Element \ (Signs \cup Digits), NEW s \in Seq(Element)
    PROVE  ~IsNumber(<<e>> \o s)
  <1>1. <<e>> \o s \in Seq(Element) /\ 1 \in DOMAIN (<<e>> \o s) /\ (<<e>> \o s)[1] = e
    BY Prefixed
  <1> QED
    BY <1>1, NumberFacts

Local(s) == <<"localhost", ":">> \o s

LEMMA LocalFacts ==
    ASSUME NEW s \in Seq(Element), \A i \in DOMAIN s : s[i] \in Signs \cup Digits
    PROVE  /\ Local(s) \in Seq(Element) /\ Local(s) # <<>>
           /\ LocalPort(Local(s)) = <<>> /\ ~HasScheme(Local(s))
  <1>1. /\ "localhost" \in Element \ (Signs \cup Digits) /\ ":" \in Element \ (Signs \cup Digits)
        /\ "/" \notin Signs \cup Digits
    BY DEF Element, AddressChars, Signs, Digits
  <1>2. Local(s) = <<"localhost">> \o (<<":">> \o s) /\ <<":">> \o s \in Seq(Element)
    BY <1>1 DEF Local
  <1>3. /\ Local(s) \in Seq(Element) /\ Local(s) # <<>> /\ Tail(Local(s)) = <<":">> \o s
    BY <1>1, <1>2, Prefixed
  <1>4. ~IsNumber(Local(s)) /\ ~IsNumber(Tail(Local(s)))
    BY <1>1, <1>2, <1>3, NoNumber
  <1>5. Len(Local(s)) = Len(s) + 2 /\ \A i \in DOMAIN Local(s) : Local(s)[i] # "/"
    <2>1. /\ Len(Local(s)) = Len(s) + 2 /\ Local(s)[1] = "localhost" /\ Local(s)[2] = ":"
          /\ \A i \in 3 .. Len(s) + 2 : Local(s)[i] = s[i - 2]
      BY DEF Local
    <2>2. \A i \in 1 .. Len(s) : s[i] \in Signs \cup Digits
      OBVIOUS
    <2>3. \A i \in 3 .. Len(s) + 2 : i - 2 \in 1 .. Len(s)
      OBVIOUS
    <2>4. DOMAIN Local(s) = 1 .. Len(s) + 2
      BY <1>3, <2>1
    <2>5. ASSUME NEW i \in 1 .. Len(s) + 2 PROVE Local(s)[i] # "/"
      <3>1. i = 1 \/ i = 2 \/ i \in 3 .. Len(s) + 2
        OBVIOUS
      <3> QED
        BY <1>1, <2>1, <2>2, <2>3, <3>1
    <2> QED
      BY <2>1, <2>4, <2>5
  <1>6. ~HasScheme(Local(s))
    <2> SUFFICES ASSUME NEW i \in DOMAIN Local(s), i + 2 <= Len(Local(s)),
                        SubSeq(Local(s), i, i + 2) = <<":", "/", "/">>
                 PROVE  FALSE
      BY DEF HasScheme
    <2>1. i \in Nat /\ i + 1 \in DOMAIN Local(s) /\ SubSeq(Local(s), i, i + 2)[2] = Local(s)[i + 1]
      BY <1>3
    <2>2. <<":", "/", "/">>[2] = "/"
      OBVIOUS
    <2> QED
      BY <1>5, <2>1, <2>2
  <1> QED
    BY <1>3, <1>4, <1>6 DEF LocalPort

LEMMA SchemeFacts ==
    ASSUME NEW s \in Seq(Element)
    PROVE  /\ Scheme \o s # <<>> /\ LocalPort(Scheme \o s) = <<>> /\ HasScheme(Scheme \o s)
  <1>1. /\ "http" \in Element \ (Signs \cup Digits) /\ ":" \in Element \ (Signs \cup Digits)
        /\ "/" \in Element
    BY DEF Element, AddressChars, Signs, Digits
  <1> DEFINE rest == <<":">> \o (<<"/", "/">> \o s)
  <1>2. Scheme \o s = <<"http">> \o rest /\ rest \in Seq(Element) /\ <<"/", "/">> \o s \in Seq(Element)
    BY <1>1 DEF Scheme
  <1>3. Scheme \o s \in Seq(Element) /\ Scheme \o s # <<>> /\ Tail(Scheme \o s) = rest
    BY <1>1, <1>2, Prefixed
  <1>4. ~IsNumber(Scheme \o s) /\ ~IsNumber(Tail(Scheme \o s))
    BY <1>1, <1>2, <1>3, NoNumber
  <1>5. HasScheme(Scheme \o s)
    <2>1. /\ 2 \in DOMAIN (Scheme \o s) /\ 2 + 2 <= Len(Scheme \o s)
          /\ SubSeq(Scheme \o s, 2, 2 + 2) = <<":", "/", "/">>
      <3> DEFINE full == Scheme \o s
      <3>1. /\ Len(full) = Len(s) + 4 /\ Len(s) \in Nat /\ full \in Seq(Element)
            /\ full[2] = ":" /\ full[3] = "/" /\ full[4] = "/"
        BY <1>1 DEF Scheme
      <3> HIDE DEF full
      <3>2. DOMAIN full = 1 .. Len(s) + 4
        BY <3>1
      <3>3. SubSeq(full, 2, 4) = <<full[2], full[3], full[4]>>
        <4> DEFINE middle == SubSeq(full, 2, 4)
        <4>1. /\ middle \in Seq(Element) /\ Len(middle) = 3
              /\ middle[1] = full[2] /\ middle[2] = full[3] /\ middle[3] = full[4]
          BY <3>1
        <4> HIDE DEF middle
        <4>2. middle = <<middle[1], middle[2], middle[3]>>
          BY <4>1
        <4> QED
          BY <4>1, <4>2 DEF middle
      <3> QED
        BY <3>1, <3>2, <3>3 DEF full
    <2> QED
      BY <2>1 DEF HasScheme
  <1> QED
    BY <1>3, <1>4, <1>5 DEF LocalPort

\* An address names a local port in one of two ways, or is none.
LEMMA LocalPortFacts ==
    ASSUME NEW addr \in Seq(Element), addr # <<>>
    PROVE  \/ LocalPort(addr) = <<>>
           \/ \E s \in Seq(Element) : /\ \A i \in DOMAIN s : s[i] \in Signs \cup Digits
                                      /\ LocalPort(addr) = Local(s)
  <1>1. Tail(addr) \in Seq(Element)
    OBVIOUS
  <1>2. CASE IsNumber(addr)
    BY <1>2, PrintedFacts DEF LocalPort, Local
  <1>3. CASE ~IsNumber(addr) /\ IsNumber(Tail(addr))
    BY <1>1, <1>3, PrintedFacts DEF LocalPort, Local
  <1>4. CASE ~IsNumber(addr) /\ ~IsNumber(Tail(addr))
    BY <1>4 DEF LocalPort
  <1> QED
    BY <1>2, <1>3, <1>4

LEMMA DerivedComplete ==
    ASSUME NEW addr \in Seq(AddressChars)
    PROVE  IsComplete(addr, deriveHTTPForwardAddress(addr), deriveTCPForwardAddress(addr))
  <1> DEFINE http == deriveHTTPForwardAddress(addr)
             tcp  == deriveTCPForwardAddress(addr)
  <1>1. addr \in Seq(Element)
    BY DEF Element
  <1>2. /\ (http # <<>> <=> addr # <<>>) /\ (http # <<>> => HasScheme(http))
        /\ (HasScheme(tcp) => HasScheme(addr))
        /\ deriveHTTPForwardAddress(http) = http /\ deriveTCPForwardAddress(tcp) = tcp
    <2>1. CASE addr = <<>>
      BY <2>1 DEF deriveHTTPForwardAddress, deriveTCPForwardAddress
    <2>2. CASE addr # <<>> /\ LocalPort(addr) # <<>>
      <3>1. PICK s \in Seq(Element) : /\ \A i \in DOMAIN s : s[i] \in Signs \cup Digits
                                      /\ LocalPort(addr) = Local(s)
        BY <1>1, <2>2, LocalPortFacts
      <3>2. http = Scheme \o Local(s) /\ tcp = Local(s)
        BY <2>2, <3>1 DEF deriveHTTPForwardAddress, deriveTCPForwardAddress
      <3> HIDE DEF http, tcp
      <3> QED
        BY <2>2, <3>1, <3>2, LocalFacts, SchemeFacts
           DEF deriveHTTPForwardAddress, deriveTCPForwardAddress
    <2>3. CASE addr # <<>> /\ LocalPort(addr) = <<>>
      <3>1. tcp = addr /\ http = IF HasScheme(addr) THEN addr ELSE Scheme \o addr
        BY <2>3 DEF deriveHTTPForwardAddress, deriveTCPForwardAddress
      <3> HIDE DEF http, tcp
      <3> QED
        BY <1>1, <2>3, <3>1, SchemeFacts
           DEF deriveHTTPForwardAddress, deriveTCPForwardAddress
    <2> QED
      BY <2>1, <2>2, <2>3
  <1>3. ASSUME IsNumber(addr), Head(addr) \in Digits,
               NEW port \in {addr, <<":">> \o addr, <<"0">> \o addr}
        PROVE  /\ deriveTCPForwardAddress(port) = <<"localhost", ":">> \o Value(addr)
               /\ deriveHTTPForwardAddress(port) = Scheme \o deriveTCPForwardAddress(port)
    <2>1. ":" \in Element \ (Signs \cup Digits) /\ "0" \in Element
      BY DEF Element, AddressChars, Signs, Digits
    <2>2. addr # <<>> /\ Printed(addr) = Value(addr)
      BY <1>1, <1>3, NumberFacts, AnotherZero
    <2>3. port # <<>> /\ LocalPort(port) = Local(Value(addr))
      <3>1. CASE port = addr
        BY <1>3, <2>2, <3>1 DEF LocalPort, Local
      <3>2. CASE port = <<":">> \o addr
        <4>1. port # <<>> /\ Tail(port) = addr /\ ~IsNumber(port)
          BY <1>1, <2>1, <3>2, Prefixed, NoNumber
        <4> QED
          BY <1>3, <2>2, <4>1 DEF LocalPort, Local
      <3>3. CASE port = <<"0">> \o addr
        <4>1. port # <<>> /\ IsNumber(port) /\ Printed(port) = Value(addr)
          BY <1>1, <1>3, <2>1, <2>2, <3>3, Prefixed, AnotherZero
        <4> QED
          BY <4>1 DEF LocalPort, Local
      <3> QED
        BY <1>3, <3>1, <3>2, <3>3
    <2>4. Local(Value(addr)) # <<>>
      <3>1. Printed(addr) \in Seq(Element) /\ \A i \in DOMAIN Printed(addr) :
                Printed(addr)[i] \in Signs \cup Digits
        BY <1>1, <1>3, PrintedFacts
      <3> QED
        BY <2>2, <3>1, LocalFacts
    <2> QED
      BY <2>3, <2>4 DEF deriveTCPForwardAddress, deriveHTTPForwardAddress, Local
  <1> QED
    BY <1>2, <1>3 DEF IsComplete
----------------------------------------------------------------------------
\* The port range.

LEMMA PortsKept ==
    ASSUME InputsAssumption, NEW file \in Files, NEW last \in LastPorts,
           Load(file).ok, NEW port \in TunnelPorts(Load(file), last)
    PROVE  RangeIsKept(file, port) /\ (file.requiredDomain => file.emailMapping)
  <1>1. /\ file.start \in Int \cup {Absent} /\ file.end \in Int \cup {Absent}
        /\ last \in Int /\ Panic \notin Int /\ NoPort \notin Int /\ Panic # NoPort
    BY DEF InputsAssumption
  <1> DEFINE start == Given(file.start, 10000)
             end   == Given(file.end, 15000)
  <1>2. /\ start \in Int /\ end \in Int
        /\ file.start # Absent => start = file.start
        /\ file.start = Absent => start = 10000
        /\ file.end # Absent => end = file.end
        /\ file.end = Absent => end = 15000
    BY <1>1 DEF Given
  <1>3. Load(file).start = start /\ Load(file).end = end
    BY DEF Load
  <1>4. /\ port = Panic => ~(start < end)
        /\ port # Panic => start < end
        /\ port \notin {Panic, NoPort} =>
               port \in Int /\ start <= port /\ port < end /\ IsPort(port)
    <2> HIDE DEF start, end
    <2>1. CASE end - start <= 0
      BY <1>1, <1>2, <1>3, <2>1 DEF TunnelPorts, acquireAvailablePort, IsPort
    <2>2. CASE ~(end - start <= 0)
      BY <1>1, <1>2, <1>3, <2>2 DEF TunnelPorts, acquireAvailablePort, IsPort
    <2> QED
      BY <2>1, <2>2
  <1> HIDE DEF start, end
  <1>5. RangeIsKept(file, port)
    BY <1>1, <1>2, <1>4 DEF RangeIsKept
  <1>6. file.requiredDomain => file.emailMapping
    BY DEF Load
  <1> QED
    BY <1>5, <1>6
----------------------------------------------------------------------------
\* Identifiers: what a function computes element by element.

IsScan(step, base, s, f) ==
    f[0] = base /\ \A n \in 1 .. Len(s) : f[n] = step[<<f[n - 1], s[n]>>]

LEMMA ScanExists ==
    ASSUME NEW S, NEW E, NEW base \in S, NEW step \in [S \X E -> S], NEW s \in Seq(E)
    PROVE  \E f \in [0 .. Len(s) -> S] : IsScan(step, base, s, f)
  <1> DEFINE Upto(n, f) == f[0] = base /\ \A k \in 1 .. n : f[k] = step[<<f[k - 1], s[k]>>]
             T == {n \in Nat : n <= Len(s) => \E f \in [0 .. n -> S] : Upto(n, f)}
  <1>1. 0 \in T
    <2> DEFINE table == [k \in 0 .. 0 |-> base]
    <2>1. table \in [0 .. 0 -> S] /\ Upto(0, table)
      OBVIOUS
    <2> QED
      BY <2>1
  <1>2. ASSUME NEW n \in T PROVE n + 1 \in T
    <2>1. n \in Nat /\ n + 1 \in Nat
      OBVIOUS
    <2> SUFFICES ASSUME n + 1 <= Len(s) PROVE \E f \in [0 .. n + 1 -> S] : Upto(n + 1, f)
      BY <2>1
    <2>2. PICK before \in [0 .. n -> S] : Upto(n, before)
      BY <2>1
    <2> DEFINE last == step[<<before[n], s[n + 1]>>]
               table == [k \in 0 .. n + 1 |-> IF k = n + 1 THEN last ELSE before[k]]
    <2>3. n \in 0 .. n /\ s[n + 1] \in E /\ last \in S
      BY <2>1
    <2> HIDE DEF last
    <2>4. table \in [0 .. n + 1 -> S]
      BY <2>1, <2>3
    <2>5. \A k \in 0 .. n : table[k] = before[k]
      BY <2>1
    <2>6. table[n + 1] = last
      BY <2>1
    <2> HIDE DEF table
    <2>7. ASSUME NEW k \in 1 .. n + 1 PROVE table[k] = step[<<table[k - 1], s[k]>>]
      <3>1. CASE k = n + 1
        <4>1. k - 1 = n /\ table[k - 1] = before[n]
          BY <2>1, <2>5, <3>1
        <4> QED
          BY <2>6, <3>1, <4>1 DEF last
      <3>2. CASE k # n + 1
        <4>1. k \in 1 .. n /\ k \in 0 .. n /\ k - 1 \in 0 .. n
          BY <2>1, <3>2
        <4> QED
          BY <2>2, <2>5, <4>1
      <3> QED
        BY <3>1, <3>2
    <2>8. Upto(n + 1, table)
      BY <2>1, <2>2, <2>5, <2>7
    <2> QED
      BY <2>4, <2>8
  <1> HIDE DEF T
  <1>3. T = Nat
    <2>1. T \in SUBSET Nat
      BY DEF T
    <2> QED
      BY <1>1, <1>2, <2>1, EveryNumber
  <1> QED
    BY <1>3 DEF T, IsScan

\* With one more element, a scan takes one more step.
LEMMA ScanAppend ==
    ASSUME NEW E, NEW s \in Seq(E), NEW e \in E, NEW base, NEW step,
           NEW f, IsScan(step, base, s, f), NEW g, IsScan(step, base, Append(s, e), g)
    PROVE  g[Len(Append(s, e))] = step[<<f[Len(s)], e>>]
  <1> DEFINE T == {n \in Nat : n <= Len(s) => g[n] = f[n]}
  <1>1. 0 \in T
    BY DEF IsScan
  <1>2. /\ Len(s) \in Nat /\ Len(Append(s, e)) = Len(s) + 1
        /\ \A n \in 1 .. Len(s) : Append(s, e)[n] = s[n]
        /\ Append(s, e)[Len(s) + 1] = e
    OBVIOUS
  <1>3. ASSUME NEW n \in T PROVE n + 1 \in T
    <2>1. n \in Nat /\ n + 1 \in Nat /\ (n + 1) - 1 = n
      OBVIOUS
    <2> SUFFICES ASSUME n + 1 <= Len(s) PROVE g[n + 1] = f[n + 1]
      BY <2>1
    <2>2. n + 1 \in 1 .. Len(s) /\ n + 1 \in 1 .. Len(s) + 1 /\ n <= Len(s)
      BY <1>2, <2>1
    <2>3. g[n] = f[n]
      BY <2>2
    <2>4. g[n + 1] = step[<<g[n], Append(s, e)[n + 1]>>] /\ f[n + 1] = step[<<f[n], s[n + 1]>>]
      BY <1>2, <2>1, <2>2 DEF IsScan
    <2> QED
      BY <1>2, <2>2, <2>3, <2>4
  <1> HIDE DEF T
  <1>4. T = Nat
    <2>1. T \in SUBSET Nat
      BY DEF T
    <2> QED
      BY <1>1, <1>3, <2>1, EveryNumber
  <1>5. g[Len(s)] = f[Len(s)]
    BY <1>2, <1>4 DEF T
  <1>6. Len(s) + 1 \in 1 .. Len(s) + 1 /\ (Len(s) + 1) - 1 = Len(s)
    BY <1>2
  <1>7. g[Len(s) + 1] = step[<<g[Len(s)], Append(s, e)[Len(s) + 1]>>]
    BY <1>2, <1>6 DEF IsScan
  <1> QED
    BY <1>2, <1>5, <1>7

\* Two scans of one sequence are one.
LEMMA ScanUnique ==
    ASSUME NEW N \in Nat, NEW f, NEW g, f[0] = g[0],
           \A n \in 1 .. N : g[n - 1] = f[n - 1] => g[n] = f[n]
    PROVE  g[N] = f[N]
  <1> DEFINE T == {n \in Nat : n <= N => g[n] = f[n]}
  <1>1. 0 \in T
    OBVIOUS
  <1>2. ASSUME NEW n \in T PROVE n + 1 \in T
    <2>1. n \in Nat /\ n + 1 \in Nat /\ (n + 1) - 1 = n
      OBVIOUS
    <2> SUFFICES ASSUME n + 1 <= N PROVE g[n + 1] = f[n + 1]
      BY <2>1
    <2>2. n + 1 \in 1 .. N /\ g[n] = f[n]
      BY <2>1
    <2> QED
      BY <2>1, <2>2
  <1> HIDE DEF T
  <1>3. T = Nat
    <2>1. T \in SUBSET Nat
      BY DEF T
    <2> QED
      BY <1>1, <1>2, <2>1, EveryNumber
  <1> QED
    BY <1>3 DEF T

\* Induction over sequences, from the front, as a fact about a set of them.
LEMMA EverySequence ==
    ASSUME NEW C, NEW T \in SUBSET Seq(C), <<>> \in T,
           \A s \in T : \A e \in C : Append(s, e) \in T
    PROVE  T = Seq(C)
  <1> DEFINE L == {n \in Nat : \A s \in Seq(C) : Len(s) = n => s \in T}
  <1>1. 0 \in L
    <2>1. \A s \in Seq(C) : Len(s) = 0 => s = <<>>
      OBVIOUS
    <2> QED
      BY <2>1
  <1>2. ASSUME NEW n \in L PROVE n + 1 \in L
    <2>1. n \in Nat /\ n + 1 \in Nat
      OBVIOUS
    <2>2. ASSUME NEW s \in Seq(C), Len(s) = n + 1 PROVE s \in T
      <3> DEFINE front == SubSeq(s, 1, n)
      <3>1. front \in Seq(C) /\ Len(front) = n /\ s[n + 1] \in C
        BY <2>1, <2>2
      <3>2. s = Append(front, s[n + 1])
        <4>1. Len(Append(front, s[n + 1])) = n + 1
          BY <3>1, <2>1
        <4>2. \A i \in 1 .. n + 1 : Append(front, s[n + 1])[i] = s[i]
          <5>1. \A i \in 1 .. n : front[i] = s[i]
            BY <2>1, <2>2
          <5> HIDE DEF front
          <5>2. Append(front, s[n + 1])[n + 1] = s[n + 1]
            BY <2>1, <3>1
          <5>3. \A i \in 1 .. n : Append(front, s[n + 1])[i] = front[i]
            BY <2>1, <3>1
          <5>4. ASSUME NEW i \in 1 .. n + 1 PROVE i \in 1 .. n \/ i = n + 1
            BY <2>1
          <5> QED
            BY <5>1, <5>2, <5>3, <5>4
        <4> HIDE DEF front
        <4>3. Append(front, s[n + 1]) \in Seq(C)
          BY <3>1
        <4> QED
          BY <2>1, <2>2, <4>1, <4>2, <4>3, SeqEqual
      <3> HIDE DEF front
      <3>3. front \in T
        BY <3>1
      <3> QED
        BY <3>1, <3>2, <3>3
    <2> QED
      BY <2>1, <2>2
  <1> HIDE DEF L
  <1>3. L = Nat
    <2>1. L \in SUBSET Nat
      BY DEF L
    <2> QED
      BY <1>1, <1>2, <2>1, EveryNumber
  <1>4. \A s \in Seq(C) : s \in T
    <2>1. ASSUME NEW s \in Seq(C) PROVE s \in T
      <3>1. Len(s) \in Nat
        OBVIOUS
      <3>2. Len(s) \in L
        BY <1>3, <3>1
      <3> QED
        BY <3>2 DEF L
    <2> QED
      BY <2>1
  <1> QED
    BY <1>4
----------------------------------------------------------------------------
\* Collapse and Letters, one character more.

Word == Seq(Chars)

LEMMA ExtendType ==
    ASSUME NEW C, "-" \in C, NEW w \in Seq(C), NEW char \in C
    PROVE  Extend(w, char) \in Seq(C)
  <1>1. CASE w # <<>>
    <2>1. [w EXCEPT ![Len(w)] = "-"] \in Seq(C)
      BY <1>1
    <2> QED
      BY <2>1 DEF Extend
  <1>2. CASE w = <<>>
    BY <1>2 DEF Extend
  <1> QED
    BY <1>1, <1>2

CollapseStep == [p \in Word \X Chars |-> Extend(p[1], p[2])]
LetterStep   == [p \in Word \X Chars |-> KeepLetter(p[1], p[2])]

LEMMA StepTypes ==
    /\ CollapseStep \in [Word \X Chars -> Word]
    /\ LetterStep \in [Word \X Chars -> Word]
    /\ \A w \in Word, char \in Chars : /\ CollapseStep[<<w, char>>] = Extend(w, char)
                                       /\ LetterStep[<<w, char>>] = KeepLetter(w, char)
  <1>1. \A w \in Word, char \in Chars : Extend(w, char) \in Word
    BY ExtendType DEF Word, Chars
  <1>2. \A w \in Word, char \in Chars : KeepLetter(w, char) \in Word
    BY DEF Word, KeepLetter
  <1> QED
    BY <1>1, <1>2 DEF CollapseStep, LetterStep

LEMMA CollapseScan ==
    ASSUME NEW w \in Word
    PROVE  \E f \in [0 .. Len(w) -> Word] :
               IsScan(CollapseStep, <<>>, w, f) /\ Collapse(w) = f[Len(w)]
  <1>1. Len(w) \in Nat /\ <<>> \in Word /\ w \in Seq(Chars) /\ \A n \in 1 .. Len(w) : w[n] \in Chars
    BY DEF Word
  <1>2. PICK f \in [0 .. Len(w) -> Word] : IsScan(CollapseStep, <<>>, w, f)
    BY <1>1, StepTypes, ScanExists
  <1> DEFINE P(g) == g = [n \in 0 .. Len(w) |-> IF n = 0 THEN <<>> ELSE Extend(g[n - 1], w[n])]
             after == CHOOSE g : P(g)
  <1>3. \A n \in 1 .. Len(w) : n - 1 \in 0 .. Len(w) /\ n \in 0 .. Len(w) /\ n # 0
    BY <1>1
  <1>4. f[0] = <<>> /\ \A n \in 1 .. Len(w) : f[n] = Extend(f[n - 1], w[n])
    BY <1>1, <1>2, <1>3, StepTypes DEF IsScan
  <1>5. P(f)
    BY <1>1, <1>4
  <1>6. P(after)
    BY <1>5
  <1>7. Collapse(w) = after[Len(w)]
    BY DEF Collapse
  <1> HIDE DEF after
  <1>8. after[0] = <<>> /\ \A n \in 1 .. Len(w) : after[n] = Extend(after[n - 1], w[n])
    BY <1>1, <1>3, <1>6
  <1>9. after[Len(w)] = f[Len(w)]
    BY <1>1, <1>4, <1>8, ScanUnique
  <1> QED
    BY <1>2, <1>7, <1>9

LEMMA LettersScan ==
    ASSUME NEW w \in Word
    PROVE  \E f \in [0 .. Len(w) -> Word] :
               IsScan(LetterStep, <<>>, w, f) /\ Letters(w) = f[Len(w)]
  <1>1. Len(w) \in Nat /\ <<>> \in Word /\ w \in Seq(Chars) /\ \A n \in 1 .. Len(w) : w[n] \in Chars
    BY DEF Word
  <1>2. PICK f \in [0 .. Len(w) -> Word] : IsScan(LetterStep, <<>>, w, f)
    BY <1>1, StepTypes, ScanExists
  <1> DEFINE P(g) ==
                 g = [n \in 0 .. Len(w) |-> IF n = 0 THEN <<>> ELSE KeepLetter(g[n - 1], w[n])]
             after == CHOOSE g : P(g)
  <1>3. \A n \in 1 .. Len(w) : n - 1 \in 0 .. Len(w) /\ n \in 0 .. Len(w) /\ n # 0
    BY <1>1
  <1>4. f[0] = <<>> /\ \A n \in 1 .. Len(w) : f[n] = KeepLetter(f[n - 1], w[n])
    BY <1>1, <1>2, <1>3, StepTypes DEF IsScan
  <1>5. P(f)
    BY <1>1, <1>4
  <1>6. P(after)
    BY <1>5
  <1>7. Letters(w) = after[Len(w)]
    BY DEF Letters
  <1> HIDE DEF after
  <1>8. after[0] = <<>> /\ \A n \in 1 .. Len(w) : after[n] = KeepLetter(after[n - 1], w[n])
    BY <1>1, <1>3, <1>6
  <1>9. after[Len(w)] = f[Len(w)]
    BY <1>1, <1>4, <1>8, ScanUnique
  <1> QED
    BY <1>2, <1>7, <1>9

LEMMA CollapseOf ==
    /\ Collapse(<<>>) = <<>>
    /\ \A w \in Word : Collapse(w) \in Word
    /\ \A w \in Word, char \in Chars : Collapse(Append(w, char)) = Extend(Collapse(w), char)
  <1>1. Collapse(<<>>) = <<>>
    <2>1. <<>> \in Word /\ Len(<<>>) = 0
      BY DEF Word
    <2> QED
      BY <2>1, CollapseScan DEF IsScan
  <1>2. ASSUME NEW w \in Word PROVE Collapse(w) \in Word
    <2>1. Len(w) \in 0 .. Len(w)
      BY DEF Word
    <2> QED
      BY <2>1, CollapseScan
  <1>3. ASSUME NEW w \in Word, NEW char \in Chars
        PROVE  Collapse(Append(w, char)) = Extend(Collapse(w), char)
    <2>1. w \in Seq(Chars) /\ Append(w, char) \in Word
      BY DEF Word
    <2>2. PICK f : IsScan(CollapseStep, <<>>, w, f) /\ Collapse(w) = f[Len(w)]
      BY CollapseScan
    <2>3. PICK g : /\ IsScan(CollapseStep, <<>>, Append(w, char), g)
                   /\ Collapse(Append(w, char)) = g[Len(Append(w, char))]
      BY <2>1, CollapseScan
    <2>4. g[Len(Append(w, char))] = CollapseStep[<<f[Len(w)], char>>]
      BY <2>1, <2>2, <2>3, ScanAppend
    <2> QED
      BY <1>2, <2>2, <2>3, <2>4, StepTypes
  <1> QED
    BY <1>1, <1>2, <1>3

LEMMA LettersOf ==
    /\ Letters(<<>>) = <<>>
    /\ \A w \in Word : Letters(w) \in Word
    /\ \A w \in Word, char \in Chars : Letters(Append(w, char)) = KeepLetter(Letters(w), char)
  <1>1. Letters(<<>>) = <<>>
    <2>1. <<>> \in Word /\ Len(<<>>) = 0
      BY DEF Word
    <2> QED
      BY <2>1, LettersScan DEF IsScan
  <1>2. ASSUME NEW w \in Word PROVE Letters(w) \in Word
    <2>1. Len(w) \in 0 .. Len(w)
      BY DEF Word
    <2> QED
      BY <2>1, LettersScan
  <1>3. ASSUME NEW w \in Word, NEW char \in Chars
        PROVE  Letters(Append(w, char)) = KeepLetter(Letters(w), char)
    <2>1. w \in Seq(Chars) /\ Append(w, char) \in Word
      BY DEF Word
    <2>2. PICK f : IsScan(LetterStep, <<>>, w, f) /\ Letters(w) = f[Len(w)]
      BY LettersScan
    <2>3. PICK g : /\ IsScan(LetterStep, <<>>, Append(w, char), g)
                   /\ Letters(Append(w, char)) = g[Len(Append(w, char))]
      BY <2>1, LettersScan
    <2>4. g[Len(Append(w, char))] = LetterStep[<<f[Len(w)], char>>]
      BY <2>1, <2>2, <2>3, ScanAppend
    <2> QED
      BY <1>2, <2>2, <2>3, <2>4, StepTypes
  <1> QED
    BY <1>1, <1>2, <1>3
----------------------------------------------------------------------------
\* What each step of NormalizeIdentifier does to the letters and the separators.

Plain == {"a", "A", "-", "."}

Spaced(w) == \A i \in 2 .. Len(w) : IsSeparator(w[i]) => ~IsSeparator(w[i - 1])

LEMMA PlainIsWord == ASSUME NEW w \in Seq(Plain) PROVE w \in Word
  BY DEF Word, Plain, Chars

LEMMA LastOf ==
    ASSUME NEW C, NEW w \in Seq(C), w # <<>>
    PROVE  /\ SubSeq(w, 1, Len(w) - 1) \in Seq(C)
           /\ w[Len(w)] \in C
           /\ w = Append(SubSeq(w, 1, Len(w) - 1), w[Len(w)])
  <1> DEFINE front == SubSeq(w, 1, Len(w) - 1)
             whole == Append(front, w[Len(w)])
  <1>1. Len(w) \in Nat /\ Len(w) > 0 /\ w[Len(w)] \in C
    <2>1. Len(w) = 0 => w = <<>>
      OBVIOUS
    <2> QED
      BY <2>1
  <1>2. front \in Seq(C) /\ Len(front) = Len(w) - 1
    <2>1. PICK n \in Nat : Len(w) = n + 1
      <3>1. Len(w) - 1 \in Nat /\ Len(w) = (Len(w) - 1) + 1
        BY <1>1
      <3> QED
        BY <3>1
    <2>2. SubSeq(w, 1, n) \in Seq(C) /\ Len(SubSeq(w, 1, n)) = n
      BY <2>1
    <2>3. Len(w) - 1 = n
      BY <2>1
    <2> QED
      BY <2>2, <2>3
  <1>3. \A i \in 1 .. Len(w) - 1 : front[i] = w[i]
    BY <1>1
  <1> HIDE DEF front
  <1>4. whole \in Seq(C) /\ Len(whole) = Len(w) /\ whole[Len(w)] = w[Len(w)]
    BY <1>1, <1>2
  <1>5. \A i \in 1 .. Len(w) - 1 : whole[i] = front[i]
    BY <1>1, <1>2
  <1>6. ASSUME NEW i \in 1 .. Len(w) PROVE i \in 1 .. Len(w) - 1 \/ i = Len(w)
    BY <1>1
  <1> HIDE DEF whole
  <1>7. \A i \in 1 .. Len(w) : whole[i] = w[i]
    BY <1>3, <1>4, <1>5, <1>6
  <1>8. whole = w
    BY <1>4, <1>7, SeqEqual
  <1> QED
    BY <1>1, <1>2, <1>8 DEF front, whole

LEMMA ExtendLetters ==
    ASSUME NEW w \in Word, NEW char \in Chars
    PROVE  Letters(Extend(w, char)) = KeepLetter(Letters(w), char)
  <1>1. CASE IsSeparator(char) /\ w # <<>> /\ IsSeparator(w[Len(w)])
    <2> DEFINE front == SubSeq(w, 1, Len(w) - 1)
    <2>1. w \in Seq(Chars) /\ Len(w) \in Nat /\ Len(w) > 0
      BY <1>1 DEF Word
    <2>2. front \in Word /\ w[Len(w)] \in Chars /\ w = Append(front, w[Len(w)])
      BY <1>1, <2>1, LastOf DEF Word
    <2>3. Letters(w) = Letters(front)
      BY <1>1, <2>2, LettersOf DEF KeepLetter, IsLetter, IsSeparator
    <2> DEFINE v == [w EXCEPT ![Len(w)] = "-"]
    <2>4. v \in Word /\ v \in Seq(Chars) /\ Len(v) = Len(w) /\ v[Len(v)] = "-" /\ v # <<>>
      BY <2>1 DEF Word, Chars
    <2>5. SubSeq(v, 1, Len(v) - 1) = front
      <3>1. \A i \in 1 .. Len(w) - 1 : v[i] = w[i]
        BY <2>1
      <3> HIDE DEF v
      <3>2. /\ SubSeq(v, 1, Len(v) - 1) \in Seq(Chars) /\ front \in Seq(Chars)
            /\ Len(SubSeq(v, 1, Len(v) - 1)) = Len(w) - 1 /\ Len(front) = Len(w) - 1
        BY <2>1, <2>4
      <3>3. \A i \in 1 .. Len(w) - 1 : SubSeq(v, 1, Len(v) - 1)[i] = v[i] /\ front[i] = w[i]
        BY <2>1, <2>4
      <3> HIDE DEF front
      <3> QED
        BY <3>1, <3>2, <3>3, SeqEqual
    <2>6. Letters(v) = Letters(front)
      <3> HIDE DEF v, front
      <3>1. v = Append(front, "-")
        BY <2>4, <2>5, LastOf
      <3> QED
        BY <2>2, <3>1, LettersOf DEF KeepLetter, IsLetter, Chars
    <2>7. Extend(w, char) = v
      BY <1>1 DEF Extend
    <2>8. KeepLetter(Letters(w), char) = Letters(w)
      BY <1>1 DEF KeepLetter, IsLetter, IsSeparator
    <2> QED
      BY <2>3, <2>6, <2>7, <2>8
  <1>2. CASE ~(IsSeparator(char) /\ w # <<>> /\ IsSeparator(w[Len(w)]))
    <2>1. Extend(w, char) = Append(w, char)
      BY <1>2 DEF Extend
    <2> QED
      BY <2>1, LettersOf
  <1> QED
    BY <1>1, <1>2

LEMMA CollapseLetters == \A w \in Word : Letters(Collapse(w)) = Letters(w)
  <1> DEFINE T == {w \in Word : Letters(Collapse(w)) = Letters(w)}
  <1>1. <<>> \in T
    BY CollapseOf DEF Word
  <1>2. ASSUME NEW w \in T, NEW char \in Chars PROVE Append(w, char) \in T
    <2>1. w \in Word /\ Append(w, char) \in Word /\ Collapse(w) \in Word
      BY CollapseOf DEF Word
    <2> QED
      BY <2>1, CollapseOf, LettersOf, ExtendLetters
  <1>3. T \in SUBSET Seq(Chars)
    BY DEF Word
  <1> HIDE DEF T
  <1>4. T = Word
    BY <1>1, <1>2, <1>3, EverySequence DEF Word
  <1> QED
    BY <1>4 DEF T

LEMMA CollapsePlain == \A w \in Seq(Plain) : Collapse(w) \in Seq(Plain)
  <1>0. <<>> \in Seq(Plain)
    OBVIOUS
  <1> DEFINE T == {w \in Seq(Plain) : Collapse(w) \in Seq(Plain)}
  <1>1. <<>> \in T
    BY <1>0, CollapseOf
  <1>2. ASSUME NEW w \in T, NEW char \in Plain PROVE Append(w, char) \in T
    <2>1. w \in Word /\ char \in Chars /\ Append(w, char) \in Seq(Plain)
      BY PlainIsWord DEF Plain, Chars
    <2>2. Collapse(Append(w, char)) = Extend(Collapse(w), char)
      BY <2>1, CollapseOf
    <2>3. Extend(Collapse(w), char) \in Seq(Plain)
      BY ExtendType DEF Plain
    <2> QED
      BY <2>1, <2>2, <2>3
  <1>3. T \in SUBSET Seq(Plain)
    OBVIOUS
  <1> HIDE DEF T
  <1>4. T = Seq(Plain)
    BY <1>1, <1>2, <1>3, EverySequence
  <1> QED
    BY <1>4 DEF T

LEMMA ExtendSpaced ==
    ASSUME NEW w \in Word, Spaced(w), NEW char \in Chars
    PROVE  Spaced(Extend(w, char))
  <1>0. w \in Seq(Chars) /\ Len(w) \in Nat
    BY DEF Word
  <1>1. CASE IsSeparator(char) /\ w # <<>> /\ IsSeparator(w[Len(w)])
    <2> DEFINE v == [w EXCEPT ![Len(w)] = "-"]
    <2>1. Len(v) = Len(w) /\ \A i \in 1 .. Len(w) : v[i] = (IF i = Len(w) THEN "-" ELSE w[i])
      BY <1>0
    <2>2. Extend(w, char) = v
      BY <1>1 DEF Extend
    <2> HIDE DEF v
    <2>3. ASSUME NEW i \in 2 .. Len(v), IsSeparator(v[i]) PROVE ~IsSeparator(v[i - 1])
      <3>1. i \in 1 .. Len(w) /\ i - 1 \in 1 .. Len(w) /\ i - 1 # Len(w) /\ i \in 2 .. Len(w)
        BY <1>0, <2>1
      <3>2. v[i - 1] = w[i - 1]
        BY <2>1, <3>1
      <3>3. IsSeparator(w[i])
        BY <1>1, <2>1, <2>3, <3>1
      <3> QED
        BY <3>1, <3>2, <3>3 DEF Spaced
    <2> QED
      BY <2>2, <2>3 DEF Spaced
  <1>2. CASE ~(IsSeparator(char) /\ w # <<>> /\ IsSeparator(w[Len(w)]))
    <2> DEFINE v == Append(w, char)
    <2>1. Len(v) = Len(w) + 1 /\ v[Len(w) + 1] = char /\ \A i \in 1 .. Len(w) : v[i] = w[i]
      BY <1>0
    <2>2. Extend(w, char) = v
      BY <1>2 DEF Extend
    <2> HIDE DEF v
    <2>3. ASSUME NEW i \in 2 .. Len(v), IsSeparator(v[i]) PROVE ~IsSeparator(v[i - 1])
      <3>1. i - 1 \in 1 .. Len(w) /\ v[i - 1] = w[i - 1]
        BY <1>0, <2>1
      <3>2. CASE i = Len(w) + 1
        <4>1. i - 1 = Len(w) /\ v[i] = char /\ w # <<>>
          BY <1>0, <2>1, <3>1, <3>2
        <4> QED
          BY <1>2, <2>3, <3>1, <4>1
      <3>3. CASE i # Len(w) + 1
        <4>1. i \in 2 .. Len(w) /\ i \in 1 .. Len(w)
          BY <1>0, <2>1, <3>3
        <4> QED
          BY <2>1, <2>3, <3>1, <4>1 DEF Spaced
      <3> QED
        BY <3>2, <3>3
    <2> QED
      BY <2>2, <2>3 DEF Spaced
  <1> QED
    BY <1>1, <1>2

LEMMA CollapseSpaced == \A w \in Word : Spaced(Collapse(w))
  <1> DEFINE T == {w \in Word : Spaced(Collapse(w))}
  <1>1. <<>> \in T
    <2>1. Spaced(<<>>)
      BY DEF Spaced
    <2> QED
      BY <2>1, CollapseOf DEF Word
  <1>2. ASSUME NEW w \in T, NEW char \in Chars PROVE Append(w, char) \in T
    <2>1. w \in Word /\ Append(w, char) \in Word /\ Collapse(w) \in Word
      BY CollapseOf DEF Word
    <2> QED
      BY <2>1, CollapseOf, ExtendSpaced
  <1>3. T \in SUBSET Seq(Chars)
    BY DEF Word
  <1> HIDE DEF T
  <1>4. T = Word
    BY <1>1, <1>2, <1>3, EverySequence DEF Word
  <1> QED
    BY <1>4 DEF T

\* What is collapsed already stays as it is.
LEMMA CollapseAgain == \A w \in Word : Spaced(w) => Collapse(w) = w
  <1> DEFINE T == {w \in Word : Spaced(w) => Collapse(w) = w}
  <1>1. <<>> \in T
    BY CollapseOf DEF Word
  <1>2. ASSUME NEW w \in T, NEW char \in Chars PROVE Append(w, char) \in T
    <2>1. w \in Word /\ w \in Seq(Chars) /\ Append(w, char) \in Word /\ Len(w) \in Nat
      BY DEF Word
    <2> SUFFICES ASSUME Spaced(Append(w, char)) PROVE Collapse(Append(w, char)) = Append(w, char)
      BY <2>1
    <2> DEFINE v == Append(w, char)
    <2>2. Len(v) = Len(w) + 1 /\ v[Len(w) + 1] = char /\ \A i \in 1 .. Len(w) : v[i] = w[i]
      BY <2>1
    <2> HIDE DEF v
    <2>3. Spaced(v)
      BY DEF v
    <2>4. Spaced(w)
      <3>1. ASSUME NEW i \in 2 .. Len(w), IsSeparator(w[i]) PROVE ~IsSeparator(w[i - 1])
        <4>1. i \in 2 .. Len(v) /\ v[i] = w[i] /\ v[i - 1] = w[i - 1]
          BY <2>1, <2>2
        <4> QED
          BY <2>3, <3>1, <4>1 DEF Spaced
      <3> QED
        BY <3>1 DEF Spaced
    <2>5. IsSeparator(char) /\ w # <<>> => ~IsSeparator(w[Len(w)])
      <3> SUFFICES ASSUME IsSeparator(char), w # <<>> PROVE ~IsSeparator(w[Len(w)])
        OBVIOUS
      <3>1. Len(w) > 0
        BY <2>1
      <3>2. Len(v) \in 2 .. Len(v) /\ v[Len(v)] = char /\ v[Len(v) - 1] = w[Len(w)]
        BY <2>1, <2>2, <3>1
      <3> QED
        BY <2>3, <3>2 DEF Spaced
    <2>6. Collapse(w) = w
      BY <2>4
    <2> QED
      BY <2>1, <2>5, <2>6, CollapseOf DEF Extend
  <1>3. T \in SUBSET Seq(Chars)
    BY DEF Word
  <1> HIDE DEF T
  <1>4. T = Word
    BY <1>1, <1>2, <1>3, EverySequence DEF Word
  <1> QED
    BY <1>4 DEF T

LEMMA LocalPartType ==
    ASSUME NEW id \in Word
    PROVE  /\ LocalPart(id) \in Word
           /\ (\A i \in DOMAIN id : id[i] # "@") => LocalPart(id) = id
  <1> DEFINE ats == {i \in DOMAIN id : id[i] = "@"}
  <1>1. Cardinality({}) = 0
    BY FS_EmptySet
  <1>2. id \in Seq(Chars) /\ DOMAIN id = 1 .. Len(id) /\ Len(id) \in Nat
    BY DEF Word
  <1>3. CASE Cardinality(ats) = 1
    <2> DEFINE at == CHOOSE i \in ats : TRUE
    <2>1. ats # {}
      BY <1>1, <1>3
    <2>2. at \in 1 .. Len(id)
      BY <1>2, <2>1
    <2>3. LocalPart(id) = SubSeq(id, 1, at - 1)
      BY <1>3 DEF LocalPart
    <2> HIDE DEF at
    <2>4. PICK n \in Nat : at = n + 1
      <3>1. at - 1 \in Nat /\ at = (at - 1) + 1
        BY <1>2, <2>2
      <3> QED
        BY <3>1
    <2>5. SubSeq(id, 1, n) \in Seq(Chars)
      BY <1>2, <2>2, <2>4
    <2>6. at - 1 = n
      BY <2>4
    <2> QED
      BY <2>1, <2>3, <2>5, <2>6 DEF Word
  <1>4. CASE Cardinality(ats) # 1
    BY <1>4 DEF LocalPart
  <1> QED
    BY <1>3, <1>4

LEMMA ReplaceType ==
    ASSUME NEW w \in Word
    PROVE  /\ ReplaceDisallowed(w) \in Seq(Plain)
           /\ w \in Seq(Plain) => ReplaceDisallowed(w) = w
  <1> DEFINE v == ReplaceDisallowed(w)
  <1>1. w \in Seq(Chars) /\ Len(w) \in Nat /\ DOMAIN w = 1 .. Len(w)
    BY DEF Word
  <1>2. \A i \in 1 .. Len(w) : w[i] \in Chars
    BY <1>1
  <1>3. v = [i \in 1 .. Len(w) |-> IF w[i] \in {"@", "+"} THEN "-" ELSE w[i]]
    BY <1>1 DEF ReplaceDisallowed
  <1>4. \A i \in 1 .. Len(w) : (IF w[i] \in {"@", "+"} THEN "-" ELSE w[i]) \in Plain
    BY <1>2 DEF Chars, Plain
  <1>5. v \in [1 .. Len(w) -> Plain]
    BY <1>3, <1>4
  <1> HIDE DEF v
  <1>6. v \in Seq(Plain) /\ Len(v) = Len(w)
    BY <1>1, <1>5
  <1>7. ASSUME w \in Seq(Plain) PROVE v = w
    <2>1. \A i \in 1 .. Len(w) : w[i] \in Plain
      BY <1>7
    <2>2. \A i \in 1 .. Len(w) : v[i] = w[i]
      BY <1>3, <2>1 DEF Plain
    <2> QED
      BY <1>6, <1>7, <2>2, SeqEqual
  <1> QED
    BY <1>6, <1>7 DEF v

LEMMA ReplaceLetters == \A w \in Word : Letters(ReplaceDisallowed(w)) = Letters(w)
  <1> DEFINE T == {w \in Word : Letters(ReplaceDisallowed(w)) = Letters(w)}
  <1>1. <<>> \in T
    <2>1. <<>> \in Word /\ <<>> \in Seq(Plain)
      BY DEF Word
    <2> QED
      BY <2>1, ReplaceType
  <1>2. ASSUME NEW w \in T, NEW char \in Chars PROVE Append(w, char) \in T
    <2> DEFINE new == IF char \in {"@", "+"} THEN "-" ELSE char
               v == ReplaceDisallowed(Append(w, char))
               u == ReplaceDisallowed(w)
    <2>1. w \in Word /\ w \in Seq(Chars) /\ Append(w, char) \in Word /\ Len(w) \in Nat
      BY DEF Word
    <2>2. new \in Chars /\ (new # char => ~IsLetter(new) /\ ~IsLetter(char))
      BY DEF Chars, IsLetter
    <2>3. /\ v = [i \in DOMAIN Append(w, char) |->
                    IF Append(w, char)[i] \in {"@", "+"} THEN "-" ELSE Append(w, char)[i]]
          /\ u = [i \in DOMAIN w |-> IF w[i] \in {"@", "+"} THEN "-" ELSE w[i]]
      BY DEF ReplaceDisallowed
    <2>4. /\ DOMAIN w = 1 .. Len(w) /\ DOMAIN Append(w, char) = 1 .. Len(w) + 1
          /\ \A i \in 1 .. Len(w) : Append(w, char)[i] = w[i]
          /\ Append(w, char)[Len(w) + 1] = char
      BY <2>1
    <2>5. v \in Seq(Plain) /\ u \in Seq(Plain)
      BY <2>1, ReplaceType
    <2>6. v \in Word /\ u \in Word /\ Append(u, new) \in Word
      BY <2>2, <2>5, PlainIsWord DEF Word
    <2> HIDE DEF new, v, u
    <2>7. Len(v) = Len(w) + 1 /\ Len(u) = Len(w)
      BY <2>1, <2>3, <2>4, <2>5
    <2>8. v[Len(w) + 1] = new /\ \A i \in 1 .. Len(w) : v[i] = u[i]
      BY <2>1, <2>3, <2>4 DEF new
    <2>9. /\ Len(Append(u, new)) = Len(w) + 1 /\ Append(u, new)[Len(w) + 1] = new
          /\ \A i \in 1 .. Len(w) : Append(u, new)[i] = u[i]
      BY <2>1, <2>2, <2>5, <2>7
    <2>10. ASSUME NEW i \in 1 .. Len(w) + 1 PROVE i \in 1 .. Len(w) \/ i = Len(w) + 1
      BY <2>1
    <2>11. \A i \in 1 .. Len(v) : v[i] = Append(u, new)[i]
      BY <2>7, <2>8, <2>9, <2>10
    <2>12. v = Append(u, new)
      BY <2>6, <2>7, <2>9, <2>11, SeqEqual DEF Word
    <2>13. Letters(u) = Letters(w)
      BY DEF u
    <2>14. Letters(v) = KeepLetter(Letters(u), new)
      BY <2>2, <2>6, <2>12, LettersOf
    <2>15. Letters(Append(w, char)) = KeepLetter(Letters(w), char)
      BY <2>1, LettersOf
    <2>16. Letters(v) = Letters(Append(w, char))
      BY <2>2, <2>13, <2>14, <2>15 DEF KeepLetter
    <2> QED
      BY <2>1, <2>16 DEF v
  <1>3. T \in SUBSET Seq(Chars)
    BY DEF Word
  <1> HIDE DEF T
  <1>4. T = Word
    BY <1>1, <1>2, <1>3, EverySequence DEF Word
  <1> QED
    BY <1>4 DEF T

LEMMA LowerType ==
    ASSUME NEW w \in Word
    PROVE  /\ ToLower(w) \in Word /\ Len(ToLower(w)) = Len(w)
           /\ \A i \in 1 .. Len(w) : ToLower(w)[i] = IF w[i] = "A" THEN "a" ELSE w[i]
  <1> DEFINE v == ToLower(w)
  <1>1. w \in Seq(Chars) /\ Len(w) \in Nat /\ DOMAIN w = 1 .. Len(w)
    BY DEF Word
  <1>2. v = [i \in 1 .. Len(w) |-> IF w[i] = "A" THEN "a" ELSE w[i]]
    BY <1>1 DEF ToLower
  <1>3. \A i \in 1 .. Len(w) : (IF w[i] = "A" THEN "a" ELSE w[i]) \in Chars
    BY <1>1 DEF Chars
  <1> HIDE DEF v
  <1>4. v \in [1 .. Len(w) -> Chars]
    BY <1>2, <1>3
  <1>5. v \in Word /\ Len(v) = Len(w)
    BY <1>1, <1>4 DEF Word
  <1> QED
    BY <1>2, <1>5 DEF v

LEMMA LowerAppend ==
    ASSUME NEW w \in Word, NEW char \in Chars
    PROVE  ToLower(Append(w, char)) = Append(ToLower(w), IF char = "A" THEN "a" ELSE char)
  <1> DEFINE new == IF char = "A" THEN "a" ELSE char
             v == ToLower(Append(w, char))
             u == ToLower(w)
  <1>1. w \in Seq(Chars) /\ Append(w, char) \in Word /\ Len(w) \in Nat /\ new \in Chars
    BY DEF Word, Chars
  <1>2. /\ Len(Append(w, char)) = Len(w) + 1
        /\ \A i \in 1 .. Len(w) : Append(w, char)[i] = w[i]
        /\ Append(w, char)[Len(w) + 1] = char
    BY <1>1
  <1>3. /\ v \in Word /\ Len(v) = Len(w) + 1
        /\ \A i \in 1 .. Len(w) + 1 :
               v[i] = IF Append(w, char)[i] = "A" THEN "a" ELSE Append(w, char)[i]
    BY <1>1, <1>2, LowerType
  <1>4. /\ u \in Word /\ Len(u) = Len(w)
        /\ \A i \in 1 .. Len(w) : u[i] = IF w[i] = "A" THEN "a" ELSE w[i]
    BY LowerType
  <1> HIDE DEF v, u
  <1>5. v[Len(w) + 1] = new /\ \A i \in 1 .. Len(w) : v[i] = u[i]
    BY <1>1, <1>2, <1>3, <1>4
  <1> HIDE DEF new
  <1>6. /\ Append(u, new) \in Word /\ Len(Append(u, new)) = Len(w) + 1
        /\ Append(u, new)[Len(w) + 1] = new
        /\ \A i \in 1 .. Len(w) : Append(u, new)[i] = u[i]
    BY <1>1, <1>4 DEF Word
  <1>7. ASSUME NEW i \in 1 .. Len(w) + 1 PROVE i \in 1 .. Len(w) \/ i = Len(w) + 1
    BY <1>1
  <1>8. \A i \in 1 .. Len(v) : v[i] = Append(u, new)[i]
    BY <1>3, <1>5, <1>6, <1>7
  <1>9. v = Append(u, new)
    BY <1>3, <1>6, <1>8, SeqEqual DEF Word
  <1> QED
    BY <1>9 DEF v, u, new

LEMMA LowerLetters == \A w \in Word : Letters(ToLower(w)) = ToLower(Letters(w))
  <1> DEFINE T == {w \in Word : Letters(ToLower(w)) = ToLower(Letters(w))}
  <1>1. <<>> \in T
    <2>1. <<>> \in Word
      BY DEF Word
    <2>2. ToLower(<<>>) = <<>>
      <3>1. ToLower(<<>>) \in Seq(Chars) /\ Len(ToLower(<<>>)) = Len(<<>>)
        BY <2>1, LowerType DEF Word
      <3>2. <<>> \in Seq(Chars) /\ Len(<<>>) = 0
        OBVIOUS
      <3> HIDE DEF ToLower
      <3> QED
        BY <3>1, <3>2
    <2> QED
      BY <2>1, <2>2, LettersOf
  <1>2. ASSUME NEW w \in T, NEW char \in Chars PROVE Append(w, char) \in T
    <2> DEFINE new == IF char = "A" THEN "a" ELSE char
    <2>1. w \in Word /\ Append(w, char) \in Word /\ new \in Chars /\ Letters(w) \in Word
      BY LettersOf DEF Word, Chars
    <2>2. ToLower(w) \in Word /\ Letters(ToLower(w)) = ToLower(Letters(w))
      BY <2>1, LowerType
    <2>3. ToLower(Append(w, char)) = Append(ToLower(w), new)
      BY <2>1, LowerAppend
    <2>4. Letters(ToLower(Append(w, char))) = KeepLetter(ToLower(Letters(w)), new)
      BY <2>1, <2>2, <2>3, LettersOf
    <2>5. Letters(Append(w, char)) = KeepLetter(Letters(w), char)
      BY <2>1, LettersOf
    <2>6. CASE IsLetter(char)
      <3>1. ToLower(Append(Letters(w), char)) = Append(ToLower(Letters(w)), new)
        BY <2>1, LowerAppend
      <3>2. IsLetter(new)
        BY <2>6 DEF IsLetter
      <3> QED
        BY <2>1, <2>4, <2>5, <2>6, <3>1, <3>2 DEF KeepLetter
    <2>7. CASE ~IsLetter(char)
      <3>1. new = char
        BY <2>7 DEF IsLetter
      <3> QED
        BY <2>1, <2>4, <2>5, <2>7, <3>1 DEF KeepLetter
    <2> QED
      BY <2>6, <2>7
  <1>3. T \in SUBSET Seq(Chars)
    BY DEF Word
  <1> HIDE DEF T
  <1>4. T = Word
    BY <1>1, <1>2, <1>3, EverySequence DEF Word
  <1> QED
    BY <1>4 DEF T

\* The first character: without it, and what it says of the letters.
LEMMA FirstLetter ==
    \A w \in Word : w # <<>> =>
        IF IsLetter(w[1]) THEN Letters(w) # <<>> ELSE Letters(Tail(w)) = Letters(w)
  <1> DEFINE P(w) == IF IsLetter(w[1]) THEN Letters(w) # <<>> ELSE Letters(Tail(w)) = Letters(w)
             T == {w \in Word : w # <<>> => P(w)}
  <1>1. <<>> \in T
    BY DEF Word
  <1>2. ASSUME NEW w \in T, NEW char \in Chars PROVE Append(w, char) \in T
    <2> DEFINE v == Append(w, char)
    <2>1. w \in Word /\ w \in Seq(Chars) /\ v \in Word /\ Len(w) \in Nat /\ Letters(w) \in Word
      BY LettersOf DEF Word
    <2>2. Letters(v) = KeepLetter(Letters(w), char)
      BY <2>1, LettersOf
    <2>3. CASE w = <<>>
      <3>1. v[1] = char /\ Letters(w) = <<>> /\ Letters(<<>>) = <<>>
        BY <2>3, LettersOf
      <3>2. Tail(v) = <<>>
        BY <2>3
      <3>3. Letters(v) = IF IsLetter(char) THEN Append(<<>>, char) ELSE <<>>
        BY <2>2, <3>1 DEF KeepLetter
      <3>4. Append(<<>>, char) # <<>>
        OBVIOUS
      <3> HIDE DEF v
      <3>5. P(v)
        BY <3>1, <3>2, <3>3, <3>4
      <3> QED
        BY <2>1, <3>5 DEF v
    <2>4. CASE w # <<>>
      <3>1. Len(w) > 0
        <4>1. Len(w) = 0 => w = <<>>
          BY <2>1
        <4> QED
          BY <2>1, <2>4, <4>1
      <3>2. v[1] = w[1] /\ P(w)
        BY <2>1, <2>4, <3>1
      <3>3. Tail(w) \in Word /\ Tail(v) = Append(Tail(w), char)
        <4>1. /\ Tail(w) \in Seq(Chars) /\ Len(Tail(w)) = Len(w) - 1
              /\ \A i \in 1 .. Len(w) - 1 : Tail(w)[i] = w[i + 1]
          BY <2>1, <3>1, <2>4
        <4>2. /\ v \in Seq(Chars) /\ Len(v) = Len(w) + 1 /\ v # <<>> /\ v[Len(w) + 1] = char
              /\ \A i \in 1 .. Len(w) : v[i] = w[i]
          BY <2>1
        <4> HIDE DEF v
        <4>3. /\ Tail(v) \in Seq(Chars) /\ Len(Tail(v)) = Len(w)
              /\ \A i \in 1 .. Len(w) : Tail(v)[i] = v[i + 1]
          BY <2>1, <4>2
        <4> DEFINE t == Tail(w)
                   u == Tail(v)
        <4> HIDE DEF t, u
        <4>4. /\ Append(t, char) \in Seq(Chars) /\ Len(Append(t, char)) = Len(w)
              /\ Append(t, char)[Len(w)] = char
              /\ \A i \in 1 .. Len(w) - 1 : Append(t, char)[i] = t[i]
          BY <2>1, <4>1 DEF t
        <4>5. ASSUME NEW i \in 1 .. Len(w) PROVE u[i] = Append(t, char)[i]
          <5>1. u[i] = v[i + 1]
            BY <4>3 DEF u
          <5>2. CASE i = Len(w)
            BY <4>2, <4>4, <5>1, <5>2
          <5>3. CASE i # Len(w)
            <6>1. i \in 1 .. Len(w) - 1 /\ i + 1 \in 1 .. Len(w)
              BY <2>1, <5>3
            <6>2. t[i] = w[i + 1]
              BY <4>1, <6>1 DEF t
            <6> QED
              BY <4>2, <4>4, <5>1, <6>1, <6>2
          <5> QED
            BY <5>2, <5>3
        <4>6. u \in Seq(Chars) /\ Len(u) = Len(w)
          BY <4>3 DEF u
        <4>7. u = Append(t, char)
          BY <4>4, <4>5, <4>6, SeqEqual
        <4> QED
          BY <4>1, <4>7 DEF t, u, Word
      <3> HIDE DEF v
      <3>4. CASE IsLetter(w[1])
        <4>1. Letters(w) # <<>>
          BY <3>2, <3>4
        <4>2. Append(Letters(w), char) # <<>>
          BY <2>1 DEF Word
        <4>3. Letters(v) # <<>>
          BY <2>2, <4>1, <4>2 DEF KeepLetter
        <4>4. P(v)
          BY <3>2, <3>4, <4>3
        <4> QED
          BY <2>1, <4>4 DEF v
      <3>5. CASE ~IsLetter(w[1])
        <4>1. Letters(Tail(w)) = Letters(w)
          BY <3>2, <3>5
        <4>2. Letters(Tail(v)) = KeepLetter(Letters(Tail(w)), char)
          BY <3>3, LettersOf
        <4>3. P(v)
          BY <2>2, <3>2, <3>5, <4>1, <4>2
        <4> QED
          BY <2>1, <4>3 DEF v
      <3> QED
        BY <3>4, <3>5
    <2> QED
      BY <2>3, <2>4
  <1>3. T \in SUBSET Seq(Chars)
    BY DEF Word
  <1> HIDE DEF T
  <1>4. T = Word
    BY <1>1, <1>2, <1>3, EverySequence DEF Word
  <1> QED
    BY <1>4 DEF T

LEMMA TrimFirstOf ==
    ASSUME NEW w \in Seq(Plain), Spaced(w)
    PROVE  LET v == TrimFirst(w)
           IN  /\ v \in Seq(Plain) /\ Spaced(v) /\ Letters(v) = Letters(w)
               /\ v # <<>> => ~IsSeparator(v[1])
  <1>1. w \in Word /\ Len(w) \in Nat
    BY PlainIsWord
  <1>2. CASE w # <<>> /\ IsSeparator(Head(w))
    <2> DEFINE v == Tail(w)
    <2>1. Len(w) > 0 /\ Head(w) = w[1]
      <3>1. Len(w) = 0 => w = <<>>
        OBVIOUS
      <3> QED
        BY <1>1, <1>2, <3>1
    <2>2. /\ v \in Seq(Plain) /\ Len(v) = Len(w) - 1
          /\ \A i \in 1 .. Len(w) - 1 : v[i] = w[i + 1]
      BY <1>1, <1>2, <2>1
    <2>3. Letters(v) = Letters(w)
      BY <1>1, <1>2, <2>1, FirstLetter DEF IsLetter, IsSeparator
    <2>4. TrimFirst(w) = v
      BY <1>2 DEF TrimFirst
    <2> HIDE DEF v
    <2>5. ASSUME NEW i \in 2 .. Len(v), IsSeparator(v[i]) PROVE ~IsSeparator(v[i - 1])
      <3>1. /\ i \in 1 .. Len(w) - 1 /\ i - 1 \in 1 .. Len(w) - 1
            /\ i + 1 \in 2 .. Len(w) /\ (i - 1) + 1 = i /\ (i + 1) - 1 = i
        BY <1>1, <2>2
      <3>2. v[i] = w[i + 1] /\ v[i - 1] = w[i]
        BY <2>2, <3>1
      <3> QED
        BY <2>5, <3>1, <3>2 DEF Spaced
    <2>6. ASSUME v # <<>> PROVE ~IsSeparator(v[1])
      <3>1. Len(v) > 0
        <4>1. Len(v) = 0 => v = <<>>
          BY <2>2
        <4> QED
          BY <1>1, <2>2, <2>6, <4>1
      <3>2. 2 \in 2 .. Len(w) /\ 1 \in 1 .. Len(w) - 1 /\ v[1] = w[1 + 1] /\ 1 + 1 = 2 /\ 2 - 1 = 1
        BY <1>1, <2>2, <3>1
      <3> QED
        BY <1>2, <2>1, <3>2 DEF Spaced
    <2> QED
      BY <2>2, <2>3, <2>4, <2>5, <2>6 DEF Spaced
  <1>3. CASE ~(w # <<>> /\ IsSeparator(Head(w)))
    <2>1. TrimFirst(w) = w
      BY <1>3 DEF TrimFirst
    <2>2. w # <<>> => ~IsSeparator(w[1])
      <3>1. w # <<>> => Head(w) = w[1]
        OBVIOUS
      <3> QED
        BY <1>3, <3>1
    <2> QED
      BY <2>1, <2>2
  <1> QED
    BY <1>2, <1>3

LEMMA TrimLastOf ==
    ASSUME NEW w \in Seq(Plain), Spaced(w), w # <<>> => ~IsSeparator(w[1])
    PROVE  LET v == TrimLast(w)
           IN  /\ v \in Seq(Plain) /\ Spaced(v) /\ Letters(v) = Letters(w)
               /\ v # <<>> => ~IsSeparator(v[1]) /\ v[Len(v)] # "."
  <1>1. w \in Word /\ Len(w) \in Nat
    BY PlainIsWord
  <1>2. CASE w # <<>> /\ w[Len(w)] = "."
    <2> DEFINE v == SubSeq(w, 1, Len(w) - 1)
    <2>1. v \in Seq(Plain) /\ w = Append(v, w[Len(w)]) /\ w[Len(w)] \in Plain
      BY <1>2, LastOf
    <2>2. TrimLast(w) = v
      BY <1>2 DEF TrimLast
    <2> HIDE DEF v
    <2>3. v \in Word /\ "." \in Chars /\ w = Append(v, ".")
      BY <1>2, <2>1, PlainIsWord DEF Chars
    <2>4. Letters(v) = Letters(w)
      BY <2>3, LettersOf DEF KeepLetter, IsLetter
    <2>5. Len(w) = Len(v) + 1 /\ Len(v) \in Nat /\ \A i \in 1 .. Len(v) : w[i] = v[i]
      BY <2>1, <2>3
    <2>6. ASSUME NEW i \in 2 .. Len(v), IsSeparator(v[i]) PROVE ~IsSeparator(v[i - 1])
      <3>1. i \in 1 .. Len(v) /\ i - 1 \in 1 .. Len(v) /\ i \in 2 .. Len(w)
        BY <2>5
      <3> QED
        BY <2>5, <2>6, <3>1 DEF Spaced
    <2>7. ASSUME v # <<>> PROVE ~IsSeparator(v[1]) /\ v[Len(v)] # "."
      <3>1. Len(v) > 0
        <4>1. Len(v) = 0 => v = <<>>
          BY <2>1
        <4> QED
          BY <2>5, <2>7, <4>1
      <3>2. v[1] = w[1] /\ v[Len(v)] = w[Len(v)]
        BY <2>5, <3>1
      <3>3. Len(w) \in 2 .. Len(w) /\ Len(w) - 1 = Len(v)
        BY <2>5, <3>1
      <3>4. ~IsSeparator(w[Len(v)])
        BY <1>2, <3>3 DEF Spaced, IsSeparator
      <3> QED
        BY <1>2, <3>2, <3>4 DEF IsSeparator
    <2> QED
      BY <2>1, <2>2, <2>4, <2>6, <2>7 DEF Spaced
  <1>3. CASE ~(w # <<>> /\ w[Len(w)] = ".")
    <2>1. TrimLast(w) = w
      BY <1>3 DEF TrimLast
    <2> QED
      BY <1>3, <2>1
  <1> QED
    BY <1>2, <1>3

LEMMA Normalized ==
    ASSUME NEW id \in Word
    PROVE  IsNormal(id, NormalizeIdentifier(id))
  <1> DEFINE local == LocalPart(id)
             plain == ReplaceDisallowed(local)
             collapsed == Collapse(plain)
             first == TrimFirst(collapsed)
             trimmed == TrimLast(first)
             normal == ToLower(trimmed)
  <1>1. normal = NormalizeIdentifier(id)
    BY DEF NormalizeIdentifier
  <1>2. local \in Word
    BY LocalPartType
  <1>3. plain \in Seq(Plain) /\ plain \in Word /\ Letters(plain) = Letters(local)
    <2> HIDE DEF local
    <2> QED
      BY <1>2, ReplaceType, ReplaceLetters, PlainIsWord
  <1>4. /\ collapsed \in Seq(Plain) /\ collapsed \in Word /\ Spaced(collapsed)
        /\ Letters(collapsed) = Letters(plain)
    <2> HIDE DEF plain
    <2> QED
      BY <1>3, CollapsePlain, CollapseSpaced, CollapseLetters, PlainIsWord
  <1>5. /\ first \in Seq(Plain) /\ Spaced(first) /\ Letters(first) = Letters(collapsed)
        /\ first # <<>> => ~IsSeparator(first[1])
    <2> HIDE DEF collapsed
    <2> QED
      BY <1>4, TrimFirstOf
  <1>6. /\ trimmed \in Seq(Plain) /\ Spaced(trimmed) /\ Letters(trimmed) = Letters(first)
        /\ trimmed # <<>> => ~IsSeparator(trimmed[1]) /\ trimmed[Len(trimmed)] # "."
    <2> HIDE DEF first
    <2> QED
      BY <1>5, TrimLastOf
  <1>7. trimmed \in Word /\ Letters(trimmed) = Letters(local)
    BY <1>3, <1>4, <1>5, <1>6, PlainIsWord
  <1> HIDE DEF trimmed, first, collapsed, plain, local
  <1>8. /\ normal \in Word /\ Len(normal) = Len(trimmed) /\ Len(normal) \in Nat
        /\ \A i \in 1 .. Len(normal) : normal[i] = IF trimmed[i] = "A" THEN "a" ELSE trimmed[i]
    BY <1>7, LowerType DEF Word
  <1>9. Letters(normal) = ToLower(Letters(local))
    BY <1>7, LowerLetters
  <1> HIDE DEF normal
  <1>10. \A i \in 1 .. Len(normal) : normal[i] \in {"a", "-", "."}
    <2>1. \A i \in 1 .. Len(normal) : trimmed[i] \in Plain
      BY <1>6, <1>8
    <2> QED
      BY <1>8, <2>1 DEF Plain
  <1>11. \A i \in 1 .. Len(normal) : IsSeparator(normal[i]) <=> IsSeparator(trimmed[i])
    BY <1>8 DEF IsSeparator
  <1>12. normal # <<>> => Len(normal) > 0 /\ trimmed # <<>>
    <2>1. normal # <<>> => Len(normal) # 0
      BY <1>8 DEF Word
    <2>2. trimmed = <<>> => Len(trimmed) = 0
      OBVIOUS
    <2> QED
      BY <1>8, <2>1, <2>2
  <1>13. normal # <<>> => ~IsSeparator(normal[1]) /\ normal[Len(normal)] # "."
    <2> SUFFICES ASSUME normal # <<>>
                 PROVE  ~IsSeparator(normal[1]) /\ normal[Len(normal)] # "."
      OBVIOUS
    <2>1. 1 \in 1 .. Len(normal) /\ Len(normal) \in 1 .. Len(normal) /\ trimmed # <<>>
      BY <1>8, <1>12
    <2>2. normal[Len(normal)] = "." => trimmed[Len(trimmed)] = "."
      BY <1>8, <2>1
    <2> QED
      BY <1>6, <1>11, <2>1, <2>2
  <1>14. Spaced(normal)
    <2>1. ASSUME NEW i \in 2 .. Len(normal), IsSeparator(normal[i])
          PROVE  ~IsSeparator(normal[i - 1])
      <3>1. i \in 1 .. Len(normal) /\ i - 1 \in 1 .. Len(normal) /\ i \in 2 .. Len(trimmed)
        BY <1>8
      <3> QED
        BY <1>6, <1>11, <2>1, <3>1 DEF Spaced
    <2> QED
      BY <2>1 DEF Spaced
  <1>15. normal \in Seq(Chars) /\ DOMAIN normal = 1 .. Len(normal)
    BY <1>8 DEF Word
  <1>16. ASSUME NEW i \in DOMAIN normal, IsSeparator(normal[i])
         PROVE  /\ i > 1 /\ ~IsSeparator(normal[i - 1])
                /\ normal[i] = "." => i < Len(normal)
    <2>1. i \in 1 .. Len(normal) /\ Len(normal) > 0 /\ normal # <<>>
      <3>1. normal = <<>> => Len(normal) = 0
        OBVIOUS
      <3> QED
        BY <1>8, <1>15, <3>1
    <2>2. i # 1 /\ (normal[i] = "." => i # Len(normal))
      BY <1>13, <1>16, <2>1
    <2>3. i \in 2 .. Len(normal)
      BY <1>8, <2>1, <2>2
    <2> QED
      BY <1>8, <1>14, <1>16, <2>2, <2>3 DEF Spaced
  <1>17. normal # <<>> => Letters(normal) # <<>>
    <2> SUFFICES ASSUME normal # <<>> PROVE Letters(normal) # <<>>
      OBVIOUS
    <2>1. 1 \in 1 .. Len(normal)
      BY <1>8, <1>12
    <2>2. IsLetter(normal[1])
      BY <1>10, <1>13, <2>1 DEF IsLetter, IsSeparator
    <2> QED
      BY <1>8, <2>2, FirstLetter
  <1>18. NormalizeIdentifier(normal) = normal
    <2>1. normal \in Seq(Plain)
      <3>1. \A i \in 1 .. Len(normal) : normal[i] \in Plain
        BY <1>10 DEF Plain
      <3> QED
        BY <1>15, <3>1
    <2>2. LocalPart(normal) = normal
      BY <1>8, <1>10, <1>15, LocalPartType
    <2>3. ReplaceDisallowed(normal) = normal
      BY <1>8, <2>1, ReplaceType
    <2>4. Collapse(normal) = normal
      BY <1>8, <1>14, CollapseAgain
    <2>5. TrimFirst(normal) = normal
      <3>1. normal # <<>> => Head(normal) = normal[1]
        BY <1>15
      <3> QED
        BY <1>13, <3>1 DEF TrimFirst
    <2>6. TrimLast(normal) = normal
      BY <1>13 DEF TrimLast
    <2>7. ToLower(normal) = normal
      <3>1. ToLower(normal) \in Word /\ Len(ToLower(normal)) = Len(normal)
        BY <1>8, LowerType
      <3>2. \A i \in 1 .. Len(normal) : ToLower(normal)[i] = normal[i]
        BY <1>8, <1>10, LowerType
      <3> QED
        BY <1>8, <3>1, <3>2, SeqEqual DEF Word
    <2> QED
      BY <2>2, <2>3, <2>4, <2>5, <2>6, <2>7 DEF NormalizeIdentifier
  <1>19. IsNormal(id, normal)
    BY <1>9, <1>10, <1>15, <1>16, <1>17, <1>18 DEF IsNormal, local
  <1> QED
    BY <1>1, <1>19
----------------------------------------------------------------------------
\* The properties of Inputs.

InputInv ==
    /\ input.of = "callback" => input.id \in Identifiers
    /\ input.of = "flags" => input.addr \in Addresses
    /\ input.of = "visitor" => input.lines \in RuleFiles
    /\ input.of = "start" => input.file \in Files /\ input.last \in LastPorts
    /\ \/ output.for \in {"nothing", "error"}
       \/ /\ input.of = "callback" /\ output.for = "callback"
          /\ output.normal = NormalizeIdentifier(input.id)
       \/ /\ input.of = "flags" /\ output.for = "flags"
          /\ output.http = deriveHTTPForwardAddress(input.addr)
          /\ output.tcp = deriveTCPForwardAddress(input.addr)
       \/ /\ input.of = "visitor" /\ output.for = "visitor"
          /\ output.address \in Forwards(input.lines, Default, input.path)
          /\ ~Refuses(input.lines, Default)
       \/ /\ input.of = "start" /\ output.for = "start"
          /\ Load(input.file).ok
          /\ output.port \in TunnelPorts(Load(input.file), input.last)

LEMMA InputInvariance == Spec => []InputInv
  <1>1. Init => InputInv
    BY DEF Init, Pending, InputInv
  <1>2. InputInv /\ [Next]_vars => InputInv'
    <2> SUFFICES ASSUME InputInv, [Next]_vars PROVE InputInv'
      OBVIOUS
    <2>1. CASE Next /\ Normalize
      BY <2>1 DEF Next, Normalize, InputInv
    <2>2. CASE Next /\ Derive
      BY <2>2 DEF Next, Derive, InputInv
    <2>3. CASE Next /\ Forward
      BY <2>3 DEF Next, Forward, InputInv
    <2>4. CASE Next /\ StartAndTunnel
      BY <2>4 DEF Next, StartAndTunnel, InputInv
    <2>5. CASE UNCHANGED vars
      BY <2>5 DEF vars, InputInv
    <2> QED
      BY <2>1, <2>2, <2>3, <2>4, <2>5 DEF Next
  <1> QED
    BY <1>1, <1>2, PTL DEF Spec

(***************************************************************************)
(* Whatever identifier an identity provider gives, of any length, the      *)
(* subdomain begins with no separator, ends with no period, has no two     *)
(* separators in a row, keeps the letters of the local part in their order *)
(* and is its own subdomain.  (userutil.go 16-45)                          *)
(***************************************************************************)
THEOREM SubdomainsNormal == Spec => []SubdomainsAreNormal
  <1>1. InputInv => SubdomainsAreNormal
    <2> SUFFICES ASSUME InputInv, output.for = "callback"
                 PROVE  IsNormal(input.id, output.normal)
      BY DEF SubdomainsAreNormal
    <2>1. input.id \in Identifiers /\ output.normal = NormalizeIdentifier(input.id)
      BY DEF InputInv
    <2>2. PICK id \in Word : id = input.id
      BY <2>1, InputsAssumption DEF Word
    <2> QED
      BY <2>1, <2>2, Normalized
  <1> QED
    BY <1>1, InputInvariance, PTL

(***************************************************************************)
(* Every address a user may type is derived to one that can be stored and  *)
(* derived again, whatever its length.  (init.go 46-70, tcp.go 44-63)      *)
(***************************************************************************)
THEOREM AddressesComplete == Spec => []AddressesAreComplete
  <1>1. InputInv => AddressesAreComplete
    BY DerivedComplete, InputsAssumption DEF InputInv, AddressesAreComplete
  <1> QED
    BY <1>1, InputInvariance, PTL

(***************************************************************************)
(* Whatever rules dynamic_forwards has, how many, and in whatever order    *)
(* the map of them is visited, a request goes where the last rule of one   *)
(* of its prefixes says.  (http.go 72-96, handler.go 19-56)                *)
(***************************************************************************)
THEOREM RequestsFollow == Spec => []RequestsFollowRules
  <1>1. InputInv => RequestsFollowRules
    <2> SUFFICES ASSUME InputInv, output.for = "visitor"
                 PROVE  /\ FollowsRules(input.lines, Default, input.path, output.address)
                        /\ output.address \notin Unparsable
      BY DEF RequestsFollowRules
    <2>1. /\ input.lines \in Seq(Lines) /\ ~Refuses(input.lines, Default)
          /\ output.address \in Forwards(input.lines, Default, input.path)
      BY InputsAssumption DEF InputInv
    <2>2. FollowsRules(input.lines, Default, input.path, output.address)
      BY <2>1, ForwardsFollow
    <2> QED
      BY <2>1, <2>2 DEF FollowsRules, Refuses
  <1> QED
    BY <1>1, InputInvariance, PTL

(***************************************************************************)
(* For all port ranges and ports of the last time: a TCP tunnel gets a     *)
(* port of the range in force or an error, and pgrokd panics only on an    *)
(* empty range. (conf.go 66-77, client.go 82-91, 236-247)                  *)
(***************************************************************************)
THEOREM PortsInRange == Spec => []PortsAreInRange
  <1>1. InputInv => PortsAreInRange
    BY PortsKept, InputsAssumption DEF InputInv, PortsAreInRange
  <1> QED
    BY <1>1, InputInvariance, PTL
=============================================================================
