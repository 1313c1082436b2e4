-------------------------- MODULE Reconnect_proofs --------------------------
(***************************************************************************)
(* What holds for any number of instances of pgrokd over one database and  *)
(* any number of clients: the host keys, proved of the composed system.    *)
(***************************************************************************)
EXTENDS Reconnect, NaturalsInduction, WellFoundedInduction, TLAPS

KeysTypeOK ==
    /\ stored \in [Algorithms -> Keys \cup {NoKey}]
    /\ daemon \in [Instances -> Daemon]
    /\ calm \in BOOLEAN

\* An instance that is stopped by another one's key, or is about to be.
Doomed(i) ==
    \/ daemon[i].pc = "conflict"
    \/ daemon[i].pc = "create" /\ stored[daemon[i].missed] # NoKey

(***************************************************************************)
(* SomebodyStarts is not inductive: the instances that wait for their      *)
(* inserts could all be about to fail.  The one that inserted last is not. *)
(***************************************************************************)
KeysInv ==
    /\ KeysTypeOK
    /\ PresentedAreStored
    /\ Instances # {} => \E i \in Instances : ~Doomed(i)

LEMMA KeyFacts ==
    /\ \A i \in Instances, a \in Algorithms : <<i, a>> \in Keys /\ <<i, a>> # NoKey
    /\ \A a \in Algorithms : Format(a) \in Formats
    /\ "rsa" \in Algorithms
  BY HostKeysAssumption DEF Keys, Algorithms, Formats, Format

LEMMA NewDaemonFacts ==
    ASSUME NEW pc \in {"down", "conflict", "keys"}
    PROVE  /\ NewDaemon(pc) \in Daemon
           /\ NewDaemon(pc).pc = pc
           /\ \A f \in Formats : NewDaemon(pc).presented[f] = NoKey
  BY KeyFacts DEF NewDaemon, Daemon

\* Loading a key, and what it adds to the keys presented.
LEMMA AddHostKeyFacts ==
    ASSUME KeysTypeOK, NEW i \in Instances, NEW a \in Algorithms, NEW key \in Keys
    PROVE  /\ AddHostKey(i, a, key) \in Daemon
           /\ AddHostKey(i, a, key).pc = "keys"
           /\ \A f \in Formats :
                  AddHostKey(i, a, key).presented[f] \in {key, daemon[i].presented[f]}
  <1>1. daemon[i] \in Daemon /\ daemon[i].presented \in [Formats -> Keys \cup {NoKey}]
    BY DEF KeysTypeOK, Daemon
  <1> DEFINE shown == [daemon[i].presented EXCEPT ![Format(a)] = key]
  <1>2. /\ shown \in [Formats -> Keys \cup {NoKey}]
        /\ \A f \in Formats : shown[f] \in {key, daemon[i].presented[f]}
    BY <1>1, KeyFacts
  <1>3. AddHostKey(i, a, key) = [daemon[i] EXCEPT !.pc = "keys", !.todo = daemon[i].todo \ {a},
                                                  !.missed = "rsa", !.presented = shown]
    BY <1>1 DEF AddHostKey, Daemon
  <1> HIDE DEF shown
  <1>4. AddHostKey(i, a, key).presented = shown
    BY <1>1, <1>3 DEF Daemon
  <1> QED
    BY <1>1, <1>2, <1>3, <1>4, KeyFacts DEF Daemon

\* One instance moves on to presenting what it presented or a key that is stored.
LEMMA MoveSound ==
    ASSUME KeysTypeOK, PresentedAreStored, NEW i \in Instances, NEW next \in Daemon,
           Become(i, next),
           stored' \in [Algorithms -> Keys \cup {NoKey}],
           \A a \in Algorithms : stored[a] # NoKey => stored'[a] = stored[a],
           \A f \in Formats :
               \/ next.presented[f] \in {NoKey, daemon[i].presented[f]}
               \/ \E a \in Algorithms : next.presented[f] = stored'[a],
           calm' = calm
    PROVE  /\ KeysTypeOK' /\ PresentedAreStored'
           /\ daemon'[i] = next
           /\ \A j \in Instances : j # i => daemon'[j] = daemon[j]
  <1>1. /\ daemon' \in [Instances -> Daemon] /\ daemon'[i] = next
        /\ \A j \in Instances : j # i => daemon'[j] = daemon[j]
    BY DEF Become, KeysTypeOK
  <1>2. ASSUME NEW j \in Instances, NEW f \in Formats, daemon'[j].presented[f] # NoKey
        PROVE  \E a \in Algorithms : daemon'[j].presented[f] = stored'[a]
    <2>1. CASE daemon'[j].presented[f] = daemon[j].presented[f]
      BY <1>2, <2>1 DEF PresentedAreStored
    <2> QED
      BY <1>1, <1>2, <2>1
  <1> QED
    BY <1>1, <1>2 DEF KeysTypeOK, PresentedAreStored

LEMMA KeysInvInit == HostKeysInit => KeysInv
  <1> SUFFICES ASSUME HostKeysInit PROVE KeysInv
    OBVIOUS
  <1>1. KeysTypeOK
    BY NewDaemonFacts DEF HostKeysInit, KeysTypeOK
  <1>2. PresentedAreStored
    BY NewDaemonFacts DEF HostKeysInit, PresentedAreStored
  <1>3. \A i \in Instances : ~Doomed(i)
    BY NewDaemonFacts DEF HostKeysInit, Doomed
  <1> QED
    BY <1>1, <1>2, <1>3 DEF KeysInv

LEMMA KeysInvStep ==
    ASSUME KeysInv, [HostKeysNext]_keyVars
    PROVE  /\ KeysInv'
           /\ \A a \in Algorithms : stored[a] # NoKey => stored'[a] = stored[a]
  <1> DEFINE Kept == \A a \in Algorithms : stored[a] # NoKey => stored'[a] = stored[a]
  <1> USE DEF KeysInv
  <1>1. CASE UNCHANGED <<stored, daemon>> /\ calm' \in BOOLEAN
    BY <1>1 DEF KeysTypeOK, PresentedAreStored, Doomed
  <1>2. ASSUME NEW i \in Instances, InstanceStep(i) PROVE KeysInv' /\ Kept
    <2>1. daemon[i] \in Daemon /\ daemon[i].missed \in Algorithms
          /\ daemon[i].todo \subseteq Algorithms
      BY DEF KeysTypeOK, Daemon
    <2>2. CASE Start(i) \/ Exit(i)
      <3>1. \E pc \in {"down", "keys"} : Become(i, NewDaemon(pc))
        BY <2>2 DEF Start, Exit
      <3>2. UNCHANGED <<stored, calm>>
        BY <2>2 DEF Start, Exit
      <3>3. PICK pc \in {"down", "keys"} : Become(i, NewDaemon(pc))
        BY <3>1
      <3>4. KeysTypeOK' /\ PresentedAreStored' /\ daemon'[i] = NewDaemon(pc)
        BY <3>2, <3>3, NewDaemonFacts, MoveSound DEF KeysTypeOK
      <3>5. ~Doomed(i)'
        BY <3>4, NewDaemonFacts DEF Doomed
      <3> QED
        BY <3>2, <3>4, <3>5
    <2>3. CASE FindKey(i)
      <3>1. PICK a \in daemon[i].todo : stored[a] # NoKey /\ Become(i, AddHostKey(i, a, stored[a]))
        BY <2>3 DEF FindKey
      <3>2. UNCHANGED <<stored, calm>> /\ a \in Algorithms /\ stored[a] \in Keys
        BY <2>1, <2>3, <3>1 DEF FindKey, KeysTypeOK
      <3>3. KeysTypeOK' /\ PresentedAreStored' /\ daemon'[i] = AddHostKey(i, a, stored[a])
        BY <3>1, <3>2, AddHostKeyFacts, MoveSound DEF KeysTypeOK
      <3>4. ~Doomed(i)'
        BY <3>2, <3>3, AddHostKeyFacts DEF Doomed
      <3> QED
        BY <3>2, <3>3, <3>4
    <2>4. CASE MissKey(i)
      <3>1. PICK a \in daemon[i].todo :
                stored[a] = NoKey /\ Become(i, [daemon[i] EXCEPT !.pc = "create", !.missed = a])
        BY <2>4 DEF MissKey
      <3>2. UNCHANGED <<stored, calm>> /\ a \in Algorithms
        BY <2>1, <2>4 DEF MissKey
      <3> DEFINE next == [daemon[i] EXCEPT !.pc = "create", !.missed = a]
      <3>3. next \in Daemon /\ next.missed = a /\ next.presented = daemon[i].presented
        BY <2>1, <3>2 DEF Daemon
      <3>4. Become(i, next)
        BY <3>1
      <3> HIDE DEF next
      <3>5. KeysTypeOK' /\ PresentedAreStored' /\ daemon'[i] = next
        BY <3>2, <3>3, <3>4, MoveSound DEF KeysTypeOK
      <3>6. next.pc = "create"
        BY <2>1 DEF next, Daemon
      <3>7. ~Doomed(i)'
        BY <3>1, <3>2, <3>3, <3>5, <3>6 DEF Doomed
      <3> QED
        BY <3>2, <3>5, <3>7
    <2> DEFINE m == daemon[i].missed
               key == <<i, m>>
    <2>5. ASSUME stored[m] = NoKey, stored' = [stored EXCEPT ![m] = key]
          PROVE  /\ Kept /\ stored'[m] = key
                 /\ stored' \in [Algorithms -> Keys \cup {NoKey}]
      BY <2>1, <2>5, KeyFacts DEF KeysTypeOK
    <2>6. CASE CreateKey(i)
      <3>1. calm' = calm
        BY <2>6 DEF CreateKey
      <3>2. CASE stored[m] = NoKey
        <4>1. stored' = [stored EXCEPT ![m] = key] /\ Become(i, AddHostKey(i, m, key))
          BY <2>6, <3>2 DEF CreateKey
        <4>2. KeysTypeOK' /\ PresentedAreStored' /\ daemon'[i] = AddHostKey(i, m, key)
          <5>1. /\ key \in Keys /\ AddHostKey(i, m, key) \in Daemon
                /\ \A f \in Formats :
                       AddHostKey(i, m, key).presented[f] \in {key, daemon[i].presented[f]}
            BY <2>1, KeyFacts, AddHostKeyFacts
          <5> QED
            BY <2>1, <2>5, <3>1, <3>2, <4>1, <5>1, MoveSound
        <4>3. ~Doomed(i)'
          BY <2>1, <4>2, KeyFacts, AddHostKeyFacts DEF Doomed
        <4> QED
          BY <2>5, <3>2, <4>1, <4>2, <4>3
      <3>3. CASE stored[m] # NoKey
        <4>1. UNCHANGED stored /\ Become(i, NewDaemon("conflict")) /\ Doomed(i)
          BY <2>6, <3>3 DEF CreateKey, Doomed
        <4>2. /\ KeysTypeOK' /\ PresentedAreStored'
              /\ \A j \in Instances : j # i => daemon'[j] = daemon[j]
          BY <3>1, <4>1, NewDaemonFacts, MoveSound DEF KeysTypeOK
        <4>3. PICK j \in Instances : ~Doomed(j)
          OBVIOUS
        <4>4. ~Doomed(j)'
          BY <4>1, <4>2, <4>3 DEF Doomed
        <4> QED
          BY <4>1, <4>2, <4>4
      <3> QED
        BY <3>2, <3>3
    <2>7. CASE Listen(i)
      <3> DEFINE next == [daemon[i] EXCEPT !.pc = "serving"]
      <3>1. /\ Become(i, next) /\ UNCHANGED <<stored, calm>>
            /\ next \in Daemon /\ next.presented = daemon[i].presented
            /\ next.pc = "serving"
        BY <2>1, <2>7 DEF Listen, Daemon
      <3> HIDE DEF next
      <3>2. KeysTypeOK' /\ PresentedAreStored' /\ daemon'[i] = next
        BY <3>1, MoveSound DEF KeysTypeOK
      <3>3. ~Doomed(i)'
        BY <3>1, <3>2 DEF Doomed
      <3> QED
        BY <3>1, <3>2, <3>3
    <2>8. CASE ExitAfterInsert(i)
      <3>1. /\ stored[m] = NoKey /\ stored' = [stored EXCEPT ![m] = key]
            /\ Become(i, NewDaemon("down")) /\ calm' = calm
        BY <2>8 DEF ExitAfterInsert
      <3>2. KeysTypeOK' /\ PresentedAreStored' /\ daemon'[i] = NewDaemon("down")
        BY <2>5, <3>1, NewDaemonFacts, MoveSound
      <3>3. ~Doomed(i)'
        BY <3>2, NewDaemonFacts DEF Doomed
      <3> QED
        BY <2>5, <3>1, <3>2, <3>3
    <2> QED
      BY <1>2, <2>2, <2>3, <2>4, <2>6, <2>7, <2>8 DEF InstanceStep
  <1> QED
    BY <1>1, <1>2 DEF HostKeysNext, CalmDown, keyVars, KeysTypeOK

\* The clients do not touch the keys.
LEMMA StepsOfInstances == [Next]_vars => [HostKeysNext]_keyVars
  BY DEF Next, vars, keyVars, HostKeysNext, DaemonStep, Calm, ClientStep, Connect, Denied,
         AttemptFails, NetworkLost, TunnelEnds, Wake

LEMMA KeysInvariance == Spec => []KeysInv
  <1>1. Init => KeysInv
    BY KeysInvInit DEF Init
  <1>2. KeysInv /\ [Next]_vars => KeysInv'
    BY KeysInvStep, StepsOfInstances
  <1> QED
    BY <1>1, <1>2, PTL DEF Spec

\* However many instances start at once, one of them is not stopped by the
\* key of another.
THEOREM SomebodyAlwaysStarts == Spec => []SomebodyStarts
  <1>1. KeysInv => SomebodyStarts
    BY DEF KeysInv, SomebodyStarts, Doomed
  <1> QED
    BY <1>1, KeysInvariance, PTL

\* An instance presents keys of the database only, whoever generated them.
THEOREM PresentedStored == Spec => []PresentedAreStored
  <1>1. KeysInv => PresentedAreStored
    BY DEF KeysInv
  <1> QED
    BY <1>1, KeysInvariance, PTL

\* A stored host key is never replaced.
THEOREM KeysStay == Spec => StoredKeysStay
  <1> DEFINE Kept == \A a \in Algorithms : stored[a] # NoKey => stored'[a] = stored[a]
  <1>1. KeysInv /\ [Next]_vars => [Kept]_stored
    BY KeysInvStep, StepsOfInstances
  <1> QED
    BY <1>1, KeysInvariance, PTL DEF Spec, StoredKeysStay
----------------------------------------------------------------------------
\* Induction, for a set in place of a predicate.
LEMMA EveryNumber ==
    ASSUME NEW T \in SUBSET Nat, 0 \in T, \A n \in T : n + 1 \in T
    PROVE  T = Nat
  <1> SUFFICES ASSUME Nat \ T # {} PROVE FALSE
    OBVIOUS
  <1> DEFINE R == OpToRel(<, Nat)
  <1>1. IsWellFoundedOn(R, Nat)
    BY NatLessThanWellFounded
  <1>2. \A x, y \in Nat : x < y => <<x, y>> \in R
    BY DEF OpToRel
  <1> HIDE DEF R
  <1>3. PICK m \in Nat \ T : \A y \in Nat \ T : ~(<<y, m>> \in R)
    <2>1. Nat \ T \subseteq Nat
      OBVIOUS
    <2> QED
      BY <1>1, <2>1, WFMin
  <1>4. m \in Nat /\ m # 0 /\ m - 1 \in Nat /\ m - 1 < m
    BY <1>3
  <1>5. m - 1 \in T
    BY <1>2, <1>3, <1>4
  <1>6. (m - 1) + 1 = m
    BY <1>4
  <1> QED
    BY <1>3, <1>5, <1>6

\* The first n + 1 values of TwoShifted.
Table(n, f) ==
    /\ f \in [0 .. n -> Nat]
    /\ f[0] = 2
    /\ \A k \in 1 .. n : f[k] = 2 * f[k - 1]

LEMMA TableExists == \A n \in Nat : \E f : Table(n, f)
  <1> DEFINE T == {n \in Nat : \E f : Table(n, f)}
  <1>1. 0 \in T
    <2>1. Table(0, [k \in 0 .. 0 |-> 2])
      BY DEF Table
    <2> QED
      BY <2>1
  <1>2. ASSUME NEW n \in T PROVE n + 1 \in T
    <2>1. PICK f : Table(n, f)
      OBVIOUS
    <2> DEFINE g == [k \in 0 .. n + 1 |-> IF k = n + 1 THEN 2 * f[n] ELSE f[k]]
    <2>2. n \in Nat /\ n \in 0 .. n /\ f[n] \in Nat
      BY <2>1 DEF Table
    <2>3. g \in [0 .. n + 1 -> Nat] /\ g[0] = 2
      BY <2>1, <2>2 DEF Table
    <2>4. ASSUME NEW k \in 1 .. n + 1 PROVE g[k] = 2 * g[k - 1]
      <3>1. CASE k = n + 1
        BY <2>2, <3>1
      <3>2. CASE k # n + 1
        BY <2>1, <2>2, <3>2 DEF Table
      <3> QED
        BY <3>1, <3>2
    <2> HIDE DEF g
    <2>5. Table(n + 1, g)
      BY <2>3, <2>4 DEF Table
    <2> QED
      BY <2>2, <2>5
  <1> HIDE DEF T
  <1>3. T = Nat
    <2>1. T \in SUBSET Nat
      BY DEF T
    <2> QED
      BY <1>1, <1>2, <2>1, EveryNumber
  <1> QED
    BY <1>3 DEF T

LEMMA TablesAgree ==
    \A n \in Nat : \A m, l \in Nat : \A f, g :
        (n <= m /\ n <= l /\ Table(m, f) /\ Table(l, g)) => f[n] = g[n]
  <1> DEFINE T == {n \in Nat : \A m, l \in Nat : \A f, g :
                     (n <= m /\ n <= l /\ Table(m, f) /\ Table(l, g)) => f[n] = g[n]}
  <1>1. 0 \in T
    BY DEF Table
  <1>2. ASSUME NEW n \in T PROVE n + 1 \in T
    <2> SUFFICES ASSUME NEW m \in Nat, NEW l \in Nat, NEW f, NEW g,
                        n + 1 <= m, n + 1 <= l, Table(m, f), Table(l, g)
                 PROVE  f[n + 1] = g[n + 1]
      OBVIOUS
    <2>1. n \in Nat /\ f[n] = g[n]
      OBVIOUS
    <2>2. n + 1 \in 1 .. m /\ n + 1 \in 1 .. l /\ (n + 1) - 1 = n
      BY <2>1
    <2>3. f[n + 1] = 2 * f[n] /\ g[n + 1] = 2 * g[n]
      BY <2>2 DEF Table
    <2> QED
      BY <2>1, <2>3
  <1> HIDE DEF T
  <1>3. T = Nat
    <2>1. T \in SUBSET Nat
      BY DEF T
    <2> QED
      BY <1>1, <1>2, <2>1, EveryNumber
  <1> QED
    BY <1>3 DEF T

\* What the shift is, of any number of bits.
LEMMA TwoShiftedDef ==
    /\ TwoShifted[0] = 2
    /\ \A n \in Nat : TwoShifted[n] \in Nat /\ TwoShifted[n + 1] = 2 * TwoShifted[n]
  <1> DEFINE table(n) == CHOOSE f : Table(n, f)
             F == [n \in Nat |-> table(n)[n]]
  <1>1. \A n \in Nat : Table(n, table(n))
    BY TableExists
  <1> HIDE DEF table
  <1>2. F[0] = 2
    BY <1>1 DEF Table
  <1>3. ASSUME NEW n \in Nat, n # 0 PROVE F[n] = 2 * F[n - 1]
    <2>1. n - 1 \in Nat /\ n \in 1 .. n /\ n - 1 <= n
      BY <1>3
    <2>2. table(n)[n] = 2 * table(n)[n - 1]
      BY <1>1, <2>1 DEF Table
    <2>3. table(n)[n - 1] = table(n - 1)[n - 1]
      BY <1>1, <2>1, TablesAgree
    <2> QED
      BY <2>1, <2>2, <2>3
  <1>4. \A n \in Nat : F[n] \in Nat
    <2>1. ASSUME NEW n \in Nat PROVE n \in 0 .. n
      OBVIOUS
    <2> QED
      BY <1>1, <2>1 DEF Table
  <1>5. F = [n \in Nat |-> IF n = 0 THEN 2 ELSE 2 * F[n - 1]]
    BY <1>2, <1>3
  <1> HIDE DEF F
  <1>6. TwoShifted = [n \in Nat |-> IF n = 0 THEN 2 ELSE 2 * TwoShifted[n - 1]]
    BY <1>5 DEF TwoShifted
  <1>7. TwoShifted[0] = 2 /\ \A n \in Nat : TwoShifted[n + 1] = 2 * TwoShifted[n]
    <2>1. TwoShifted[0] = 2
      BY <1>6
    <2>2. ASSUME NEW n \in Nat PROVE TwoShifted[n + 1] = 2 * TwoShifted[n]
      <3>1. n + 1 \in Nat /\ n + 1 # 0 /\ (n + 1) - 1 = n
        OBVIOUS
      <3> QED
        BY <1>6, <3>1
    <2> QED
      BY <2>1, <2>2
  <1> DEFINE T == {n \in Nat : TwoShifted[n] \in Nat}
  <1>8. 0 \in T /\ \A n \in T : n + 1 \in T
    BY <1>7
  <1> HIDE DEF T
  <1>9. T = Nat
    <2>1. T \in SUBSET Nat
      BY DEF T
    <2> QED
      BY <1>8, <2>1, EveryNumber
  <1> QED
    BY <1>7, <1>9 DEF T
----------------------------------------------------------------------------
\* What a client has slept through when that many attempts have failed in a row.
SleptThrough(failed) == (3 + (failed % 3)) * Backoff(failed) - 12

LoopSound(r) ==
    /\ r \in Loop
    /\ r.phase = "sleeping" =>
           /\ r.failed # 0
           /\ r.sleep = Backoff(r.failed - 1) /\ r.slept = SleptThrough(r.failed - 1)
    /\ r.phase \in {"dialing", "live", "lost"} => r.slept = SleptThrough(r.failed)

(***************************************************************************)
(* SleepFollowsOutage is not inductive: it takes that the sleeps add up to *)
(* what the number of failures says.                                       *)
(***************************************************************************)
LoopsInv == pgrok \in [Clients -> Loop] /\ \A k \in Clients : LoopSound(pgrok[k])

\* Every third failure in a row doubles the sleep.
LEMMA BackoffFacts ==
    /\ Backoff(0) = 4
    /\ \A failed \in Nat :
           /\ Backoff(failed) \in Nat
           /\ Backoff(failed + 1) = IF failed % 3 = 2 THEN 2 * Backoff(failed)
                                                      ELSE Backoff(failed)
  <1>1. Backoff(0) = 4
    <2>1. TwoShifted[0 + 1] = 2 * TwoShifted[0]
      BY TwoShiftedDef
    <2> QED
      BY <2>1, TwoShiftedDef DEF Backoff
  <1>2. ASSUME NEW failed \in Nat
        PROVE  /\ Backoff(failed) \in Nat
               /\ Backoff(failed + 1) = IF failed % 3 = 2 THEN 2 * Backoff(failed)
                                                          ELSE Backoff(failed)
    <2>1. PICK q : q = failed \div 3
      OBVIOUS
    <2>2. q \in Nat /\ q + 1 \in Nat
      BY <2>1
    <2>3. TwoShifted[q + 1] \in Nat /\ TwoShifted[(q + 1) + 1] = 2 * TwoShifted[q + 1]
      BY <2>2, TwoShiftedDef
    <2>4. (failed + 1) \div 3 = IF failed % 3 = 2 THEN q + 1 ELSE q
      BY <2>1
    <2> QED
      BY <2>1, <2>3, <2>4 DEF Backoff
  <1> QED
    BY <1>1, <1>2

LEMMA SleptThroughFacts ==
    /\ SleptThrough(0) = 0
    /\ \A failed \in Nat :
           /\ SleptThrough(failed + 1) = SleptThrough(failed) + Backoff(failed)
           /\ 3 * Backoff(failed) <= 12 + SleptThrough(failed)
  <1>1. SleptThrough(0) = 0
    BY BackoffFacts DEF SleptThrough
  <1>2. ASSUME NEW failed \in Nat
        PROVE  /\ SleptThrough(failed + 1) = SleptThrough(failed) + Backoff(failed)
               /\ 3 * Backoff(failed) <= 12 + SleptThrough(failed)
    <2>1. PICK b \in Nat : b = Backoff(failed)
      BY BackoffFacts
    <2>2. ASSUME NEW f \in Nat, NEW r \in Nat, NEW x \in Nat, f % 3 = r, Backoff(f) = x
          PROVE  SleptThrough(f) = (3 + r) * x - 12
      BY <2>2, Zenon DEF SleptThrough
    <2>3. CASE failed % 3 = 0
      <3>1. (failed + 1) % 3 = 1 /\ Backoff(failed + 1) = b
        <4>1. (failed + 1) % 3 = 1
          BY <2>3
        <4>2. Backoff(failed + 1) = b
          BY <2>1, <2>3, BackoffFacts
        <4> QED
          BY <4>1, <4>2
      <3>2. /\ SleptThrough(failed) = (3 + 0) * b - 12
            /\ SleptThrough(failed + 1) = (3 + 1) * b - 12
        <4>1. failed + 1 \in Nat
          OBVIOUS
        <4> QED
          BY <2>1, <2>2, <2>3, <3>1, <4>1
      <3> QED
        BY <2>1, <3>2
    <2>4. CASE failed % 3 = 1
      <3>1. (failed + 1) % 3 = 2 /\ Backoff(failed + 1) = b
        <4>1. (failed + 1) % 3 = 2
          BY <2>4
        <4>2. Backoff(failed + 1) = b
          BY <2>1, <2>4, BackoffFacts
        <4> QED
          BY <4>1, <4>2
      <3>2. /\ SleptThrough(failed) = (3 + 1) * b - 12
            /\ SleptThrough(failed + 1) = (3 + 2) * b - 12
        <4>1. failed + 1 \in Nat
          OBVIOUS
        <4> QED
          BY <2>1, <2>2, <2>4, <3>1, <4>1
      <3> QED
        BY <2>1, <3>2
    <2>5. CASE failed % 3 = 2
      <3>1. (failed + 1) % 3 = 0 /\ Backoff(failed + 1) = 2 * b
        <4>1. (failed + 1) % 3 = 0
          BY <2>5
        <4>2. Backoff(failed + 1) = 2 * b
          BY <2>1, <2>5, BackoffFacts
        <4> QED
          BY <4>1, <4>2
      <3>2. /\ SleptThrough(failed) = (3 + 2) * b - 12
            /\ SleptThrough(failed + 1) = (3 + 0) * (2 * b) - 12
        <4>1. failed + 1 \in Nat
          OBVIOUS
        <4> QED
          BY <2>1, <2>2, <2>5, <3>1, <4>1
      <3> QED
        BY <2>1, <3>2
    <2>6. failed % 3 \in 0 .. 2
      OBVIOUS
    <2> QED
      BY <2>3, <2>4, <2>5, <2>6
  <1> QED
    BY <1>1, <1>2

\* A client turns to a sound state of its loop.
LEMMA TurnSound ==
    ASSUME LoopsInv, NEW k \in Clients, NEW r, LoopSound(r), Turn(k, r) PROVE LoopsInv'
  <1>1. /\ pgrok' \in [Clients -> Loop] /\ pgrok'[k] = r
        /\ \A j \in Clients : j # k => pgrok'[j] = pgrok[j]
    BY DEF LoopsInv, LoopSound, Turn
  <1>2. \A j \in Clients : LoopSound(pgrok'[j])
    BY <1>1 DEF LoopsInv
  <1> QED
    BY <1>1, <1>2 DEF LoopsInv, LoopSound

\* A client in an attempt or a tunnel fails.
LEMMA FailSound ==
    ASSUME LoopsInv, NEW k \in Clients, pgrok[k].phase \in {"dialing", "lost"}, Fail(k)
    PROVE  LoopsInv'
  <1>1. PICK r : r = pgrok[k]
    OBVIOUS
  <1>2. r \in Loop /\ r.slept = SleptThrough(r.failed) /\ r.slept \in Nat
    BY <1>1 DEF LoopsInv, LoopSound, Loop
  <1>3. PICK long \in BOOLEAN :
            LET failed == IF long THEN 0 ELSE r.failed
            IN  /\ failed <= MaxFailed
                /\ Turn(k, [r EXCEPT !.phase = "sleeping", !.failed = failed + 1,
                                     !.sleep = Backoff(failed),
                                     !.slept = IF long THEN 0 ELSE r.slept])
    BY <1>1 DEF Fail
  <1>4. PICK failed : failed = IF long THEN 0 ELSE r.failed
    OBVIOUS
  <1>5. PICK slept : slept = IF long THEN 0 ELSE r.slept
    OBVIOUS
  <1>6. PICK sleep : sleep = Backoff(failed)
    OBVIOUS
  <1>7. PICK s : s = [r EXCEPT !.phase = "sleeping", !.failed = failed + 1,
                               !.sleep = sleep, !.slept = slept]
    OBVIOUS
  <1>8. failed <= MaxFailed /\ Turn(k, s)
    BY <1>3, <1>4, <1>5, <1>6, <1>7
  <1>9. /\ failed \in Nat /\ failed + 1 \in 0 .. MaxFailed + 1
        /\ slept \in Nat /\ slept = SleptThrough(failed) /\ sleep \in Nat
    <2>1. failed \in Nat /\ slept \in Nat
      BY <1>2, <1>4, <1>5, ReconnectAssumption DEF Loop
    <2>2. slept = SleptThrough(failed)
      BY <1>2, <1>4, <1>5, SleptThroughFacts
    <2> QED
      BY <1>6, <1>8, <2>1, <2>2, BackoffFacts, ReconnectAssumption
  <1>10. s = [phase |-> "sleeping", server |-> r.server, failed |-> failed + 1,
              sleep |-> sleep, slept |-> slept, valid |-> r.valid]
    BY <1>2, <1>7 DEF Loop
  <1>11. s \in Loop
    BY <1>2, <1>9, <1>10 DEF Loop
  <1>12. LoopSound(s)
    BY <1>6, <1>9, <1>10, <1>11 DEF LoopSound
  <1> QED
    BY <1>8, <1>12, TurnSound

LEMMA LoopsStep == ASSUME LoopsInv, [Next]_vars PROVE LoopsInv'
  <1>1. CASE UNCHANGED pgrok
    BY <1>1 DEF LoopsInv, LoopSound
  <1>2. ASSUME NEW k \in Clients, NEW phase \in {"dialing", "live", "lost"},
               NEW server \in Instances \cup {NoKey},
               pgrok[k].phase \in {"dialing", "live", "lost"}
        PROVE  /\ LoopSound([pgrok[k] EXCEPT !.phase = phase, !.server = server])
               /\ LoopSound([pgrok[k] EXCEPT !.phase = phase])
    <2>1. PICK r : r = pgrok[k]
      OBVIOUS
    <2>2. r \in Loop /\ r.slept = SleptThrough(r.failed)
      BY <1>2, <2>1 DEF LoopsInv, LoopSound
    <2>3. ASSUME NEW s \in Loop, s.phase = phase, s.failed = r.failed, s.slept = r.slept
          PROVE  LoopSound(s)
      BY <2>2, <2>3 DEF LoopSound
    <2> QED
      BY <2>1, <2>2, <2>3 DEF Loop
  <1>3. ASSUME NEW k \in Clients, ClientStep(k) PROVE LoopsInv'
    <2>1. pgrok[k] \in Loop /\ LoopSound(pgrok[k])
      BY DEF LoopsInv
    <2>2. CASE Connect(k)
      BY <1>2, <2>2, TurnSound DEF Connect
    <2>3. CASE NetworkLost(k)
      BY <1>2, <2>3, TurnSound DEF NetworkLost
    <2>4. CASE AttemptFails(k) \/ TunnelEnds(k)
      BY <2>4, FailSound DEF AttemptFails, TunnelEnds
    <2>5. CASE Denied(k)
      <3>1. LoopSound([NewLoop(pgrok[k].valid) EXCEPT !.phase = "dead"])
        BY <2>1, ReconnectAssumption DEF NewLoop, Loop, LoopSound
      <3> QED
        BY <2>5, <3>1, TurnSound DEF Denied
    <2>6. CASE Wake(k)
      <3>1. PICK r : r = pgrok[k]
        OBVIOUS
      <3>2. PICK slept : slept = r.slept + r.sleep
        OBVIOUS
      <3>3. PICK s : s = [r EXCEPT !.phase = "dialing", !.sleep = 0, !.slept = slept]
        OBVIOUS
      <3>4. /\ r \in Loop /\ r.failed # 0 /\ r.failed \in Nat
            /\ r.sleep = Backoff(r.failed - 1) /\ r.slept = SleptThrough(r.failed - 1)
        BY <2>1, <2>6, <3>1 DEF Wake, LoopSound, Loop
      <3>5. slept \in Nat /\ slept = SleptThrough(r.failed)
        <4>1. r.failed - 1 \in Nat /\ (r.failed - 1) + 1 = r.failed
          BY <3>4
        <4>2. r.sleep \in Nat /\ r.slept \in Nat
          BY <3>4 DEF Loop
        <4> QED
          BY <3>2, <3>4, <4>1, <4>2, SleptThroughFacts
      <3>6. s = [phase |-> "dialing", server |-> r.server, failed |-> r.failed,
                 sleep |-> 0, slept |-> slept, valid |-> r.valid]
        BY <3>3, <3>4 DEF Loop
      <3>7. LoopSound(s)
        BY <3>4, <3>5, <3>6 DEF Loop, LoopSound
      <3>8. Turn(k, s)
        BY <2>6, <3>1, <3>2, <3>3 DEF Wake
      <3> QED
        BY <3>7, <3>8, TurnSound
    <2> QED
      BY <1>3, <2>2, <2>3, <2>4, <2>5, <2>6 DEF ClientStep
  <1>4. ASSUME NEW i \in Instances, DaemonStep(i) PROVE LoopsInv'
    <2>1. ASSUME NEW k \in Clients PROVE pgrok'[k] \in Loop /\ LoopSound(pgrok'[k])
      <3>1. CASE pgrok[k].phase = "live" /\ pgrok[k].server = i
        <4>1. pgrok'[k] = [pgrok[k] EXCEPT !.phase = "lost", !.server = NoKey]
          BY <1>4, <3>1 DEF DaemonStep
        <4>2. LoopSound([pgrok[k] EXCEPT !.phase = "lost", !.server = NoKey])
          BY <1>2, <3>1
        <4> QED
          BY <4>1, <4>2 DEF LoopSound
      <3>2. CASE ~(pgrok[k].phase = "live" /\ pgrok[k].server = i)
        BY <1>4, <3>2 DEF DaemonStep, LoopsInv, LoopSound
      <3> QED
        BY <3>1, <3>2
    <2>2. pgrok' \in [Clients -> Loop]
      BY <1>4, <2>1 DEF DaemonStep
    <2> QED
      BY <2>1, <2>2 DEF LoopsInv, LoopSound
  <1> QED
    BY <1>1, <1>3, <1>4 DEF Next, Calm, vars

LEMMA LoopsInvariance == Spec => []LoopsInv
  <1>1. Init => LoopsInv
    <2> SUFFICES ASSUME Init PROVE LoopsInv
      OBVIOUS
    <2>1. PICK valid \in [Clients -> BOOLEAN] : pgrok = [k \in Clients |-> NewLoop(valid[k])]
      BY DEF Init
    <2>2. ASSUME NEW v \in BOOLEAN PROVE NewLoop(v) \in Loop /\ LoopSound(NewLoop(v))
      BY SleptThroughFacts, ReconnectAssumption DEF NewLoop, Loop, LoopSound
    <2> QED
      BY <2>1, <2>2 DEF LoopsInv
  <1>2. LoopsInv /\ [Next]_vars => LoopsInv'
    BY LoopsStep
  <1> QED
    BY <1>1, <1>2, PTL DEF Spec

\* The instances, the host keys and the loops of the clients keep their types.
THEOREM TypeCorrect == Spec => []TypeOK
  <1>1. KeysInv /\ LoopsInv => TypeOK
    BY DEF KeysInv, KeysTypeOK, LoopsInv, TypeOK
  <1> QED
    BY <1>1, KeysInvariance, LoopsInvariance, PTL

(***************************************************************************)
(* Safety: pgrok does not outsleep the outage, however many failures in a  *)
(* row there are: the sleep is 4 s and a third of what was slept through   *)
(* at most.                                                                *)
(***************************************************************************)
THEOREM SleepFollows == Spec => []SleepFollowsOutage
  <1>1. LoopsInv => SleepFollowsOutage
    <2> SUFFICES ASSUME LoopsInv, NEW k \in Clients, pgrok[k].phase = "sleeping"
                 PROVE  3 * pgrok[k].sleep <= 12 + pgrok[k].slept
      BY DEF SleepFollowsOutage
    <2>1. PICK failed : failed = pgrok[k].failed - 1
      OBVIOUS
    <2>2. /\ failed \in Nat
          /\ pgrok[k].sleep = Backoff(failed) /\ pgrok[k].slept = SleptThrough(failed)
      BY <2>1 DEF LoopsInv, LoopSound, Loop
    <2> QED
      BY <2>2, SleptThroughFacts
  <1> QED
    BY <1>1, LoopsInvariance, PTL
=============================================================================
