------------------------------ MODULE HostKeys ------------------------------
(***************************************************************************)
(* Instances of pgrokd start over one database: main of pgrokd/cli,        *)
(* ensureHostKeys of internal/sshd/sshd.go, internal/database/host_keys.go *)
(* and internal/cryptoutil/ssh.go.  Each instance looks every host key up  *)
(* and generates the ones it misses; nothing but the unique index on the   *)
(* algorithm keeps two instances from storing two keys.                    *)
(*                                                                         *)
(* A key is known by the instance that made it and by its algorithm: an    *)
(* instance has at most one key of an algorithm stored.  An instance that  *)
(* exits is started again (docker-compose.yml 4).  Once calm, the          *)
(* environment does nothing bad any more.                                  *)
(***************************************************************************)
EXTENDS Naturals, FiniteSets

CONSTANTS Instances, NoKey

Algorithms == {"rsa", "ed25519", "ecdsa"}
Formats    == {"ssh-rsa", "ssh-ed25519", "ecdsa-sha2"}
Keys       == Instances \X Algorithms

ASSUME HostKeysAssumption == NoKey \notin Keys

VARIABLES
    stored,     \* table host_keys: the key of each algorithm, or NoKey
    daemon,     \* per instance, how far its start has come
    calm        \* no process is killed and no query fails any more

keyVars == <<stored, daemon, calm>>

Daemon == [pc : {"down", "conflict", "keys", "create", "serving"},
           todo : SUBSET Algorithms,        \* what the loop has yet to visit
           missed : Algorithms,             \* in "create", the key not found
           presented : [Formats -> Keys \cup {NoKey}]]

NewDaemon(pc) ==
    [pc |-> pc, todo |-> Algorithms, missed |-> "rsa", presented |-> [f \in Formats |-> NoKey]]

HostKeysInit ==
    /\ stored = [a \in Algorithms |-> NoKey]
    /\ daemon = [i \in Instances |-> NewDaemon("down")]
    /\ calm = FALSE

Become(i, fields) == daemon' = [daemon EXCEPT ![i] = fields]

(***************************************************************************)
(* What a client is shown.  NewECDSAPEM makes an ed25519 key, and          *)
(* AddHostKey replaces a key of the same format.                           *)
(***************************************************************************)
Format(a) == IF a = "rsa" THEN "ssh-rsa" ELSE "ssh-ed25519"

AddHostKey(i, a, key) ==
    [daemon[i] EXCEPT !.pc = "keys", !.todo = @ \ {a}, !.missed = "rsa",
                      !.presented[Format(a)] = key]
----------------------------------------------------------------------------
\* Faulty: an instance stopped by a conflict is not started again.
StartOnce(i) ==
    /\ daemon[i].pc = "down"
    /\ Become(i, NewDaemon("keys"))
    /\ UNCHANGED <<stored, calm>>

Start(i) ==
    /\ daemon[i].pc \in {"down", "conflict"}
    /\ Become(i, NewDaemon("keys"))
    /\ UNCHANGED <<stored, calm>>

\* The map of algorithms is visited in any order, anew for each start.
FindKey(i) ==
    /\ daemon[i].pc = "keys"
    /\ \E a \in daemon[i].todo :
           /\ stored[a] # NoKey
           /\ Become(i, AddHostKey(i, a, stored[a]))
    /\ UNCHANGED <<stored, calm>>

MissKey(i) ==
    /\ daemon[i].pc = "keys"
    /\ \E a \in daemon[i].todo :
           /\ stored[a] = NoKey
           /\ Become(i, [daemon[i] EXCEPT !.pc = "create", !.missed = a])
    /\ UNCHANGED <<stored, calm>>

\* Faulty: the keys are looked up once, before any is made.
CreateKeysInARow(i) ==
    LET a == daemon[i].missed
        next == AddHostKey(i, a, <<i, a>>)
    IN  /\ daemon[i].pc = "create"
        /\ \/ /\ stored[a] = NoKey
              /\ stored' = [stored EXCEPT ![a] = <<i, a>>]
              /\ IF next.todo = {} THEN Become(i, next)
                 ELSE \E b \in next.todo :
                          Become(i, [next EXCEPT !.pc = "create", !.missed = b])
           \/ /\ stored[a] # NoKey
              /\ UNCHANGED stored
              /\ Become(i, NewDaemon("conflict"))
        /\ UNCHANGED calm

\* Faulty: the insert overwrites on a conflict.
CreateOrReplaceKey(i) ==
    LET a == daemon[i].missed
    IN  /\ daemon[i].pc = "create"
        /\ stored' = [stored EXCEPT ![a] = <<i, a>>]
        /\ Become(i, AddHostKey(i, a, <<i, a>>))
        /\ UNCHANGED calm

\* Faulty: goes on with its own key when the insert fails.
CreateKeyUnchecked(i) ==
    LET a == daemon[i].missed
    IN  /\ daemon[i].pc = "create"
        /\ stored' = IF stored[a] = NoKey THEN [stored EXCEPT ![a] = <<i, a>>] ELSE stored
        /\ Become(i, AddHostKey(i, a, <<i, a>>))
        /\ UNCHANGED calm

\* The insert, under the unique index: the instance that comes second exits.
CreateKey(i) ==
    LET a == daemon[i].missed
    IN  /\ daemon[i].pc = "create"
        /\ \/ /\ stored[a] = NoKey
              /\ stored' = [stored EXCEPT ![a] = <<i, a>>]
              /\ Become(i, AddHostKey(i, a, <<i, a>>))
           \/ /\ stored[a] # NoKey
              /\ UNCHANGED stored
              /\ Become(i, NewDaemon("conflict"))
        /\ UNCHANGED calm

Listen(i) ==
    /\ daemon[i].pc = "keys" /\ daemon[i].todo = {}
    /\ Become(i, [daemon[i] EXCEPT !.pc = "serving"])
    /\ UNCHANGED <<stored, calm>>

\* A query or a listen fails, or the process is killed.
Exit(i) ==
    /\ ~calm
    /\ daemon[i].pc \in {"keys", "create", "serving"}
    /\ Become(i, NewDaemon("down"))
    /\ UNCHANGED <<stored, calm>>

\* The insert takes effect and the instance does not live to see it.
ExitAfterInsert(i) ==
    LET a == daemon[i].missed
    IN  /\ ~calm
        /\ daemon[i].pc = "create"
        /\ stored[a] = NoKey
        /\ stored' = [stored EXCEPT ![a] = <<i, a>>]
        /\ Become(i, NewDaemon("down"))
        /\ UNCHANGED calm

CalmDown ==
    /\ ~calm
    /\ calm' = TRUE
    /\ UNCHANGED <<stored, daemon>>

InstanceStep(i) ==
    \/ Start(i) \/ FindKey(i) \/ MissKey(i) \/ CreateKey(i) \/ Listen(i)
    \/ Exit(i) \/ ExitAfterInsert(i)

HostKeysNext == (\E i \in Instances : InstanceStep(i)) \/ CalmDown

HostKeysSpec == HostKeysInit /\ [][HostKeysNext]_keyVars
----------------------------------------------------------------------------
(***************************************************************************)
(* Every key an instance is about to present is the stored one of its      *)
(* algorithm, however the starts interleave: it loaded it, or its insert   *)
(* was the first.  (sshd.go 158-178, host_keys.go 15)                      *)
(***************************************************************************)
PresentedAreStored ==
    \A i \in Instances, f \in Formats :
        daemon[i].presented[f] # NoKey =>
            \E a \in Algorithms : daemon[i].presented[f] = stored[a]

(***************************************************************************)
(* A start on an empty database cannot fail for everybody: however         *)
(* instances and the algorithms they miss cross, some instance is not      *)
(* stopped by a key another one inserted first.  (sshd.go 158-172)         *)
(***************************************************************************)
SomebodyStarts == Instances # {} => \E i \in Instances : daemon[i].pc # "conflict"

(***************************************************************************)
(* A host key that was stored stays: a restart, or a start next to others, *)
(* never makes pgrokd another host.  (sshd.go 158-172)                     *)
(***************************************************************************)
StoredKeysStay == [][\A a \in Algorithms : stored[a] # NoKey => stored'[a] = stored[a]]_stored

(***************************************************************************)
(* The SSH host is the same wherever a user lands: two instances that      *)
(* serve present the same key of each format.  (sshd.go 42-48, 151-181)    *)
(***************************************************************************)
ServersAgree ==
    \A i, j \in Instances :
        (daemon[i].pc = "serving" /\ daemon[j].pc = "serving") =>
            daemon[i].presented = daemon[j].presented

(***************************************************************************)
(* Instances restart until they all serve, once nothing goes wrong any     *)
(* more: each conflict leaves one key less to miss.  (sshd.go 151-181)     *)
(***************************************************************************)
AllServe == \A i \in Instances : calm ~> daemon[i].pc = "serving"
=============================================================================
