----------------------------- MODULE Reconnect -----------------------------
(***************************************************************************)
(* pgrok's loop around tryConnect (pgrok/cli/http.go 102-125, tcp.go       *)
(* 83-106) against instances of pgrokd that start, exit and start again.   *)
(*                                                                         *)
(* Of time only what the loop looks at: whether an attempt, the tunnel it  *)
(* set up included, took over a minute since the last sleep, and how many  *)
(* seconds it sleeps.                                                      *)
(***************************************************************************)
EXTENDS HostKeys

CONSTANTS
    Clients,
    MaxFailed       \* bound on the failures in a row that are looked at

ASSUME ReconnectAssumption == MaxFailed \in Nat

VARIABLE pgrok      \* per client, the state of its loop

vars == <<stored, daemon, calm, pgrok>>

\* slept adds up the sleeps since the last attempt of over a minute; the code
\* does not keep it.
Loop == [phase : {"dialing", "live", "lost", "sleeping", "dead"},
         server : Instances \cup {NoKey}, failed : 0 .. MaxFailed + 1,
         sleep : Nat, slept : Nat,
         valid : BOOLEAN]       \* whether its token is a principal's

NewLoop(valid) == [phase |-> "dialing", server |-> NoKey, failed |-> 0,
                   sleep |-> 0, slept |-> 0, valid |-> valid]

Init ==
    /\ HostKeysInit
    /\ \E valid \in [Clients -> BOOLEAN] : pgrok = [k \in Clients |-> NewLoop(valid[k])]

Turn(k, fields) == pgrok' = [pgrok EXCEPT ![k] = fields]

\* 2<<n.
TwoShifted[n \in Nat] == IF n = 0 THEN 2 ELSE 2 * TwoShifted[n - 1]

\* Faulty: doubles with every failure.
BackoffDoublingAlways(failed) == TwoShifted[failed + 1]

\* In seconds: 2<<(failed/3+1).
Backoff(failed) == TwoShifted[(failed \div 3) + 1]

\* Faulty: counts a failure in the body of the loop and in its head.
FailCountedTwice(k) ==
    /\ pgrok[k].failed <= MaxFailed
    /\ Turn(k, [pgrok[k] EXCEPT !.phase = "sleeping",
                                !.failed = @ + 2, !.sleep = Backoff(pgrok[k].failed)])

\* tryConnect has failed, over a minute after the last sleep or sooner.
Fail(k) ==
    \E long \in BOOLEAN :
        LET failed == IF long THEN 0 ELSE pgrok[k].failed
        IN  /\ failed <= MaxFailed
            /\ Turn(k, [pgrok[k] EXCEPT
                   !.phase = "sleeping",
                   !.failed = failed + 1, !.sleep = Backoff(failed),
                   !.slept = IF long THEN 0 ELSE @])
----------------------------------------------------------------------------
Serving(i) == daemon[i].pc = "serving"

\* The password callback finds the principal, and forward and server-info are granted.
Connect(k) ==
    /\ pgrok[k].phase = "dialing" /\ pgrok[k].valid
    /\ \E i \in Instances :
           Serving(i) /\ Turn(k, [pgrok[k] EXCEPT !.phase = "live", !.server = i])
    /\ UNCHANGED keyVars

(***************************************************************************)
(* The password callback returns an error, for a token nobody has as well  *)
(* as for a query that failed: "no supported methods remain" is all the    *)
(* client learns, and pgrok exits.                                         *)
(***************************************************************************)
Denied(k) ==
    /\ pgrok[k].phase = "dialing"
    /\ ~pgrok[k].valid \/ ~calm
    /\ \E i \in Instances : Serving(i)
    /\ Turn(k, [NewLoop(pgrok[k].valid) EXCEPT !.phase = "dead"])
    /\ UNCHANGED keyVars

\* No instance answers there, or the network or a request of the exchange fails.
AttemptFails(k) ==
    /\ pgrok[k].phase = "dialing"
    /\ ~calm \/ \E i \in Instances : ~Serving(i)
    /\ Fail(k)
    /\ UNCHANGED keyVars

NetworkLost(k) ==
    /\ ~calm
    /\ pgrok[k].phase = "live"
    /\ Turn(k, [pgrok[k] EXCEPT !.phase = "lost", !.server = NoKey])
    /\ UNCHANGED keyVars

\* Faulty: the end of a tunnel is the end of the program.
TunnelEndsAll(k) ==
    /\ pgrok[k].phase = "lost"
    /\ Turn(k, [NewLoop(pgrok[k].valid) EXCEPT !.phase = "dead"])
    /\ UNCHANGED keyVars

\* Accept returns an error.
TunnelEnds(k) ==
    /\ pgrok[k].phase = "lost"
    /\ Fail(k)
    /\ UNCHANGED keyVars

Wake(k) ==
    /\ pgrok[k].phase = "sleeping"
    /\ Turn(k, [pgrok[k] EXCEPT !.phase = "dialing", !.sleep = 0,
                               !.slept = @ + pgrok[k].sleep])
    /\ UNCHANGED keyVars

ClientStep(k) ==
    \/ Connect(k) \/ Denied(k) \/ AttemptFails(k) \/ NetworkLost(k)
    \/ TunnelEnds(k) \/ Wake(k)

\* The tunnels of a process go with it.
DaemonStep(i) ==
    /\ InstanceStep(i)
    /\ pgrok' = [k \in Clients |->
           IF pgrok[k].phase = "live" /\ pgrok[k].server = i
           THEN [pgrok[k] EXCEPT !.phase = "lost", !.server = NoKey] ELSE pgrok[k]]

Calm == CalmDown /\ UNCHANGED pgrok

Next ==
    \/ \E i \in Instances : DaemonStep(i)
    \/ \E k \in Clients : ClientStep(k)
    \/ Calm

Spec == Init /\ [][Next]_vars

(***************************************************************************)
(* Processes run, queries return, an instance that exited is started again *)
(* (docker-compose.yml 4), and a lost transport is noticed: Go's dialer    *)
(* and listener keep TCP alive.  Nothing says that calm ever comes.        *)
(***************************************************************************)
FairSpec ==
    /\ Spec
    /\ \A i \in Instances : WF_vars(DaemonStep(i))
    /\ \A k \in Clients : WF_vars(ClientStep(k))
----------------------------------------------------------------------------
TypeOK ==
    /\ stored \in [Algorithms -> Keys \cup {NoKey}]
    /\ daemon \in [Instances -> Daemon]
    /\ calm \in BOOLEAN
    /\ pgrok \in [Clients -> Loop]

(***************************************************************************)
(* pgrok does not outsleep the outage: when it goes to sleep, it is for    *)
(* 4 s and a third of what it has slept through at most.  (http.go 102-124)*)
(***************************************************************************)
SleepFollowsOutage ==
    \A k \in Clients :
        pgrok[k].phase = "sleeping" => 3 * pgrok[k].sleep <= 12 + pgrok[k].slept

(***************************************************************************)
(* A pgrok that is still there when the trouble is over gets its tunnel    *)
(* back, without anybody doing anything: the instances find or make the    *)
(* keys, and the loop dials until one serves.  (http.go 103-125)           *)
(***************************************************************************)
Reconnects ==
    \A k \in Clients :
        (calm /\ pgrok[k].valid /\ pgrok[k].phase # "dead") ~> pgrok[k].phase = "live"
=============================================================================
