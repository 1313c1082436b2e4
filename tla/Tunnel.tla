------------------------------- MODULE Tunnel -------------------------------
(***************************************************************************)
(* The SSH daemon and the clients of its tunnels.                          *)
(*                                                                         *)
(* A client follows the script of its kind: the global requests it sends,  *)
(* in order.  A serial client (pgrok, tryConnect of pgrok/cli/http.go)     *)
(* waits for each reply before the next request; the others (the OpenSSH   *)
(* client of the README) send everything at once.  The transport may be    *)
(* lost at any step, and pgrokd may crash.  pgrok dials again after a      *)
(* failure with a connection of its own and leaves the old one open, so    *)
(* Dial needs no more than a free slot.                                    *)
(***************************************************************************)
EXTENDS Sshd

CONSTANTS
    Kinds,          \* the clients there are
    MayCrash        \* whether pgrokd may crash and be started again

Step == [type : {"hint", "forward", "info", "keepalive"},
         protocol : Protocols \cup {""}, rport : Nat]

ASSUME TunnelAssumption ==
    /\ MayCrash \in BOOLEAN
    /\ \A k \in Kinds : /\ k.script \in Seq(Step)
                        /\ Len(k.script) < MaxRequests
                        /\ k.serial \in BOOLEAN
                        /\ k.cancels \in BOOLEAN

VARIABLE peer       \* per connection, the client's side of it

vars == <<dbPort, proxies, client, handler, inbox, outbox, peer>>

Peer == [status : {"running", "cancelling", "abandoned"}, kind : Kinds,
         sent : Nat, heard : Nat, host : Host \cup {NoHost}, port : Ports \cup {0}]

NewPeer(k) == [status |-> "running", kind |-> k, sent |-> 0, heard |-> 0,
               host |-> NoHost, port |-> 0]

Gone == [status |-> "gone"]

Hint(protocol) == [type |-> "hint", protocol |-> protocol, rport |-> 0]
Forward(rport) == [type |-> "forward", protocol |-> "", rport |-> rport]
Info(protocol) == [type |-> "info", protocol |-> protocol, rport |-> 0]
Keepalive      == [type |-> "keepalive", protocol |-> "", rport |-> 0]
CancelForward  == [type |-> "cancel", protocol |-> "", rport |-> 0]

Script(c)  == peer[c].kind.script
UpdatePeer(c, fields) == peer' = [peer EXCEPT ![c] = fields]
Running(c) == peer[c].status = "running"

Init == SshdInit /\ peer = [c \in Conns |-> Gone]
----------------------------------------------------------------------------
\* The client's steps

Dial(c, k) ==
    /\ peer[c] = Gone
    /\ Handshake(c)
    /\ UpdatePeer(c, NewPeer(k))

SendRequest(c, step) ==
    inbox' = [inbox EXCEPT ![c] = Append(@,
                 [n |-> peer[c].sent + 1, type |-> step.type,
                  protocol |-> step.protocol, rport |-> step.rport])]

SendNext(c) ==
    /\ Running(c)
    /\ peer[c].sent < Len(Script(c))
    /\ peer[c].kind.serial => peer[c].heard = peer[c].sent
    /\ SendRequest(c, Script(c)[peer[c].sent + 1])
    /\ UpdatePeer(c, [peer[c] EXCEPT !.sent = @ + 1])
    /\ UNCHANGED <<dbPort, proxies, client, handler, outbox>>

\* pgrok closes its remote listener when "server-info" is denied; a user of
\* OpenSSH cancels a forward when he likes.
SendCancel(c) ==
    /\ \/ peer[c].status = "cancelling"
       \/ /\ Running(c) /\ peer[c].kind.cancels /\ peer[c].sent = Len(Script(c))
          /\ peer[c].kind.serial => peer[c].heard = peer[c].sent
    /\ SendRequest(c, CancelForward)
    /\ UpdatePeer(c, [peer[c] EXCEPT !.status = "abandoned", !.sent = peer[c].sent + 1])
    /\ UNCHANGED <<dbPort, proxies, client, handler, outbox>>

(***************************************************************************)
(* The client takes a reply for the answer to its oldest open request:     *)
(* RFC 4254 has replies arrive in the order of the requests.  pgrok ignores*)
(* a denied hint and gives up on the connection, without closing it, after *)
(* any other denial.                                                       *)
(***************************************************************************)
Answered(c) ==
    IF peer[c].heard < Len(Script(c)) THEN Script(c)[peer[c].heard + 1].type
                                      ELSE "cancel"

StatusAfter(c, ok) ==
    IF ok \/ ~Running(c) \/ ~peer[c].kind.serial THEN peer[c].status
    ELSE CASE Answered(c) = "forward" -> "abandoned"
           [] Answered(c) = "info"    -> "cancelling"
           [] OTHER                   -> "running"

HearReply(c) ==
    /\ outbox[c] # <<>>
    /\ LET reply == Head(outbox[c])
       IN  UpdatePeer(c, [peer[c] EXCEPT
               !.heard  = peer[c].heard + 1,
               !.status = StatusAfter(c, reply.ok),
               !.host   = IF reply.host # NoHost THEN reply.host ELSE peer[c].host,
               !.port   = IF reply.port # 0 THEN reply.port ELSE peer[c].port])
    /\ outbox' = [outbox EXCEPT ![c] = Tail(@)]
    /\ UNCHANGED <<dbPort, proxies, client, handler, inbox>>

\* The transport ends, by the client's exit or by the network; requests the
\* daemon has not received are lost, the ones it has are still served.
Drop(c) ==
    /\ client[c].up
    /\ Update(c, [client[c] EXCEPT !.up = FALSE])
    /\ \E received \in (IF client[c].state = "awaiting" THEN 1 ELSE 0) .. Len(inbox[c]) :
           inbox' = [inbox EXCEPT ![c] = SubSeq(@, 1, received)]
    /\ outbox' = [outbox EXCEPT ![c] = <<>>]
    /\ UpdatePeer(c, Gone)
    /\ UNCHANGED <<dbPort, proxies, handler>>
----------------------------------------------------------------------------
\* The daemon's steps

RequestLoopStep(c) ==
    /\ RequestLoop(c)
    /\ peer' = IF client[c].up /\ ~client'[c].up THEN [peer EXCEPT ![c] = Gone] ELSE peer

GoroutineStep(c, n) == Goroutine(c, n) /\ UNCHANGED peer

WaiterStep(c) == WaiterCancels(c) /\ UNCHANGED peer

\* Everything but the database is lost; pgrokd starts with a new cluster.
Crash ==
    /\ MayCrash
    /\ proxies' = NewCluster(Host)
    /\ client' = [c \in Conns |-> NewClient(c, "closed", FALSE)]
    /\ handler' = [c \in Conns |-> [n \in Numbers |-> Idle]]
    /\ inbox' = [c \in Conns |-> <<>>]
    /\ outbox' = [c \in Conns |-> <<>>]
    /\ peer' = [c \in Conns |-> Gone]
    /\ UNCHANGED dbPort

ConnStep(c) ==
    \/ \E k \in Kinds : Dial(c, k)
    \/ SendNext(c) \/ SendCancel(c) \/ HearReply(c) \/ Drop(c)
    \/ RequestLoopStep(c) \/ WaiterStep(c)
    \/ \E n \in Numbers : GoroutineStep(c, n)

Next == (\E c \in Conns : ConnStep(c)) \/ Crash

Spec == Init /\ [][Next]_vars

(***************************************************************************)
(* Goroutines that can run do run, and the operations they call (the       *)
(* database, net.Listen) return.  pgrok's own steps are fair; a user's     *)
(* steps, losses and crashes are not.                                      *)
(***************************************************************************)
PgrokStep(c) ==
    /\ peer[c] # Gone /\ peer[c].kind.serial
    /\ SendNext(c) \/ HearReply(c) \/ (peer[c].status = "cancelling" /\ SendCancel(c))

Fairness ==
    \A c \in Conns :
        /\ WF_vars(RequestLoopStep(c))
        /\ WF_vars(WaiterStep(c))
        /\ WF_vars(PgrokStep(c))
        /\ \A n \in Numbers : WF_vars(GoroutineStep(c, n))

FairSpec == Spec /\ Fairness
=============================================================================
