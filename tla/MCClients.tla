------------------------------ MODULE MCClients ------------------------------
(***************************************************************************)
(* The kinds of clients of the small instances.                            *)
(***************************************************************************)
EXTENDS Tunnel

\* pgrok (pgrok/cli/http.go 154-239) for each protocol
Pgrok(protocol) == [script |-> <<Hint(protocol), Forward(0), Info(protocol)>>,
                    serial |-> TRUE, cancels |-> FALSE]

\* pgrok from before "hint"; a newer one whose protocol this daemon lacks
Legacy(protocol) == [script |-> <<Forward(0), Info(protocol)>>,
                     serial |-> TRUE, cancels |-> FALSE]
FutureClient == Pgrok("other")

\* ssh -N -R 0::3000 (README.md 134-146), with more or other -R options
Vanilla(forwards, cancels) == [script |-> forwards, serial |-> FALSE, cancels |-> cancels]

\* pgrok that may close its listener before it exits (http.go 184)
ClosingKind == {[Pgrok("http") EXCEPT !.cancels = TRUE]}

\* A client that asks "server-info" before its forward is granted, or refused
Early(script) == Vanilla(script, FALSE)

PgrokKinds  == ClosingKind \cup {Pgrok("tcp")}
SerialKinds == {Pgrok("http"), Pgrok("tcp"), Legacy("http"), Legacy("tcp"), FutureClient}
SshKinds    == {Vanilla(<<Forward(0), Forward(0)>>, FALSE),
                Vanilla(<<Forward(8080)>>, FALSE), Vanilla(<<Forward(0), Keepalive>>, TRUE)}
EarlyKinds  == {Early(<<Info("http"), Forward(0)>>), Early(<<Forward(8080), Info("http")>>),
                Early(<<Forward(0), Info("http")>>)}
AllKinds    == SerialKinds \cup SshKinds \cup EarlyKinds
TwoForwards == {Vanilla(<<Forward(0), Forward(0)>>, FALSE)}
LegacyKinds == {Legacy("tcp")}
=============================================================================
