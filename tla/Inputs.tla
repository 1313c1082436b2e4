------------------------------- MODULE Inputs -------------------------------
(***************************************************************************)
(* One use of each part of pgrok and pgrokd that has no state of its own:  *)
(* an input is chosen and becomes what the code makes of it.               *)
(***************************************************************************)
EXTENDS Identifier, Forwarding, Conf

CONSTANTS
    Identifiers,        \* what an identity provider may say
    Addresses,          \* what a user may type
    Lines,              \* a line of dynamic_forwards, cut into its fields
    RuleFiles, Default, \* dynamic_forwards, line by line, and forward_addr
    Paths,
    Files, LastPorts    \* pgrokd.yml, and last_tcp_port

ASSUME InputsAssumption ==
    /\ Identifiers \subseteq Seq(Chars)
    /\ Addresses \subseteq Seq(AddressChars)
    /\ RuleFiles \subseteq Seq(Lines)
    /\ Files \subseteq [start : Int \cup {Absent}, end : Int \cup {Absent},
                        requiredDomain : BOOLEAN, emailMapping : BOOLEAN]
    /\ LastPorts \subseteq Int
    /\ Panic \notin Int /\ NoPort \notin Int /\ Panic # NoPort
    /\ IntDigits \in Nat

VARIABLES input, output

vars == <<input, output>>

Pending == [for |-> "nothing"]

Init ==
    /\ output = Pending
    /\ \/ \E id \in Identifiers : input = [of |-> "callback", id |-> id]
       \/ \E addr \in Addresses : input = [of |-> "flags", addr |-> addr]
       \/ \E lines \in RuleFiles, path \in Paths :
              input = [of |-> "visitor", lines |-> lines, path |-> path]
       \/ \E file \in Files, last \in LastPorts :
              input = [of |-> "start", file |-> file, last |-> last]

Normalize ==
    /\ input.of = "callback"
    /\ output' = [for |-> "callback", normal |-> NormalizeIdentifier(input.id)]

Derive ==
    /\ input.of = "flags"
    /\ output' = [for |-> "flags", http |-> deriveHTTPForwardAddress(input.addr),
                  tcp |-> deriveTCPForwardAddress(input.addr)]

Forward ==
    /\ input.of = "visitor"
    /\ \/ /\ Refuses(input.lines, Default)
          /\ output' = [for |-> "error"]
       \/ /\ ~Refuses(input.lines, Default)
          /\ \E address \in Forwards(input.lines, Default, input.path) :
                 output' = [for |-> "visitor", address |-> address]

\* pgrokd does not start with a configuration that Load refuses.
StartAndTunnel ==
    /\ input.of = "start"
    /\ LET config == Load(input.file)
       IN  \/ /\ ~config.ok
              /\ output' = [for |-> "error"]
           \/ /\ config.ok
              /\ \E port \in TunnelPorts(config, input.last) :
                     output' = [for |-> "start", port |-> port]

Next ==
    /\ output = Pending
    /\ UNCHANGED input
    /\ Normalize \/ Derive \/ Forward \/ StartAndTunnel

Spec == Init /\ [][Next]_vars
----------------------------------------------------------------------------
\* Every subdomain is one that IsNormal allows.
SubdomainsAreNormal == output.for = "callback" => IsNormal(input.id, output.normal)

\* Every derived address is complete, in the sense of IsComplete.
AddressesAreComplete == output.for = "flags" => IsComplete(input.addr, output.http, output.tcp)

\* Every request of a visitor follows the rules, in the sense of FollowsRules, and
\* goes to no address that is none. (handler.go 24-37)
RequestsFollowRules ==
    output.for = "visitor" =>
        /\ FollowsRules(input.lines, Default, input.path, output.address)
        /\ output.address \notin Unparsable

\* Every TCP tunnel gets a port as RangeIsKept says, and a daemon that requires
\* a domain knows the e-mail addresses it is to compare (web_server.go 219).
PortsAreInRange ==
    output.for = "start" =>
        /\ RangeIsKept(input.file, output.port)
        /\ input.file.requiredDomain => input.file.emailMapping
=============================================================================
