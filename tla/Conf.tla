-------------------------------- MODULE Conf --------------------------------
(***************************************************************************)
(* Load of internal/conf/conf.go, as far as the rest of pgrokd depends on  *)
(* it, and the port that a TCP tunnel gets from what was loaded (Client.   *)
(* handleTCPIPForward and acquireAvailablePort of sshd/client.go).         *)
(*                                                                         *)
(* A file is a record of the settings it may leave out (Absent).  The      *)
(* defaults are set on an empty configuration, before the file is read, so *)
(* what the file says is kept, zero and negative numbers too.              *)
(***************************************************************************)
EXTENDS Integers

CONSTANTS
    Absent,
    Panic,      \* the end of pgrokd instead of a port
    NoPort      \* an error instead of a port

Given(value, default) == IF value = Absent THEN default ELSE value

\* Faulty: both ends have one default.
LoadOneDefault(file) ==
    [ok |-> file.requiredDomain => file.emailMapping,
     start |-> Given(file.start, 10000), end |-> Given(file.end, 10000)]

\* A required domain without a mapping of the e-mail address is an error.
Load(file) ==
    [ok |-> file.requiredDomain => file.emailMapping,
     start |-> Given(file.start, 10000), end |-> Given(file.end, 15000)]

\* What net.Listen may take.
IsPort(port) == 0 <= port /\ port <= 65535

\* rand.Intn panics when its argument is not positive.  The ends of the range
\* that can be listened on stand for all of it.  A hundred draws may find nothing
\* but ports that are busy or are none.
acquireAvailablePort(start, end) ==
    LET first == IF start < 0 THEN 0 ELSE start
        last  == IF end > 65536 THEN 65535 ELSE end - 1
    IN  IF end - start <= 0 THEN {Panic}
        ELSE {NoPort} \cup (IF first <= last THEN {first, last} ELSE {})

\* The port of the last time, 0 if there was none, may be busy.
TunnelPorts(config, last) ==
    acquireAvailablePort(config.start, config.end)
        \cup {port \in {last} : /\ config.start <= port /\ port < config.end
                                /\ IsPort(port)}

(***************************************************************************)
(* A TCP tunnel gets a port of the range that the file and the defaults    *)
(* make, whatever port the user had under an older file, or an error, even *)
(* when the range has no port in it.  pgrokd panics only when that range   *)
(* is empty, which takes two ends that are not in order or one beyond the  *)
(* default of the other; and the port is 0, which has the system choose    *)
(* one nobody is told of, only when the file names a start below 1.        *)
(* (conf.go 66-77, client.go 82-91, 236-247)                               *)
(***************************************************************************)
RangeIsKept(file, port) ==
    LET inOrder == /\ (file.start # Absent /\ file.end # Absent) => file.start < file.end
                   /\ (file.start # Absent /\ file.end = Absent) => file.start < 15000
                   /\ (file.start = Absent /\ file.end # Absent) => 10000 < file.end
    IN  /\ port = Panic => ~inOrder
        /\ port # Panic => inOrder
        /\ port \notin {Panic, NoPort} =>
               /\ IsPort(port)
               /\ file.start # Absent => file.start <= port
               /\ file.start = Absent => 10000 <= port
               /\ file.end # Absent => port < file.end
               /\ file.end = Absent => port < 15000
               /\ port = 0 => file.start # Absent /\ file.start < 1
=============================================================================
