----------------------------- MODULE Forwarding -----------------------------
(***************************************************************************)
(* Where pgrok sends what comes through the tunnel: the addresses it       *)
(* derives (pgrok/cli/init.go 46-70, tcp.go 44-63) and the rules of its    *)
(* forward handler (http.go 72-96, internal/dynamicforward/handler.go).    *)
(*                                                                         *)
(* Addresses, paths and prefixes are sequences of characters; "1" stands   *)
(* for the digits but "0", "h" for the letters, and "http" and "localhost" *)
(* are one element each.                                                   *)
(***************************************************************************)
EXTENDS Naturals, SequencesExt

CONSTANTS
    IntDigits,  \* bound: a number of so many digits fits into an int
    Unparsable  \* the addresses that url.Parse gives an error for

Digits == {"0", "1"}
AddressChars == Digits \cup {"+", "-", ":", "/", "h"}

\* strconv.Atoi takes one sign and any zeros, and gives an error out of range.
Unsigned(s) == IF s # <<>> /\ Head(s) \in {"+", "-"} THEN Tail(s) ELSE s

LeadingZeros(digits) == {i \in DOMAIN digits : \A j \in 1 .. i : digits[j] = "0"}

Value(digits) ==
    LET zeros == Cardinality(LeadingZeros(digits))
    IN  IF zeros = Len(digits) THEN <<"0">> ELSE SubSeq(digits, zeros + 1, Len(digits))

IsNumber(s) ==
    LET digits == Unsigned(s)
    IN  /\ digits # <<>>
        /\ \A i \in DOMAIN digits : digits[i] \in Digits
        /\ Len(Value(digits)) <= IntDigits

\* fmt's %d of the number.
Printed(s) ==
    LET value == Value(Unsigned(s))
    IN  IF Head(s) = "-" /\ value # <<"0">> THEN <<"-">> \o value ELSE value

HasScheme(addr) ==
    \E i \in DOMAIN addr : i + 2 <= Len(addr) /\ SubSeq(addr, i, i + 2) = <<":", "/", "/">>

Scheme == <<"http", ":", "/", "/">>

\* The port is all there is, or all but one character, whichever that is.
LocalPort(addr) ==
    IF IsNumber(addr) THEN <<"localhost", ":">> \o Printed(addr)
    ELSE IF IsNumber(Tail(addr)) THEN <<"localhost", ":">> \o Printed(Tail(addr))
    ELSE <<>>

\* Faulty: looks for the scheme first.
deriveHTTPSchemeFirst(addr) ==
    IF addr = <<>> THEN <<>> ELSE IF HasScheme(addr) THEN addr ELSE Scheme \o addr

deriveHTTPForwardAddress(addr) ==
    IF addr = <<>> THEN <<>>
    ELSE IF LocalPort(addr) # <<>> THEN Scheme \o LocalPort(addr)
    ELSE IF HasScheme(addr) THEN addr
    ELSE Scheme \o addr

deriveTCPForwardAddress(addr) ==
    IF addr = <<>> THEN <<>>
    ELSE IF LocalPort(addr) # <<>> THEN LocalPort(addr)
    ELSE addr
----------------------------------------------------------------------------
\* Faulty: the first rule of a prefix stays.
PutNew(proxies, prefix, address) ==
    [known \in {prefix} \cup DOMAIN proxies |->
        IF known \in DOMAIN proxies THEN proxies[known] ELSE address]

\* The map keeps the later of two rules with one prefix.
Put(proxies, prefix, address) ==
    [known \in {prefix} \cup DOMAIN proxies |->
        IF known = prefix THEN address ELSE proxies[known]]

\* The map after n lines; lines without exactly two fields are skipped.
Proxies(lines) ==
    LET after[n \in 0 .. Len(lines)] ==
            IF n = 0 THEN <<>>
            ELSE IF Len(lines[n]) = 2 THEN Put(after[n - 1], lines[n][1], lines[n][2])
            ELSE after[n - 1]
    IN  after[Len(lines)]

\* pgrok exits when it cannot parse the address of any rule, replaced or not.
Refuses(lines, default) ==
    \/ default \in Unparsable
    \/ \E i \in DOMAIN lines : Len(lines[i]) = 2 /\ lines[i][2] \in Unparsable

\* A request goes to the first match in the order the map is visited in, which
\* is another for each request.
Forwards(lines, default, path) ==
    LET proxies == Proxies(lines)
        matches == {prefix \in DOMAIN proxies : IsPrefix(prefix, path)}
    IN  IF matches = {} THEN {default} ELSE {proxies[prefix] : prefix \in matches}

(***************************************************************************)
(* A derived address can be stored and derived again: it has a scheme for  *)
(* HTTP, none that was not given for TCP, and a port alone that fits into  *)
(* an int, with or without its colon, is a port of this host, the same one *)
(* however it is written.  (init.go 46-70, tcp.go 44-63; the flag's        *)
(* Action, Coalesce and "pgrok init" all hand it on.)                      *)
(***************************************************************************)
IsComplete(addr, http, tcp) ==
    /\ http # <<>> <=> addr # <<>>
    /\ http # <<>> => HasScheme(http)
    /\ HasScheme(tcp) => HasScheme(addr)
    /\ deriveHTTPForwardAddress(http) = http /\ deriveTCPForwardAddress(tcp) = tcp
    /\ \A port \in {addr, <<":">> \o addr, <<"0">> \o addr} :
           IsNumber(addr) /\ Head(addr) \in Digits =>
               /\ deriveTCPForwardAddress(port) = <<"localhost", ":">> \o Value(addr)
               /\ deriveHTTPForwardAddress(port) = Scheme \o deriveTCPForwardAddress(port)

(***************************************************************************)
(* A request goes where a rule sends it that no later rule of the same     *)
(* prefix replaces, to the default only when no rule has its path, and to  *)
(* one address only when no two prefixes it has disagree.  (README.md 132, *)
(* handler.go 48-56)                                                       *)
(***************************************************************************)
FollowsRules(lines, default, path, used) ==
    LET rules == {i \in DOMAIN lines : Len(lines[i]) = 2 /\ IsPrefix(lines[i][1], path)}
        last  == {i \in rules : \A j \in rules : j > i => lines[j][1] # lines[i][1]}
    IN  IF rules = {} THEN used = default
        ELSE \E i \in last : used = lines[i][2]
=============================================================================
