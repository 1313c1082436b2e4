------------------------------ MODULE MCInputs ------------------------------
(***************************************************************************)
(* All short inputs, and the numbers around the ends of the port range.    *)
(***************************************************************************)
EXTENDS Inputs

CONSTANTS a1, a2, bad, default

UpTo(n, S) == UNION {[1 .. k -> S] : k \in 0 .. n}

ShortIdentifiers == UpTo(5, Chars)
ShortAddresses   == UpTo(5, AddressChars)

\* RulePrefixes that overlap, one that no path has, and lines with one field
RulePrefixes   == {<<"/">>, <<"/", "a">>, <<"/", "a", "b">>, <<"a">>}
AllLines   == {<<prefix, address>> : prefix \in RulePrefixes, address \in {a1, a2}}
                  \cup {<<<<"/">>>>, <<<<"a">>, bad>>}
ShortFiles == UpTo(3, AllLines)
ShortPaths == {<<"/">>, <<"/", "a">>, <<"/", "b">>, <<"/", "a", "b">>, <<"/", "a", "a">>}

Ends      == {Absent, -1, 0, 1, 9999, 10000, 10001, 14999, 15000, 20000,
              65535, 65536, 65537, 70000}
ConfFiles == [start : Ends, end : Ends, requiredDomain : BOOLEAN, emailMapping : BOOLEAN]
SomePorts == {0, 1, 9999, 10000, 14999, 15000, 17000, 65535}
=============================================================================
