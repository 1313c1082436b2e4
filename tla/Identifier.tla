----------------------------- MODULE Identifier -----------------------------
(***************************************************************************)
(* NormalizeIdentifier of internal/userutil/userutil.go: the subdomain of  *)
(* a user.                                                                 *)
(*                                                                         *)
(* An identifier is a sequence of characters, one for each class the       *)
(* regular expressions tell apart: "A" and "a" for the letters, digits and *)
(* underscores, "+" for all that \w, "-" and "." do not cover.             *)
(***************************************************************************)
EXTENDS Naturals, Sequences, FiniteSets

Chars == {"a", "A", "-", ".", "@", "+"}

IsSeparator(char) == char \in {"-", "."}

\* The part before the "@" of what looks like an e-mail address.
LocalPart(id) ==
    LET ats == {i \in DOMAIN id : id[i] = "@"}
    IN  IF Cardinality(ats) = 1 THEN SubSeq(id, 1, (CHOOSE i \in ats : TRUE) - 1) ELSE id

ReplaceDisallowed(id) == [i \in DOMAIN id |-> IF id[i] \in {"@", "+"} THEN "-" ELSE id[i]]

\* A run of two separators or more becomes one dash; a lone period stays.
Extend(soFar, char) ==
    IF IsSeparator(char) /\ soFar # <<>> /\ IsSeparator(soFar[Len(soFar)])
    THEN [soFar EXCEPT ![Len(soFar)] = "-"]
    ELSE Append(soFar, char)

Collapse(id) ==
    LET after[n \in 0 .. Len(id)] == IF n = 0 THEN <<>> ELSE Extend(after[n - 1], id[n])
    IN  after[Len(id)]

TrimFirst(id) == IF id # <<>> /\ IsSeparator(Head(id)) THEN Tail(id) ELSE id

TrimLast(id) ==
    IF id # <<>> /\ id[Len(id)] = "." THEN SubSeq(id, 1, Len(id) - 1) ELSE id

ToLower(id) == [i \in DOMAIN id |-> IF id[i] = "A" THEN "a" ELSE id[i]]

\* Faulty: trims before it collapses.
NormalizeTrimmedFirst(id) ==
    ToLower(Collapse(TrimLast(TrimFirst(ReplaceDisallowed(LocalPart(id))))))

\* <<>> stands for the error.
NormalizeIdentifier(id) ==
    ToLower(TrimLast(TrimFirst(Collapse(ReplaceDisallowed(LocalPart(id))))))

IsLetter(char) == char \in {"a", "A"}

KeepLetter(soFar, char) == IF IsLetter(char) THEN Append(soFar, char) ELSE soFar

Letters(id) ==
    LET after[n \in 0 .. Len(id)] == IF n = 0 THEN <<>> ELSE KeepLetter(after[n - 1], id[n])
    IN  after[Len(id)]

(***************************************************************************)
(* What a subdomain may look like, and what of the identifier it keeps:    *)
(* no period or dash at its start, no period at its end, no two in a row,  *)
(* the letters of the local part in their order, and nothing changes when  *)
(* it is normalized again.  There is no subdomain only when there is no    *)
(* letter.  (userutil.go 16-24)                                            *)
(***************************************************************************)
IsNormal(id, normal) ==
    /\ \A i \in DOMAIN normal : normal[i] \in {"a", "-", "."}
    /\ \A i \in DOMAIN normal :
           IsSeparator(normal[i]) =>
               /\ i > 1 /\ ~IsSeparator(normal[i - 1])
               /\ normal[i] = "." => i < Len(normal)
    /\ Letters(normal) = ToLower(Letters(LocalPart(id)))
    /\ normal # <<>> => Letters(normal) # <<>>
    /\ NormalizeIdentifier(normal) = normal
=============================================================================
