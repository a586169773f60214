---------------------------- MODULE ManifestLines ----------------------------
(***************************************************************************)
(* The lines of a SHA-256 manifest (sha256sum.rs): what parsing makes of   *)
(* them.  A line is a sequence of tokens: a run of 64 hexadecimal digits,  *)
(* a blank, an asterisk, the two fixed parts of a BSD line, a comment sign,*)
(* and other text.                                                         *)
(***************************************************************************)
EXTENDS Integers, Sequences

Digest == "64 digits"
Blank  == " "
Star   == "*"
Open   == "SHA256 ("
Close  == ") = "
Signs  == {"#", ";"}
Tokens == {Digest, Blank, Star, Open, Close, "text"} \cup Signs

\* Up to the first, and from the first, token that satisfies a test.
Where(s, Test(_)) == {i \in 1..Len(s) : Test(s[i])}
First(S) == CHOOSE i \in S : \A j \in S : i <= j
Last(S)  == CHOOSE i \in S : \A j \in S : i >= j

NotBlank(token) == token # Blank

TrimStart(s) ==
    LET S == Where(s, NotBlank) IN
    IF S = {} THEN <<>> ELSE SubSeq(s, First(S), Len(s))

Trim(s) ==
    LET S == Where(s, NotBlank) IN
    IF S = {} THEN <<>> ELSE SubSeq(s, First(S), Last(S))

Nothing == [entry |-> FALSE, name |-> <<>>]
Entry(name) == [entry |-> TRUE, name |-> name]

\* Mutant: the sign of a binary line stays with the name.
GnuWithSign(line) ==
    LET rest == TrimStart(Tail(line)) IN
    IF line = <<>> \/ Head(line) # Digest \/ rest = <<>> THEN Nothing ELSE Entry(rest)

\* A digest, blanks or none of them, one asterisk or none, the name.
Gnu(line) ==
    LET rest == TrimStart(Tail(line)) IN
    IF line = <<>> \/ Head(line) # Digest \/ rest = <<>> THEN Nothing
    ELSE Entry(IF Head(rest) = Star THEN Tail(rest) ELSE rest)

\* The name ends where the closing part stands first.
Bsd(line) ==
    LET closes == Where(line, LAMBDA token : token = Close)
        at     == First(closes)
    IN  IF \/ line = <<>> \/ Head(line) # Open
           \/ closes = {}
           \/ Trim(SubSeq(line, at + 1, Len(line))) # <<Digest>>
        THEN Nothing
        ELSE Entry(SubSeq(line, 2, at - 1))

\* What becomes of a line: left out, skipped and counted, or an entry.
Parse(raw) ==
    LET line == Trim(raw) IN
    IF line = <<>> \/ Head(line) \in Signs
    THEN [kind |-> "left out", name |-> <<>>]
    ELSE LET parsed == IF Gnu(line).entry THEN Gnu(line) ELSE Bsd(line) IN
         [kind |-> IF parsed.entry THEN "entry" ELSE "skipped", name |-> parsed.name]
=============================================================================
