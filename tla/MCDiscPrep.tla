----------------------------- MODULE MCDiscPrep -----------------------------
(* Payload files, a link to the first of them, a manifest, and a file in a   *)
(* directory that cannot be listed; --exclude may name the first file.       *)
EXTENDS DiscPrep

CONSTANTS a, b, l, m, h

TargetOfLinks == [x \in Links |-> a]
ExcludeA      == {{}, {a}}
NoExcludes    == {{}}
=============================================================================
