----------------------------- MODULE MCFileCheck -----------------------------
(* Names of up to three tokens; files of up to 16 bytes, read in aligned      *)
(* pieces of four or through a buffer of three; images with sectors of four   *)
(* bytes, an area of two bytes in the second, up to two sectors to a read and *)
(* to a command.                                                              *)
EXTENDS FileCheck

NameTokens == {L!Blank, L!Star, L!Close, L!Digest, "text"}
MCNames    == UNION {[1..n -> NameTokens] : n \in 0..3}
MCFileName == <<"text", L!Blank, "text">>
=============================================================================
