------------------------------ MODULE MCDbenc ------------------------------
(* DBENC002 to DBENC005: four bytes in chunks of at most two, a chunk index  *)
(* that wraps after two in the associated data, two accidents.  DBENC001:    *)
(* blocks of two bytes whose values include both paddings, plaintexts of no  *)
(* to five bytes, reads of one to three.                                     *)
EXTENDS Dbenc
=============================================================================
