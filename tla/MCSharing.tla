------------------------------ MODULE MCSharing ------------------------------
(****************************************************************************)
(* An instance of Sharing for TLC: nine slots, so that seven recover a key  *)
(* with one hard lock, of two numbers of a small field.  No wrong set of    *)
(* points gives the key by accident in it.                                  *)
(****************************************************************************)
EXTENDS Sharing

\* With the first salt slots 2 and 3 collide as they are to begin with.
MCHash(slot, value, salt) ==
  IF salt = 0 /\ slot \in {2, 3} THEN IF value = 1 THEN 77 ELSE slot
  ELSE slot * 1009 + value * 3137 + salt * 57 + slot * slot * value * 791

MCRandom(n) == n * n * 6151 + n * 2749 + 4127
==============================================================================
