------------------------------ MODULE MCPlayer ------------------------------
(***************************************************************************)
(* A recording with two entries of the same time stamp, a gap above the    *)
(* maximum delay of 3, and one of more than 2^32, with 2^32 as 16.         *)
(***************************************************************************)
EXTENDS Player

MCStamps ==
  [k \in 1 .. N |-> IF k = 1 THEN 0 ELSE IF k <= 3 THEN 2
                    ELSE IF k <= 5 THEN 3 * k ELSE 3 * k + 17]
=============================================================================
