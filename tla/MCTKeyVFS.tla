----------------------------- MODULE MCTKeyVFS -----------------------------
(***************************************************************************)
(* Files of up to six bytes, in memory pages of two: writes at, across and *)
(* past the end of the file and of its buffer, with and without chunks.    *)
(***************************************************************************)
EXTENDS TKeyVFS

CONSTANTS zero, one, junk, none

bytes   == {zero, one, junk}
data    == {one}
offsets == {0, 1, 3}
amounts == {1, 2}
three   == {3}
sizes   == {0, 2}
chunks  == {0, 3}
=============================================================================
