----------------------------- MODULE StoredFile -----------------------------
(***************************************************************************)
(* What SQLite may expect of the files tkeyvfs gives it: one file at a     *)
(* time is open, holds the bytes written to it, and is kept in the ROOT    *)
(* file under its key when it is closed, if it was opened for that.        *)
(*                                                                         *)
(* A byte that was never written, between the old end of the file and a    *)
(* write past it, may have any value.                                      *)
(***************************************************************************)
EXTENDS Integers

CONSTANTS Byte, Zero, NoKey, Offsets, Amounts, Sizes

VARIABLES saved,   \* the file kept under the key, or NoKey
          keep,    \* closing the file keeps it
          open, size, byte,
          reply    \* the answer to the last call
vars == <<saved, keep, open, size, byte, reply>>

(* The file comes to have n bytes, those at the positions in S as before.  *)
Keeps(n, S) ==
  /\ size' = n
  /\ byte' \in [0..(n - 1) -> Byte]
  /\ \A i \in S : byte'[i] = byte[i]

Init ==
  /\ open = FALSE /\ keep = FALSE
  /\ size = 0 /\ byte = [i \in {} |-> Zero]
  /\ reply = [op |-> "none"]

Open ==
  /\ ~ open /\ open' = TRUE
  /\ \/ saved # NoKey /\ size' = saved.size /\ byte' = saved.byte
     \/ size' = 0 /\ byte' = [i \in {} |-> Zero]
  /\ keep' \in BOOLEAN
  /\ reply' = [op |-> "open"]
  /\ UNCHANGED saved

Read(o, n) ==
  /\ open
  /\ reply' = [op |-> "read", offset |-> o, whole |-> o + n <= size,
               data |-> [i \in 0..(n - 1) |-> IF o + i < size THEN byte[o + i] ELSE Zero]]
  /\ UNCHANGED <<saved, keep, open, size, byte>>

Write(o, n) ==
  /\ open
  /\ \E b \in Byte :
       /\ Keeps(IF o + n > size THEN o + n ELSE size, 0..(size - 1) \ o..(o + n - 1))
       /\ \A i \in o..(o + n - 1) : byte'[i] = b
  /\ reply' = [op |-> "write"]
  /\ UNCHANGED <<saved, keep, open>>

(* The file may be left larger than it was asked to be. *)
Truncate(n) ==
  /\ open
  /\ size' >= n
  /\ Keeps(size', 0..(size - 1) \cap 0..(size' - 1))
  /\ reply' = [op |-> "truncate"]
  /\ UNCHANGED <<saved, keep, open>>

SizeHint ==
  /\ open
  /\ size' >= size
  /\ Keeps(size', 0..(size - 1) \cap 0..(size' - 1))
  /\ reply' = [op |-> "hint"]
  /\ UNCHANGED <<saved, keep, open>>

(* No memory for a larger file: all is as it was.  The memory of a file    *)
(* that is emptied is given back before it is asked for.                   *)
Fails ==
  /\ open
  /\ \/ UNCHANGED <<size, byte>>
     \/ size' = 0 /\ byte' = [i \in {} |-> Zero]
  /\ reply' = [op |-> "error"]
  /\ UNCHANGED <<saved, keep, open>>

Close ==
  /\ open /\ open' = FALSE
  /\ saved' = IF keep THEN [size |-> size, byte |-> byte] ELSE saved
  /\ keep' = FALSE
  /\ size' = 0 /\ byte' = [i \in {} |-> Zero]
  /\ reply' = [op |-> "close"]

Next ==
  \/ Open \/ Close \/ SizeHint \/ Fails
  \/ \E o \in Offsets, n \in Amounts : Read(o, n) \/ Write(o, n)
  \/ \E n \in Sizes : Truncate(n)

Spec == Init /\ [][Next]_vars
=============================================================================
