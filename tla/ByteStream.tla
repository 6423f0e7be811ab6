----------------------------- MODULE ByteStream -----------------------------
(***************************************************************************)
(* What the transport of a file or of a long string promises to the two    *)
(* apps: the bytes one of them reads are the bytes the other one gets, in  *)
(* order, and the end of the stream comes after the last of them.  How     *)
(* much is handed over at a time is left open.  A byte is its position.    *)
(* FileStream implements this specification.                               *)
(***************************************************************************)
EXTENDS Naturals, Sequences

VARIABLES
  total,  \* bytes of the data
  read,   \* bytes read by the sending app
  got,    \* bytes the receiving app has got
  over    \* the receiving app has been told the end

Init == total \in Nat /\ read = 0 /\ got = <<>> /\ over = FALSE

Read == read' \in read..total /\ UNCHANGED <<total, got, over>>

Following(n) == [i \in 1..n |-> Len(got) + i]
Deliver ==
  /\ ~over
  /\ \E n \in 0..read - Len(got) : got' = got \o Following(n)
  /\ over' \in {FALSE, Len(got') = total}
  /\ UNCHANGED <<total, read>>

Spec == Init /\ [][Read \/ Deliver]_<<total, read, got, over>>
=============================================================================
