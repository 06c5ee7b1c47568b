------------------------------ MODULE MCReceipts ------------------------------
(* Three inode numbers: the reserved file, a replacement and one to spare.    *)
EXTENDS Receipts, TLC

CONSTANTS n1, n2, n3
MCInodes == {n1, n2, n3}
Symmetry == Permutations(MCInodes)

\* No system call can close these windows: the unlink after the last comparison
\* of abort, the close after that of commit.
UnlinkWindow == {"unlink", "post_lstat", "close"}
=============================================================================
