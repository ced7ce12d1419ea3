----------------------------- MODULE MCLogQueue -----------------------------
(* Two threads.  The first logs so often that its index of blocks is full  *)
(* and grows, that a block is used again, and that it is given back while  *)
(* the second thread still looks at it in the free list.                   *)
EXTENDS LogQueue

MCThreads == {"u", "v"}
MCMaxLogs == [u |-> 6, v |-> 1]
MCMaxExits == [u |-> 0, v |-> 1]
MCMaxAllocFails == [u |-> 1, v |-> 0]
=============================================================================
