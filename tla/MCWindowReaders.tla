--------------------------- MODULE MCWindowReaders ---------------------------
(***************************************************************************)
(* WindowReaders for TLC: the range an operator gives the tool.            *)
(***************************************************************************)
EXTENDS WindowReaders

\* All windows but the last.
MCRanges == { [from |-> 0, to |-> LastWindow] }
=============================================================================
