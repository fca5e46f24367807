----------------------------- MODULE MCTcpLink -----------------------------
(* Model-checking instances of TcpLink.                                    *)
EXTENDS TcpLink, TLC

Fifo(mux, len, interleave) == [mux |-> mux, len |-> len, interleave |-> interleave]

\* No data; two commands that write, the first more than a packet, and read;
\* any_sequence: two FIFOs interleaved.
Plain == [write |-> <<>>, read |-> <<>>]
Scans == [write |-> <<Fifo(4, 3, FALSE), Fifo(4, 1, FALSE)>>, read |-> <<1, 2>>]
Sequence == [write |-> <<Fifo(4, 3, TRUE), Fifo(5, 2, FALSE)>>, read |-> <<1>>]

MCShapes == {Plain, Scans, Sequence}

=============================================================================
