----------------------------- MODULE MCDownload -----------------------------
(* Download for TLC: the time offsets in the headers of the chunks.        *)
EXTENDS Download

\* Chunks 1 and 3 have the same offset, as before and after a gap; that of chunk 2
\* differs.
MCOffset == [t \in Time |-> (t % 2) - 3]

=============================================================================
