----------------------------- MODULE HostChunks -----------------------------
(***************************************************************************)
(* How a scan divides its hosts among its threads.  The TUI (start_scan of *)
(* src/ui/tui.rs) and the Web GUI (run_scan_job of src/web/server.rs) do   *)
(* it with the same expressions, each with a CONCURRENCY of its own.       *)
(***************************************************************************)
EXTENDS Integers, Sequences

Lesser(a, b) == IF a < b THEN a ELSE b
Larger(a, b) == IF a < b THEN b ELSE a

\* The length of a chunk of n hosts.
ChunkSize(n, concurrency) ==
  Larger(n + concurrency - 1, 1) \div Lesser(concurrency, Larger(n, 1))

\* Mutant of Chunks: only whole chunks are handed out.
WholeChunks(hosts, concurrency) ==
  LET size == ChunkSize(Len(hosts), concurrency)
  IN  [i \in 1 .. Len(hosts) \div size |-> SubSeq(hosts, (i - 1) * size + 1, i * size)]

\* slice::chunks: in order, the last one may be shorter.
InPieces(s, size) ==
  [i \in 1 .. (Len(s) + size - 1) \div size |->
     SubSeq(s, (i - 1) * size + 1, Lesser(i * size, Len(s)))]

\* hosts.chunks(chunk_size): one per thread.
Chunks(hosts, concurrency) == InPieces(hosts, ChunkSize(Len(hosts), concurrency))
=============================================================================
