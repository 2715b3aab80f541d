------------------------------ MODULE ChunkRange ------------------------------
(***************************************************************************)
(* How a download is cut into ranges (CalRange and addRange of             *)
(* internal/chunk_download.go). A temp file is known by its name, which    *)
(* holds the first and last byte of its range, and by its size; the ranges *)
(* of the returned list are named the same way and marked completed when   *)
(* an earlier run left their temp file whole.                              *)
(*                                                                         *)
(* Chunk sizes are at least 2: with 1, addRange never ends.                *)
(***************************************************************************)
EXTENDS Integers, Sequences

Smaller(a, b) == IF a < b THEN a ELSE b

\* The first n rounds of addRange's loop.
Cut(start, maxEnd, chunk, n) ==
    [i \in 1..n |-> [start |-> start + (i - 1) * chunk,
                     end |-> Smaller(start + i * chunk - 1, maxEnd), completed |-> FALSE]]

\* Deviation: the next chunk starts at the last byte of this one.
AddRangeOverlap(start, maxEnd, chunk) ==
    LET rounds == (maxEnd - start) \div (chunk - 1)
    IN [i \in 1..rounds |-> [start |-> start + (i - 1) * (chunk - 1),
                             end |-> Smaller(start + i * (chunk - 1), maxEnd), completed |-> FALSE]]

\* Deviation: the last chunk is not cut off at the end.
AddRangeUnclamped(start, maxEnd, chunk) ==
    LET rounds == (maxEnd + chunk - start) \div chunk
    IN Cut(start, start + rounds * chunk, chunk, rounds)

\* The ranges of at most chunk bytes that addRange appends for start..maxEnd. A single
\* byte left over makes no range: "if end != start".
AddRange(start, maxEnd, chunk) ==
    LET bytes == maxEnd + 1 - start
        full == bytes \div chunk
    IN Cut(start, maxEnd, chunk, IF bytes % chunk > 1 THEN full + 1 ELSE full)

\* Deviation: the size of a temp file is not compared with its range.
UsableAny(f) == f.end > f.start

\* A temp file CalRange keeps; the others it removes.
Usable(f) == f.end > f.start /\ f.size = f.end - f.start + 1

\* A kept temp file is next: what is missing before it is cut into chunks.
Take(acc, f, chunk) ==
    [start |-> f.end + 1,
     ranges |-> acc.ranges
       \o (IF f.start > acc.start THEN AddRange(acc.start, f.start - 1, chunk) ELSE <<>>)
       \o <<[start |-> f.start, end |-> f.end, completed |-> TRUE]>>]

\* Deviation: the output file's size is not looked at.
CalRangeFromZero(files, size, total, chunk) ==
    LET upTo[n \in 0..total] ==
          IF n = 0 THEN [start |-> 0, ranges |-> <<>>]
          ELSE IF \E f \in files : Usable(f) /\ f.start = n - 1
          THEN Take(upTo[n - 1], CHOOSE f \in files : Usable(f) /\ f.start = n - 1, chunk)
          ELSE upTo[n - 1]
        all == upTo[total]
    IN all.ranges
       \o IF all.start < total THEN AddRange(all.start, total - 1, chunk) ELSE <<>>

\* CalRange for the temp files found, an output file of the given size, the size of
\* the remote file and the chunk size: kept temp files in order of their first byte,
\* the gaps between them and up to the end cut into chunks. Two kept files never start
\* at the same byte (FilesDisjoint of ChunkResume), so one is looked for at each byte.
CalRange(files, size, total, chunk) ==
    LET upTo[n \in 0..total] ==
          IF n = 0 THEN [start |-> size, ranges |-> <<>>]
          ELSE IF \E f \in files : Usable(f) /\ f.start = n - 1
          THEN Take(upTo[n - 1], CHOOSE f \in files : Usable(f) /\ f.start = n - 1, chunk)
          ELSE upTo[n - 1]
        all == upTo[total]
    IN all.ranges
       \o IF all.start < total THEN AddRange(all.start, total - 1, chunk) ELSE <<>>

\* The bytes that a list of ranges adds to the output, in the order they are merged.
BytesOf(ranges) ==
    LET merged[k \in 0..Len(ranges)] ==
          IF k = 0 THEN <<>>
          ELSE merged[k - 1]
               \o [j \in 1..(ranges[k].end - ranges[k].start + 1) |-> ranges[k].start + j - 1]
    IN merged[Len(ranges)]
===============================================================================
