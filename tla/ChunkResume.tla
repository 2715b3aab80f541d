----------------------------- MODULE ChunkResume -----------------------------
(***************************************************************************)
(* A download that is interrupted and started again: what the next run of  *)
(* BaseDownloadFile (pan/driver.go) and ChunkDownload finds on disk, the   *)
(* output file and the temp files, and what it makes of it. Workers and    *)
(* channels are the business of ChunkDownload; here requests complete in   *)
(* any order and mergeFile appends in order. A crash is the end of the     *)
(* process or of Do with an error, its goroutines gone.                    *)
(*                                                                         *)
(* Byte j of the remote file is the number j.                              *)
(***************************************************************************)
EXTENDS ChunkRange, SequencesExt

CONSTANTS
    Total,         \* size of the remote file
    ChunkSizes,    \* chunk sizes the runs may use
    MaxCrashes     \* bound on crashes

ASSUME ResumeParameters ==
    /\ Total \in Nat \ {0}
    /\ ChunkSizes \subseteq Nat \ {0, 1}
    /\ MaxCrashes \in Nat

VARIABLES
    output,    \* the output file
    files,     \* temp files: [start, end, size]
    pc,        \* "idle", "run", "copied" (appended, temp file not removed), "done"
    ranges,    \* what CalRange returned to this run
    next,      \* the range mergeFile is at
    crashes,   \* crashes so far
    torn       \* one of them hit mergeFile while it copied or before it removed

vars == <<output, files, pc, ranges, next, crashes, torn>>

Init ==
    /\ output = <<>> /\ files = {}
    /\ pc = "idle" /\ ranges = <<>> /\ next = 1
    /\ crashes = 0 /\ torn = FALSE

FileOf(r, size) == [start |-> r.start, end |-> r.end, size |-> size]
SameName(f, r) == f.start = r.start /\ f.end = r.end
Bytes(first, count) == [j \in 1..count |-> first + j - 1]

\* BaseDownloadFile finds a file of the right size and does not download it again.
Skip ==
    /\ pc = "idle" /\ Len(output) = Total
    /\ pc' = "done"
    /\ UNCHANGED <<output, files, ranges, next, crashes, torn>>

\* Deviation: the size of an existing file is not compared.
BeginAnyway(c) ==
    /\ pc = "idle"
    /\ files' = {f \in files : Usable(f)}
    /\ ranges' = CalRange(files, Len(output), Total, c)
    /\ next' = 1 /\ pc' = "run"
    /\ UNCHANGED <<output, crashes, torn>>

\* Deviation: temp files of the wrong size are passed over but not removed.
BeginUncleaned(c) ==
    LET found == IF Len(output) = Total THEN <<>> ELSE output IN
    /\ pc = "idle"
    /\ output' = found
    /\ ranges' = CalRange(files, Len(found), Total, c)
    /\ next' = 1 /\ pc' = "run"
    /\ UNCHANGED <<files, crashes, torn>>

\* A run with chunk size c. A file of the right size is removed first (OverCover).
Begin(c) ==
    LET found == IF Len(output) = Total THEN <<>> ELSE output IN
    /\ pc = "idle"
    /\ output' = found
    /\ files' = {f \in files : Usable(f)}
    /\ ranges' = CalRange(files, Len(found), Total, c)
    /\ next' = 1 /\ pc' = "run"
    /\ UNCHANGED <<crashes, torn>>

\* A request writes size bytes of range k: all of them, or it will have to be retried.
Fetch(k, size) ==
    /\ pc \in {"run", "copied"}
    /\ next <= k /\ (pc = "copied" => next < k)
    /\ ~ranges[k].completed
    /\ ~ \E f \in files : SameName(f, ranges[k]) /\ Usable(f)
    /\ files' = {f \in files : ~SameName(f, ranges[k])} \union {FileOf(ranges[k], size)}
    /\ UNCHANGED <<output, pc, ranges, next, crashes, torn>>

FetchWhole(k) == Fetch(k, ranges[k].end - ranges[k].start + 1)
FetchPart(k) == \E size \in 0..(ranges[k].end - ranges[k].start) : Fetch(k, size)

\* The task popTask returns for the next index: completed by a request of this run (its
\* temp file is whole) or by an earlier one.
Popped(f) ==
    /\ next <= Len(ranges) /\ SameName(f, ranges[next])
    /\ ranges[next].completed \/ f.size = f.end - f.start + 1

\* io.Copy of the next temp file to the output file.
Copy == \E f \in files :
    /\ pc = "run" /\ Popped(f)
    /\ output' = output \o Bytes(f.start, f.size)
    /\ pc' = "copied"
    /\ UNCHANGED <<files, ranges, next, crashes, torn>>

\* os.Remove of the temp file; after the last one RemoveAll, and Do returns nil.
RemoveTemp ==
    /\ pc = "copied"
    /\ next' = next + 1
    /\ IF next = Len(ranges)
       THEN files' = {} /\ pc' = "done"
       ELSE files' = {f \in files : ~SameName(f, ranges[next])} /\ pc' = "run"
    /\ UNCHANGED <<output, ranges, crashes, torn>>

\* The file is downloaded once more.
Again ==
    /\ pc = "done"
    /\ pc' = "idle"
    /\ UNCHANGED <<output, files, ranges, next, crashes, torn>>

\* A crash. In the middle of a copy, part of the chunk has been appended.
Crash ==
    /\ crashes < MaxCrashes
    /\ crashes' = crashes + 1
    /\ pc' = "idle"
    /\ \/ pc = "run" /\ UNCHANGED <<output, torn>>
       \/ pc = "copied" /\ torn' = TRUE /\ UNCHANGED output
       \/ /\ pc = "run" /\ torn' = TRUE
          /\ \E f \in files :
                /\ Popped(f)
                /\ \E n \in 1..f.size : output' = output \o Bytes(f.start, n)
    /\ UNCHANGED <<files, ranges, next>>

Next ==
    \/ Skip \/ Copy \/ RemoveTemp \/ Again \/ Crash
    \/ \E c \in ChunkSizes : Begin(c)
    \/ \E k \in DOMAIN ranges : FetchWhole(k) \/ FetchPart(k)

Spec == Init /\ [][Next]_vars

\* Every run is started again after a crash, and its requests are retried until they
\* succeed (ChunkDownload has the bound on retries).
Fairness ==
    /\ WF_vars(Copy) /\ WF_vars(RemoveTemp)
    /\ WF_vars(Skip \/ \E c \in ChunkSizes : Begin(c))
    /\ WF_vars(\E k \in DOMAIN ranges : FetchWhole(k))

FairSpec == Spec /\ Fairness

-----------------------------------------------------------------------------

Whole == Bytes(0, Total)

\* Ranges and temp files, also those of other runs, stay within the remote file, and
\* mergeFile within the ranges CalRange returned.
TypeOK ==
    /\ output \in Seq(0..Total-1)
    /\ files \subseteq [start : 0..Total-1, end : 0..Total-1, size : 0..Total]
    /\ pc \in {"idle", "run", "copied", "done"}
    /\ ranges \in Seq([start : 0..Total-1, end : 0..Total-1, completed : BOOLEAN])
    /\ next \in 1..Len(ranges) + 1
    /\ crashes \in 0..MaxCrashes /\ torn \in BOOLEAN

\* What CalRange planned, with temp files of runs that used other chunk sizes and were
\* cut off anywhere but in mergeFile, together with the bytes that are there makes exactly
\* the remote file: no byte twice, none missing, in order.
PlanIsExact == pc = "run" /\ ~torn =>
    output \o BytesOf(SubSeq(ranges, next, Len(ranges))) = Whole

\* A download that reports success has produced the remote file.
DoneIsWhole == pc = "done" /\ ~torn => output = Whole

\* No byte is in two temp files (CalRange would merge it twice), even when runs used
\* different chunk sizes and wherever they were cut off.
FilesDisjoint == \A f, g \in files : f # g => f.end < g.start \/ g.end < f.start

\* Interrupted a bounded number of times outside mergeFile, each download gets done, also one
\* of a file that is there already: no state left on disk makes a run wait for a chunk that
\* is never sent.
Finishes == []<>(pc = "done" \/ torn)

-----------------------------------------------------------------------------
(* What the repository says of it, and the code does not do *)

\* internal/chunk_download.go, in CalRange: temp files are removed once merged, so the
\* size of the output file is where to go on. So the output file is a beginning of the
\* remote file at all times.
OutputIsPrefix == IsPrefix(output, Whole)
==============================================================================
