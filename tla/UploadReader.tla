---------------------------- MODULE UploadReader -----------------------------
(***************************************************************************)
(* pan.ProgressReader: the reader that uploads of quark and cloudreve take *)
(* a file's bytes from, a chunk at a time.  Its counters decide where a    *)
(* retried chunk begins, when the file is done, and (cloudreve) where a    *)
(* later upload resumes.                                                   *)
(***************************************************************************)
EXTENDS Integers

MinOf(a, b) == IF a < b THEN a ELSE b

(* total bytes, of which from have been uploaded *)
NewProcessReader(total, chunk, from) ==
  [total |-> total, chunk |-> chunk,
   pos |-> from,       \* offset of the file
   uploaded |-> from,
   size |-> 0,         \* currentSize
   current |-> 0,      \* currentUploaded
   limit |-> 0,        \* what the LimitedReader still gives
   finish |-> FALSE]

NextChunk(r) ==
  [r EXCEPT !.limit = r.chunk, !.size = MinOf(r.total, r.uploaded + r.chunk) - r.uploaded, !.current = 0]

(* How much Read can give before it says EOF. *)
Readable(r) == MinOf(r.limit, r.total - r.pos)

(* n > 0 bytes *)
Read(r, n) ==
  LET up == IF r.current + n = r.size THEN r.uploaded + r.size ELSE r.uploaded
  IN [r EXCEPT !.pos = @ + n, !.limit = @ - n, !.current = @ + n,
               !.uploaded = up, !.finish = @ \/ up = r.total]

(* Deviation: the file is not sought back. *)
ResetChunkNoSeek(r, saved) == [r EXCEPT !.uploaded = saved, !.current = 0]

ResetChunk(r, saved) == [r EXCEPT !.uploaded = saved, !.current = 0, !.pos = saved]
==============================================================================
