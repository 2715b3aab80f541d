------------------------------ MODULE Download ------------------------------
(***************************************************************************)
(* What ChunkDownload.Do (internal/chunk_download.go) promises, without    *)
(* workers, retries or channels: the chunks of a remote file reach the     *)
(* local file one after the other in order, a damaged file is never        *)
(* written again, and one result is reported: "ok" only for the whole      *)
(* file, unless the process was told to shut down.                         *)
(***************************************************************************)
EXTENDS Integers, Sequences

CONSTANTS
    N,          \* number of chunks of the file
    Garbage     \* a piece of the local file that is not a whole chunk (not in 0..N-1)

VARIABLES
    file,       \* what was appended to the local file, piece by piece
    status,     \* what Do reported: "running", "ok" or "failed"
    stopped     \* shutdown was requested

vars == <<file, status, stopped>>

Chunks == 0..N-1

\* The first k chunks, in order.
Prefix(k) == [j \in 1..k |-> j - 1]

Init ==
    /\ file = <<>>
    /\ status = "running"
    /\ stopped = FALSE

\* The next chunk is appended. A failed download may still go on for a while;
\* one that reported success may not.
Deliver ==
    /\ status # "ok"
    /\ Len(file) < N
    /\ file = Prefix(Len(file))
    /\ file' = Append(file, Len(file))
    /\ UNCHANGED <<status, stopped>>

\* An append breaks off: nothing is ever appended after it.
Damage ==
    /\ status # "ok"
    /\ Len(file) < N
    /\ file = Prefix(Len(file))
    /\ file' = Append(file, Garbage)
    /\ UNCHANGED <<status, stopped>>

Succeed ==
    /\ status = "running"
    /\ stopped \/ file = Prefix(N)
    /\ status' = "ok"
    /\ UNCHANGED <<file, stopped>>

Fail ==
    /\ status = "running"
    /\ status' = "failed"
    /\ UNCHANGED <<file, stopped>>

Stop ==
    /\ ~stopped
    /\ stopped' = TRUE
    /\ UNCHANGED <<file, status>>

Next == Deliver \/ Damage \/ Succeed \/ Fail \/ Stop

Spec == Init /\ [][Next]_vars
=============================================================================
