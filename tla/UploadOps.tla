------------------------------ MODULE UploadOps ------------------------------
(***************************************************************************)
(* One UploadFile in flight, the server it talks to, and what may go wrong *)
(* on the way: a request that is refused or gets lost, an answer that gets *)
(* lost, a cancelled context.  The driver's steps are in the modules       *)
(* QuarkUpload, BaiduUpload, AliUpload, CloudreveUpload and ThunderUpload. *)
(*                                                                         *)
(* The data of a file are the numbers of its bytes, 1..Size[f], so that a  *)
(* server's file shows which bytes arrived and in which order.             *)
(***************************************************************************)
EXTENDS UploadReader, Sequences, Functions, TLC

CONSTANTS
  Drivers,   \* the drivers to be checked, a subset of UploadDrivers
  Files, NoFile,
  Size,      \* of each file, in bytes
  Chunk,     \* Properties.ChunkSize, slice size, part size
  PartSizes, \* chunk sizes a server may ask for
  MaxTries,  \* maxPartRetry, MaxUploadRetry, 3
  MaxOdd     \* bound: faults, and calls other than those the caller repeats

UploadDrivers == {"quark", "baidu", "ali", "ali_open", "onedrive", "cloudreve", "thunder"}

ASSUME UploadOpsParameters ==
  /\ Drivers \subseteq UploadDrivers /\ NoFile \notin Files
  /\ Size \in [Files -> Nat] /\ Chunk \in Nat \ {0} /\ PartSizes \subseteq Nat \ {0}
  /\ MaxTries \in Nat \ {0} /\ MaxOdd \in Nat

VARIABLES
  drv,     \* the driver ("onedrive": cloudreve with storage at OneDrive)
  rapid,   \* Properties.RapidUpload (aliyundrive, aliyundrive_open)
  known,   \* server: files whose content it has from elsewhere
  srv,     \* server: [file: what lies at the target, sess: upload sessions]
  local,   \* files that exist locally
  unseen,  \* files with a refusal that the client took for success
  rd,      \* the ProgressReader
  up,      \* the UploadFile in flight, or what the last one returned
  cc,      \* cloudreve: cached session, chunk and error count of each file
  odd      \* faults and odd calls so far

conf == <<drv, rapid, known>>
ovars == <<drv, rapid, known, srv, local, unseen, rd, up, cc, odd>>

NoData == <<0>>
Whole(f) == [i \in 1..Size[f] |-> i]
Slice(f, i, size) == SubSeq(Whole(f), (i - 1) * size + 1, MinOf(i * size, Size[f]))
Count(f, size) == (Size[f] + size - 1) \div size

Closed == [open |-> FALSE, parts |-> <<>>]
Opened(f) == [srv EXCEPT !.sess[f] = [open |-> TRUE, parts |-> <<>>]]
Took(f, i, data) ==
  [srv EXCEPT !.sess[f].parts = [j \in {i} \cup DOMAIN @ |-> IF j = i THEN data ELSE @[j]]]
Published(f, data) == [srv EXCEPT !.file[f] = data, !.sess[f] = Closed]

(* What the server makes of parts 1 to n. *)
Joined(f, n) ==
  LET joined[i \in 0..n] == IF i = 0 THEN <<>> ELSE joined[i - 1] \o srv.sess[f].parts[i]
  IN joined[n]

NoUp ==
  [pc |-> "idle", f |-> NoFile, ret |-> "none",
   del |-> FALSE, resumable |-> FALSE, fast |-> FALSE,  \* the request
   cancelled |-> FALSE,                                 \* req.Ctx
   size |-> 1,      \* bytes of a part
   part |-> 1, try |-> 0,
   left |-> 0,      \* quark: bytes not yet in a part; else parts to send
   todo |-> {},     \* baidu: the slices the server asked for
   saved |-> 0,     \* where the part or the upload begins
   body |-> <<>>,   \* what the request has carried so far
   urls |-> "fresh"]

NoReader == NewProcessReader(0, 1, 0)

Idle == up.pc = "idle"

Fine == UNCHANGED odd
Costs == odd < MaxOdd /\ odd' = odd + 1

(* A step within the call. *)
Step(u, s, r) == up' = u /\ srv' = s /\ rd' = r /\ UNCHANGED <<conf, local, unseen, cc>>
To(pc) == [up EXCEPT !.pc = pc]

(* The call returns; only cloudreve comes back to the session. *)
Ended(s) == IF drv \in {"onedrive", "cloudreve"} THEN s ELSE [s EXCEPT !.sess[up.f] = Closed]

End(res, s) ==
  /\ up' = [NoUp EXCEPT !.f = up.f, !.ret = res]
  /\ srv' = Ended(s) /\ rd' = NoReader
  /\ UNCHANGED <<conf, unseen>>

Fails(s) == End("error", s) /\ UNCHANGED <<local, cc>>

(* nil: the local file is removed if SuccessDel is set and it can be. *)
RemoveLocal == IF up.del THEN local' = local \ {up.f} /\ Fine ELSE UNCHANGED local /\ Fine
RemoveLocalFails == up.del /\ UNCHANGED local /\ Costs
Succeeds(s) == End("ok", s) /\ (RemoveLocal \/ RemoveLocalFails) /\ UNCHANGED cc

(* A request fails before the server has done anything. *)
RequestFails == Fails(srv) /\ Costs

------------------------------------------------------------------------------
(* The beginning of UploadFile: the file must be there, the directory is made
   (module Dirs); checks says that an object known at the target is an error.
   The listing that tells may be old, so an existing file may be overlooked. *)
Start(next, checks) ==
  /\ up.pc = "start"
  /\ \/ up.f \notin local /\ Fails(srv) /\ Fine
     \/ checks /\ srv.file[up.f] # NoData /\ Fails(srv) /\ Fine
     \/ up.f \in local /\ Step(To(next), srv, rd) /\ Fine
     \/ Fails(srv) /\ Costs

(* Deviations: one attempt too many; attempts without end. *)
AgainOneMore(s, r) ==
  IF up.try < MaxTries THEN Step([up EXCEPT !.try = @ + 1, !.pc = "part", !.body = <<>>], s, r)
  ELSE Fails(s)

AgainForEver(s, r) ==
  Step([up EXCEPT !.try = MinOf(@ + 1, MaxTries - 1), !.pc = "part", !.body = <<>>], s, r)

(* The part is tried again, from its beginning, or the call fails. *)
Again(s, r) ==
  IF up.try + 1 < MaxTries THEN Step([up EXCEPT !.try = @ + 1, !.pc = "part", !.body = <<>>], s, r)
  ELSE Fails(s)

(* A part that is a section of the file: taken; taken but the answer lost; lost. *)
PutSection(i, done) ==
  LET s == Took(up.f, i, Slice(up.f, i, up.size))
  IN \/ Step(done, s, rd) /\ Fine
     \/ Again(s, rd) /\ Costs
     \/ Again(srv, rd) /\ Costs

(* The transport reads a part's body from the ProgressReader. *)
ReadBody ==
  /\ up.pc = "put" /\ ~up.cancelled
  /\ \E n \in 1..Readable(rd) :
       Step([up EXCEPT !.body = @ \o SubSeq(Whole(up.f), rd.pos + 1, rd.pos + n)], srv, Read(rd, n))
  /\ Fine

Sent == up.pc = "put" /\ Readable(rd) = 0

(* req.Ctx is cancelled. *)
Cancel == ~Idle /\ ~up.cancelled /\ Step([up EXCEPT !.cancelled = TRUE], srv, rd) /\ Costs
==============================================================================
