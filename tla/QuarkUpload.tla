----------------------------- MODULE QuarkUpload -----------------------------
(* UploadFile of pan/driver/quark: a multipart upload through ProgressReader. *)
EXTENDS UploadOps

QuarkUploadFile == drv = "quark" /\ Start("pre", TRUE)

(* The server names the part size; the smaller one counts. *)
FileUploadPre ==
  /\ up.pc = "pre"
  /\ \E n \in PartSizes :
       Step([To("hash") EXCEPT !.size = MinOf(n, Chunk), !.left = Size[up.f]], Opened(up.f), rd)
  /\ Fine

FileUploadHash ==
  /\ up.pc = "hash" /\ drv = "quark"
  /\ \/ up.f \in known /\ Succeeds(Published(up.f, Whole(up.f)))
     \/ up.fast /\ Fails(srv) /\ Fine
     \/ ~up.fast /\ Step(To("part"), srv, NewProcessReader(Size[up.f], up.size, 0)) /\ Fine

(* Deviation: what is left goes down with every attempt. *)
NextPartEveryAttempt ==
  /\ up.pc = "part" /\ drv = "quark"
  /\ IF up.try = 0 /\ up.left <= 0 THEN Step(To("commit"), srv, rd)
     ELSE LET saved == IF up.try = 0 THEN rd.uploaded ELSE up.saved
              r == NextChunk(IF up.try = 0 THEN rd ELSE ResetChunk(rd, saved))
          IN Step([To("put") EXCEPT !.saved = saved, !.left = @ - r.size], srv, r)
  /\ Fine

(* The head of the loop, and of each attempt after the first. *)
NextPart ==
  /\ up.pc = "part" /\ drv = "quark"
  /\ IF up.try = 0 /\ up.left <= 0 THEN Step(To("commit"), srv, rd)
     ELSE LET saved == IF up.try = 0 THEN rd.uploaded ELSE up.saved
              r == NextChunk(IF up.try = 0 THEN rd ELSE ResetChunk(rd, saved))
          IN Step([To("put") EXCEPT !.saved = saved, !.left = IF up.try = 0 THEN @ - r.size ELSE @],
                  srv, r)
  /\ Fine

(* The part is there; or not, with or without the server having it.  When the
   context is cancelled, every attempt fails at its first read. *)
FileUpPart ==
  /\ up.pc = "put" /\ drv = "quark"
  /\ LET s == Took(up.f, up.part, up.body)
     IN \/ Sent /\ Step([To("part") EXCEPT !.part = @ + 1, !.try = 0, !.body = <<>>], s, rd) /\ Fine
        \/ Sent /\ Again(s, rd) /\ Costs
        \/ Again(srv, rd) /\ Costs
        \/ up.cancelled /\ ~Sent /\ Again(srv, rd) /\ Fine

(* The server joins the parts of the list of ETags; it refuses an empty list. *)
FileUpCommit ==
  /\ up.pc = "commit"
  /\ \/ up.part > 1 /\ Step(To("finish"), srv, rd) /\ Fine
     \/ up.part = 1 /\ Fails(srv) /\ Fine

FileUpFinish ==
  /\ up.pc = "finish"
  /\ LET s == Published(up.f, Joined(up.f, up.part - 1))
     IN \/ Succeeds(s)
        \/ Fails(s) /\ Costs

QuarkUploadNext ==
  \/ QuarkUploadFile \/ FileUploadPre \/ FileUploadHash
  \/ NextPart \/ FileUpPart \/ FileUpCommit \/ FileUpFinish
==============================================================================
