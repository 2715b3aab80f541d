--------------------------- MODULE CloudreveUpload ---------------------------
(***************************************************************************)
(* UploadFile of pan/driver/cloudreve: one session of the server, which    *)
(* takes the file's bytes in order, and which a later call goes on with.   *)
(* The client keeps, under keys made of the target path, the session, how  *)
(* much has been uploaded ("chunk") and how often it failed.               *)
(***************************************************************************)
EXTENDS UploadOps

NoChunk == -1
NoKeys == [session |-> "none", chunk |-> NoChunk, errs |-> 0]

IsCloudreve == drv \in {"onedrive", "cloudreve"}

(* What the server holds of a session. *)
Got(f) == IF srv.sess[f].parts = <<>> THEN <<>> ELSE srv.sess[f].parts[1]

(* Sessions end; that the client has kept them does not help. *)
Ends(fs) == [srv EXCEPT !.sess = [f \in Files |-> IF f \in fs THEN Closed ELSE @[f]]]

Keeps == UNCHANGED <<conf, local, unseen>>

------------------------------------------------------------------------------

(* Del of the three keys unless the request is resumable. *)
CloudreveUploadFile ==
  /\ IsCloudreve /\ up.pc = "start"
  /\ \/ up.fast /\ Fails(srv) /\ Fine
     \/ /\ ~up.fast /\ up.f \in local
        /\ up' = To("offset") /\ cc' = IF up.resumable THEN cc ELSE [cc EXCEPT ![up.f] = NoKeys]
        /\ UNCHANGED <<srv, rd>> /\ Keeps /\ Fine
     \/ ~up.fast /\ up.f \notin local /\ Fails(srv) /\ Fine
     \/ ~up.fast /\ srv.file[up.f] # NoData /\ Fails(srv) /\ Fine
     \/ ~up.fast /\ Fails(srv) /\ Costs

(* Get of the chunk entry. *)
uploadedSize ==
  /\ up.pc = "offset"
  /\ Step([To("session") EXCEPT !.saved = IF cc[up.f].chunk = NoChunk THEN 0 ELSE cc[up.f].chunk], srv, rd)
  /\ Fine

Open(f) ==
  /\ up' = To("reader")
  /\ srv' = Opened(f) /\ cc' = [cc EXCEPT ![f].session = "kept"]
  /\ UNCHANGED rd /\ Keeps

(* GetOrLoad of the session.  The server has one session for a path and none
   for a file that exists. *)
fileUploadGetUploadSession ==
  /\ up.pc = "session"
  /\ \/ cc[up.f].session # "none" /\ Step(To("reader"), srv, rd) /\ Fine
     \/ /\ cc[up.f].session = "none"
        /\ \/ srv.file[up.f] # NoData /\ Fails(srv) /\ Fine
           \/ srv.file[up.f] = NoData /\ srv.sess[up.f].open /\ Step(To("conflict"), srv, rd) /\ Fine
           \/ srv.file[up.f] = NoData /\ ~srv.sess[up.f].open /\ Open(up.f) /\ Fine
           \/ srv.file[up.f] = NoData /\ ~srv.sess[up.f].open /\ Fails(Opened(up.f)) /\ Costs

(* The code for an upload in progress: all sessions of the account go. *)
fileUploadDeleteAllUploadSession ==
  /\ up.pc = "conflict"
  /\ \/ Step(To("again"), Ends(Files), rd) /\ Fine
     \/ Step(To("again"), srv, rd) /\ Costs

(* A second refusal is an error. *)
sessionAgain ==
  /\ up.pc = "again"
  /\ IF srv.sess[up.f].open THEN Fails(srv) /\ Fine ELSE Open(up.f) /\ Fine

(* NewProcessReader, with the chunk size of the session. *)
chunkSize ==
  /\ up.pc = "reader"
  /\ \E n \in PartSizes :
       LET size == IF drv = "onedrive" THEN MinOf(n, Chunk) ELSE n
       IN Step([To("next") EXCEPT !.size = size], srv, NewProcessReader(Size[up.f], size, up.saved))
  /\ Fine

(* The head of the upload loop. *)
nextChunk ==
  /\ up.pc = "next"
  /\ Step([To("put") EXCEPT !.body = <<>>, !.left = rd.uploaded], srv, NextChunk(rd))
  /\ Fine

------------------------------------------------------------------------------
(* An error: remember what GetUploaded says; after the fourth error give the
   session up.  The count stays above the limit until the entry is dropped. *)
MaxErrs == 5

(* Deviation: the session is kept however often it fails. *)
uploadErrAfterKeep(s, saved) ==
  /\ End("error", s) /\ UNCHANGED local
  /\ cc' = [cc EXCEPT ![up.f].chunk = saved, ![up.f].errs = MinOf(@ + 1, MaxErrs)]

\* Whether the session is deleted at the server is not looked at.
uploadErrAfter(s, saved) ==
  IF cc[up.f].errs > 3
  THEN /\ End("error", [s EXCEPT !.sess[up.f] = Closed]) \/ End("error", s)
       /\ cc' = [cc EXCEPT ![up.f] = [NoKeys EXCEPT !.errs = MinOf(cc[up.f].errs + 1, MaxErrs)]]
       /\ UNCHANGED local
  ELSE /\ End("error", s)
       /\ cc' = [cc EXCEPT ![up.f].chunk = saved, ![up.f].errs = @ + 1]
       /\ UNCHANGED local

PutFails(s) == uploadErrAfter(s, rd.uploaded)

(* OneDrive wants a chunk that begins where the last one ended; a cloudreve
   server one that begins no later, and forgets what it had from there on. *)
Acceptable ==
  /\ srv.sess[up.f].open
  /\ up.body # <<>>
  /\ IF drv = "onedrive" THEN Len(Got(up.f)) = up.left ELSE Len(Got(up.f)) >= up.left

Accepted == Took(up.f, 1, SubSeq(Got(up.f), 1, up.left) \o up.body)

AfterPut == IF rd.finish THEN "after" ELSE "next"

(* A chunk is sent: taken, refused, lost on the way or on the way back; the
   loop ends once the reader has seen the end of the file. *)
oneDriveUpload ==
  /\ up.pc = "put" /\ drv = "onedrive"
  /\ \/ Sent /\ Acceptable /\ Step(To(AfterPut), Accepted, rd) /\ Fine
     \/ Sent /\ ~Acceptable /\ PutFails(srv) /\ Fine
     \/ Sent /\ Acceptable /\ PutFails(Accepted) /\ Costs
     \/ PutFails(srv) /\ Costs
     \/ up.cancelled /\ ~Sent /\ PutFails(srv) /\ Fine

(* The same to a cloudreve server, which makes the file of the last chunk.
   A refusal that comes with HTTP status 200 is not seen. *)
notKnowUpload ==
  /\ up.pc = "put" /\ drv = "cloudreve"
  /\ LET s == IF Len(Accepted.sess[up.f].parts[1]) = Size[up.f]
              THEN Published(up.f, Accepted.sess[up.f].parts[1]) ELSE Accepted
     IN \/ Sent /\ Acceptable /\ Step(To(AfterPut), s, rd) /\ Fine
        \/ Sent /\ ~Acceptable /\ PutFails(srv) /\ Fine
        \/ Sent /\ Acceptable /\ PutFails(s) /\ Costs
        \/ PutFails(srv) /\ Costs
        \/ up.cancelled /\ ~Sent /\ PutFails(srv) /\ Fine

refusalUnseen ==
  /\ up.pc = "put" /\ drv = "cloudreve" /\ Sent /\ up.body # <<>>
  /\ unseen' = unseen \cup {up.f}
  /\ up' = To(AfterPut)
  /\ UNCHANGED <<conf, srv, local, rd, cc>>
  /\ Costs

(* Keys are deleted after success only if the request was resumable. *)
Stored(s) ==
  /\ End("ok", s) /\ (RemoveLocal \/ RemoveLocalFails)
  /\ cc' = IF up.resumable THEN [cc EXCEPT ![up.f] = NoKeys] ELSE cc

notKnowDone == up.pc = "after" /\ drv = "cloudreve" /\ Stored(srv)

(* The server makes the file if OneDrive has all of it.  funReturn sees the
   refusal only in an answer with an HTTP error status. *)
oneDriveCallback ==
  /\ up.pc = "after" /\ drv = "onedrive"
  /\ LET whole == Len(Got(up.f)) = Size[up.f]
         s == Published(up.f, Got(up.f))
     IN \/ whole /\ Stored(s)
        \/ whole /\ uploadErrAfter(s, rd.uploaded) /\ Costs
        \/ ~whole /\ uploadErrAfter(srv, rd.uploaded) /\ Fine
        \/ uploadErrAfter(srv, rd.uploaded) /\ Costs

callbackUnseen ==
  /\ up.pc = "after" /\ drv = "onedrive" /\ odd < MaxOdd
  /\ unseen' = unseen \cup {up.f}
  /\ up' = [NoUp EXCEPT !.f = up.f, !.ret = "ok"] /\ rd' = NoReader
  /\ local' = IF up.del THEN local \ {up.f} ELSE local
  /\ cc' = IF up.resumable THEN [cc EXCEPT ![up.f] = NoKeys] ELSE cc
  /\ UNCHANGED <<conf, srv>>
  /\ Costs

------------------------------------------------------------------------------
(* Others: a session ends at the server; an entry of the cache expires. *)

SessionExpires ==
  /\ \E f \in Files :
       /\ srv.sess[f].open /\ IsCloudreve
       /\ srv' = Ends({f})
  /\ UNCHANGED <<conf, local, unseen, up, rd, cc>>
  /\ Costs

EntryExpires ==
  /\ \E f \in Files :
       \E k \in {"session", "chunk", "errs"} :
         /\ cc[f][k] # NoKeys[k]
         /\ cc' = [cc EXCEPT ![f] = [@ EXCEPT ![k] = NoKeys[k]]]
  /\ UNCHANGED <<conf, srv, local, unseen, up, rd>>
  /\ Costs

CloudreveUploadNext ==
  \/ CloudreveUploadFile \/ uploadedSize \/ fileUploadGetUploadSession
  \/ fileUploadDeleteAllUploadSession \/ sessionAgain \/ chunkSize \/ nextChunk
  \/ oneDriveUpload \/ notKnowUpload \/ refusalUnseen \/ notKnowDone
  \/ oneDriveCallback \/ callbackUnseen
==============================================================================
