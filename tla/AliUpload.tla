------------------------------ MODULE AliUpload ------------------------------
(* UploadFile of pan/driver/aliyundrive and aliyundrive_open: a url for each *)
(* part.                                                                     *)
EXTENDS UploadOps

calPartSize(f) == Chunk
calPartCount(f, size) == Count(f, size)

Parts(u, n) == [u EXCEPT !.pc = "part", !.size = calPartSize(up.f), !.left = n, !.part = 1]

------------------------------------------------------------------------------
(* aliyundrive_open *)

AliOpenUploadFile == drv = "ali_open" /\ Start(IF rapid THEN "prehash" ELSE "create", FALSE)

(* With a hash of the beginning: a match is an error that asks for the whole
   hash; any other answer, success included, is passed over. *)
preHashCreate ==
  /\ up.pc = "prehash"
  /\ \/ up.f \in known /\ Step(To("hash"), srv, rd) /\ Fine
     \/ up.f \notin known /\ Step(To("create"), Opened(up.f), rd) /\ Fine
     \/ Step(To("create"), srv, rd) /\ Costs

(* With the whole hash and the proof code. *)
hashCreate ==
  /\ up.pc = "hash" /\ drv = "ali_open"
  /\ \/ Succeeds(Published(up.f, Whole(up.f)))
     \/ Step(Parts(up, calPartCount(up.f, Chunk)), Opened(up.f), rd) /\ Fine

createFile ==
  /\ up.pc = "create" /\ drv = "ali_open"
  /\ Step(Parts(up, calPartCount(up.f, Chunk)), Opened(up.f), rd) /\ Fine

(* Time passes: after 50 minutes the urls are renewed, after 60 they end. *)
UrlsAge ==
  /\ up.pc = "part" /\ drv = "ali_open" /\ up.urls # "expired"
  /\ Step([up EXCEPT !.urls = IF @ = "fresh" THEN "old" ELSE "expired"], srv, rd) /\ Costs

(* At the head of the loop, not between the attempts for a part. *)
renewUrls ==
  /\ up.pc = "part" /\ drv = "ali_open" /\ up.part <= up.left /\ up.try = 0 /\ up.urls # "fresh"
  /\ Step([up EXCEPT !.urls = "fresh"], srv, rd) /\ Fine

(* A part the server has already (409) counts as sent. *)
uploadPart ==
  /\ up.pc = "part" /\ drv = "ali_open" /\ up.part <= up.left
  /\ up.urls = "fresh" \/ up.try > 0
  /\ IF up.urls = "expired" THEN Again(srv, rd) /\ Fine
     ELSE PutSection(up.part, [up EXCEPT !.part = @ + 1, !.try = 0])

(* The server checks that it has all parts. *)
completeUpload ==
  /\ up.pc = "part" /\ drv = "ali_open" /\ up.part > up.left
  /\ LET s == Published(up.f, Joined(up.f, up.left))
     IN Succeeds(s) \/ (Fails(s) /\ Costs)

AliOpenUploadNext ==
  \/ AliOpenUploadFile \/ preHashCreate \/ hashCreate \/ createFile
  \/ UrlsAge \/ renewUrls \/ uploadPart \/ completeUpload

------------------------------------------------------------------------------
(* aliyundrive *)

AliUploadFile == drv = "ali" /\ Start("create", FALSE)

(* With RapidUpload every error, a match of the hash included, leads on to the
   parts, of which there are then none (else one at least): requestInner returns no body with an
   error, so "PreHashMatched" is not recognised. *)
createWithFolders ==
  /\ up.pc = "create" /\ drv = "ali"
  /\ LET n == Count(up.f, Chunk)
         made == Step(Parts(up, IF n = 0 THEN 1 ELSE n), Opened(up.f), rd)
         none == Step(Parts(up, 0), srv, rd)
     IN \/ (rapid => up.f \notin known) /\ made /\ Fine
        \/ rapid /\ up.f \in known /\ none /\ Fine
        \/ rapid /\ none /\ Costs

putPart ==
  /\ up.pc = "part" /\ drv = "ali" /\ up.part <= up.left
  /\ PutSection(up.part, [up EXCEPT !.part = @ + 1, !.try = 0])

(* Without a session (no file id, no upload id) the server refuses. *)
complete ==
  /\ up.pc = "part" /\ drv = "ali" /\ up.part > up.left
  /\ IF srv.sess[up.f].open
     THEN LET s == Published(up.f, Joined(up.f, up.left))
          IN Succeeds(s) \/ (Fails(s) /\ Costs)
     ELSE Fails(srv) /\ Fine

AliUploadNext == AliUploadFile \/ createWithFolders \/ putPart \/ complete
==============================================================================
