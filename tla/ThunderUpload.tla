---------------------------- MODULE ThunderUpload ----------------------------
(* UploadFile of pan/driver/thunder_browser; the parts are the S3 library's. *)
EXTENDS UploadOps

ThunderUploadFile ==
  /\ drv = "thunder"
  /\ \/ up.pc = "start" /\ up.fast /\ Fails(srv) /\ Fine
     \/ up.pc = "start" /\ ~up.fast /\ Start("task", TRUE)

(* Unless the server wants an upload it has the file: nil, and SuccessDel is
   not looked at. *)
uploadTask ==
  /\ up.pc = "task"
  /\ \/ up.f \in known /\ End("ok", Published(up.f, Whole(up.f))) /\ UNCHANGED <<local, cc>> /\ Fine
     \/ Step(To("s3"), srv, rd) /\ Fine

(* That the local file cannot be removed is an error here. *)
s3Upload ==
  /\ up.pc = "s3"
  /\ LET s == Published(up.f, Whole(up.f))
     IN \/ End("ok", s) /\ RemoveLocal /\ UNCHANGED cc
        \/ End("error", s) /\ RemoveLocalFails /\ UNCHANGED cc
        \/ Fails(s) /\ Costs
        \/ Fails(srv) /\ Costs
        \/ up.cancelled /\ Fails(srv) /\ Fine

ThunderUploadNext == ThunderUploadFile \/ uploadTask \/ s3Upload
==============================================================================
