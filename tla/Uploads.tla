------------------------------- MODULE Uploads -------------------------------
(***************************************************************************)
(* Uploads of single files and of a directory (BaseUploadPath), by any of  *)
(* the drivers, call after call, with faults in between.                   *)
(***************************************************************************)
EXTENDS QuarkUpload, BaiduUpload, AliUpload, CloudreveUpload, ThunderUpload

CONSTANTS
  Dir, Ext, \* the directory and the extension of each file
  Entries,  \* the files in the order of filepath.Walk
  Everything, Requests  \* filters of UploadPathReq: the caller's usual, others

ASSUME UploadsParameters ==
  /\ Entries \in Seq(Files) /\ Range(Entries) = Files /\ DOMAIN Dir = Files
  /\ Everything \in Requests

VARIABLES walk, dirs

vars == <<ovars, walk, dirs>>

NoWalk == [on |-> FALSE, ret |-> "none", req |-> Everything, skip |-> FALSE, del |-> FALSE,
           resumable |-> FALSE, fast |-> FALSE,
           left |-> <<>>, cur |-> NoFile, begin |-> <<{}, <<>>>>]

Init ==
  /\ drv \in Drivers /\ rapid \in BOOLEAN /\ known \in {{}, {Head(Entries)}}
  /\ rapid => drv \in {"ali", "ali_open"}
  /\ srv = [file |-> [f \in Files |-> NoData], sess |-> [f \in Files |-> Closed]]
  /\ local = Files /\ unseen = {} /\ rd = NoReader /\ up = NoUp
  /\ cc = [f \in Files |-> NoKeys] /\ odd = 0
  /\ walk = NoWalk /\ dirs = Range(Dir)

Call(f, resumable, del, fast) ==
  up' = [NoUp EXCEPT !.pc = "start", !.f = f, !.resumable = resumable, !.del = del, !.fast = fast]

(* UploadFile by the caller. *)
UploadFile ==
  /\ Idle /\ ~walk.on
  /\ \E f \in Files, resumable, del, fast \in BOOLEAN : Call(f, resumable, del, fast)
  /\ UNCHANGED <<conf, srv, local, unseen, rd, cc, walk, dirs>> /\ Costs

------------------------------------------------------------------------------
(* BaseUploadPath *)

(* Walk skips ignored directories; of the files the filters choose. *)
Wanted(f, r) ==
  /\ Dir[f] \notin r.ignorePaths
  /\ r.extensions = {} \/ Ext[f] \in r.extensions
  /\ f \notin r.ignoreFiles /\ Ext[f] \notin r.ignoreExtensions

BeginWalk(r, skip, del, resumable, fast) ==
  /\ Idle /\ ~walk.on /\ ~(IsCloudreve /\ fast)
  /\ walk' = [NoWalk EXCEPT !.on = TRUE, !.req = r, !.skip = skip, !.del = del,
                            !.resumable = resumable, !.fast = fast,
                            !.left = Entries, !.begin = <<local, srv.file>>]
  /\ UNCHANGED <<conf, srv, local, unseen, rd, up, cc, dirs>>

(* The call the caller repeats, and others; cloudreve refuses OnlyFast. *)
UploadPath == BeginWalk(Everything, TRUE, FALSE, TRUE, FALSE) /\ Fine
UploadPathOther ==
  /\ \E r \in Requests, skip, del, resumable, fast \in BOOLEAN : BeginWalk(r, skip, del, resumable, fast)
  /\ Costs
UploadPathRefused ==
  /\ IsCloudreve /\ Idle /\ ~walk.on
  /\ walk' = [NoWalk EXCEPT !.ret = "error"]
  /\ UNCHANGED <<conf, srv, local, unseen, rd, up, cc, dirs>> /\ Costs

(* The next file that is there, or the end. *)
WalkNext ==
  /\ walk.on /\ Idle /\ walk.cur = NoFile
  /\ IF walk.left = <<>> THEN walk' = [walk EXCEPT !.on = FALSE, !.ret = "ok"] /\ UNCHANGED up
     ELSE LET f == Head(walk.left)
          IN IF f \in local /\ Wanted(f, walk.req)
             THEN walk' = [walk EXCEPT !.left = Tail(@), !.cur = f] /\ Call(f, walk.resumable, walk.del, walk.fast)
             ELSE walk' = [walk EXCEPT !.left = Tail(@)] /\ UNCHANGED up
  /\ UNCHANGED <<conf, srv, local, unseen, rd, cc, odd, dirs>>

(* Deviation: an error never ends the walk. *)
WalkUploadedAnyway ==
  /\ walk.on /\ Idle /\ walk.cur # NoFile
  /\ LET d == Dir[walk.cur]
         empty == \A f \in local : Dir[f] # d
     IN /\ dirs' = IF up.ret = "ok" /\ walk.del /\ empty THEN dirs \ {d} ELSE dirs
        /\ walk' = [walk EXCEPT !.cur = NoFile]
  /\ UNCHANGED ovars

(* UploadFile has returned: with nil an empty directory may go, an error ends
   the walk unless errors are skipped. *)
WalkUploaded ==
  /\ walk.on /\ Idle /\ walk.cur # NoFile
  /\ LET d == Dir[walk.cur]
         empty == \A f \in local : Dir[f] # d
     IN /\ dirs' = IF up.ret = "ok" /\ walk.del /\ empty THEN dirs \ {d} ELSE dirs
        /\ walk' = IF up.ret = "ok" \/ walk.skip THEN [walk EXCEPT !.cur = NoFile]
                   ELSE [walk EXCEPT !.cur = NoFile, !.on = FALSE, !.ret = "error"]
  /\ UNCHANGED ovars

------------------------------------------------------------------------------
(* A request is under way whose failure ends the call. *)
Asking ==
  \/ up.pc \in {"pre", "hash", "commit", "finish", "precreate", "again", "task"}
  \/ up.pc = "create" /\ ~(drv = "ali" /\ rapid)
  \/ up.pc = "session" /\ cc[up.f].session = "none"
  \/ up.pc = "part" /\ drv \in {"ali", "ali_open"} /\ up.part > up.left
  \/ up.pc = "part" /\ up.urls # "fresh" /\ up.part <= up.left /\ up.try = 0

Steps ==
  /\ \/ Asking /\ RequestFails
     \/ ReadBody
     \/ QuarkUploadNext \/ BaiduUploadNext \/ AliOpenUploadNext \/ AliUploadNext
     \/ CloudreveUploadNext \/ ThunderUploadNext
  /\ UNCHANGED <<walk, dirs>>

Others == (Cancel \/ SessionExpires \/ EntryExpires) /\ UNCHANGED <<walk, dirs>>

Next ==
  \/ UploadFile \/ UploadPath \/ UploadPathOther \/ UploadPathRefused
  \/ Steps \/ WalkNext \/ WalkUploaded \/ Others

(* The program goes on; the caller uploads the directory again and again. *)
Fairness ==
  /\ WF_vars(Steps) /\ WF_vars(WalkNext) /\ WF_vars(WalkUploaded) /\ WF_vars(UploadPath)

Spec == Init /\ [][Next]_vars /\ Fairness

------------------------------------------------------------------------------
(* Properties. *)

(* Type correctness. *)
TypeOK ==
  /\ local \subseteq Files /\ unseen \subseteq Files /\ odd \in 0..MaxOdd
  /\ unseen # {} => IsCloudreve
  /\ up.f \in Files \cup {NoFile} /\ up.ret \in {"none", "ok", "error"}
  /\ up.try \in 0..(MaxTries - 1)
  /\ rd.uploaded \in 0..rd.total /\ rd.limit >= 0
  /\ \A f \in Files : cc[f].chunk \in {NoChunk} \cup 0..Size[f] /\ cc[f].errs \in 0..MaxErrs

(* What UploadFile promises: module Upload. *)
Stage(f) == IF srv.file[f] = NoData THEN "none" ELSE IF srv.file[f] = Whole(f) THEN "whole" ELSE "torn"

Promise ==
  INSTANCE Upload WITH stored <- [f \in Files |-> Stage(f)], overlooked <- unseen,
                       doing <- IF Idle THEN NoFile ELSE up.f, result <- up.ret

ImplementsUpload == Promise!Spec

(* Every part a server holds is the part of the file it stands for, however
   often it was tried again and wherever an attempt broke off; what a cloudreve
   session holds is a beginning of the file, although later calls resumed it. *)
PartsInPlace ==
  \A f \in Files : \A i \in DOMAIN srv.sess[f].parts :
    srv.sess[f].parts[i] =
      IF IsCloudreve THEN SubSeq(Whole(f), 1, Len(srv.sess[f].parts[i]))
      ELSE Slice(f, i, up.size)

(* UploadPath that returns nil has uploaded every file it was to upload, unless
   it was to skip errors, and none of the others; a directory it removed is
   empty. *)
Done(f) == srv'.file[f] = Whole(f) \/ f \in unseen'
PathComplete ==
  [][walk.on /\ ~walk'.on /\ walk'.ret = "ok" =>
       LET begin == walk.begin[1]
       IN /\ ~walk.skip => \A f \in begin : Wanted(f, walk.req) => Done(f)
          /\ \A f \in begin : ~Wanted(f, walk.req) => f \in local' /\ srv'.file[f] = walk.begin[2][f]
          /\ \A f \in local' : Dir[f] \in dirs']_vars

(* What the tests expect: UploadFile that returns nil has put the file there
   (enter_test.go lists the directory after it).  Cloudreve's does not keep
   this: see run upload_unseen. *)
UploadedIsThere ==
  [][~Idle /\ up'.pc = "idle" /\ up'.ret = "ok" => srv'.file[up.f] = Whole(up.f)]_vars

(* Every call returns, a cancelled one too. *)
CallsReturn == []<>(Idle /\ ~walk.on)

(* A caller who goes on uploading the directory gets every file uploaded once
   the faults end: no dead session, stale offset or half-done upload is in the
   way for ever.  Except: aliyundrive with RapidUpload and a server that knows
   the file, and empty files, which quark and baidu cannot upload. *)
Hopeless(f) ==
  \/ drv = "ali" /\ rapid /\ f \in known
  \/ Size[f] = 0
Recovers == <>(\A f \in Files : Hopeless(f) \/ srv.file[f] = Whole(f) \/ f \in unseen)
==============================================================================
