----------------------------- MODULE BaiduUpload -----------------------------
(* UploadFile of pan/driver/baidu_netdisk: the slices the server asks for.   *)
EXTENDS UploadOps

getSliceSize(f) == Chunk

(* An empty file is refused; an existing one is replaced. *)
BaiduUploadFile ==
  /\ drv = "baidu"
  /\ \/ up.pc = "start" /\ Size[up.f] = 0 /\ Fails(srv) /\ Fine
     \/ up.pc = "start" /\ Size[up.f] > 0 /\ Start("precreate", FALSE)

(* The server has the file already, or asks for the slices it does not have. *)
precreate ==
  /\ up.pc = "precreate"
  /\ LET size == getSliceSize(up.f)
         all == 1..Count(up.f, size)
     IN \/ up.f \in known /\ Succeeds(Published(up.f, Whole(up.f)))
        \/ \E need \in SUBSET all \ {{}} :
             /\ Step([To("locate") EXCEPT !.size = size, !.todo = need],
                     [srv EXCEPT !.sess[up.f] = [open |-> TRUE,
                        parts |-> [i \in all \ need |-> Slice(up.f, i, size)]]], rd)
             /\ Fine

(* A failure means the default server. *)
getUploadUrl == up.pc = "locate" /\ Step(To("part"), srv, rd) /\ Fine

(* Each slice up to MaxTries times.  An answer that is not JSON, such as the
   error page of a gateway, counts as success. *)
uploadSlice ==
  /\ up.pc = "part" /\ drv = "baidu"
  /\ IF up.todo = {} THEN Step(To("create"), srv, rd) /\ Fine
     ELSE LET i == CHOOSE k \in up.todo : \A l \in up.todo : k <= l
              done == [up EXCEPT !.todo = @ \ {i}, !.try = 0]
          IN PutSection(i, done) \/ (Step(done, srv, rd) /\ Costs)

(* The server makes the file if it has every block of the list. *)
create ==
  /\ up.pc = "create" /\ drv = "baidu"
  /\ IF DOMAIN srv.sess[up.f].parts = 1..Count(up.f, up.size)
     THEN LET s == Published(up.f, Joined(up.f, Count(up.f, up.size)))
          IN Succeeds(s) \/ (Fails(s) /\ Costs)
     ELSE Fails(srv) /\ Fine

BaiduUploadNext == BaiduUploadFile \/ precreate \/ getUploadUrl \/ uploadSlice \/ create
==============================================================================
