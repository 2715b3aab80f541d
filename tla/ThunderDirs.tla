----------------------------- MODULE ThunderDirs -----------------------------
(* Directory operations of pan/driver/thunder_browser. *)
EXTENDS DriveOps

rename(o, n) == Req("rename", {o}, RootObj, n)

(* The root's id is sent as List has it, "0", not as makeDir and getFiles send
   it: a server may refuse it (RequestFail) or take it for the root. *)
move(os, dst) == Req("move", os, dst, NoName)

remove(os) == Req("delete", os, RootObj, NoName)

(* The listing of newFile.ParentID is deleted, which is empty for the root. *)
ThunderObjRename(r, n) ==
  LET above == IF r.obj.id \in DOMAIN tree THEN tree[r.obj.id].parent ELSE NoId
  IN IF r.obj.id = Root \/ ~r.ok THEN Refuse(r.cache)
     ELSE Plan(r.cache, rename(r.obj, n), {IF above = Root THEN NoId ELSE above})

ThunderMove(l, dst) == Plan(l.cache, move(l.objs, dst), l.keys)

ThunderDelete(l) ==
  IF l.objs = {} THEN Plan(l.cache, NoReq, {}) ELSE Plan(l.cache, remove(l.objs), l.keys)

(* Deviation: a directory that cannot be made is tried again from the start. *)
ThunderMkdirAgain ==
  /\ drv = "thunder"
  /\ \/ op.pc = "create" /\ Go(tree, cache, [op EXCEPT !.pc = "mkdir"]) /\ UNCHANGED <<fresh, task>>
     \/ MkdirBegin("create")
     \/ op.pc = "create" /\ MakeAt(op.at, Head(op.rest), "create")
     \/ /\ op.pc = "made"
        /\ Go(tree, Del(cache, {op.base.id}), [op EXCEPT !.pc = "mkdir"])
        /\ UNCHANGED <<fresh, task>>

(* Mkdir makes all that is missing, forgets the listing above it and begins
   again: the second time it finds what it made. *)
ThunderMkdir ==
  /\ drv = "thunder"
  /\ \/ op.pc = "create" /\ MkdirFail
     \/ MkdirBegin("create")
     \/ op.pc = "create" /\ MakeAt(op.at, Head(op.rest), "create")
     \/ /\ op.pc = "made"
        /\ Go(tree, Del(cache, {op.base.id}), [op EXCEPT !.pc = "mkdir"])
        /\ UNCHANGED <<fresh, task>>
==============================================================================
