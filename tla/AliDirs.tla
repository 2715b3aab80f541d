------------------------------- MODULE AliDirs -------------------------------
(* Directory operations of pan/driver/aliyundrive and aliyundrive_open: an   *)
(* object at a time, and the listings deleted when all are done.             *)
EXTENDS DriveOps

(* r is the object to be dealt with, the first of those left, as Resolved has it. *)
ParentKey(o) == {o.pid} \ {NoParent}

AliObjRename(r, n) ==
  IF ~r.ok THEN Refuse(r.cache)
  ELSE Plan(r.cache, Req("rename", {r.obj}, RootObj, n), ParentKey(r.obj))

(* obj.Parent is not tested for nil; what Mkdir returns has none. *)
AliOpenObjRename(r, n) ==
  IF ~r.ok THEN Refuse(r.cache)
  ELSE [Plan(r.cache, Req("rename", {r.obj}, RootObj, n), {r.obj.pid})
          EXCEPT !.panic = r.obj.pid = NoParent]

batch(o, dst) == Req("move", {o}, dst, NoName)

AliMove(r, dst) ==
  IF ~r.ok THEN Refuse(r.cache) ELSE Plan(r.cache, batch(r.obj, dst), ParentKey(r.obj) \cup {dst.id})

AliOpenMove(r, dst) ==
  IF ~r.ok THEN Refuse(r.cache)
  ELSE Plan(r.cache, Req("move", {r.obj}, dst, NoName), ParentKey(r.obj) \cup {dst.id})

AliDelete(r) ==
  IF ~r.ok THEN Refuse(r.cache)
  ELSE Plan(r.cache, Req("delete", {r.obj}, RootObj, NoName), ParentKey(r.obj))

AliOpenDelete(r) ==
  IF ~r.ok THEN Refuse(r.cache)
  ELSE Plan(r.cache, Req("delete", {r.obj}, RootObj, NoName), ParentKey(r.obj))

------------------------------------------------------------------------------
(* Mkdir makes one component after another below the deepest directory the
   listings know.  What it returns has the whole path as its Path. *)
Result == Obj(op.at, Last(op.path), op.path, "dir", NoParent)

Made_ ==
  /\ op.pc = "made"
  /\ MkdirReturn(Del(cache, {op.base.id}), Result)
  /\ UNCHANGED <<fresh, task>>

(* The server refuses a second folder of a name; Mkdir looks for the first. *)
AliMkdir ==
  /\ drv = "ali"
  /\ \/ op.pc = "create" /\ MkdirFail
     \/ MkdirBegin("create")
     \/ op.pc = "create" /\ MakeAt(op.at, Head(op.rest), "create")
     \/ /\ op.pc = "create" /\ HasDir(op.at, Head(op.rest))
        /\ Go(tree, cache, Descend(Kid(tree, op.at, Head(op.rest)), "create"))
        /\ UNCHANGED <<fresh, task>>
     \/ Made_

(* Here the server answers with the one that exists, whatever it is. *)
AliOpenMkdir ==
  /\ drv = "ali_open"
  /\ \/ op.pc = "create" /\ MkdirFail
     \/ MkdirBegin("create")
     \/ op.pc = "create" /\ MakeAt(op.at, Head(op.rest), "create")
     \/ /\ op.pc = "create" /\ HasKid(tree, op.at, Head(op.rest))
        /\ Go(tree, cache, Descend(Kid(tree, op.at, Head(op.rest)), "create"))
        /\ UNCHANGED <<fresh, task>>
     \/ Made_

AliNext == AliMkdir \/ AliOpenMkdir
==============================================================================
