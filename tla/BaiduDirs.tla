------------------------------ MODULE BaiduDirs ------------------------------
(* Directory operations of pan/driver/baidu_netdisk: everything by path. *)
EXTENDS DriveOps

manage(opera, os, dst, n) == Req(opera, os, dst, n)

BaiduObjRename(r, n) == Plan(r.cache, manage("rename", {r.obj}, RootObj, n), {r.obj.path})

BaiduMove(c, items, dst) ==
  Plan(c, manage("move", Range(items), dst, NoName), {o.path : o \in Range(items)} \cup {BaiduKey(dst)})

BaiduDelete(c, items) ==
  Plan(c, manage("delete", Range(items), RootObj, NoName), {o.path : o \in Range(items)})

(* One request makes the whole path; no listing is deleted. *)
BaiduMkdir ==
  /\ op.pc = "mkdir" /\ drv = "baidu"
  /\ \/ op.path = <<>> /\ Return("ok", cache, RootObj) /\ UNCHANGED fresh
     \/ LET m == MadeAll(tree, fresh, op.path)
        IN /\ m.ok /\ fresh < m.i /\ m.i <= MaxId + 1
           /\ fresh' = m.i
           /\ Go(m.t, cache, [op EXCEPT !.pc = "made", !.at = m.at])
     \/ op.path # <<>> /\ Return("error", cache, RootObj) /\ UNCHANGED fresh
  /\ UNCHANGED task

BaiduMade ==
  /\ op.pc = "made" /\ drv = "baidu"
  /\ Return("ok", cache, Obj(op.at, Last(op.path), Front(op.path), "dir", NoParent))
  /\ UNCHANGED <<fresh, task>>

BaiduNext == BaiduMkdir \/ BaiduMade
==============================================================================
