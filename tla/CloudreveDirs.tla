---------------------------- MODULE CloudreveDirs ----------------------------
(* Directory operations of pan/driver/cloudreve.  Objects are named by id,   *)
(* directories to list, to make or to move into by path.                     *)
EXTENDS DriveOps

cloudreveRename(o, n) == Req("rename", {o}, RootObj, n)
cloudreveMove(os, dst) == Req("move", os, dst, NoName)
cloudreveDelete(os) == Req("delete", os, RootObj, NoName)

CloudreveObjRename(r, n) ==
  IF r.obj.id = Root \/ ~r.ok THEN Refuse(r.cache)
  ELSE [Plan(r.cache, cloudreveRename(r.obj, n), {r.obj.pid}) EXCEPT !.panic = r.obj.pid = NoParent]

(* The objects with their listings: a directory's own; a file's parent's, of
   an object with an id only for Delete.  Move looks up the whole path of an
   object without id, Delete its Path. *)
Source(s, item, g, forDelete) ==
  Collected(s, g, IF g.obj.type = "dir" THEN {g.obj.id}
                  ELSE IF item.id \in {Root, NoId} THEN {g.obj.pid}
                  ELSE IF forDelete THEN {item.pid} \ {NoId} ELSE {})

Sources(c, items, forDelete) ==
  LET sum[k \in 0..Len(items)] ==
        IF k = 0 THEN Nothing(c)
        ELSE Source(sum[k - 1], items[k],
                    LookUp(sum[k - 1].cache, items[k],
                           IF forDelete THEN Clean(items[k].path) ELSE Full(items[k])),
                    forDelete)
  IN sum[Len(items)]

(* A request for the objects of each source path, these in any order. *)
SameSrc(items, src) == SetToSeq({o \in Range(items) : o.path = src})
OtherSrc(items, src) == SetToSeq({o \in Range(items) : o.path # src})

CloudreveMove(l, dst) == Plan(l.cache, cloudreveMove(l.objs, dst), l.keys \cup {dst.id})

CloudreveDelete(l) ==
  IF l.objs = {} THEN Plan(l.cache, NoReq, {}) ELSE Plan(l.cache, cloudreveDelete(l.objs), l.keys)

(* funReturn takes an answer with HTTP status 200 for success, whatever its
   code: a refused request counts as done. *)
RefusalUnnoticed ==
  /\ op.pc = "request" /\ drv = "cloudreve"
  /\ Go(tree, cache, [Answered EXCEPT !.clean = FALSE])
  /\ UNCHANGED <<fresh, task>>

(* Mkdir makes one directory, forgets the listing above it and begins again. *)
CloudreveMkdir ==
  /\ drv = "cloudreve"
  /\ \/ op.pc = "create" /\ MkdirFail
     \/ MkdirBegin("create")
     \/ /\ op.pc = "create"
        /\ LET at == NodeAt(tree, Full(op.base))
           IN MakeAt(at, Head(op.rest), "made")
     \/ /\ op.pc = "create"  \* refused, unnoticed
        /\ Go(tree, cache, [op EXCEPT !.tries = 1, !.pc = "made", !.clean = FALSE])
        /\ UNCHANGED <<fresh, task>>
     \/ /\ op.pc = "made"
        /\ Go(tree, Del(cache, {op.base.id}), [op EXCEPT !.pc = "mkdir", !.tries = 0])
        /\ UNCHANGED <<fresh, task>>

CloudreveNext == RefusalUnnoticed \/ CloudreveMkdir
==============================================================================
