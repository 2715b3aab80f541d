------------------------------ MODULE QuarkDirs ------------------------------
(* Directory operations of pan/driver/quark. *)
EXTENDS DriveOps

objectRename(o, n) == Req("rename", {o}, RootObj, n)
objectMove(os, dst) == Req("move", os, dst, NoName)
objectDelete(os) == Req("delete", os, RootObj, NoName)

(* r is the object as Resolved has it, l what CollectItemIds has collected. *)
QuarkObjRename(r, n) ==
  IF r.obj.id = Root \/ ~r.ok THEN Refuse(r.cache)
  ELSE [Plan(r.cache, objectRename(r.obj, n), {r.obj.pid}) EXCEPT !.panic = r.obj.pid = NoParent]

QuarkMove(l, dst) == Plan(l.cache, objectMove(l.objs, dst), l.keys)

(* Deviation: Delete deletes the listings Move does. *)
QuarkDeleteAsMove(l) ==
  Plan(l.cache, IF l.objs = {} THEN NoReq ELSE objectDelete(l.objs),
       {o.id : o \in {x \in l.objs : x.type = "dir"}})

QuarkDelete(l) ==
  IF l.objs = {} THEN Plan(l.cache, NoReq, {}) ELSE Plan(l.cache, objectDelete(l.objs), l.keys)

(***************************************************************************)
(* Moves, deletions and renamings are tasks of the server, which           *)
(* checkTaskSuccess asks for until they are done.                          *)
(***************************************************************************)
TaskSubmit ==
  /\ op.pc = "request" /\ drv = "quark" /\ task = NoReq
  /\ Valid(tree, op.req)
  /\ task' = op.req
  /\ Go(tree, cache, [op EXCEPT !.pc = "task"])
  /\ UNCHANGED fresh

(* The server works: for the operation that waits, or for one that gave up. *)
TaskRuns ==
  /\ task # NoReq
  /\ task' = NoReq
  /\ LET t2 == IF Valid(tree, task) THEN Served(tree, task) ELSE tree
     IN IF op.pc = "task" THEN Go(t2, cache, op)
        ELSE /\ tree' = t2
             /\ owed' = StaleIn(cache, t2, owed \cup Broken(t2))
             /\ op' = [op EXCEPT !.clean = FALSE]
             /\ UNCHANGED <<cache, due>>
  /\ UNCHANGED fresh

(* Deviation: the first answer ends the wait, whatever it says of the task. *)
checkTaskAnswered ==
  /\ op.pc = "task"
  /\ Go(tree, cache, [op EXCEPT !.pc = "finish"])
  /\ UNCHANGED <<fresh, task>>

(* taskQuery answers: status 2, or it fails and the task goes on alone. *)
checkTaskSuccess ==
  /\ op.pc = "task" /\ task = NoReq
  /\ Go(tree, cache, [op EXCEPT !.pc = "finish"])
  /\ UNCHANGED <<fresh, task>>

taskQueryFails ==
  /\ op.pc = "task"
  /\ Return("error", cache, RootObj)
  /\ UNCHANGED <<fresh, task>>

------------------------------------------------------------------------------
(* Mkdir goes on from the deepest directory the listings know.  Each
   component is looked for on the server, then made. *)
QuarkMkdir == drv = "quark" /\ MkdirBegin("find")

findChildDirId ==
  /\ op.pc = "find" /\ drv = "quark"
  /\ \/ /\ HasDir(op.at, Head(op.rest))
        /\ Go(tree, cache, Descend(Kid(tree, op.at, Head(op.rest)), "find"))
     \/ Go(tree, cache, [op EXCEPT !.pc = "create"])  \* not there, or no answer
  /\ UNCHANGED <<fresh, task>>

createDirectory ==
  /\ op.pc = "create" /\ drv = "quark"
  /\ MakeAt(op.at, Head(op.rest), "find")

(* "file is doloading": wait and try again. *)
createDirectoryBusy ==
  /\ op.pc = "create" /\ drv = "quark" /\ op.tries < MaxTries
  /\ Go(tree, cache, [op EXCEPT !.tries = @ + 1])
  /\ UNCHANGED <<fresh, task>>

(* Refused: delete the listing and look once more. *)
createDirectoryFail ==
  /\ op.pc = "create" /\ drv = "quark"
  /\ Go(tree, Del(cache, {op.at}), [op EXCEPT !.pc = "conflict"])
  /\ UNCHANGED <<fresh, task>>

QuarkConflict ==
  /\ op.pc = "conflict" /\ drv = "quark"
  /\ \/ /\ HasDir(op.at, Head(op.rest))
        /\ Go(tree, cache, Descend(Kid(tree, op.at, Head(op.rest)), "find"))
        /\ UNCHANGED <<fresh, task>>
     \/ MkdirFail

QuarkMade ==
  /\ op.pc = "made" /\ drv = "quark"
  /\ MkdirReturn(Del(cache, {op.base.id}),
                 Obj(op.at, Last(op.path), Front(op.path), "dir", op.base.id))
  /\ UNCHANGED <<fresh, task>>

QuarkNext ==
  \/ taskQueryFails \/ TaskSubmit \/ checkTaskSuccess
  \/ createDirectoryFail \/ createDirectory \/ createDirectoryBusy
  \/ QuarkMkdir \/ findChildDirId \/ QuarkConflict \/ QuarkMade
==============================================================================
