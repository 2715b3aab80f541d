------------------------------ MODULE DriveOps -------------------------------
(***************************************************************************)
(* One operation in flight: its arguments, where it is, and what the       *)
(* drivers' operations are made of.  The operation works in steps (a look  *)
(* through the listings, one request, the deletion of listings) between    *)
(* which other goroutines list directories and other devices change them.  *)
(***************************************************************************)
EXTENDS DriveListing

(* Two histories of what requests do to listings; no guard reads them. *)
VARIABLES
  owed,  \* stale listings that nobody will delete before they expire
  due    \* stale listings the operation in flight has yet to delete

dvars == <<drv, tree, fresh, task, cache, op, owed, due>>

NoOp ==
  [kind |-> "none", pc |-> "idle", res |-> "none",
   objs |-> {},        \* the caller's objects
   dst |-> RootObj,    \* target of a move; result of a Mkdir
   name |-> NoName, path |-> <<>>,
   todo |-> <<>>,      \* objects not yet dealt with
   req |-> NoReq, dels |-> {}, panic |-> FALSE,
   base |-> RootObj, at |-> Root, rest |-> <<>>, tries |-> 0,  \* Mkdir
   stack |-> <<>>,     \* BatchRename: the recursion
   snap |-> <<>>,      \* the tree when it began
   clean |-> TRUE,     \* began with listings that are right, nobody interfered
   touched |-> {}]     \* listings its requests have made stale

Idle == op.pc = "idle"

(* Listings that are made stale by going from tree to t2, and those that
   cloudreve has just filed under a key they do not belong to. *)
Broken(t2) == {k \in DOMAIN cache : Truth(tree, k) # Truth(t2, k)}
Misfiled(c2) ==
  IF drv # "cloudreve" THEN {}
  ELSE StaleIn(c2, tree, {k \in DOMAIN c2 : ~(k \in DOMAIN cache /\ cache[k] = c2[k])})

(***************************************************************************)
(* The listings that are due.  A request that is answered changes the      *)
(* directories its objects are in and the target of a move: the server's   *)
(* directories, by the key List files them under, whatever the driver      *)
(* deletes.  Not due is where the drivers are known to slip:               *)
(*   - they know only what an object says of its directory (Home); baidu   *)
(*     takes the path of an object given by its path alone for it, and an  *)
(*     object found in a directory given by path has an empty Parent.Id    *)
(*     (thunder's ObjRename asks the server, but deletes the key "" for    *)
(*     the root, which List files under "0");                              *)
(*   - Move of quark and thunder deletes listings neither of the source    *)
(*     nor of the target, cloudreve's only of files looked up by path;     *)
(*   - Delete of quark, thunder and cloudreve deletes the listing of a     *)
(*     directory, not of its parent, and that of quark and thunder nothing *)
(*     for a file looked up by path;                                       *)
(*   - baidu's target has another key if it is given by its path alone,    *)
(*     cloudreve's if its id is not what the server has at its path;       *)
(*   - Mkdir deletes the listing it began at, not those of the directories *)
(*     it made or entered on the way, and baidu's deletes none.            *)
(***************************************************************************)
KeyOf(i) == IF drv = "baidu" THEN PathOf(tree, i) ELSE i
Above(o) == KeyOf(tree[NodeOf(tree, o)].parent)
Home(o) == IF drv = "baidu" THEN o.path ELSE o.pid

Slips(r, o) ==
  CASE r.do = "rename" -> FALSE
    [] r.do = "move" -> \/ drv \in {"quark", "thunder"}
                        \/ drv = "cloudreve" /\ (o.type = "dir" \/ o \in op.objs)
    [] r.do = "delete" -> \/ drv \in {"quark", "thunder", "cloudreve"} /\ o.type = "dir"
                          \/ drv \in {"quark", "thunder"} /\ o \notin op.objs

HomeKnown(r, o) ==
  IF r.do = "rename" /\ drv = "thunder" THEN Above(o) # Root ELSE Home(o) = Above(o)

TargetKnown(r) ==
  CASE drv \in {"quark", "thunder"} -> FALSE
    [] drv \in {"ali", "ali_open"} -> TRUE
    [] drv = "baidu" -> r.dst.name # NoName \/ Full(r.dst) = <<>>
    [] drv = "cloudreve" -> r.dst.id = Dst(tree, r)

Due(t2) ==
  IF t2 = tree THEN {}
  ELSE CASE op.pc \in {"request", "task"} ->
              {Above(o) : o \in {x \in op.req.objs : ~Slips(op.req, x) /\ HomeKnown(op.req, x)}}
              \cup IF op.req.do = "move" /\ TargetKnown(op.req) THEN {KeyOf(Dst(tree, op.req))} ELSE {}
         [] op.pc = "create" -> {t2[i].parent : i \in DOMAIN t2 \ DOMAIN tree} \cap {op.base.id}
         [] OTHER -> {}

(* The operation goes on: a listing that has gone, or is right, is not due. *)
Go(t2, c2, o2) ==
  /\ tree' = t2 /\ cache' = c2
  /\ op' = [o2 EXCEPT !.touched = StaleIn(c2, t2, o2.touched \cup Broken(t2))]
  /\ owed' = StaleIn(c2, t2, owed \cup Misfiled(c2))
  /\ due' = StaleIn(c2, t2, due \cup Due(t2))

(* Errors that leave due what earlier requests of the operation did: a failed
   taskQuery, aliyundrive's objects that follow others, a Mkdir on its way. *)
Skips ==
  \/ op.pc = "task"
  \/ drv \in {"ali", "ali_open"} /\ op.kind \in {"move", "delete"} /\ op.pc \in {"resolve", "request"}
  \/ drv # "cloudreve" /\ op.pc \in {"find", "create", "conflict"}

Unsettled(res) == IF res = "error" /\ Skips THEN op.touched ELSE op.touched \ due

(* It returns, with nil, an error or a panic: nothing that was due is left. *)
Return(res, c2, obj) ==
  /\ tree' = tree /\ cache' = c2
  /\ op' = [NoOp EXCEPT !.res = res, !.dst = obj]
  /\ owed' = StaleIn(c2, tree, owed \cup Unsettled(res) \cup Misfiled(c2))
  /\ due' = {}

------------------------------------------------------------------------------
(* Mkdir, common parts. *)

(* filepath.Rel *)
Rel(from, to) ==
  LET n == Len(LongestCommonPrefix({from, to}))
  IN [i \in 1..(Len(from) - n) |-> Up] \o SubSeq(to, n + 1, Len(to))

(* Mkdir has its directory; Move goes on with it as the target. *)
MkdirReturn(c2, obj) ==
  IF op.kind = "move" THEN Go(tree, c2, [op EXCEPT !.pc = "resolve", !.dst = obj])
  ELSE Return("ok", c2, obj)

MkdirFail == Return("error", cache, RootObj) /\ UNCHANGED <<fresh, task>>

(* Look for the deepest directory on the path; begin at pc next. *)
MkdirFrom(g, next) ==
  IF ~g.ok THEN Return("error", g.cache, RootObj)
  ELSE IF Full(g.obj) = op.path THEN MkdirReturn(g.cache, g.obj)
  ELSE Go(tree, g.cache, [op EXCEPT !.pc = next, !.base = g.obj, !.at = g.obj.id,
                                    !.rest = Rel(Full(g.obj), op.path)])

MkdirBegin(next) ==
  /\ op.pc = "mkdir"
  /\ IF op.path = <<>> THEN MkdirReturn(cache, RootObj)
     ELSE MkdirFrom(GetPanObj(cache, op.path, FALSE), next)
  /\ UNCHANGED <<fresh, task>>

(* Server: one more directory. *)
CanMake(at, n) == IsDir(tree, at) /\ ~HasKid(tree, at, n) /\ n # Up /\ fresh <= MaxId
HasDir(at, n) == HasKid(tree, at, n) /\ IsDir(tree, Kid(tree, at, n))

(* Deviation: Mkdir goes on from the directory it began at. *)
DescendNot(i, next) ==
  [op EXCEPT !.rest = Tail(@), !.pc = IF Len(op.rest) = 1 THEN "made" ELSE next]

(* The next component is there, as directory i. *)
Descend(i, next) ==
  [op EXCEPT !.at = i, !.rest = Tail(@), !.pc = IF Len(op.rest) = 1 THEN "made" ELSE next]

MakeAt(at, n, next) ==
  /\ CanMake(at, n)
  /\ fresh' = fresh + 1
  /\ Go(Made(tree, fresh, at, n, "dir"), cache, Descend(fresh, next))
  /\ UNCHANGED task

------------------------------------------------------------------------------
(* Requests. *)

(* The operation knows what to send: after its look through the listings. *)
Resolve(p, rest) ==
  /\ op.pc = "resolve"
  /\ IF ~p.ok THEN Return("error", p.cache, RootObj)
     ELSE Go(tree, p.cache, [op EXCEPT !.pc = IF p.req = NoReq THEN "finish" ELSE "request",
                                       !.req = p.req, !.dels = @ \cup p.dels,
                                       !.panic = p.panic, !.todo = rest])
  /\ UNCHANGED <<fresh, task>>

(* A request is answered; aliyundrive goes on with the next object, the
   others look at the listings first. *)
Answered ==
  [op EXCEPT !.pc = IF drv \in {"ali", "ali_open"} /\ op.todo # <<>> THEN "resolve" ELSE "finish"]

Request ==
  /\ op.pc = "request" /\ drv # "quark"
  /\ Valid(tree, op.req)
  /\ Go(Served(tree, op.req), cache, Answered)
  /\ UNCHANGED <<fresh, task>>

(* A request is refused or gets lost, with or without having been served. *)
RequestFail ==
  /\ op.pc = "request"
  /\ Return("error", cache, RootObj)
  /\ UNCHANGED <<fresh, task>>

AnswerLost ==
  /\ op.pc = "request" /\ drv # "quark"
  /\ Valid(tree, op.req)
  /\ LET t2 == Served(tree, op.req)
     IN /\ tree' = t2
        /\ owed' = StaleIn(cache, t2, owed \cup Unsettled("error") \cup Broken(t2))
  /\ due' = {}
  /\ op' = [NoOp EXCEPT !.res = "error"]
  /\ UNCHANGED <<fresh, task, cache>>

(* The listings go, and the operation returns unless more is to be done. *)
Finish ==
  /\ op.pc = "finish"
  /\ LET c2 == Del(cache, op.dels)
     IN IF op.panic THEN Return("panic", cache, RootObj)
        ELSE IF op.todo # <<>> THEN Go(tree, c2, [op EXCEPT !.pc = "resolve", !.dels = {}])
        ELSE IF op.stack = <<>> THEN Return("ok", c2, RootObj)
        ELSE /\ tree' = tree /\ cache' = c2
             /\ op' = [op EXCEPT !.pc = "batch", !.dels = {}, !.touched = {}]
             /\ owed' = StaleIn(c2, tree, owed \cup (op.touched \ due)) /\ due' = {}
  /\ UNCHANGED <<fresh, task>>
==============================================================================
