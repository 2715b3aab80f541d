-------------------------------- MODULE Dirs ---------------------------------
(***************************************************************************)
(* Directory operations of the six drivers over their cached listings: one *)
(* operation of the client at a time, while other goroutines of the client *)
(* list directories and another device changes them.                       *)
(***************************************************************************)
EXTENDS QuarkDirs, BaiduDirs, AliDirs, CloudreveDirs, ThunderDirs

CONSTANTS
  Tree0,     \* the tree at the beginning: its nodes, in the order they were made
  Paths,     \* paths callers give
  MaxOps,    \* bound: operations and changes by other devices
  MaxItems   \* bound: objects in one Move or Delete

ASSUME DirsParameters ==
  /\ MaxOps \in Nat /\ MaxItems \in Nat \ {0}
  /\ Paths \subseteq Seq(Names)
  /\ Tree0 \in Seq([name : Names, parent : Nat, type : {"dir", "file"}]) /\ Len(Tree0) <= MaxId
  /\ \A i \in 1..Len(Tree0) :
       /\ IsDir(Tree0, Tree0[i].parent) /\ Tree0[i].parent < i
       /\ \A j \in 1..Len(Tree0) :
            Tree0[i].parent = Tree0[j].parent /\ Tree0[i].name = Tree0[j].name => i = j

VARIABLE ops

vars == <<drv, tree, fresh, task, cache, op, owed, due, ops>>

Init ==
  /\ drv \in Drivers
  /\ tree = Tree0 /\ fresh = Len(Tree0) + 1 /\ task = NoReq
  /\ cache = <<>> /\ op = NoOp /\ owed = {} /\ due = {}
  /\ ops = 0

------------------------------------------------------------------------------
(* What callers may hold: what listings and the last Mkdir returned, and paths. *)
Held == (UNION Range(cache)) \cup IF op.res = "ok" THEN {op.dst} ELSE {}

(* The Paths in the listings are those of the directories they list.  The
   renaming or moving of a directory leaves those below it as they were. *)
Located ==
  \A k \in DOMAIN cache : \A o \in cache[k] :
    o.id \in DOMAIN tree => Clean(o.path) = PathOf(tree, tree[o.id].parent)

Begin(kind, pc, objs, dst, name, path) ==
  /\ Idle /\ ops < MaxOps
  /\ ops' = ops + 1
  /\ \E todo \in SetToSeqs(objs) :
     op' = [NoOp EXCEPT !.kind = kind, !.pc = pc, !.objs = objs, !.todo = todo,
                        !.dst = dst, !.name = name, !.path = path,
                        !.snap = tree, !.clean = owed = {} /\ task = NoReq /\ Located]
  /\ UNCHANGED <<drv, tree, fresh, task, cache, owed, due>>

Items == {S \in SUBSET (Held \ {RootObj}) : S # {} /\ IsFiniteSet(S) /\ Cardinality(S) <= MaxItems}
         \cup {{PathObj(p)} : p \in Paths}

BeginRename == \E o \in (Held \ {RootObj}) \cup {PathObj(p) : p \in Paths}, n \in Names :
                 n # Last(Full(o)) /\ Begin("rename", "resolve", {o}, RootObj, n, <<>>)
BeginDelete == \E S \in Items : Begin("delete", "resolve", S, RootObj, NoName, <<>>)
BeginMkdir == \E p \in Paths : Begin("mkdir", "mkdir", {}, RootObj, NoName, p)
BeginBatch == \E o \in {x \in Held : x.type = "dir"} \cup {PathObj(p) : p \in Paths \cup {<<>>}} :
                Begin("batch", "batch", {o}, RootObj, NoName, <<>>)

(* A target without id is made first, except by baidu. *)
BeginMove ==
  \E S \in Items, d \in {o \in Held : o.type = "dir"} \cup {PathObj(p) : p \in Paths \cup {<<>>}} :
    Begin("move", IF d.id = NoId /\ drv # "baidu" THEN "mkdir" ELSE "resolve", S, d, NoName, Full(d))

------------------------------------------------------------------------------
(* The drivers' operations, up to their request. *)

ObjRename(r, n) ==
  CASE drv = "quark" -> QuarkObjRename(r, n)
    [] drv = "thunder" -> ThunderObjRename(r, n)
    [] drv = "cloudreve" -> CloudreveObjRename(r, n)
    [] drv = "ali" -> AliObjRename(r, n)
    [] drv = "ali_open" -> AliOpenObjRename(r, n)
    [] drv = "baidu" -> BaiduObjRename(r, n)

RenameResolve ==
  op.kind \in {"rename", "batch"} /\ Resolve(ObjRename(Resolved(cache, Head(op.todo)), op.name), <<>>)

MoveResolve ==
  LET items == CollectItemIds(cache, op.todo, FALSE)
      first == Resolved(cache, Head(op.todo))
  IN /\ op.kind = "move"
     /\ CASE drv = "quark" -> Resolve(QuarkMove(items, op.dst), <<>>)
          [] drv = "thunder" -> Resolve(ThunderMove(items, op.dst), <<>>)
          [] drv = "baidu" -> Resolve(BaiduMove(cache, op.todo, op.dst), <<>>)
          [] drv = "cloudreve" ->
               \E src \in {o.path : o \in Range(op.todo)} :
                 Resolve(CloudreveMove(Sources(cache, SameSrc(op.todo, src), FALSE), op.dst),
                         OtherSrc(op.todo, src))
          [] drv = "ali" -> Resolve(AliMove(first, op.dst), Tail(op.todo))
          [] drv = "ali_open" -> Resolve(AliOpenMove(first, op.dst), Tail(op.todo))

DeleteResolve ==
  LET items == CollectItemIds(cache, op.todo, TRUE)
      first == Resolved(cache, Head(op.todo))
  IN /\ op.kind = "delete"
     /\ CASE drv = "quark" -> Resolve(QuarkDelete(items), <<>>)
          [] drv = "thunder" -> Resolve(ThunderDelete(items), <<>>)
          [] drv = "baidu" -> Resolve(BaiduDelete(cache, op.todo), <<>>)
          [] drv = "cloudreve" -> Resolve(CloudreveDelete(Sources(cache, op.todo, TRUE)), <<>>)
          [] drv = "ali" -> Resolve(AliDelete(first), Tail(op.todo))
          [] drv = "ali_open" -> Resolve(AliOpenDelete(first), Tail(op.todo))

(* A failed look (a list request that fails) ends every operation. *)
LookFails ==
  /\ op.pc \in {"resolve", "mkdir", "batch"}
  /\ Return("error", cache, RootObj)
  /\ UNCHANGED <<fresh, task>>

------------------------------------------------------------------------------
(***************************************************************************)
(* BaseBatchRename: list the directory anew; of each object in it, first   *)
(* the directory's own content, then its name.  A frame of the recursion   *)
(* is what is left of a listing and the directory whose content is being   *)
(* renamed.                                                                *)
(***************************************************************************)
Frame(objs, dir) == [left |-> objs, dir |-> dir]

BatchList(l, dir, o2) ==
  IF ~l.ok THEN Return("error", l.cache, RootObj)
  ELSE Go(tree, l.cache, [o2 EXCEPT !.stack = Append(@, Frame(l.objs, dir)), !.todo = <<>>])

BatchStart == op.stack = <<>> /\ BatchList(List(cache, Head(op.todo), TRUE), Head(op.todo), op)

(* req.Func(object), and ObjRename if it differs *)
NameOf(o, o2) ==
  IF Func[o.name] = o.name THEN o2
  ELSE [o2 EXCEPT !.pc = "resolve", !.todo = <<o>>, !.name = Func[o.name]]

BatchObject ==
  /\ op.stack # <<>>
  /\ \E o \in Last(op.stack).left :
       LET o2 == [op EXCEPT !.stack[Len(op.stack)].left = @ \ {o}]
       IN IF o.type = "dir"
          THEN BatchList(List(cache, o, TRUE), o, o2)
          ELSE Go(tree, cache, NameOf(o, o2))

(* Deviation: a directory keeps its name once its content is renamed. *)
BatchUpForgets ==
  /\ op.stack # <<>> /\ Last(op.stack).left = {}
  /\ IF Len(op.stack) = 1 THEN Return("ok", cache, RootObj)
     ELSE Go(tree, cache, [op EXCEPT !.stack = Front(@)])

BatchUp ==
  /\ op.stack # <<>> /\ Last(op.stack).left = {}
  /\ LET o2 == [op EXCEPT !.stack = Front(@)]
     IN IF Len(op.stack) = 1 THEN Return("ok", cache, RootObj)
        ELSE Go(tree, cache, NameOf(Last(op.stack).dir, o2))

BatchRename ==
  /\ op.pc = "batch"
  /\ BatchStart \/ BatchObject \/ BatchUp
  /\ UNCHANGED <<fresh, task>>

------------------------------------------------------------------------------
(* Others. *)

(* Another goroutine of the client lists a directory, or the caller does. *)
ListDir(l) ==
  /\ l.cache # cache
  /\ cache' = l.cache
  /\ owed' = StaleIn(l.cache, tree, owed \cup Misfiled(l.cache))
  /\ op' = [op EXCEPT !.touched = StaleIn(l.cache, tree, @)]
  /\ UNCHANGED <<drv, tree, fresh, task, due, ops>>

ListSome ==
  \/ \E dir \in {o \in Held : o.type = "dir"} \cup {RootObj} : ListDir(List(cache, dir, FALSE))
  \/ /\ Idle
     /\ \E dir \in {o \in Held : o.type = "dir"} \cup {PathObj(p) : p \in Paths \cup {<<>>}},
           reload \in BOOLEAN : ListDir(List(cache, dir, reload))

(* Another device. *)
Changed(t2) ==
  /\ ops < MaxOps
  /\ ops' = ops + 1
  /\ t2 # tree
  /\ \A i, j \in DOMAIN t2 : PathOf(t2, i) = PathOf(t2, j) => i = j
  /\ fresh \in DOMAIN t2 => fresh <= MaxId
  /\ tree' = t2
  /\ fresh' = IF fresh \in DOMAIN t2 THEN fresh + 1 ELSE fresh
  /\ owed' = StaleIn(cache, t2, owed \cup Broken(t2))
  /\ op' = [op EXCEPT !.clean = FALSE]
  /\ UNCHANGED <<drv, task, cache, due>>

Elsewhere ==
  \/ \E i \in DOMAIN tree : Changed(Removed(tree, {i}))
  \/ \E i \in DOMAIN tree, n \in Names : Changed(Renamed(tree, i, n))
  \/ \E i \in {Root} \cup DOMAIN tree, n \in Names, ty \in {"dir", "file"} :
       IsDir(tree, i) /\ Changed(Made(tree, fresh, i, n, ty))

Steps ==
  /\ \/ LookFails \/ RequestFail
     \/ RenameResolve \/ MoveResolve \/ DeleteResolve
     \/ Request \/ AnswerLost \/ Finish
     \/ BatchRename
     \/ QuarkNext \/ BaiduNext \/ AliNext \/ CloudreveNext \/ ThunderMkdir
  /\ UNCHANGED <<drv, ops>>

ServerTask == TaskRuns /\ UNCHANGED <<drv, ops>>

Next ==
  \/ BeginRename \/ BeginMove \/ BeginDelete \/ BeginMkdir \/ BeginBatch
  \/ Steps \/ ServerTask \/ ListSome \/ Elsewhere

(* An operation goes on, and the server works on the tasks it took. *)
Spec == Init /\ [][Next]_vars /\ WF_vars(Steps) /\ WF_vars(ServerTask)

------------------------------------------------------------------------------
(* Properties. *)

(* Type correctness. *)
TypeOK ==
  /\ drv \in Drivers
  /\ \A i \in DOMAIN tree : tree[i].name \in Names /\ IsDir(tree, tree[i].parent)
  /\ \A k \in DOMAIN cache : \A o \in cache[k] : o.id \in 1..MaxId /\ o.type \in {"dir", "file"}
  /\ op.pc \in {"idle", "resolve", "request", "task", "finish", "mkdir", "find", "create",
                 "conflict", "made", "batch"}
  /\ op.res \in {"none", "ok", "error", "panic"}
  /\ owed \cup op.touched \subseteq DOMAIN cache

(* A listing in the cache shows the directory as it is: whatever a request of
   an operation that has returned did to the directories its objects were in
   or moved to, the driver has deleted the listing, under the key it has, by
   the time the operation returns, with nil or an error.  Excepted is what the
   operation in flight has touched, and what is owed: what other devices did,
   requests whose answer got lost, the listings below a directory that was
   deleted or renamed, and where the drivers slip or skip (see Due, Skips). *)
ListingsCurrent ==
  \A k \in DOMAIN cache \ (owed \cup op.touched) : Shown(cache[k]) = Truth(tree, k)

Returns(kind) == op.kind = kind /\ op'.pc = "idle" /\ op'.res = "ok" /\ op.clean

Only(t, ids) == Restrict(t, DOMAIN t \cap ids)

(* What has been added on the way is nothing but directories of a path. *)
Grown(t, p) ==
  \A k \in DOMAIN t \ DOMAIN op.snap : t[k].type = "dir" /\ IsPrefix(PathOf(t, k), p)

(* Mkdir that returns nil returns the object at the path it was given, and has
   made the missing directories above it and nothing else, when the listings
   were right as it began and nobody interfered: whatever these already knew,
   whichever requests had to be repeated. *)
MkdirFinds ==
  [][Returns("mkdir") => /\ NodeAt(tree', op.path) = op'.dst.id
                         /\ Only(tree', DOMAIN op.snap) = op.snap
                         /\ Grown(tree', op.path)]_vars

(* The node a caller means. *)
Meant(o) == IF drv = "baidu" \/ o.id = NoId THEN NodeAt(op.snap, Full(o)) ELSE o.id

(* ObjRename that returns nil has renamed the object the caller named, and
   nothing else, no matter whether it was given by id or by a path. *)
RenameEffective ==
  [][Returns("rename") => \E o \in op.objs : tree' = Renamed(op.snap, Meant(o), op.name)]_vars

(* Delete that returns nil has removed exactly the objects the caller named
   and what is below them, no matter in how many requests, which of them are
   below others, and which do not exist. *)
DeleteEffective ==
  [][Returns("delete") => tree' = Removed(op.snap, {Meant(o) : o \in op.objs})]_vars

(* What such an operation does is done to the objects the caller named, to all
   of them, and to no other. *)
ObjectsEffective == RenameEffective /\ DeleteEffective

(* Move that returns nil has moved exactly the objects the caller named to the
   target, has made the missing directories on the path to it, and nothing
   else, no matter whether target and objects were given by id or by path. *)
MoveEffective ==
  [][LET at == IF drv \in {"baidu", "cloudreve"} THEN NodeAt(op.snap, Full(op.dst)) ELSE op.dst.id
     IN Returns("move") =>
          /\ Grown(tree', op.path)
          /\ Only(tree', DOMAIN op.snap)
               = Moved(op.snap, {Meant(o) : o \in op.objs}, IF at = NoId THEN op.dst.id ELSE at)]_vars

(* BatchRename that returns nil has given every object below the directory the
   name Func makes of the name it had, once, however deep it lies and although
   the recursion works with objects it listed before renaming others. *)
BatchRenamesAll ==
  [][LET top == CHOOSE o \in op.objs : TRUE
         i == IF drv \in {"baidu", "cloudreve"} THEN NodeAt(op.snap, Full(top)) ELSE Meant(top)
         below == {k \in DOMAIN op.snap : k # i /\ IsPrefix(PathOf(op.snap, i), PathOf(op.snap, k))}
     IN Returns("batch") =>
          tree' = [k \in DOMAIN op.snap |->
                     IF k \in below THEN [op.snap[k] EXCEPT !.name = Func[@]] ELSE op.snap[k]]]_vars

(* Every operation returns: the recursion of Mkdir (thunder, cloudreve) and of
   BatchRename ends, the retries and the polling of tasks end.  Only a server
   that goes on refusing to make a directory with HTTP status 200 keeps
   cloudreve's Mkdir calling itself. *)
Deaf == drv = "cloudreve" /\ op.pc = "made" /\ op.tries > 0
OpReturns == []<>Idle \/ []<>Deaf
==============================================================================
