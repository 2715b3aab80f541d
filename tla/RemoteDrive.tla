----------------------------- MODULE RemoteDrive -----------------------------
(***************************************************************************)
(* A cloud drive and one client of it.  The server keeps a tree of         *)
(* directories and files; the client keeps listings of directories, each   *)
(* under the key its driver gives the directory (its id, or its path for   *)
(* baidu_netdisk), and works with PanObjs that listings handed out.        *)
(*                                                                         *)
(* A path is the sequence of its components.  A PanObj with no name is     *)
(* given by its path alone, as callers may; the trailing slash this leaves *)
(* in "path/name" is a last component NoName.                              *)
(***************************************************************************)
EXTENDS Integers, Sequences, FiniteSets, SequencesExt, Functions, TLC

CONSTANTS
  Drivers,  \* the drivers to be checked, a subset of AllDrivers
  Names,    \* names of files and directories
  MaxId,    \* bound: nodes the server ever makes
  MaxTries, \* attempt <= 3 of quark's Mkdir
  Func      \* BatchRenameReq.Func, from names to names

Root == 0
NoId == -1      \* an empty Id
NoParent == -2  \* Parent is nil
NoName == ""
Up == ".."

AllDrivers == {"quark", "cloudreve", "thunder", "ali", "ali_open", "baidu"}

ASSUME DriveParameters ==
  /\ Drivers \subseteq AllDrivers
  /\ MaxId \in Nat /\ MaxTries \in Nat
  /\ Func \in [Names -> Names]
  /\ NoName \notin Names /\ Up \notin Names

VARIABLES
  drv,    \* the driver of the client
  tree,   \* server: the nodes, each [name, parent, type]
  fresh,  \* server: the next id
  task,   \* server: the request quark's server works on, or NoReq
  cache,  \* DirCache: listings (sets of PanObjs) by key
  op      \* the operation in flight

------------------------------------------------------------------------------
(* The server. *)

Kids(t, i) == {k \in DOMAIN t : t[k].parent = i}

PathOf(t, i) ==
  LET f[k \in {Root} \cup DOMAIN t] ==
        IF k = Root THEN <<>> ELSE Append(f[t[k].parent], t[k].name)
  IN f[i]

NodeAt(t, p) ==
  IF \E i \in {Root} \cup DOMAIN t : PathOf(t, i) = p
  THEN CHOOSE i \in {Root} \cup DOMAIN t : PathOf(t, i) = p
  ELSE NoId

(* The nodes ids and what is below them. *)
Inside(t, ids) ==
  {k \in DOMAIN t :
     \A S \in SUBSET DOMAIN t :
       ids \cap DOMAIN t \subseteq S /\ (\A j \in DOMAIN t : t[j].parent \in S => j \in S) => k \in S}

IsDir(t, i) == i = Root \/ (i \in DOMAIN t /\ t[i].type = "dir")

HasKid(t, i, n) == \E k \in Kids(t, i) : t[k].name = n
Kid(t, i, n) == CHOOSE k \in Kids(t, i) : t[k].name = n

Removed(t, ids) == Restrict(t, DOMAIN t \ Inside(t, ids))
Renamed(t, i, n) == [t EXCEPT ![i].name = n]
Moved(t, ids, dst) == [k \in DOMAIN t |-> IF k \in ids THEN [t[k] EXCEPT !.parent = dst] ELSE t[k]]
Made(t, i, at, n, ty) ==
  [k \in DOMAIN t \cup {i} |-> IF k = i THEN [name |-> n, parent |-> at, type |-> ty] ELSE t[k]]

(* The directories of a path, those made that are missing; not ok if a file is
   in the way. *)
EnterOrMake(s, n) ==
  IF HasKid(s.t, s.at, n)
  THEN LET k == Kid(s.t, s.at, n) IN [s EXCEPT !.at = k, !.ok = @ /\ IsDir(s.t, k)]
  ELSE [t |-> Made(s.t, s.i, s.at, n, "dir"), i |-> s.i + 1, at |-> s.i, ok |-> s.ok]

MadeAll(t, i, p) ==
  LET walk[k \in 0..Len(p)] ==
        IF k = 0 THEN [t |-> t, i |-> i, at |-> Root, ok |-> TRUE]
        ELSE EnterOrMake(walk[k - 1], p[k])
  IN walk[Len(p)]

------------------------------------------------------------------------------
(* PanObjs. *)

Obj(id, name, path, type, pid) ==
  [id |-> id, name |-> name, path |-> path, type |-> type, pid |-> pid]

RootObj == Obj(Root, NoName, <<>>, "dir", NoParent)

(* A directory or file given by its path, as the tests do. *)
PathObj(p) == IF p = <<>> THEN RootObj ELSE Obj(NoId, NoName, p, "dir", NoParent)

(* Without the trailing slash. *)
Clean(p) == IF p # <<>> /\ Last(p) = NoName THEN Front(p) ELSE p

(* strings.TrimRight(obj.Path, "/") + "/" + obj.Name *)
Full(o) == IF o.name = NoName THEN Clean(o.path) ELSE Append(Clean(o.path), o.name)

(* How the requests of a driver name an object to the server. *)
NodeOf(t, o) == IF drv = "baidu" THEN NodeAt(t, Full(o)) ELSE o.id

------------------------------------------------------------------------------
(* The client's listings. *)

Put(c, key, objs) == [k \in DOMAIN c \cup {key} |-> IF k = key THEN objs ELSE c[k]]
Del(c, keys) == Restrict(c, DOMAIN c \ keys)

Shown(objs) == {<<o.id, o.name, o.type>> : o \in objs}

(* What a listing under this key should show. *)
Truth(t, key) ==
  LET i == IF drv = "baidu" THEN NodeAt(t, Clean(key)) ELSE key
  IN {<<k, t[k].name, t[k].type>> : k \in Kids(t, i)}

StaleIn(c, t, keys) == {k \in keys \cap DOMAIN c : Shown(c[k]) # Truth(t, k)}

------------------------------------------------------------------------------
(* Requests that change the tree, as the drivers send them. *)

NoReq == [do |-> "none", objs |-> {}, dst |-> RootObj, name |-> NoName]
Req(do, objs, dst, name) == [do |-> do, objs |-> objs, dst |-> dst, name |-> name]

Targets(t, r) == {NodeOf(t, o) : o \in r.objs}

(* cloudreve names the destination of a move by its path *)
Dst(t, r) == IF drv = "cloudreve" THEN NodeAt(t, Full(r.dst)) ELSE NodeOf(t, r.dst)

(* No two entries of a directory have one name, no directory moves into itself. *)
Valid(t, r) ==
  /\ Targets(t, r) \subseteq DOMAIN t
  /\ CASE r.do = "delete" -> TRUE
       [] r.do = "rename" -> \A i \in Targets(t, r) : ~HasKid(t, t[i].parent, r.name)
       [] r.do = "move" -> /\ IsDir(t, Dst(t, r))
                           /\ Dst(t, r) \notin Inside(t, Targets(t, r))
                           /\ \A i \in Targets(t, r) : ~HasKid(t, Dst(t, r), t[i].name)
                           /\ \A i, j \in Targets(t, r) : t[i].name = t[j].name => i = j

Served(t, r) ==
  CASE r.do = "delete" -> Removed(t, Targets(t, r))
    [] r.do = "rename" -> Renamed(t, CHOOSE i \in Targets(t, r) : TRUE, r.name)
    [] r.do = "move" -> Moved(t, Targets(t, r), Dst(t, r))

------------------------------------------------------------------------------
(* What an operation is about to do: the request to send next and the keys
   to delete once it is done.  A plan that is not ok is an error return, one
   that has nothing to do returns nil without a request. *)

Plan(c, req, dels) == [ok |-> TRUE, cache |-> c, req |-> req, dels |-> dels, panic |-> FALSE]
Refuse(c) == [Plan(c, NoReq, {}) EXCEPT !.ok = FALSE]
Panic(c) == [Plan(c, NoReq, {}) EXCEPT !.panic = TRUE]
==============================================================================
