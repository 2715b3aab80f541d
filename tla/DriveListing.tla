----------------------------- MODULE DriveListing ----------------------------
(***************************************************************************)
(* How the drivers list a directory, and the three operations of           *)
(* pan/driver.go that work through listings: GetPanObj, CollectItemIds and *)
(* (for BaseBatchRename, in Dirs) a forced reload.                         *)
(*                                                                         *)
(* Operators take the listings c and return, with their result, the        *)
(* listings after it.  The pages of a directory are read as one answer;    *)
(* what may happen to a load in flight is the subject of module Cache.     *)
(***************************************************************************)
EXTENDS RemoteDrive

Found(objs, c) == [ok |-> TRUE, objs |-> objs, cache |-> c]
NotFound(c) == [ok |-> FALSE, objs |-> {}, cache |-> c]

(* A directory to be listed: the key of its listing, whether the server      *)
(* finds it, the nodes it would answer now, and the Path and the id of the  *)
(* Parent that the objects get.                                             *)
Listing(key, there, nodes, path, pid) ==
  [key |-> key, there |-> there, nodes |-> nodes, path |-> path, pid |-> pid]

(* Deviation: a listing that loses the ids. *)
GetOrLoadNoIds(c, l) ==
  IF l.key \in DOMAIN c THEN Found(c[l.key], c)
  ELSE IF ~l.there THEN NotFound(c)
  ELSE LET objs == {Obj(NoId, tree[k].name, l.path, tree[k].type, l.pid) : k \in l.nodes}
       IN Found(objs, Put(c, l.key, objs))

GetOrLoad(c, l) ==
  IF l.key \in DOMAIN c THEN Found(c[l.key], c)
  ELSE IF ~l.there THEN NotFound(c)
  ELSE LET objs == {Obj(k, tree[k].name, l.path, tree[k].type, l.pid) : k \in l.nodes}
       IN Found(objs, Put(c, l.key, objs))

(* The requests that list a directory: by id, and for two drivers by path. *)
fileSort(i) == Kids(tree, i)
thunderGetFiles(i) == Kids(tree, i)
aliGetFiles(i) == Kids(tree, i)
aliOpenGetFiles(i) == Kids(tree, i)
listDirectory(p) == Kids(tree, NodeAt(tree, p))
baiduGetFiles(p) == Kids(tree, NodeAt(tree, p))

(* What List asks for once the directory q is known; its children get the   *)
(* Parent pid, the id of the directory as the caller gave it.  cloudreve    *)
(* keeps a listing under the id it was given, "" if none, but asks the      *)
(* server by path.                                                          *)
QuarkList(q, pid) == Listing(q.id, IsDir(tree, q.id), fileSort(q.id), Full(q), pid)
ThunderList(q, pid) == Listing(q.id, IsDir(tree, q.id), thunderGetFiles(q.id), Full(q), pid)
AliList(q, pid) == Listing(q.id, IsDir(tree, q.id), aliGetFiles(q.id), Full(q), pid)
AliOpenList(q, pid) == Listing(q.id, IsDir(tree, q.id), aliOpenGetFiles(q.id), Full(q), pid)

CloudreveList(q, pid) ==
  Listing(q.id, IsDir(tree, NodeAt(tree, Full(q))), listDirectory(Full(q)), Full(q), pid)

BaiduKey(o) == IF Full(o) = <<>> THEN <<>> ELSE Append(Clean(o.path), o.name)

BaiduList(q, pid) ==
  Listing(BaiduKey(q), IsDir(tree, NodeAt(tree, Full(q))), baiduGetFiles(Full(q)), BaiduKey(q), pid)

ListingOf(q, pid) ==
  CASE drv = "quark" -> QuarkList(q, pid)
    [] drv = "thunder" -> ThunderList(q, pid)
    [] drv = "ali" -> AliList(q, pid)
    [] drv = "ali_open" -> AliOpenList(q, pid)
    [] drv = "cloudreve" -> CloudreveList(q, pid)
    [] drv = "baidu" -> BaiduList(q, pid)

(* GetPanObj's calls of list: targets with an id. *)
Children(c, q) == GetOrLoad(c, ListingOf(q, q.id))

(***************************************************************************)
(* Walk down from the root by name.  A name that is missing is an error if *)
(* mustExist (the second look is at the same listing), otherwise the walk  *)
(* ends at the deepest object that exists.                                 *)
(***************************************************************************)
Down(s, n, mustExist, l) ==
  LET m == {o \in l.objs : o.name = n}
  IN IF ~l.ok THEN [s EXCEPT !.ok = FALSE, !.end = TRUE]
     ELSE IF m # {} THEN [s EXCEPT !.obj = CHOOSE o \in m : TRUE, !.cache = l.cache]
     ELSE [s EXCEPT !.ok = ~mustExist, !.end = TRUE, !.cache = l.cache]

Look(s, n, mustExist) ==
  IF s.end THEN s ELSE Down(s, n, mustExist, Children(s.cache, s.obj))

GetPanObj(c, path, mustExist) ==
  LET walk[k \in 0..Len(path)] ==
        IF k = 0 THEN [ok |-> TRUE, obj |-> RootObj, cache |-> c, end |-> FALSE]
        ELSE Look(walk[k - 1], path[k], mustExist)
  IN walk[Len(path)]

(* An object with an id is what it is. *)
Given(c, o) == [ok |-> TRUE, obj |-> o, cache |-> c]
Missing(c, o) == [ok |-> FALSE, obj |-> o, cache |-> c]

(* List: a directory without id is looked up first (not by the two drivers
   that ask by path), then a reload deletes the listing, then it is got or
   loaded. *)
ListFound(g, l, reload) ==
  IF ~g.ok THEN NotFound(g.cache)
  ELSE GetOrLoad(IF reload THEN Del(g.cache, {l.key}) ELSE g.cache, l)

ListResolved(g, pid, reload) == ListFound(g, ListingOf(g.obj, pid), reload)

List(c, dir, reload) ==
  ListResolved(IF dir.id = NoId /\ drv \notin {"cloudreve", "baidu"}
               THEN GetPanObj(c, Full(dir), TRUE) ELSE Given(c, dir),
               dir.id, reload)

(* An operand without id is looked up (its whole path), except by baidu. *)
Resolved(c, o) ==
  IF o.id # NoId \/ drv = "baidu" THEN Given(c, o) ELSE GetPanObj(c, Full(o), TRUE)

(* The objects and the keys of listings collected so far, and one more. *)
Nothing(c) == [objs |-> {}, keys |-> {}, cache |-> c]
Collected(s, g, keys) ==
  IF g.ok THEN [objs |-> s.objs \cup {g.obj}, keys |-> s.keys \cup keys, cache |-> g.cache]
  ELSE [s EXCEPT !.cache = g.cache]

CollectItem(s, item, g, forDelete) ==
  Collected(s, g, IF g.obj.type = "dir" THEN {g.obj.id}
                  ELSE IF forDelete THEN {item.pid} \ {NoParent, NoId} ELSE {})

(* Deviation: an item that is not found stands for the directory it was     *)
(* looked for in.                                                           *)
CollectNearest(c, items, forDelete) ==
  LET Add(s, item) ==
        CollectItem(s, item,
                    IF item.id \notin {Root, NoId} THEN Given(s.cache, item)
                    ELSE GetPanObj(s.cache, Clean(item.path), FALSE), forDelete)
      sum[k \in 0..Len(items)] == IF k = 0 THEN Nothing(c) ELSE Add(sum[k - 1], items[k])
  IN sum[Len(items)]

(***************************************************************************)
(* The items of Move and Delete with the listings to delete: a directory's *)
(* own, and for Delete a file's parent's.  Items that are not found are    *)
(* left out without an error, and so is the root.                          *)
(***************************************************************************)
LookUp(c, item, path) ==
  IF item.id \notin {Root, NoId} THEN Given(c, item)
  ELSE IF item.path = <<>> THEN Missing(c, item)
  ELSE GetPanObj(c, path, TRUE)

CollectItemIds(c, items, forDelete) ==
  LET sum[k \in 0..Len(items)] ==
        IF k = 0 THEN Nothing(c)
        ELSE CollectItem(sum[k - 1], items[k], LookUp(sum[k - 1].cache, items[k], Clean(items[k].path)),
                         forDelete)
  IN sum[Len(items)]
==============================================================================
