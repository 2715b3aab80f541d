----------------------------- MODULE DirsEffects ------------------------------
(***************************************************************************)
(* What renamings, deletions, moves and Mkdir do to the tree of Dirs, for  *)
(* any tree, any paths and any number of operations: an ObjRename, Delete  *)
(* or Move that returns nil has done to the server's tree exactly what the *)
(* caller asked for, and a Mkdir that returns nil has made what was        *)
(* missing of its path and returns what is there.                          *)
(***************************************************************************)
EXTENDS DirsProofs

------------------------------------------------------------------------------
(* Paths name nodes. *)

\* Two nodes have two paths.
LEMMA PathsDiffer ==
  ASSUME NEW n, NEW t, TreeOK(t, n), NEW i \in Nodes(t), NEW j \in Nodes(t), PathOf(t, i) = PathOf(t, j)
  PROVE  i = j
<1> DEFINE bad == {x \in DOMAIN t : \E y \in Nodes(t) : y # x /\ PathOf(t, y) = PathOf(t, x)}
<1>1. /\ PathOf(t, Root) = <<>>
      /\ \A x \in DOMAIN t : /\ t[x].parent \in Nodes(t) /\ PathOf(t, t[x].parent) \in Seq(Names)
                             /\ PathOf(t, x) = Append(PathOf(t, t[x].parent), t[x].name)
  BY PathIs DEF TreeOK
<1>2. \A x \in DOMAIN t : /\ PathOf(t, x) # <<>> /\ Front(PathOf(t, x)) = PathOf(t, t[x].parent)
                          /\ Last(PathOf(t, x)) = t[x].name
  <2>1. ASSUME NEW x \in DOMAIN t
        PROVE  /\ PathOf(t, x) # <<>> /\ Front(PathOf(t, x)) = PathOf(t, t[x].parent)
               /\ Last(PathOf(t, x)) = t[x].name
    <3> DEFINE p == PathOf(t, t[x].parent)
    <3>1. p \in Seq(Names) /\ PathOf(t, x) = Append(p, t[x].name)
      BY <1>1
    <3> HIDE DEF p
    <3>2. Append(p, t[x].name) # <<>> /\ Front(Append(p, t[x].name)) = p /\ Last(Append(p, t[x].name)) = t[x].name
      BY <3>1, AppendIs
    <3> QED BY <3>1, <3>2 DEF p
  <2> QED BY <2>1
<1>3. Hangs(t) /\ Distinct(t)
  BY DEF TreeOK, Shape
<1>4. ASSUME NEW x \in DOMAIN t, t[x].parent \notin bad, NEW y \in Nodes(t), PathOf(t, y) = PathOf(t, x)
      PROVE  y = x
  <2>1. y \in DOMAIN t
    BY <1>1, <1>2, <1>4 DEF Nodes
  <2>2. PathOf(t, t[y].parent) = PathOf(t, t[x].parent) /\ t[y].name = t[x].name
    BY <1>2, <1>4, <2>1
  <2>3. t[y].parent = t[x].parent
    <3>1. CASE t[x].parent \in DOMAIN t
      BY <1>1, <1>4, <2>1, <2>2, <3>1
    <3>2. CASE t[x].parent = Root
      BY <1>1, <1>2, <2>1, <2>2, <3>2 DEF Nodes
    <3> QED BY <1>1, <3>1, <3>2 DEF Nodes
  <2> QED BY <1>3, <2>1, <2>2, <2>3 DEF Distinct
<1>5. bad = {}
  <2>1. \A x \in DOMAIN t : t[x].parent \notin bad => x \notin bad
    BY <1>4
  <2>2. bad \in SUBSET DOMAIN t
    OBVIOUS
  <2> HIDE DEF bad
  <2> QED BY <1>3, <2>1, <2>2, AllBelow
<1>6. CASE i \in DOMAIN t \/ j \in DOMAIN t
  BY <1>5, <1>6
<1>7. CASE i = Root /\ j = Root
  BY <1>7
<1> QED BY <1>6, <1>7 DEF Nodes

\* The server finds a node at its path, and nothing at a path that no node has.
LEMMA NodeAtIs ==
  ASSUME NEW n, NEW t, TreeOK(t, n)
  PROVE  /\ \A i \in Nodes(t) : NodeAt(t, PathOf(t, i)) = i
         /\ \A p : (\A i \in Nodes(t) : PathOf(t, i) # p) => NodeAt(t, p) = NoId
<1>1. ASSUME NEW i \in Nodes(t) PROVE NodeAt(t, PathOf(t, i)) = i
  <2> DEFINE at(j) == PathOf(t, j) = PathOf(t, i)
  <2>1. NodeAt(t, PathOf(t, i)) = CHOOSE j \in Nodes(t) : at(j)
    BY DEF NodeAt, Nodes
  <2>2. \A j \in Nodes(t) : at(j) => j = i
    BY PathsDiffer
  <2>3. at(i)
    OBVIOUS
  <2> HIDE DEF at
  <2> QED BY <2>1, <2>2, <2>3
<1>2. ASSUME NEW p, \A i \in Nodes(t) : PathOf(t, i) # p PROVE NodeAt(t, p) = NoId
  BY <1>2 DEF NodeAt, Nodes
<1> QED BY <1>1, <1>2

------------------------------------------------------------------------------
(* Listings that are right. *)

Right(c) ==
  \A k \in DOMAIN c :
    /\ Shown(c[k]) = Truth(tree, k)
    /\ \A o \in c[k] : o.id \in DOMAIN tree => Clean(o.path) = PathOf(tree, tree[o.id].parent)

\* The object is in the tree, where it says.
Placed(o) == o.id \in Nodes(tree) /\ Full(o) = PathOf(tree, o.id)

LEMMA RootPlaced ==
  ASSUME Types
  PROVE  Placed(RootObj)
<1>1. PathOf(tree, Root) = <<>>
  BY PathIs DEF Types, TreeOK
<1> QED BY <1>1 DEF Placed, Nodes, RootObj, Obj, Full, Clean

\* The listing of a directory shows its entries.
Entries(i) == {<<k, tree[k].name, tree[k].type>> : k \in Kids(tree, i)}

\* What a right listing has is in the tree, where it says.
LEMMA RightIs ==
  ASSUME Types, NEW objs \in SUBSET Listed(fresh), NEW i, Shown(objs) = Entries(i),
         \A o \in objs : o.id \in DOMAIN tree => Clean(o.path) = PathOf(tree, tree[o.id].parent)
  PROVE  /\ \A o \in objs : o.id \in Kids(tree, i) /\ o.name = tree[o.id].name /\ Placed(o)
         /\ \A k \in Kids(tree, i) : \E o \in objs : o.id = k /\ o.name = tree[k].name
<1>1. ASSUME NEW o \in objs PROVE o.id \in Kids(tree, i) /\ o.name = tree[o.id].name /\ Placed(o)
  <2>1. <<o.id, o.name, o.type>> \in Entries(i)
    BY DEF Shown
  <2>2. o.id \in Kids(tree, i) /\ o.name = tree[o.id].name
    BY <2>1 DEF Entries
  <2>3. o.id \in DOMAIN tree /\ o.name # NoName
    BY <2>2, DriveParameters DEF Kids, Listed
  <2>4. Full(o) = Append(PathOf(tree, tree[o.id].parent), tree[o.id].name)
    BY <2>2, <2>3 DEF Full
  <2>5. PathOf(tree, o.id) = Append(PathOf(tree, tree[o.id].parent), tree[o.id].name)
    BY <2>3, PathIs DEF Types, TreeOK
  <2> QED BY <2>2, <2>3, <2>4, <2>5 DEF Placed, Nodes
<1>2. ASSUME NEW k \in Kids(tree, i) PROVE \E o \in objs : o.id = k /\ o.name = tree[k].name
  <2>1. <<k, tree[k].name, tree[k].type>> \in Shown(objs)
    BY DEF Entries
  <2> QED BY <2>1 DEF Shown
<1> QED BY <1>1, <1>2

\* What a driver asks for, for a directory that is where it says.
LEMMA AskIs ==
  ASSUME Types, NEW q \in Object(fresh), Placed(q), NEW pid
  PROVE  LET l == ListingOf(q, pid)
         IN /\ l.there = IsDir(tree, q.id) /\ l.nodes = Kids(tree, q.id) /\ l.pid = pid
            /\ Clean(l.path) = PathOf(tree, q.id) /\ Truth(tree, l.key) = Entries(q.id)
            /\ drv # "baidu" => l.key = q.id
<1> DEFINE l == ListingOf(q, pid)
<1>1. Full(q) \in Seq(Names) /\ Clean(BaiduKey(q)) = Full(q) /\ Clean(Full(q)) = Full(q)
  BY FullIs, BaiduKeyIs, CleanIs DEF PathT
<1>2. NodeAt(tree, Full(q)) = q.id /\ Full(q) = PathOf(tree, q.id)
  BY NodeAtIs DEF Types, Placed
<1>3. drv \in AllDrivers
  BY DriveParameters DEF Types
<1>4. CASE drv \in {"quark", "thunder", "ali", "ali_open"}
  <2>1. l = Listing(q.id, IsDir(tree, q.id), Kids(tree, q.id), Full(q), pid)
    BY <1>4 DEF ListingOf, QuarkList, ThunderList, AliList, AliOpenList, fileSort, thunderGetFiles,
                aliGetFiles, aliOpenGetFiles
  <2> HIDE DEF l
  <2>2. /\ l.key = q.id /\ l.path = Full(q) /\ l.pid = pid /\ l.nodes = Kids(tree, q.id)
        /\ l.there = IsDir(tree, q.id)
    BY <2>1 DEF Listing
  <2>3. Truth(tree, q.id) = Entries(q.id)
    BY <1>4 DEF Truth, Entries
  <2> QED BY <1>1, <1>2, <2>2, <2>3 DEF l
<1>5. CASE drv = "cloudreve"
  <2>1. l = Listing(q.id, IsDir(tree, q.id), Kids(tree, q.id), Full(q), pid)
    BY <1>2, <1>5 DEF ListingOf, CloudreveList, listDirectory
  <2> HIDE DEF l
  <2>2. /\ l.key = q.id /\ l.path = Full(q) /\ l.pid = pid /\ l.nodes = Kids(tree, q.id)
        /\ l.there = IsDir(tree, q.id)
    BY <2>1 DEF Listing
  <2>3. Truth(tree, q.id) = Entries(q.id)
    BY <1>5 DEF Truth, Entries
  <2> QED BY <1>1, <1>2, <2>2, <2>3 DEF l
<1>6. CASE drv = "baidu"
  <2>1. l = Listing(BaiduKey(q), IsDir(tree, q.id), Kids(tree, q.id), BaiduKey(q), pid)
    BY <1>2, <1>6 DEF ListingOf, BaiduList, baiduGetFiles
  <2> HIDE DEF l
  <2>2. /\ l.key = BaiduKey(q) /\ l.path = BaiduKey(q) /\ l.pid = pid /\ l.nodes = Kids(tree, q.id)
        /\ l.there = IsDir(tree, q.id)
    BY <2>1 DEF Listing
  <2>3. Truth(tree, BaiduKey(q)) = Entries(q.id)
    BY <1>1, <1>2, <1>6 DEF Truth, Entries
  <2> QED BY <1>1, <1>2, <1>6, <2>2, <2>3 DEF l
<1> QED BY <1>3, <1>4, <1>5, <1>6 DEF AllDrivers

\* A listing that is got or loaded.
LEMMA LoadIs ==
  ASSUME Types, NEW c \in Caches(fresh), Right(c), NEW q \in Object(fresh), Placed(q), NEW pid \in Int
  PROVE  LET r == GetOrLoad(c, ListingOf(q, pid))
         IN /\ r.ok \in BOOLEAN /\ r.objs \in SUBSET Listed(fresh) /\ r.cache \in Caches(fresh) /\ Right(r.cache)
            /\ r.ok => /\ \A o \in r.objs : o.id \in Kids(tree, q.id) /\ o.name = tree[o.id].name /\ Placed(o)
                       /\ \A k \in Kids(tree, q.id) : \E o \in r.objs : o.id = k /\ o.name = tree[k].name
            /\ IsDir(tree, q.id) => r.ok
<1> DEFINE l == ListingOf(q, pid)  r == GetOrLoad(c, l)
           objs == {Obj(k, tree[k].name, l.path, tree[k].type, l.pid) : k \in l.nodes}
<1>1. /\ l.there = IsDir(tree, q.id) /\ l.nodes = Kids(tree, q.id) /\ l.pid = pid
      /\ Clean(l.path) = PathOf(tree, q.id) /\ Truth(tree, l.key) = Entries(q.id)
  BY AskIs
<1>2. r.ok \in BOOLEAN /\ r.objs \in SUBSET Listed(fresh) /\ r.cache \in Caches(fresh)
  BY GetOrLoadIs
<1> HIDE DEF l
<1>3. CASE l.key \in DOMAIN c
  <2>1. r = [ok |-> TRUE, objs |-> c[l.key], cache |-> c]
    BY <1>3 DEF GetOrLoad, Found
  <2> HIDE DEF r
  <2>2. Shown(r.objs) = Entries(q.id) /\ Right(r.cache) /\ r.ok
    BY <1>1, <1>3, <2>1 DEF Right
  <2>3. \A o \in r.objs : o.id \in DOMAIN tree => Clean(o.path) = PathOf(tree, tree[o.id].parent)
    BY <1>3, <2>1 DEF Right
  <2>4. /\ \A o \in r.objs : o.id \in Kids(tree, q.id) /\ o.name = tree[o.id].name /\ Placed(o)
        /\ \A k \in Kids(tree, q.id) : \E o \in r.objs : o.id = k /\ o.name = tree[k].name
    BY <1>2, <2>2, <2>3, RightIs
  <2> QED BY <1>2, <2>2, <2>4 DEF l, r
<1>4. CASE l.key \notin DOMAIN c /\ ~l.there
  <2>1. r = [ok |-> FALSE, objs |-> {}, cache |-> c]
    BY <1>4 DEF GetOrLoad, NotFound
  <2> HIDE DEF r
  <2> QED BY <1>1, <1>2, <1>4, <2>1 DEF l, r
<1>5. CASE l.key \notin DOMAIN c /\ l.there
  <2>1. r = [ok |-> TRUE, objs |-> objs, cache |-> Put(c, l.key, objs)]
    BY <1>1, <1>5 DEF GetOrLoad, Found
  <2>2. /\ \A k \in l.nodes : LET o == Obj(k, tree[k].name, l.path, tree[k].type, l.pid)
                               IN o \in objs /\ o.id = k /\ o.name = tree[k].name /\ o.type = tree[k].type
        /\ \A o \in objs : /\ o.id \in l.nodes /\ o.name = tree[o.id].name /\ o.type = tree[o.id].type
                           /\ o.path = l.path
    BY DEF Obj
  <2> HIDE DEF objs, r
  <2>3. Shown(objs) = Entries(q.id)
    BY <1>1, <2>2 DEF Shown, Entries
  <2>4. \A o \in objs : o.id \in DOMAIN tree => Clean(o.path) = PathOf(tree, tree[o.id].parent)
    BY <1>1, <2>2 DEF Kids
  <2>5. Right(Put(c, l.key, objs))
    <3> DEFINE c2 == Put(c, l.key, objs)
    <3>1. DOMAIN c2 = DOMAIN c \cup {l.key} /\ c2[l.key] = objs /\ \A k \in DOMAIN c : c2[k] = c[k]
      BY <1>5 DEF Put
    <3> HIDE DEF c2
    <3>2. \A k \in DOMAIN c2 : k = l.key \/ k \in DOMAIN c
      BY <3>1
    <3>3. Right(c2)
      BY <1>1, <2>3, <2>4, <3>1, <3>2 DEF Right
    <3> QED BY <3>3 DEF c2
  <2>6. r.objs = objs /\ r.ok /\ Right(r.cache)
    BY <2>1, <2>5
  <2>7. /\ \A o \in r.objs : o.id \in Kids(tree, q.id) /\ o.name = tree[o.id].name /\ Placed(o)
        /\ \A k \in Kids(tree, q.id) : \E o \in r.objs : o.id = k /\ o.name = tree[k].name
    BY <1>2, <2>3, <2>4, <2>6, RightIs
  <2> QED BY <1>2, <2>6, <2>7 DEF l, r
<1> QED BY <1>3, <1>4, <1>5

------------------------------------------------------------------------------
(* Objects that are looked for by their path. *)

\* No node has the path p.
Nowhere(p) == \A j \in Nodes(tree) : PathOf(tree, j) # p

\* Where the walk down the path has got to after k components.
Step(s, p, k) ==
  /\ Right(s.cache) /\ s.ok = ~s.end
  /\ IF s.ok THEN Placed(s.obj) /\ Full(s.obj) = SubSeq(p, 1, k) ELSE Nowhere(SubSeq(p, 1, k))

\* The first k + 1 components of a path.
LEMMA OneMore ==
  ASSUME NEW p \in Seq(Names), NEW k \in 1..Len(p)
  PROVE  SubSeq(p, 1, k) = Append(SubSeq(p, 1, k - 1), p[k]) /\ SubSeq(p, 1, k - 1) \in Seq(Names)
<1> DEFINE a == SubSeq(p, 1, k)  b == SubSeq(p, 1, k - 1)
<1>1. a \in Seq(Names) /\ Len(a) = k /\ \A i \in 1..k : a[i] = p[i]
  OBVIOUS
<1>2. b \in Seq(Names) /\ Len(b) = k - 1 /\ \A i \in 1..(k - 1) : b[i] = p[i]
  OBVIOUS
<1> HIDE DEF a, b
<1>3. Append(b, p[k]) \in Seq(Names) /\ Len(Append(b, p[k])) = k
  BY <1>2
<1>4. \A i \in 1..k : Append(b, p[k])[i] = a[i]
  BY <1>1, <1>2
<1>5. a = Append(b, p[k])
  BY <1>1, <1>3, <1>4
<1> QED BY <1>2, <1>5 DEF a, b

\* A node below a path is an entry of the node at this path.
LEMMA Below ==
  ASSUME Types, NEW p \in Seq(Names), NEW nm \in Names, NEW j \in Nodes(tree), PathOf(tree, j) = Append(p, nm)
  PROVE  /\ j \in DOMAIN tree /\ tree[j].name = nm /\ tree[j].parent \in Nodes(tree)
         /\ PathOf(tree, tree[j].parent) = p /\ IsDir(tree, tree[j].parent)
<1>1. TreeOK(tree, fresh) /\ Shape(tree, fresh)
  BY DEF Types, TreeOK
<1>2. PathOf(tree, Root) = <<>> /\ Append(p, nm) # <<>>
  BY <1>1, PathIs, AppendIs
<1>3. j \in DOMAIN tree
  BY <1>2 DEF Nodes
<1> DEFINE up == tree[j].parent
<1>4. /\ up \in Nodes(tree) /\ PathOf(tree, up) \in Seq(Names) /\ tree[j].name \in Names
      /\ PathOf(tree, j) = Append(PathOf(tree, up), tree[j].name)
  BY <1>1, <1>3, PathIs
<1>5. IsDir(tree, up)
  BY <1>1, <1>3, TreeIs
<1> HIDE DEF up
<1>6. /\ Front(PathOf(tree, j)) = PathOf(tree, up) /\ Last(PathOf(tree, j)) = tree[j].name
  BY <1>4, AppendIs
<1>7. Front(PathOf(tree, j)) = p /\ Last(PathOf(tree, j)) = nm
  BY AppendIs
<1> QED BY <1>3, <1>4, <1>5, <1>6, <1>7 DEF up

\* One component further down.
LEMMA StepIs ==
  ASSUME Types, drv # "baidu", NEW c, NEW s \in Walks(c), NEW p \in Seq(Names), NEW k \in 1..Len(p), Step(s, p, k - 1)
  PROVE  Step(Look(s, p[k], TRUE), p, k)
<1> DEFINE l == Children(s.cache, s.obj)  m == {o \in l.objs : o.name = p[k]}
           b == SubSeq(p, 1, k - 1)  a == SubSeq(p, 1, k)
<1>1. /\ s \in [ok : BOOLEAN, obj : Object(fresh), cache : Caches(fresh), end : BOOLEAN]
      /\ s.obj \in Object(fresh) /\ s.cache \in Caches(fresh) /\ s.obj.id \in Int
  BY DEF Walks, Object, Types
<1>2. a = Append(b, p[k]) /\ b \in Seq(Names) /\ p[k] \in Names
  BY OneMore
<1>3. Right(s.cache) /\ s.ok = ~s.end
  BY DEF Step
<1>4. CASE s.end
  <2>1. Nowhere(b)
    BY <1>3, <1>4 DEF Step
  <2> HIDE DEF a, b
  <2>2. Nowhere(a)
    BY <1>2, <2>1, Below DEF Nowhere
  <2>3. Look(s, p[k], TRUE) = s
    BY <1>4 DEF Look
  <2> QED BY <1>3, <1>4, <2>2, <2>3 DEF Step, a
<1>5. CASE ~s.end
  <2>1. Placed(s.obj) /\ Full(s.obj) = b
    BY <1>3, <1>5 DEF Step
  <2> HIDE DEF a, b
  <2>2. PathOf(tree, s.obj.id) = b /\ s.obj.id \in Nodes(tree)
    BY <2>1 DEF Placed
  <2>3. /\ l.ok \in BOOLEAN /\ Right(l.cache)
        /\ l.ok => /\ \A o \in l.objs : o.id \in Kids(tree, s.obj.id) /\ o.name = tree[o.id].name /\ Placed(o)
                   /\ \A x \in Kids(tree, s.obj.id) : \E o \in l.objs : o.id = x /\ o.name = tree[x].name
        /\ IsDir(tree, s.obj.id) => l.ok
    BY <1>1, <1>3, <2>1, LoadIs DEF Children
  <2> HIDE DEF l
  <2>4. ASSUME ~Nowhere(a) PROVE l.ok /\ m # {}
    <3>1. PICK j \in Nodes(tree) : PathOf(tree, j) = Append(b, p[k])
      BY <1>2, <2>4 DEF Nowhere
    <3>2. /\ j \in DOMAIN tree /\ tree[j].name = p[k] /\ tree[j].parent \in Nodes(tree)
          /\ PathOf(tree, tree[j].parent) = b /\ IsDir(tree, tree[j].parent)
      BY <1>2, <3>1, Below
    <3>3. tree[j].parent = s.obj.id
      BY <2>2, <3>2, PathsDiffer DEF Types
    <3>4. l.ok /\ j \in Kids(tree, s.obj.id)
      BY <2>3, <3>2, <3>3 DEF Kids
    <3> QED BY <2>3, <3>2, <3>4
  <2>5. CASE ~l.ok
    <3>1. Look(s, p[k], TRUE) = [s EXCEPT !.ok = FALSE, !.end = TRUE]
      BY <1>5, <2>5 DEF Look, Down, l
    <3> QED BY <1>1, <1>3, <2>4, <2>5, <3>1 DEF Step, a
  <2>6. CASE l.ok /\ m = {}
    <3>1. Look(s, p[k], TRUE) = [s EXCEPT !.ok = FALSE, !.end = TRUE, !.cache = l.cache]
      BY <1>5, <2>6 DEF Look, Down, l
    <3> QED BY <1>1, <2>3, <2>4, <2>6, <3>1 DEF Step, a
  <2>7. CASE l.ok /\ m # {}
    <3> DEFINE o == CHOOSE x \in m : TRUE
    <3>1. Look(s, p[k], TRUE) = [s EXCEPT !.obj = o, !.cache = l.cache]
      BY <1>5, <2>7 DEF Look, Down, l
    <3>2. o \in m
      BY <2>7
    <3> HIDE DEF o
    <3>3. o.id \in Kids(tree, s.obj.id) /\ o.name = tree[o.id].name /\ Placed(o) /\ o.name = p[k]
      BY <2>3, <2>7, <3>2
    <3>4. PathOf(tree, o.id) = Append(PathOf(tree, tree[o.id].parent), tree[o.id].name)
      BY <3>3, PathIs DEF Types, TreeOK, Kids
    <3>5. Full(o) = a
      BY <1>2, <2>2, <3>3, <3>4 DEF Placed, Kids
    <3> HIDE DEF m
    <3> QED BY <1>1, <1>3, <1>5, <2>3, <3>1, <3>3, <3>5 DEF Step, a
  <2> QED BY <2>3, <2>5, <2>6, <2>7
<1> QED BY <1>1, <1>4, <1>5

\* With right listings GetPanObj finds what is at the path, or that nothing is.
LEMMA Finds ==
  ASSUME Types, drv # "baidu", NEW c \in Caches(fresh), Right(c), NEW p \in Seq(Names)
  PROVE  LET r == GetPanObj(c, p, TRUE)
         IN /\ r.ok \in BOOLEAN /\ r.obj \in Object(fresh) /\ r.cache \in Caches(fresh) /\ Right(r.cache)
            /\ IF r.ok THEN Placed(r.obj) /\ NodeAt(tree, p) = r.obj.id ELSE NodeAt(tree, p) = NoId
<1> DEFINE n == Len(p)
<1>1. PICK h : /\ Walked(h, c, p, TRUE) /\ GetPanObj(c, p, TRUE) = h[n] /\ h[n] \in Walks(c)
  BY GetPanObjLooks
<1> DEFINE bad == {k \in 0..n : ~Step(h[k], p, k)}
<1>2. 0 \notin bad
  <2>1. SubSeq(p, 1, 0) = <<>> /\ Full(RootObj) = <<>>
    BY DEF Full, Clean, RootObj, Obj
  <2>2. h[0] = [ok |-> TRUE, obj |-> RootObj, cache |-> c, end |-> FALSE]
    BY <1>1 DEF Walked
  <2> DEFINE w == h[0]
  <2>3. w.ok = TRUE /\ w.obj = RootObj /\ w.cache = c /\ w.end = FALSE
    BY <2>2
  <2> HIDE DEF w
  <2>4. Step(w, p, 0)
    BY <2>1, <2>3, RootPlaced DEF Step
  <2> QED BY <2>4 DEF w
<1>3. \A k \in 1..n : Step(h[k - 1], p, k - 1) => Step(h[k], p, k)
  <2>1. ASSUME NEW k \in 1..n, Step(h[k - 1], p, k - 1) PROVE Step(h[k], p, k)
    <3>1. h[k - 1] \in Walks(c) /\ h[k] = Look(h[k - 1], p[k], TRUE)
      BY <1>1 DEF Walked
    <3> QED BY <2>1, <3>1, StepIs
  <2> QED BY <2>1
<1>4. n \in Nat
  OBVIOUS
<1> HIDE DEF n
<1>5. bad = {}
  <2>1. ASSUME bad # {} PROVE FALSE
    <3>1. bad \in SUBSET Nat
      BY <1>4
    <3> HIDE DEF bad
    <3>2. PICK k \in bad : \A j \in bad : k <= j
      BY <2>1, <3>1, Least
    <3>3. k \in 0..n /\ k # 0
      BY <1>2, <3>2 DEF bad
    <3>4. k \in 1..n /\ k - 1 \in 0..n /\ ~ (k <= k - 1)
      BY <1>4, <3>3
    <3>5. k - 1 \notin bad
      BY <3>2, <3>4
    <3> QED BY <1>3, <3>2, <3>4, <3>5 DEF bad
  <2> QED BY <2>1
<1>6. Step(h[n], p, n)
  BY <1>4, <1>5
<1> DEFINE r == h[n]
<1>7. /\ r.ok \in BOOLEAN /\ r.obj \in Object(fresh) /\ r.cache \in Caches(fresh) /\ Right(r.cache)
      /\ IF r.ok THEN Placed(r.obj) /\ Full(r.obj) = p ELSE Nowhere(p)
  <2>1. SubSeq(p, 1, n) = p
    BY DEF n
  <2> QED BY <1>1, <1>6, <2>1 DEF Step, Walks
<1> HIDE DEF r
<1>8. IF r.ok THEN Placed(r.obj) /\ NodeAt(tree, p) = r.obj.id ELSE NodeAt(tree, p) = NoId
  BY <1>7, NodeAtIs DEF Types, Placed, Nowhere
<1> QED BY <1>1, <1>7, <1>8 DEF r

------------------------------------------------------------------------------
(* Trees from which nodes are removed. *)

\* What is removed depends on the nodes that are there.
LEMMA RemovedOnly ==
  ASSUME NEW t, NEW A, NEW B, A \cap DOMAIN t = B \cap DOMAIN t
  PROVE  Removed(t, A) = Removed(t, B)
BY DEF Removed, Inside

LEMMA RemovedNone ==
  ASSUME NEW t \in Trees
  PROVE  Removed(t, {}) = t
<1>1. Inside(t, {}) \subseteq {}
  <2>1. {} \in SUBSET DOMAIN t /\ {} \cap DOMAIN t \subseteq {}
    OBVIOUS
  <2> QED BY <2>1, InsideIs
<1>2. t = [k \in DOMAIN t |-> t[k]]
  BY DEF Trees
<1> QED BY <1>1, <1>2 DEF Removed, Restrict

\* Two deletions are one.
LEMMA RemovedTwice ==
  ASSUME NEW t, NEW A, NEW B
  PROVE  Removed(Removed(t, A), B) = Removed(t, A \cup B)
<1> DEFINE t2 == Removed(t, A)  IA == Inside(t, A)  IB == Inside(t2, B)  I == Inside(t, A \cup B)
<1>1. DOMAIN t2 = DOMAIN t \ IA /\ \A k \in DOMAIN t2 : t2[k] = t[k]
  BY DEF Removed, Restrict
<1>2. /\ IA \subseteq DOMAIN t /\ A \cap DOMAIN t \subseteq IA
      /\ \A k \in DOMAIN t : t[k].parent \in IA => k \in IA
      /\ \A S \in SUBSET DOMAIN t :
           A \cap DOMAIN t \subseteq S /\ (\A j \in DOMAIN t : t[j].parent \in S => j \in S) => IA \subseteq S
  BY InsideIs
<1>3. /\ IB \subseteq DOMAIN t2 /\ B \cap DOMAIN t2 \subseteq IB
      /\ \A k \in DOMAIN t2 : t2[k].parent \in IB => k \in IB
      /\ \A S \in SUBSET DOMAIN t2 :
           B \cap DOMAIN t2 \subseteq S /\ (\A j \in DOMAIN t2 : t2[j].parent \in S => j \in S) => IB \subseteq S
  BY InsideIs
<1>4. /\ I \subseteq DOMAIN t /\ (A \cup B) \cap DOMAIN t \subseteq I
      /\ \A k \in DOMAIN t : t[k].parent \in I => k \in I
      /\ \A S \in SUBSET DOMAIN t :
           (A \cup B) \cap DOMAIN t \subseteq S /\ (\A j \in DOMAIN t : t[j].parent \in S => j \in S) => I \subseteq S
  BY InsideIs
<1>5. Removed(t2, B) = [k \in DOMAIN t2 \ IB |-> t2[k]] /\ Removed(t, A \cup B) = [k \in DOMAIN t \ I |-> t[k]]
  BY DEF Removed, Restrict
<1> HIDE DEF t2, IA, IB, I
<1>6. I \subseteq IA \cup IB
  <2> DEFINE S == IA \cup IB
  <2>1. S \in SUBSET DOMAIN t /\ (A \cup B) \cap DOMAIN t \subseteq S
    BY <1>1, <1>2, <1>3
  <2>2. \A j \in DOMAIN t : t[j].parent \in S => j \in S
    BY <1>1, <1>2, <1>3
  <2> HIDE DEF S
  <2>3. I \subseteq S
    BY <1>4, <2>1, <2>2
  <2> QED BY <2>3 DEF S
<1>7. IA \subseteq I
  BY <1>2, <1>4
<1>8. IB \subseteq I
  <2> DEFINE S == I \cap DOMAIN t2
  <2>1. S \in SUBSET DOMAIN t2 /\ B \cap DOMAIN t2 \subseteq S
    BY <1>1, <1>4
  <2>2. \A j \in DOMAIN t2 : t2[j].parent \in S => j \in S
    BY <1>1, <1>4
  <2> HIDE DEF S
  <2>3. IB \subseteq S
    BY <1>3, <2>1, <2>2
  <2> QED BY <2>3 DEF S
<1>9. DOMAIN t2 \ IB = DOMAIN t \ I
  BY <1>1, <1>3, <1>6, <1>7, <1>8
<1>10. [k \in DOMAIN t2 \ IB |-> t2[k]] = [k \in DOMAIN t \ I |-> t[k]]
  BY <1>1, <1>9
<1> QED BY <1>5, <1>10 DEF t2

------------------------------------------------------------------------------
(* The objects of a deletion. *)

\* What callers delete: what a listing or Mkdir returned, or what they give by its path.
Known(o) == drv = "baidu" \/ Proper(o) \/ (o.id = NoId /\ o.name = NoName)

\* The node that an object stands for now.
Sought(o) == IF drv = "baidu" \/ o.id = NoId THEN NodeAt(tree, Full(o)) ELSE o.id

\* An item is looked up: the node it stands for, or none.
LEMMA LookUpFinds ==
  ASSUME Types, drv # "baidu", NEW c \in Caches(fresh), NEW item \in Object(fresh), Known(item),
         Right(c) \/ item.id # NoId
  PROVE  LET g == LookUp(c, item, Clean(item.path))
         IN /\ Right(c) => Right(g.cache)
            /\ IF g.ok THEN g.obj.id = Sought(item) ELSE Sought(item) \notin DOMAIN tree
<1> DEFINE g == LookUp(c, item, Clean(item.path))
<1>1. DOMAIN tree \subseteq Nat /\ Root \notin DOMAIN tree /\ NoId \notin DOMAIN tree
  <2>1. DOMAIN tree \subseteq 1..(fresh - 1) /\ fresh \in Nat
    BY TreeIs, DriveParameters DEF Types
  <2> QED BY <2>1 DEF Root, NoId
<1>2. NodeAt(tree, <<>>) = Root
  BY NodeAtIs, PathIs DEF Types, TreeOK, Nodes
<1>3. CASE item.id \notin {Root, NoId}
  BY <1>3 DEF LookUp, Given, Sought
<1>4. CASE item.id = Root
  <2>1. item = RootObj
    BY <1>4 DEF Known, Proper, Root, NoId
  <2>2. g = Missing(c, item) /\ Sought(item) = Root
    BY <1>4, <2>1 DEF LookUp, RootObj, Obj, Sought, Root, NoId
  <2> QED BY <1>1, <2>2 DEF Missing
<1>5. CASE item.id = NoId
  <2>1. item.name = NoName /\ Full(item) = Clean(item.path) /\ Sought(item) = NodeAt(tree, Full(item))
    BY <1>5 DEF Known, Proper, RootObj, Obj, Root, NoId, Full, Sought
  <2>2. CASE item.path = <<>>
    <3>1. g = Missing(c, item) /\ Clean(item.path) = <<>>
      BY <1>5, <2>2 DEF LookUp, Clean
    <3> QED BY <1>1, <1>2, <2>1, <3>1 DEF Missing
  <2>3. CASE item.path # <<>>
    <3>1. g = GetPanObj(c, Clean(item.path), TRUE) /\ Clean(item.path) \in Seq(Names)
      BY <1>5, <2>3, PathsAre DEF LookUp
    <3> HIDE DEF g
    <3>2. /\ Right(g.cache)
          /\ IF g.ok THEN NodeAt(tree, Clean(item.path)) = g.obj.id ELSE NodeAt(tree, Clean(item.path)) = NoId
      BY <1>5, <3>1, Finds
    <3> QED BY <1>1, <2>1, <3>2 DEF g
  <2> QED BY <2>2, <2>3
<1> QED BY <1>3, <1>4, <1>5

\* What has been collected so far.
Fits(s, items, k) ==
  /\ Right(s.cache) \/ \A i \in 1..Len(items) : items[i].id # NoId
  /\ {o.id : o \in s.objs} \cap DOMAIN tree = {Sought(items[i]) : i \in 1..k} \cap DOMAIN tree

LEMMA FitsMore ==
  ASSUME Types, drv # "baidu", NEW c, NEW items \in Seq(Object(fresh)), NEW k \in 1..Len(items),
         NEW s \in Bags(c), Fits(s, items, k - 1), Known(items[k]), NEW keys
  PROVE  Fits(Collected(s, LookUp(s.cache, items[k], Clean(items[k].path)), keys), items, k)
<1> DEFINE g == LookUp(s.cache, items[k], Clean(items[k].path))  s2 == Collected(s, g, keys)
           m(j) == {Sought(items[i]) : i \in 1..j} \cap DOMAIN tree
<1>1. /\ Right(g.cache) \/ \A i \in 1..Len(items) : items[i].id # NoId
      /\ IF g.ok THEN g.obj.id = Sought(items[k]) ELSE Sought(items[k]) \notin DOMAIN tree
  <2>1. items[k] \in Object(fresh) /\ s.cache \in Caches(fresh)
    BY DEF Bags
  <2>2. Right(s.cache) \/ \A i \in 1..Len(items) : items[i].id # NoId
    BY DEF Fits
  <2> QED BY <2>1, <2>2, LookUpFinds
<1>2. {o.id : o \in s.objs} \cap DOMAIN tree = m(k - 1)
  BY DEF Fits
<1> HIDE DEF g
<1>3. m(k) = m(k - 1) \cup ({Sought(items[k])} \cap DOMAIN tree)
  <2>1. 1..k = 1..(k - 1) \cup {k}
    OBVIOUS
  <2> QED BY <2>1
<1> HIDE DEF m
<1>4. CASE g.ok
  <2>1. s2.objs = s.objs \cup {g.obj} /\ s2.cache = g.cache
    BY <1>4 DEF Collected
  <2> HIDE DEF s2
  <2>2. {o.id : o \in s2.objs} \cap DOMAIN tree = m(k)
    BY <1>1, <1>2, <1>3, <1>4, <2>1
  <2> QED BY <1>1, <2>1, <2>2 DEF Fits, s2, m, g
<1>5. CASE ~g.ok
  <2>1. s2.objs = s.objs /\ s2.cache = g.cache
    BY <1>5 DEF Collected, Bags
  <2> HIDE DEF s2
  <2>2. {o.id : o \in s2.objs} \cap DOMAIN tree = m(k)
    BY <1>1, <1>2, <1>3, <1>5, <2>1
  <2> QED BY <1>1, <2>1, <2>2 DEF Fits, s2, m, g
<1> QED BY <1>4, <1>5

\* All are collected: exactly the nodes they stand for, as far as there are any.
LEMMA CollectsAll ==
  ASSUME Types, drv # "baidu", NEW c \in Caches(fresh),
         NEW items \in Seq(Object(fresh)), \A i \in 1..Len(items) : Known(items[i]),
         Right(c) \/ \A i \in 1..Len(items) : items[i].id # NoId,
         NEW h, h[0] = Nothing(c),
         \A k \in 1..Len(items) :
           /\ h[k - 1] \in Bags(c)
           /\ \E keys : h[k] = Collected(h[k - 1], LookUp(h[k - 1].cache, items[k], Clean(items[k].path)), keys)
  PROVE  {o.id : o \in h[Len(items)].objs} \cap DOMAIN tree = {Sought(o) : o \in Range(items)} \cap DOMAIN tree
<1> DEFINE n == Len(items)  bad == {k \in 0..n : ~Fits(h[k], items, k)}
<1>1. n \in Nat /\ 0 \notin bad
  <2> DEFINE s == h[0]
  <2>1. s.objs = {} /\ s.cache = c
    BY DEF Nothing
  <2> HIDE DEF s
  <2>2. {Sought(items[i]) : i \in 1..0} = {}
    OBVIOUS
  <2>3. Fits(s, items, 0)
    BY <2>1, <2>2 DEF Fits
  <2> QED BY <2>3 DEF s
<1>2. \A k \in 1..n : Fits(h[k - 1], items, k - 1) => Fits(h[k], items, k)
  <2>1. ASSUME NEW k \in 1..n, Fits(h[k - 1], items, k - 1) PROVE Fits(h[k], items, k)
    <3>1. PICK keys : h[k] = Collected(h[k - 1], LookUp(h[k - 1].cache, items[k], Clean(items[k].path)), keys)
      OBVIOUS
    <3>2. h[k - 1] \in Bags(c) /\ Known(items[k])
      OBVIOUS
    <3> QED BY <2>1, <3>1, <3>2, FitsMore
  <2> QED BY <2>1
<1>3. bad = {}
  <2>1. ASSUME bad # {} PROVE FALSE
    <3>1. bad \in SUBSET Nat
      BY <1>1
    <3>2. PICK k \in bad : \A j \in bad : k <= j
      <4> HIDE DEF bad
      <4> QED BY <2>1, <3>1, Least
    <3> HIDE DEF n
    <3>3. k \in 0..n /\ k # 0
      BY <1>1, <3>2
    <3>4. k \in 1..n /\ k - 1 \in 0..n /\ ~ (k <= k - 1)
      BY <1>1, <3>3
    <3>5. k - 1 \notin bad
      BY <3>2, <3>4
    <3> QED BY <1>2, <3>2, <3>4, <3>5, SMTT(60)
  <2> QED BY <2>1
<1>4. Fits(h[n], items, n)
  BY <1>1, <1>3
<1>5. {Sought(items[i]) : i \in 1..n} = {Sought(o) : o \in Range(items)}
  BY DEF Range
<1> QED BY <1>4, <1>5 DEF Fits

\* When the tree is what it was, these are the nodes the caller means.
LEMMA SoughtThen ==
  ASSUME op.snap = tree
  PROVE  \A o : Sought(o) = Meant(o)
BY DEF Sought, Meant

------------------------------------------------------------------------------
(***************************************************************************)
(* What ObjRename and Delete are about to do.  While such an operation     *)
(* runs undisturbed the tree is what it was when the operation began but   *)
(* for the objects D it has dealt with (Goal); the listings it looks       *)
(* through are right until its first request.                              *)
(***************************************************************************)
Ids(os) == {Meant(o) : o \in os}

Goal(D) ==
  IF op.kind = "delete" THEN Removed(op.snap, Ids(D))
  ELSE IF D = {} THEN op.snap ELSE Renamed(op.snap, CHOOSE i \in Ids(D) : TRUE, op.name)

Dealt(D) ==
  /\ op.objs = D \cup Range(op.todo)
  /\ op.pc = "resolve" => /\ task = NoReq /\ tree = Goal(D)
                          /\ \/ D = {} /\ Right(cache)
                             \/ drv \in Ali /\ op.kind = "delete" /\ \A o \in op.objs : o.id # NoId
  /\ op.pc = "request" => task = NoReq /\ Served(tree, op.req) = Goal(D)
  /\ op.pc = "task" => IF task = NoReq THEN tree = Goal(D)
                       ELSE task = op.req /\ Valid(tree, task) /\ Served(tree, task) = Goal(D)
  /\ op.pc = "finish" => tree = Goal(D)

\* aliyundrive deals with one object at a time; only a single one is given by its path.
Asked ==
  /\ op.res # "ok" /\ op.pc \in {"resolve"} \cup Sending
  /\ op.kind = "rename" => \E o : op.objs = {o}
  /\ op.kind = "delete" => \A o \in op.objs : Known(o)
  /\ \A o \in op.objs : drv \in Ali /\ o.id = NoId =>
       (IF op.pc = "resolve" THEN Tail(op.todo) ELSE op.todo) = <<>>

Effect == op.clean /\ op.kind \in {"rename", "delete"} => Asked /\ \E D : Dealt(D)

EInv == IInv /\ Effect

\* The goal is the same as long as the operation is.
LEMMA SameGoal ==
  ASSUME op'.kind = op.kind, op'.snap = op.snap, op'.name = op.name, drv' = drv, NEW D
  PROVE  Goal(D)' = Goal(D) /\ \A o : Known(o)' = Known(o)
<1>1. ASSUME NEW o PROVE Meant(o)' = Meant(o)
  BY DEF Meant
<1>2. Ids(D)' = Ids(D)
  BY <1>1 DEF Ids
<1> QED BY <1>2 DEF Goal, Known

LEMMA SameServed ==
  ASSUME drv' = drv
  PROVE  Served(tree, op.req)' = Served(tree', op'.req) /\ Valid(tree, op.req)' = Valid(tree', op'.req)
<1>1. \A t, o : NodeOf(t, o)' = NodeOf(t, o)
  BY DEF NodeOf
<1>2. \A t, r : Targets(t, r)' = Targets(t, r) /\ Dst(t, r)' = Dst(t, r)
  BY <1>1 DEF Targets, Dst
<1> QED BY <1>2 DEF Served, Valid

\* A step of a renaming or deletion.
LEMMA GoesOn ==
  ASSUME EInv, op.clean, op.kind \in {"rename", "delete"}, UNCHANGED drv, NEW D,
         op'.kind = op.kind, op'.snap = op.snap, op'.name = op.name, op'.objs = op.objs, op'.res = op.res,
         op'.pc \in {"resolve"} \cup Sending, op.objs = D \cup Range(op'.todo),
         \A o \in op.objs : drv \in Ali /\ o.id = NoId =>
           (IF op'.pc = "resolve" THEN Tail(op'.todo) ELSE op'.todo) = <<>>,
         op'.pc = "resolve" => /\ task' = NoReq /\ tree' = Goal(D)
                               /\ \/ D = {} /\ Right(cache)'
                                  \/ drv \in Ali /\ op.kind = "delete" /\ \A o \in op.objs : o.id # NoId,
         op'.pc = "request" => task' = NoReq /\ Served(tree', op'.req) = Goal(D),
         op'.pc = "task" => IF task' = NoReq THEN tree' = Goal(D)
                            ELSE task' = op'.req /\ Valid(tree', task') /\ Served(tree', task') = Goal(D),
         op'.pc = "finish" => tree' = Goal(D)
  PROVE  Effect'
<1>1. Goal(D)' = Goal(D) /\ \A o : Known(o)' = Known(o)
  BY SameGoal
<1>2. Served(tree, op.req)' = Served(tree', op'.req) /\ Valid(tree, op.req)' = Valid(tree', op'.req)
  BY SameServed
<1>3. op'.pc = "task" => IF task' = NoReq THEN tree' = Goal(D)'
                         ELSE task' = op'.req /\ Valid(tree, task)' /\ Served(tree, task)' = Goal(D)'
  <2>1. ASSUME task' = op'.req
        PROVE  Valid(tree, task)' = Valid(tree', task') /\ Served(tree, task)' = Served(tree', task')
    <3>1. \A t, o : NodeOf(t, o)' = NodeOf(t, o)
      BY DEF NodeOf
    <3>2. \A t, r : Targets(t, r)' = Targets(t, r) /\ Dst(t, r)' = Dst(t, r)
      BY <3>1 DEF Targets, Dst
    <3> QED BY <3>2 DEF Served, Valid
  <2> QED BY <1>1, <2>1
<1>4. Dealt(D)'
  BY <1>1, <1>2, <1>3 DEF Dealt
<1>5. Asked'
  BY <1>1 DEF EInv, Effect, Asked
<1> QED BY <1>4, <1>5 DEF Effect

\* Other operations, and disturbed ones.
LEMMA NotMine ==
  ASSUME op'.clean => op'.kind \notin {"rename", "delete"}
  PROVE  Effect'
BY DEF Effect

LEMMA ReturnIs ==
  ASSUME NEW res, NEW c2, NEW obj, Return(res, c2, obj)
  PROVE  op'.kind = "none" /\ op'.pc = "idle" /\ op'.res = res /\ tree' = tree /\ Effect'
<1>1. op'.kind = "none" /\ op'.pc = "idle" /\ op'.res = res /\ tree' = tree
  BY DEF Return, NoOp
<1> QED BY <1>1, NotMine

------------------------------------------------------------------------------
(* The steps of renamings and deletions. *)

\* An operand is looked up: the node it stands for.
LEMMA ResolvedFinds ==
  ASSUME Types, NEW o \in Object(fresh), Right(cache) \/ o.id # NoId, Resolved(cache, o).ok
  PROVE  NodeOf(tree, Resolved(cache, o).obj) = Sought(o)
<1> DEFINE r == Resolved(cache, o)
<1>1. CASE drv = "baidu"
  <2>1. r = Given(cache, o)
    BY <1>1 DEF Resolved
  <2>2. r.obj = o
    BY <2>1 DEF Given
  <2> HIDE DEF r
  <2> QED BY <1>1, <2>2 DEF NodeOf, Sought, r
<1>2. CASE drv # "baidu" /\ o.id # NoId
  <2>1. r = Given(cache, o)
    BY <1>2 DEF Resolved
  <2>2. r.obj = o
    BY <2>1 DEF Given
  <2> HIDE DEF r
  <2> QED BY <1>2, <2>2 DEF NodeOf, Sought, r
<1>3. CASE drv # "baidu" /\ o.id = NoId
  <2>1. r = GetPanObj(cache, Full(o), TRUE) /\ Full(o) \in Seq(Names) /\ cache \in Caches(fresh)
    BY <1>3, FullIs DEF Resolved, Types
  <2> HIDE DEF r
  <2>2. Right(cache) /\ r.ok
    BY <1>3 DEF r
  <2>3. NodeAt(tree, Full(o)) = r.obj.id
    BY <1>3, <2>1, <2>2, Finds
  <2> QED BY <1>3, <2>3 DEF NodeOf, Sought, r
<1> QED BY <1>1, <1>2, <1>3

\* What such an operation has before it looks through the listings.
LEMMA Before ==
  ASSUME EInv, op.clean, op.kind \in {"rename", "delete"}, op.pc = "resolve", NEW D, Dealt(D)
  PROVE  /\ Types /\ op \in Operation(fresh) /\ op.todo \in Seq(Object(fresh)) /\ op.todo # <<>>
         /\ op.objs \in SUBSET Object(fresh) /\ op.snap \in Trees /\ cache \in Caches(fresh)
         /\ Head(op.todo) \in Object(fresh) /\ Range(op.todo) = {Head(op.todo)} \cup Range(Tail(op.todo))
         /\ Goal({}) = op.snap /\ D \subseteq op.objs /\ Range(<<>>) = {} /\ drv \in AllDrivers
<1>1. Types /\ op \in Operation(fresh) /\ cache \in Caches(fresh) /\ drv \in AllDrivers
  BY Now, DriveParameters DEF EInv, Types
<1>2. /\ op.todo \in Seq(Object(fresh)) /\ op.todo # <<>> /\ op.objs \in SUBSET Object(fresh)
      /\ op.snap \in Trees
  BY <1>1 DEF EInv, IInv, Places, SendPlaces, Operation
<1>3. Head(op.todo) \in Object(fresh) /\ Range(op.todo) = {Head(op.todo)} \cup Range(Tail(op.todo))
  BY <1>2, TailIs
<1>4. Goal({}) = op.snap
  <2>1. Ids({}) = {}
    BY DEF Ids
  <2> QED BY <1>2, <2>1, RemovedNone DEF Goal
<1>5. Range(<<>>) = {}
  BY DEF Range
<1> QED BY <1>1, <1>2, <1>3, <1>4, <1>5 DEF Dealt

\* A plan that is not refused is sent, or there is nothing to send.
LEMMA Sends ==
  ASSUME EInv, op.clean, op.kind \in {"rename", "delete"}, op.pc = "resolve", NEW D, Dealt(D), UNCHANGED drv,
         NEW p, NEW rest, Resolve(p, rest), NEW E, op.objs = E \cup Range(rest), E \subseteq op.objs,
         p.ok => /\ \A o \in op.objs : drv \in Ali /\ o.id = NoId => rest = <<>>
                 /\ IF p.req = NoReq THEN tree = Goal(E) ELSE Served(tree, p.req) = Goal(E)
  PROVE  Effect'
<1>1. op \in Operation(fresh)
  BY Now DEF EInv
<1>2. CASE ~p.ok
  BY <1>2, ReturnIs DEF Resolve
<1>3. CASE p.ok
  <2> DEFINE pc == IF p.req = NoReq THEN "finish" ELSE "request"
  <2>1. /\ Go(tree, p.cache, [op EXCEPT !.pc = pc, !.req = p.req, !.dels = @ \cup p.dels,
                                        !.panic = p.panic, !.todo = rest])
        /\ UNCHANGED <<fresh, task>>
    BY <1>3 DEF Resolve
  <2>2. pc \in Sending /\ pc \notin {"resolve", "task"} /\ (pc = "request" <=> p.req # NoReq)
    BY DEF Sending
  <2> HIDE DEF pc
  <2>3. /\ op'.kind = op.kind /\ op'.snap = op.snap /\ op'.name = op.name /\ op'.objs = op.objs
        /\ op'.res = op.res /\ op'.pc = pc /\ op'.todo = rest /\ op'.req = p.req /\ tree' = tree
    BY <1>1, <2>1 DEF Go, Operation
  <2>4. task' = NoReq
    BY <2>1 DEF Dealt
  <2> QED BY <1>3, <2>2, <2>3, <2>4, GoesOn DEF Sending
<1> QED BY <1>2, <1>3

LEMMA RenameSends ==
  ASSUME EInv, op.clean, op.kind = "rename", RenameResolve, UNCHANGED drv
  PROVE  Effect'
<1> DEFINE hd == Head(op.todo)  r == Resolved(cache, hd)  nm == op.name  p == ObjRename(r, nm)
           req == Req("rename", {r.obj}, RootObj, nm)
<1>1. Resolve(p, <<>>) /\ op.pc = "resolve"
  BY DEF RenameResolve, Resolve
<1>2. PICK D : Dealt(D)
  BY DEF EInv, Effect
<1>3. /\ Types /\ hd \in Object(fresh) /\ Range(op.todo) = {hd} \cup Range(Tail(op.todo)) /\ drv \in AllDrivers
      /\ Goal({}) = op.snap /\ D \subseteq op.objs /\ Range(<<>>) = {}
  BY <1>1, <1>2, Before
<1>4. tree = op.snap /\ Right(cache)
  BY <1>1, <1>2, <1>3 DEF Dealt
<1>5. PICK o : op.objs = {o}
  BY DEF EInv, Effect, Asked
<1>6. hd = o
  <2>1. op.objs = D \cup Range(op.todo)
    BY <1>2 DEF Dealt
  <2> HIDE DEF hd
  <2> QED BY <1>3, <1>5, <2>1
<1> HIDE DEF hd, r, nm
<1>7. p.ok => r.ok /\ p.req = req
  <2>1. ASSUME NEW c, NEW dels, NEW q
        PROVE  LET x == Plan(c, q, dels)
               IN /\ x.req = q /\ \A b : [x EXCEPT !.panic = b].req = q
                  /\ ~Refuse(c).ok
    BY DEF Plan, Refuse
  <2>2. drv = "baidu" => r.ok
    BY DEF r, Resolved, Given
  <2>3. \/ p = Refuse(r.cache)
        \/ r.ok /\ \E dels, b : p \in {Plan(r.cache, req, dels), [Plan(r.cache, req, dels) EXCEPT !.panic = b]}
    <3>1. CASE drv = "quark"
      BY <3>1 DEF ObjRename, QuarkObjRename, objectRename
    <3>2. CASE drv = "thunder"
      BY <3>2 DEF ObjRename, ThunderObjRename, rename
    <3>3. CASE drv = "cloudreve"
      BY <3>3 DEF ObjRename, CloudreveObjRename, cloudreveRename
    <3>4. CASE drv = "ali"
      BY <3>4 DEF ObjRename, AliObjRename
    <3>5. CASE drv = "ali_open"
      BY <3>5 DEF ObjRename, AliOpenObjRename
    <3>6. CASE drv = "baidu"
      BY <2>2, <3>6 DEF ObjRename, BaiduObjRename, manage
    <3> QED BY <1>3, <3>1, <3>2, <3>3, <3>4, <3>5, <3>6 DEF AllDrivers
  <2> HIDE DEF p, req
  <2>4. CASE p = Refuse(r.cache)
    BY <2>1, <2>4
  <2>5. ASSUME r.ok, NEW dels, NEW b, p = Plan(r.cache, req, dels) \/ p = [Plan(r.cache, req, dels) EXCEPT !.panic = b]
        PROVE  p.req = req
    <3>1. Plan(r.cache, req, dels).req = req /\ [Plan(r.cache, req, dels) EXCEPT !.panic = b].req = req
      BY <2>1
    <3> QED BY <2>5, <3>1
  <2> QED BY <2>3, <2>4, <2>5
<1>8. ASSUME r.ok PROVE req # NoReq /\ Served(tree, req) = Goal({o})
  <2>1. NodeOf(tree, r.obj) = Meant(o)
    BY <1>3, <1>4, <1>6, <1>8, ResolvedFinds, SoughtThen DEF r
  <2>2. Targets(tree, req) = {Meant(o)} /\ Ids({o}) = {Meant(o)}
    BY <2>1 DEF Targets, Req, Ids
  <2>3. Served(tree, req) = Renamed(tree, CHOOSE i \in Targets(tree, req) : TRUE, nm) /\ req # NoReq
    BY DEF Served, Req, NoReq
  <2>4. Goal({o}) = Renamed(op.snap, CHOOSE i \in Ids({o}) : TRUE, nm)
    BY DEF Goal, nm
  <2> QED BY <1>4, <2>2, <2>3, <2>4
<1> HIDE DEF p, req
<1> QED BY <1>1, <1>2, <1>3, <1>5, <1>7, <1>8, Sends, SMTT(60)

LEMMA DeleteSends ==
  ASSUME EInv, op.clean, op.kind = "delete", DeleteResolve, UNCHANGED drv
  PROVE  Effect'
<1> DEFINE todo == op.todo  hd == Head(todo)  r == Resolved(cache, hd)
           req(os) == Req("delete", os, RootObj, NoName)
<1>1. op.pc = "resolve"
  <2>1. \A p, rest : Resolve(p, rest) => op.pc = "resolve"
    BY DEF Resolve
  <2>2. drv \in AllDrivers
    BY DriveParameters DEF EInv, IInv, Types
  <2> QED BY <2>1, <2>2 DEF DeleteResolve, AllDrivers
<1>2. PICK D : Dealt(D)
  BY DEF EInv, Effect
<1>3. /\ Types /\ cache \in Caches(fresh) /\ todo \in Seq(Object(fresh)) /\ hd \in Object(fresh)
      /\ Range(todo) = {hd} \cup Range(Tail(todo)) /\ drv \in AllDrivers
      /\ Goal({}) = op.snap /\ D \subseteq op.objs /\ Range(<<>>) = {}
  BY <1>1, <1>2, Before
<1>4. \A E : Goal(E) = Removed(op.snap, Ids(E))
  BY DEF Goal
<1>5. /\ op.objs = D \cup Range(todo) /\ tree = Goal(D)
      /\ \/ D = {} /\ Right(cache)
         \/ drv \in Ali /\ \A o \in op.objs : o.id # NoId
  BY <1>1, <1>2 DEF Dealt
<1>6. /\ \A o \in op.objs : Known(o)
      /\ \A o \in op.objs : drv \in Ali /\ o.id = NoId => Tail(todo) = <<>>
  BY <1>1 DEF EInv, Effect, Asked
<1>7. \A os : req(os) # NoReq /\ Served(tree, req(os)) = Removed(tree, {NodeOf(tree, o) : o \in os})
  BY DEF Served, Req, NoReq, Targets
<1> HIDE DEF todo, hd, r, req
\* quark, thunder and cloudreve: all at once
<1>8. ASSUME drv \in {"quark", "thunder", "cloudreve"}, NEW c, NEW os, NEW dels,
             {o.id : o \in os} \cap DOMAIN tree = {Meant(o) : o \in Range(todo)} \cap DOMAIN tree,
             Resolve(IF os = {} THEN Plan(c, NoReq, {}) ELSE Plan(c, req(os), dels), <<>>)
      PROVE  Effect'
  <2> DEFINE p == IF os = {} THEN Plan(c, NoReq, {}) ELSE Plan(c, req(os), dels)
  <2>1. /\ op.objs = Range(todo) /\ tree = op.snap
    BY <1>3, <1>5, <1>8 DEF Ali
  <2>2. Goal(op.objs) = Removed(tree, {o.id : o \in os})
    <3>1. {o.id : o \in os} \cap DOMAIN tree = Ids(op.objs) \cap DOMAIN tree
      BY <1>8, <2>1 DEF Ids
    <3>2. Goal(op.objs) = Removed(tree, Ids(op.objs))
      BY <1>4, <2>1
    <3> QED BY <3>1, <3>2, RemovedOnly
  <2>3. p.req = IF os = {} THEN NoReq ELSE req(os)
    BY DEF Plan
  <2>4. IF p.req = NoReq THEN tree = Goal(op.objs) ELSE Served(tree, p.req) = Goal(op.objs)
    <3>1. CASE os = {}
      <4>1. {o.id : o \in os} = {} /\ Ids({}) = {}
        BY <3>1 DEF Ids
      <4>2. Goal(op.objs) = tree
        BY <1>3, <1>4, <2>1, <2>2, <4>1
      <4> HIDE DEF p
      <4> QED BY <2>3, <3>1, <4>2
    <3>2. CASE os # {}
      <4>1. {NodeOf(tree, o) : o \in os} = {o.id : o \in os}
        BY <1>8 DEF NodeOf
      <4>2. Served(tree, req(os)) = Goal(op.objs) /\ req(os) # NoReq
        BY <1>7, <2>2, <4>1
      <4> HIDE DEF p
      <4> QED BY <2>3, <3>2, <4>2
    <3> QED BY <3>1, <3>2
  <2>5. Resolve(p, <<>>) /\ op.objs = op.objs \cup Range(<<>>) /\ op.objs \subseteq op.objs
    BY <1>3, <1>8
  <2>6. \A o \in op.objs : ~ (drv \in Ali)
    BY <1>8 DEF Ali
  <2> HIDE DEF p
  <2> DEFINE E == op.objs  rest == <<>>
  <2>7. op.objs = E \cup Range(rest) /\ E \subseteq op.objs /\ Resolve(p, rest)
        /\ IF p.req = NoReq THEN tree = Goal(E) ELSE Served(tree, p.req) = Goal(E)
    BY <2>4, <2>5
  <2> HIDE DEF E, rest
  <2> QED BY <1>1, <1>2, <2>6, <2>7, Sends
<1>9. ASSUME drv \in {"quark", "thunder", "cloudreve"} PROVE Right(cache) /\ op.snap = tree
  BY <1>3, <1>5, <1>9 DEF Ali
<1>10. \A i \in 1..Len(todo) : Known(todo[i])
  <2>1. \A i \in 1..Len(todo) : todo[i] \in Range(todo)
    BY <1>3 DEF Range
  <2> QED BY <1>5, <1>6, <2>1
<1>11. TRUE \in BOOLEAN
  OBVIOUS
<1>12. CASE drv \in {"quark", "thunder"}
  <2> DEFINE l == CollectItemIds(cache, todo, TRUE)
  <2>1. Resolve(IF l.objs = {} THEN Plan(l.cache, NoReq, {}) ELSE Plan(l.cache, req(l.objs), l.keys), <<>>)
    BY <1>12 DEF DeleteResolve, QuarkDelete, ThunderDelete, objectDelete, remove, req, todo
  <2>2. PICK h : Collects(h, cache, todo, TRUE) /\ l = h[Len(todo)]
    BY <1>3, <1>11, CollectItemIdsIs
  <2> HIDE DEF l
  <2>3. /\ h[0] = Nothing(cache)
        /\ \A k \in 1..Len(todo) :
             /\ h[k - 1] \in Bags(cache)
             /\ \E keys : h[k] = Collected(h[k - 1], LookUp(h[k - 1].cache, todo[k], Clean(todo[k].path)), keys)
    BY <2>2 DEF Collects, CollectItem
  <2>4. {o.id : o \in l.objs} \cap DOMAIN tree = {Sought(o) : o \in Range(todo)} \cap DOMAIN tree
    BY <1>3, <1>9, <1>10, <1>12, <2>2, <2>3, CollectsAll
  <2>5. {Sought(o) : o \in Range(todo)} = {Meant(o) : o \in Range(todo)}
    BY <1>9, <1>12, SoughtThen
  <2> QED BY <1>8, <1>12, <2>1, <2>4, <2>5
<1>13. CASE drv = "cloudreve"
  <2> DEFINE l == Sources(cache, todo, TRUE)
  <2>1. Resolve(IF l.objs = {} THEN Plan(l.cache, NoReq, {}) ELSE Plan(l.cache, req(l.objs), l.keys), <<>>)
    BY <1>13 DEF DeleteResolve, CloudreveDelete, cloudreveDelete, req, todo
  <2>2. PICK h : Gathers(h, cache, todo, TRUE) /\ l = h[Len(todo)]
    BY <1>3, <1>11, SourcesIs
  <2> HIDE DEF l
  <2>3. /\ h[0] = Nothing(cache)
        /\ \A k \in 1..Len(todo) :
             /\ h[k - 1] \in Bags(cache)
             /\ \E keys : h[k] = Collected(h[k - 1], LookUp(h[k - 1].cache, todo[k], Clean(todo[k].path)), keys)
    BY <2>2 DEF Gathers, Source
  <2>4. {o.id : o \in l.objs} \cap DOMAIN tree = {Sought(o) : o \in Range(todo)} \cap DOMAIN tree
    BY <1>3, <1>9, <1>10, <1>13, <2>2, <2>3, CollectsAll
  <2>5. {Sought(o) : o \in Range(todo)} = {Meant(o) : o \in Range(todo)}
    BY <1>9, <1>13, SoughtThen
  <2> QED BY <1>8, <1>13, <2>1, <2>4, <2>5
<1>14. CASE drv = "baidu"
  <2> DEFINE p == Plan(cache, req(Range(todo)), {o.path : o \in Range(todo)})
  <2>1. Resolve(p, <<>>)
    BY <1>14 DEF DeleteResolve, BaiduDelete, manage, req, todo
  <2>2. p.req = req(Range(todo)) /\ p.req # NoReq
    BY <1>7 DEF Plan
  <2> HIDE DEF p
  <2>3. op.objs = Range(todo) /\ tree = op.snap
    BY <1>3, <1>5, <1>14 DEF Ali
  <2>4. {NodeOf(tree, o) : o \in Range(todo)} = Ids(op.objs)
    BY <1>14, <2>3 DEF NodeOf, Ids, Meant
  <2>5. Served(tree, p.req) = Goal(op.objs)
    BY <1>4, <1>7, <2>2, <2>3, <2>4
  <2> DEFINE E == op.objs  rest == <<>>
  <2>6. op.objs = E \cup Range(rest) /\ E \subseteq op.objs /\ Resolve(p, rest)
        /\ Served(tree, p.req) = Goal(E)
    BY <1>3, <2>1, <2>5
  <2> HIDE DEF E, rest
  <2> QED BY <1>1, <1>2, <1>14, <2>2, <2>6, Sends DEF Ali
\* aliyundrive: the first of those left
<1>15. CASE drv \in Ali
  <2> DEFINE p == IF ~r.ok THEN Refuse(r.cache) ELSE Plan(r.cache, req({r.obj}), ParentKey(r.obj))
             E == D \cup {hd}
  <2>1. Resolve(p, Tail(todo))
    BY <1>15 DEF DeleteResolve, AliDelete, AliOpenDelete, Ali, r, req, hd, todo
  <2>2. (p.ok => r.ok) /\ (r.ok => p.req = req({r.obj}) /\ p.req # NoReq)
    BY <1>7 DEF Plan, Refuse
  <2> HIDE DEF p
  <2>3. op.objs = E \cup Range(Tail(todo)) /\ E \subseteq op.objs
    BY <1>3, <1>5
  <2>4. ASSUME r.ok PROVE Served(tree, p.req) = Goal(E)
    <3>1. NodeOf(tree, r.obj) = Meant(hd)
      <4>1. CASE D = {} /\ Right(cache)
        <5>1. tree = op.snap
          BY <1>3, <1>5, <4>1
        <5> QED BY <1>3, <2>4, <4>1, <5>1, ResolvedFinds, SoughtThen DEF r
      <4>2. CASE \A o \in op.objs : o.id # NoId
        <5>1. hd.id # NoId
          BY <1>3, <1>5, <4>2
        <5>2. r.obj = hd
          BY <1>3, <5>1, ResolvedIs DEF r
        <5> QED BY <1>15, <5>1, <5>2 DEF NodeOf, Meant, Ali
      <4> QED BY <1>5, <4>1, <4>2
    <3>2. {NodeOf(tree, o) : o \in {r.obj}} = {Meant(hd)} /\ Ids(E) = Ids(D) \cup {Meant(hd)}
      BY <3>1 DEF Ids
    <3>3. Served(tree, p.req) = Removed(Removed(op.snap, Ids(D)), {Meant(hd)})
      BY <1>4, <1>5, <1>7, <2>2, <2>4, <3>2
    <3>4. Removed(Removed(op.snap, Ids(D)), {Meant(hd)}) = Removed(op.snap, Ids(D) \cup {Meant(hd)})
      BY RemovedTwice
    <3>5. Goal(E) = Removed(op.snap, Ids(E))
      BY <1>4
    <3> QED BY <3>2, <3>3, <3>4, <3>5
  <2> HIDE DEF E
  <2> DEFINE rest == Tail(todo)
  <2>5. op.objs = E \cup Range(rest) /\ Resolve(p, rest)
        /\ \A o \in op.objs : drv \in Ali /\ o.id = NoId => rest = <<>>
    BY <1>6, <2>1, <2>3
  <2> HIDE DEF rest
  <2> QED BY <1>1, <1>2, <2>2, <2>3, <2>4, <2>5, Sends
<1> QED BY <1>3, <1>12, <1>13, <1>14, <1>15 DEF AllDrivers, Ali

\* A request is answered, or a task of quark's server goes on.
LEMMA SendingGoes ==
  ASSUME EInv, op.clean, op.kind \in {"rename", "delete"}, UNCHANGED drv,
         Request \/ TaskSubmit \/ (op.pc = "task" /\ TaskRuns) \/ checkTaskSuccess
  PROVE  Effect'
<1>1. op \in Operation(fresh)
  BY Now DEF EInv
<1>2. PICK D : Dealt(D)
  BY DEF EInv, Effect
<1>3. op.objs = D \cup Range(op.todo)
  BY <1>2 DEF Dealt
<1>4. op.pc \in {"request", "task"} /\ "finish" \in Sending /\ "task" \in Sending
  BY DEF Request, TaskSubmit, checkTaskSuccess, Sending
<1>5. \A o \in op.objs : drv \in Ali /\ o.id = NoId => op.todo = <<>>
  BY <1>4 DEF EInv, Effect, Asked
<1> DEFINE same == /\ op'.kind = op.kind /\ op'.snap = op.snap /\ op'.name = op.name /\ op'.objs = op.objs
                   /\ op'.res = op.res /\ op'.todo = op.todo /\ op'.req = op.req
<1>6. ASSUME NEW t2, NEW pc, Go(t2, cache, [op EXCEPT !.pc = pc]) PROVE same /\ op'.pc = pc /\ tree' = t2
  BY <1>1, <1>6 DEF Go, Operation
<1>7. CASE Request
  <2> DEFINE pc == IF drv \in {"ali", "ali_open"} /\ op.todo # <<>> THEN "resolve" ELSE "finish"
  <2>1. Go(Served(tree, op.req), cache, [op EXCEPT !.pc = pc]) /\ task' = task /\ op.pc = "request"
    BY <1>7 DEF Request, Answered
  <2>2. /\ pc \in {"resolve", "finish"} /\ (pc = "resolve" => drv \in Ali /\ op.todo # <<>>)
    BY DEF Ali
  <2> HIDE DEF pc
  <2>3. same /\ op'.pc = pc /\ tree' = Served(tree, op.req)
    BY <1>6, <2>1
  <2>4. task' = NoReq /\ tree' = Goal(D)
    BY <1>2, <2>1, <2>3 DEF Dealt
  <2>5. pc = "resolve" => op.kind = "delete" /\ \A o \in op.objs : o.id # NoId
    <3>1. op.kind = "rename" => op.todo = <<>>
      BY <2>1, <1>4 DEF EInv, IInv, Places, SendPlaces, Sending, Shifting
    <3> QED BY <1>5, <2>2, <3>1
  <2> QED BY <1>3, <1>4, <1>5, <2>2, <2>3, <2>4, <2>5, GoesOn
<1>8. CASE TaskSubmit
  <2>1. /\ Go(tree, cache, [op EXCEPT !.pc = "task"]) /\ task' = op.req /\ op.pc = "request"
        /\ Valid(tree, op.req)
    BY <1>8 DEF TaskSubmit
  <2>2. same /\ op'.pc = "task" /\ tree' = tree
    BY <1>6, <2>1
  <2>3. Served(tree, op.req) = Goal(D) /\ op.req # NoReq
    BY <1>2, <2>1 DEF Dealt, EInv, IInv, Places, SendPlaces
  <2> QED BY <1>3, <1>4, <1>5, <2>1, <2>2, <2>3, GoesOn
<1>9. CASE op.pc = "task" /\ TaskRuns
  <2> DEFINE t2 == IF Valid(tree, task) THEN Served(tree, task) ELSE tree
  <2>1. task # NoReq /\ task' = NoReq /\ Go(t2, cache, op)
    BY <1>9 DEF TaskRuns
  <2>2. t2 = Goal(D)
    BY <1>2, <1>9, <2>1 DEF Dealt
  <2> HIDE DEF t2
  <2>3. op = [op EXCEPT !.pc = "task"]
    BY <1>1, <1>9 DEF Operation
  <2>4. same /\ op'.pc = "task" /\ tree' = t2
    BY <1>6, <2>1, <2>3, SMTT(60)
  <2> QED BY <1>3, <1>4, <1>5, <2>1, <2>2, <2>4, GoesOn
<1>10. CASE checkTaskSuccess
  <2>1. Go(tree, cache, [op EXCEPT !.pc = "finish"]) /\ task = NoReq /\ op.pc = "task"
    BY <1>10 DEF checkTaskSuccess
  <2>2. same /\ op'.pc = "finish" /\ tree' = tree
    BY <1>6, <2>1
  <2>3. tree = Goal(D)
    BY <1>2, <2>1 DEF Dealt
  <2> QED BY <1>3, <1>4, <1>5, <2>2, <2>3, GoesOn
<1> QED BY <1>4, <1>7, <1>8, <1>9, <1>10

\* Listing a directory keeps the listings right.
LEMMA ListKeeps ==
  ASSUME Types, Right(cache), NEW dir \in Held \cup {RootObj}, op.res # "ok"
  PROVE  Right(List(cache, dir, FALSE).cache)
<1>1. cache \in Caches(fresh) /\ fresh \in Nat \ {0}
  BY DriveParameters DEF Types
<1>2. dir \in Object(fresh) /\ Placed(dir)
  <2>1. CASE dir = RootObj
    BY <1>1, <2>1, RootIs, RootPlaced
  <2>2. CASE dir \in UNION Range(cache)
    <3>1. PICK k \in DOMAIN cache : dir \in cache[k]
      BY <2>2 DEF Range
    <3>2. cache[k] \in SUBSET Listed(fresh)
      BY <1>1, CacheIs
    <3> DEFINE i == IF drv = "baidu" THEN NodeAt(tree, Clean(k)) ELSE k
    <3>3. Shown(cache[k]) = Entries(i)
      BY DEF Right, Truth, Entries
    <3>4. \A o \in cache[k] : o.id \in DOMAIN tree => Clean(o.path) = PathOf(tree, tree[o.id].parent)
      BY DEF Right
    <3> HIDE DEF i
    <3>5. Placed(dir)
      BY <3>1, <3>2, <3>3, <3>4, RightIs
    <3> QED BY <3>1, <3>2, <3>5 DEF Listed
  <2> QED BY <2>1, <2>2 DEF Held
<1>3. dir.id # NoId /\ dir.id \in Int
  <2>1. NoId \notin Nodes(tree)
    BY <1>1, TreeIs DEF Types, Nodes, Root, NoId
  <2> QED BY <1>2, <2>1 DEF Placed, Object
<1> DEFINE r == GetOrLoad(cache, ListingOf(dir, dir.id))
<1>4. List(cache, dir, FALSE) = r
  BY <1>3 DEF List, ListResolved, ListFound, Given
<1> HIDE DEF r
<1>5. Right(r.cache)
  BY <1>1, <1>2, <1>3, LoadIs DEF r
<1> QED BY <1>4, <1>5

LEMMA SameRight ==
  ASSUME tree' = tree, drv' = drv, Right(cache')
  PROVE  Right(cache)'
<1>1. \A k : Truth(tree, k)' = Truth(tree, k)
  BY DEF Truth
<1> QED BY <1>1 DEF Right

LEMMA ListGoes ==
  ASSUME EInv, op.clean, op.kind \in {"rename", "delete"}, ListSome
  PROVE  Effect'
<1>1. op \in Operation(fresh) /\ Types
  BY Now DEF EInv
<1>2. PICK D : Dealt(D)
  BY DEF EInv, Effect
<1>3. /\ op.res # "ok" /\ op.pc \in {"resolve"} \cup Sending
      /\ \A o \in op.objs : drv \in Ali /\ o.id = NoId =>
           (IF op.pc = "resolve" THEN Tail(op.todo) ELSE op.todo) = <<>>
  BY DEF EInv, Effect, Asked
<1>4. PICK dir \in Held \cup {RootObj} : ListDir(List(cache, dir, FALSE))
  <2>1. ~Idle
    BY <1>3 DEF Idle, Sending
  <2> QED BY <2>1 DEF ListSome
<1>5. /\ cache' = List(cache, dir, FALSE).cache /\ UNCHANGED <<drv, tree, task>>
      /\ \E ts : op' = [op EXCEPT !.touched = ts]
  BY <1>4 DEF ListDir
<1>6. /\ op'.kind = op.kind /\ op'.snap = op.snap /\ op'.name = op.name /\ op'.objs = op.objs
      /\ op'.res = op.res /\ op'.todo = op.todo /\ op'.req = op.req /\ op'.pc = op.pc
  BY <1>1, <1>5 DEF Operation
<1>7. Right(cache) => Right(cache)'
  <2>1. ASSUME Right(cache) PROVE Right(cache')
    BY <1>1, <1>3, <1>5, <2>1, ListKeeps
  <2> QED BY <1>5, <2>1, SameRight
<1> QED BY <1>2, <1>3, <1>5, <1>6, <1>7, GoesOn, ZenonT(60) DEF Dealt

------------------------------------------------------------------------------
(* Other operations do not turn into renamings and deletions. *)

\* Of a step of an operation: it stays what was asked for, or ends; and Mkdir leaves the operands.
Keeps ==
  \/ op'.kind = "none"
  \/ /\ op'.kind = op.kind /\ (op'.clean => op.clean)
     /\ op'.objs = op.objs /\ op'.snap = op.snap /\ op'.path = op.path
     /\ op.pc \in Mkdirs => op'.todo = op.todo

Alike(o2) ==
  /\ DOMAIN o2 = DOMAIN op /\ o2.kind = op.kind /\ (o2.clean => op.clean)
  /\ o2.objs = op.objs /\ o2.snap = op.snap /\ o2.path = op.path
  /\ op.pc \in Mkdirs => o2.todo = op.todo

LEMMA GoKeeps ==
  ASSUME op \in Operation(fresh), NEW t2, NEW c2, NEW o2, Go(t2, c2, o2), Alike(o2)
  PROVE  Keeps
<1>1. {"kind", "clean", "touched", "objs", "snap", "path", "todo"} \subseteq DOMAIN o2
  BY DEF Operation, Alike
<1> QED BY <1>1 DEF Go, Keeps, Alike

LEMMA ReturnKeeps ==
  ASSUME NEW res, NEW c2, NEW obj, Return(res, c2, obj)
  PROVE  Keeps
BY ReturnIs DEF Keeps

LEMMA ResolveKeeps ==
  ASSUME op \in Operation(fresh), NEW p, NEW rest, Resolve(p, rest)
  PROVE  Keeps
<1>1. CASE ~p.ok
  BY <1>1, ReturnKeeps DEF Resolve
<1>2. CASE p.ok
  <2> DEFINE pc == IF p.req = NoReq THEN "finish" ELSE "request"  dels == op.dels \cup p.dels
             o2 == [op EXCEPT !.pc = pc, !.req = p.req, !.dels = dels, !.panic = p.panic, !.todo = rest]
  <2>1. Go(tree, p.cache, o2)
    BY <1>2 DEF Resolve
  <2> HIDE DEF pc, dels
  <2>2. op.pc \notin Mkdirs
    BY DEF Resolve, Mkdirs
  <2>3. Alike(o2)
    BY <2>2 DEF Operation, Alike
  <2> HIDE DEF o2
  <2> QED BY <2>1, <2>3, GoKeeps
<1> QED BY <1>1, <1>2

LEMMA MkdirReturnKeeps ==
  ASSUME op \in Operation(fresh), NEW c2, NEW obj, MkdirReturn(c2, obj)
  PROVE  Keeps
<1>1. CASE op.kind = "move"
  <2> DEFINE o2 == [op EXCEPT !.pc = "resolve", !.dst = obj]
  <2>1. Go(tree, c2, o2) /\ Alike(o2)
    BY <1>1 DEF MkdirReturn, Operation, Alike
  <2> HIDE DEF o2
  <2> QED BY <2>1, GoKeeps
<1>2. CASE op.kind # "move"
  BY <1>2, ReturnKeeps DEF MkdirReturn
<1> QED BY <1>1, <1>2

LEMMA DescendKeeps ==
  ASSUME op \in Operation(fresh), NEW t2, NEW c2, NEW i, NEW next, Go(t2, c2, Descend(i, next))
  PROVE  Keeps
<1> DEFINE pc == IF Len(op.rest) = 1 THEN "made" ELSE next  rest == Tail(op.rest)
           o2 == [op EXCEPT !.at = i, !.rest = rest, !.pc = pc]
<1>1. Go(t2, c2, o2)
  BY DEF Descend
<1> HIDE DEF pc, rest
<1>2. Alike(o2)
  BY DEF Operation, Alike
<1> HIDE DEF o2
<1> QED BY <1>1, <1>2, GoKeeps

LEMMA MkdirBeginKeeps ==
  ASSUME op \in Operation(fresh), NEW next, MkdirBegin(next)
  PROVE  Keeps
<1> DEFINE g == GetPanObj(cache, op.path, FALSE)  rest == Rel(Full(g.obj), op.path)
           o2 == [op EXCEPT !.pc = next, !.base = g.obj, !.at = g.obj.id, !.rest = rest]
<1>1. \/ \E c2, obj : MkdirReturn(c2, obj)
      \/ \E res, c2, obj : Return(res, c2, obj)
      \/ Go(tree, g.cache, o2)
  BY DEF MkdirBegin, MkdirFrom
<1> HIDE DEF g, rest
<1>2. Alike(o2)
  BY DEF Operation, Alike
<1> HIDE DEF o2
<1> QED BY <1>1, <1>2, GoKeeps, ReturnKeeps, MkdirReturnKeeps

\* A step that changes only where the operation is.
LEMMA TurnKeeps ==
  ASSUME op \in Operation(fresh), NEW t2, NEW c2, NEW pc, NEW at, NEW tries, NEW clean, clean => op.clean,
         NEW o2 \in {[op EXCEPT !.pc = pc], [op EXCEPT !.tries = tries], [op EXCEPT !.pc = pc, !.at = at],
                     [op EXCEPT !.pc = pc, !.clean = clean], [op EXCEPT !.pc = pc, !.tries = tries],
                     [op EXCEPT !.tries = tries, !.pc = pc, !.clean = clean], op},
         Go(t2, c2, o2)
  PROVE  Keeps
<1>1. Alike(o2)
  BY ZenonT(60) DEF Operation, Alike
<1> QED BY <1>1, GoKeeps

\* So does Mkdir, of any driver.
LEMMA MkdirsKeep ==
  ASSUME op \in Operation(fresh),
         \/ createDirectoryFail \/ createDirectory \/ createDirectoryBusy
         \/ QuarkMkdir \/ findChildDirId \/ QuarkConflict \/ QuarkMade
         \/ BaiduNext \/ AliNext \/ CloudreveMkdir \/ ThunderMkdir
  PROVE  Keeps
<1>1. \A at, n, next : MakeAt(at, n, next) => Keeps
  BY DescendKeeps DEF MakeAt
<1>2. MkdirFail => Keeps
  BY ReturnKeeps DEF MkdirFail
<1>3. /\ \A next : MkdirBegin(next) => Keeps
      /\ \A c2, obj : MkdirReturn(c2, obj) => Keeps
      /\ \A res, c2, obj : Return(res, c2, obj) => Keeps
      /\ \A t2, c2, i, next : Go(t2, c2, Descend(i, next)) => Keeps
  BY MkdirBeginKeeps, MkdirReturnKeeps, ReturnKeeps, DescendKeeps, SMTT(60)
<1>4. ASSUME NEW t2, NEW c2, NEW pc, Go(t2, c2, [op EXCEPT !.pc = pc]) PROVE Keeps
  BY <1>4, TurnKeeps, ZenonT(60)
<1>5. CASE createDirectoryFail \/ createDirectory
  BY <1>1, <1>4, <1>5 DEF createDirectoryFail, createDirectory
<1>6. CASE createDirectoryBusy
  <2> DEFINE tries == op.tries + 1  o2 == [op EXCEPT !.tries = tries]
  <2>1. Go(tree, cache, o2)
    BY <1>6 DEF createDirectoryBusy
  <2> HIDE DEF tries
  <2> QED BY <2>1, TurnKeeps, ZenonT(60)
<1>7. CASE QuarkMkdir \/ findChildDirId
  BY <1>3, <1>4, <1>7 DEF QuarkMkdir, findChildDirId
<1>8. CASE QuarkConflict \/ QuarkMade
  BY <1>2, <1>3, <1>8 DEF QuarkConflict, QuarkMade
<1>9. CASE BaiduNext
  <2>1. CASE \E res, c2, obj : Return(res, c2, obj)
    BY <1>3, <2>1
  <2>2. CASE \E t2, at : Go(t2, cache, [op EXCEPT !.pc = "made", !.at = at])
    <3>1. PICK t2, at : Go(t2, cache, [op EXCEPT !.pc = "made", !.at = at])
      BY <2>2
    <3> DEFINE o2 == [op EXCEPT !.pc = "made", !.at = at]
    <3>2. Alike(o2)
      BY DEF Operation, Alike
    <3> HIDE DEF o2
    <3> QED BY <3>1, <3>2, GoKeeps DEF o2
  <2> QED BY <1>9, <2>1, <2>2 DEF BaiduNext, BaiduMkdir, BaiduMade
<1>10. CASE AliNext
  BY <1>1, <1>2, <1>3, <1>10 DEF AliNext, AliMkdir, AliOpenMkdir, Made_
<1>11. CASE ThunderMkdir
  BY <1>1, <1>2, <1>3, <1>4, <1>11 DEF ThunderMkdir
<1>12. CASE CloudreveMkdir
  <2>1. CASE Go(tree, cache, [op EXCEPT !.tries = 1, !.pc = "made", !.clean = FALSE])
    <3> DEFINE o2 == [op EXCEPT !.tries = 1, !.pc = "made", !.clean = FALSE]
    <3>1. Alike(o2)
      BY DEF Operation, Alike
    <3> HIDE DEF o2
    <3> QED BY <2>1, <3>1, GoKeeps DEF o2
  <2>2. CASE Go(tree, Del(cache, {op.base.id}), [op EXCEPT !.pc = "mkdir", !.tries = 0])
    <3> DEFINE o2 == [op EXCEPT !.pc = "mkdir", !.tries = 0]
    <3>1. Alike(o2)
      BY DEF Operation, Alike
    <3> HIDE DEF o2
    <3> QED BY <2>2, <3>1, GoKeeps DEF o2
  <2> QED BY <1>1, <1>2, <1>3, <1>12, <2>1, <2>2 DEF CloudreveMkdir
<1> QED BY <1>5, <1>6, <1>7, <1>8, <1>9, <1>10, <1>11, <1>12

LEMMA BatchKeeps ==
  ASSUME op \in Operation(fresh), BatchRename
  PROVE  Keeps
<1>1. op.pc \notin Mkdirs
  BY DEF BatchRename, Mkdirs
<1>2. ASSUME NEW l, NEW dir, NEW o2, Alike(o2), BatchList(l, dir, o2) PROVE Keeps
  <2>1. CASE ~l.ok
    BY <1>2, <2>1, ReturnKeeps DEF BatchList
  <2>2. CASE l.ok
    <3> DEFINE stack == Append(o2.stack, Frame(l.objs, dir))  o3 == [o2 EXCEPT !.stack = stack, !.todo = <<>>]
    <3>1. Go(tree, l.cache, o3)
      BY <1>2, <2>2 DEF BatchList
    <3> HIDE DEF stack
    <3>2. Alike(o3)
      BY <1>2, <1>1 DEF Operation, Alike
    <3> HIDE DEF o3
    <3> QED BY <3>1, <3>2, GoKeeps
  <2> QED BY <2>1, <2>2
<1>3. ASSUME NEW o, NEW o2, Alike(o2) PROVE Alike(NameOf(o, o2))
  <2> DEFINE nm == Func[o.name]  o3 == [o2 EXCEPT !.pc = "resolve", !.todo = <<o>>, !.name = nm]
  <2> HIDE DEF nm
  <2>1. Alike(o3)
    BY <1>3, <1>1 DEF Operation, Alike
  <2> QED BY <1>3, <2>1 DEF NameOf, nm
<1>4. Alike(op)
  BY DEF Alike
<1>5. CASE BatchStart
  BY <1>2, <1>4, <1>5 DEF BatchStart
<1>6. CASE BatchObject
  <2>1. PICK o \in Last(op.stack).left :
          LET o2 == [op EXCEPT !.stack[Len(op.stack)].left = @ \ {o}]
          IN IF o.type = "dir" THEN BatchList(List(cache, o, TRUE), o, o2)
             ELSE Go(tree, cache, NameOf(o, o2))
    BY <1>6 DEF BatchObject
  <2> DEFINE o2 == [op EXCEPT !.stack[Len(op.stack)].left = @ \ {o}]
  <2>2. Alike(o2)
    BY <1>1 DEF Operation, Alike
  <2>3. Alike(NameOf(o, o2))
    BY <1>3, <2>2
  <2>4. BatchList(List(cache, o, TRUE), o, o2) \/ Go(tree, cache, NameOf(o, o2))
    BY <2>1
  <2> HIDE DEF o2
  <2> QED BY <1>2, <2>2, <2>3, <2>4, GoKeeps
<1>7. CASE BatchUp
  <2> DEFINE stack == Front(op.stack)  o2 == [op EXCEPT !.stack = stack]
  <2>1. Return("ok", cache, RootObj) \/ Go(tree, cache, NameOf(Last(op.stack).dir, o2))
    BY <1>7 DEF BatchUp
  <2> HIDE DEF stack
  <2>2. Alike(o2)
    BY <1>1 DEF Operation, Alike
  <2>3. Alike(NameOf(Last(op.stack).dir, o2))
    BY <1>3, <2>2
  <2> HIDE DEF o2
  <2> QED BY <2>1, <2>3, GoKeeps, ReturnKeeps
<1> QED BY <1>5, <1>6, <1>7 DEF BatchRename

LEMMA StepsKeep ==
  ASSUME IInv, Steps
  PROVE  Keeps
<1>1. op \in Operation(fresh) /\ drv \in AllDrivers
  BY Now, DriveParameters DEF Types
<1>2. CASE LookFails \/ RequestFail \/ taskQueryFails
  BY <1>2, ReturnKeeps DEF LookFails, RequestFail, taskQueryFails
<1>3. CASE RenameResolve \/ MoveResolve \/ DeleteResolve
  <2>1. \E p, rest : Resolve(p, rest)
    BY <1>1, <1>3 DEF RenameResolve, MoveResolve, DeleteResolve, AllDrivers
  <2> QED BY <1>1, <2>1, ResolveKeeps
<1>4. CASE Request \/ RefusalUnnoticed \/ TaskSubmit \/ checkTaskSuccess
  <2> DEFINE pc == IF drv \in {"ali", "ali_open"} /\ op.todo # <<>> THEN "resolve" ELSE "finish"
  <2>1. \/ Go(Served(tree, op.req), cache, [op EXCEPT !.pc = pc])
        \/ Go(tree, cache, [[op EXCEPT !.pc = pc] EXCEPT !.clean = FALSE])
        \/ Go(tree, cache, [op EXCEPT !.pc = "task"])
        \/ Go(tree, cache, [op EXCEPT !.pc = "finish"])
    BY <1>4, SMTT(60) DEF Request, RefusalUnnoticed, TaskSubmit, checkTaskSuccess, Answered
  <2> HIDE DEF pc
  <2>2. ASSUME NEW t2, NEW x, Go(t2, cache, [op EXCEPT !.pc = x]) PROVE Keeps
    BY <1>1, <2>2, TurnKeeps, ZenonT(60)
  <2>3. CASE Go(tree, cache, [[op EXCEPT !.pc = pc] EXCEPT !.clean = FALSE])
    <3> DEFINE o2 == [[op EXCEPT !.pc = pc] EXCEPT !.clean = FALSE]
    <3>1. Alike(o2)
      BY <1>1 DEF Operation, Alike
    <3> HIDE DEF o2
    <3> QED BY <1>1, <2>3, <3>1, GoKeeps DEF o2
  <2> QED BY <2>1, <2>2, <2>3
<1>5. CASE AnswerLost
  BY <1>5 DEF AnswerLost, NoOp, Keeps
<1>6. CASE Finish
  <2>1. CASE \E res, c2, obj : Return(res, c2, obj)
    BY <2>1, ReturnKeeps
  <2>2. CASE \E c2 : Go(tree, c2, [op EXCEPT !.pc = "resolve", !.dels = {}])
    <3> DEFINE o2 == [op EXCEPT !.pc = "resolve", !.dels = {}]
    <3>1. Alike(o2)
      BY <1>1 DEF Operation, Alike
    <3> HIDE DEF o2
    <3> QED BY <1>1, <2>2, <3>1, GoKeeps DEF o2
  <2>3. CASE op' = [op EXCEPT !.pc = "batch", !.dels = {}, !.touched = {}]
    BY <1>1, <2>3 DEF Keeps, Operation
  <2> QED BY <1>6, <2>1, <2>2, <2>3 DEF Finish
<1>7. CASE BatchRename
  BY <1>1, <1>7, BatchKeeps
<1>8. CASE \/ createDirectoryFail \/ createDirectory \/ createDirectoryBusy
           \/ QuarkMkdir \/ findChildDirId \/ QuarkConflict \/ QuarkMade
           \/ BaiduNext \/ AliNext \/ CloudreveMkdir \/ ThunderMkdir
  BY <1>1, <1>8, MkdirsKeep
<1> QED BY <1>2, <1>3, <1>4, <1>5, <1>6, <1>7, <1>8 DEF Steps, QuarkNext, CloudreveNext

------------------------------------------------------------------------------
(* The beginning of an operation. *)

LEMMA OneTodo ==
  ASSUME NEW x, NEW s \in SetToSeqs({x})
  PROVE  Tail(s) = <<>>
<1> DEFINE n == Cardinality({x})  T == {x}
<1>1. n = 1
  BY FS_Singleton, Zenon
<1>2. s \in [1..n -> T]
  BY DEF SetToSeqs
<1> HIDE DEF n, T
<1>3. s \in Seq(T) /\ Len(s) = 1
  <2>1. n \in Nat
    BY <1>1
  <2>2. s \in Seq(T) /\ Len(s) = n
    BY <1>2, <2>1
  <2> QED BY <1>1, <2>2
<1>4. s # <<>>
  BY <1>3
<1>5. Tail(s) \in Seq(T) /\ Len(Tail(s)) = Len(s) - 1
  BY <1>3, <1>4
<1> DEFINE t == Tail(s)
<1>6. t \in Seq(T) /\ Len(t) = 0
  BY <1>3, <1>5
<1> HIDE DEF t
<1>7. t = <<>>
  BY <1>6
<1> QED BY <1>7 DEF t

LEMMA BeginsMine ==
  ASSUME IInv, NEW kind \in {"rename", "delete"}, NEW objs \in SUBSET Object(fresh), IsFiniteSet(objs),
         NEW name, Begin(kind, "resolve", objs, RootObj, name, <<>>), \A o \in objs : Known(o),
         \/ \E x : objs = {x}
         \/ kind = "delete" /\ \A o \in objs : drv # "baidu" => o.id # NoId
  PROVE  Effect'
<1>1. PICK todo \in SetToSeqs(objs) :
        op' = [NoOp EXCEPT !.kind = kind, !.pc = "resolve", !.objs = objs, !.todo = todo,
                           !.dst = RootObj, !.name = name, !.path = <<>>,
                           !.snap = tree, !.clean = owed = {} /\ task = NoReq /\ Located]
  BY DEF Begin
<1>2. UNCHANGED <<drv, tree, fresh, task, cache, owed, due>> /\ op.pc = "idle"
  BY DEF Begin, Idle
<1>3. /\ op'.kind = kind /\ op'.pc = "resolve" /\ op'.objs = objs /\ op'.todo = todo /\ op'.res = "none"
      /\ op'.snap = tree /\ (op'.clean => owed = {} /\ task = NoReq /\ Located)
  BY <1>1, ZenonT(60) DEF NoOp
<1>4. Range(todo) = objs
  BY TodoIs
<1>5. \A o \in objs : drv \in Ali /\ o.id = NoId => Tail(todo) = <<>>
  <2>1. (\E x : objs = {x}) => Tail(todo) = <<>>
    BY OneTodo
  <2> QED BY <2>1 DEF Ali
<1>6. \A o : Known(o)' = Known(o)
  BY <1>2 DEF Known
<1>7. ASSUME op'.clean PROVE Right(cache)'
  <2>1. op.touched = {} /\ ListingsCurrent
    BY <1>2 DEF IInv, Places
  <2>2. Right(cache)
    BY <1>3, <1>7, <2>1 DEF Right, Located, ListingsCurrent
  <2> QED BY <1>2, <2>2, SameRight
<1>8. Goal({})' = tree
  <2>1. tree \in Trees
    BY DEF IInv, Types, TreeOK, Shape
  <2>2. Ids({})' = {}
    BY DEF Ids
  <2>3. Goal({})' = IF op'.kind = "delete" THEN Removed(op'.snap, Ids({})') ELSE op'.snap
    BY DEF Goal
  <2> QED BY <1>3, <2>1, <2>2, <2>3, RemovedNone
<1>9. op'.clean => Dealt({})'
  BY <1>2, <1>3, <1>4, <1>7, <1>8 DEF Dealt, Sending
<1>10. Asked'
  BY <1>2, <1>3, <1>5, <1>6 DEF Asked, Ali
<1> QED BY <1>9, <1>10, SMTT(60) DEF Effect

\* What callers hold has an id, but for what baidu's Mkdir returns.
LEMMA HeldKnown ==
  ASSUME IInv, Idle, NEW o \in Held
  PROVE  Known(o) /\ (drv # "baidu" => o.id # NoId)
<1>1. cache \in Caches(fresh)
  BY DEF IInv, Types
<1>2. CASE o \in UNION Range(cache)
  <2>1. PICK k \in DOMAIN cache : o \in cache[k]
    BY <1>2 DEF Range
  <2>2. o \in Listed(fresh)
    BY <1>1, <2>1, CacheIs
  <2> QED BY <2>2 DEF Listed, Known, Proper, NoId
<1>3. CASE op.res = "ok" /\ o = op.dst /\ drv # "baidu"
  <2>1. Proper(op.dst)
    BY <1>3 DEF IInv, Places, Idle
  <2> QED BY <1>3, <2>1 DEF Known, Proper, RootObj, Obj, Root, NoId
<1>4. CASE drv = "baidu"
  BY <1>4 DEF Known
<1> QED BY <1>2, <1>3, <1>4 DEF Held

LEMMA BeginsEffect ==
  ASSUME IInv, BeginRename \/ BeginMove \/ BeginDelete \/ BeginMkdir \/ BeginBatch
  PROVE  Effect'
<1>1. /\ Types /\ Held \subseteq Object(fresh)
      /\ \A p \in Paths \cup {<<>>} : PathObj(p) \in Object(fresh)
  BY HeldIs, SMTT(60) DEF IInv
<1>2. Idle
  BY DEF BeginRename, BeginMove, BeginDelete, BeginMkdir, BeginBatch, Begin
<1>3. \A p : Known(PathObj(p))
  BY DEF Known, Proper, PathObj, Obj
<1>4. \A x : IsFiniteSet({x})
  BY FS_Singleton
<1>5. CASE BeginRename
  <2>1. PICK o \in Held \cup {PathObj(p) : p \in Paths}, n \in Names : Begin("rename", "resolve", {o}, RootObj, n, <<>>)
    BY <1>5 DEF BeginRename
  <2>2. o \in Object(fresh) /\ Known(o)
    BY <1>1, <1>2, <1>3, HeldKnown
  <2> DEFINE S == {o}
  <2>3. S \in SUBSET Object(fresh) /\ IsFiniteSet(S) /\ (\A y \in S : Known(y)) /\ \E x : S = {x}
    BY <1>4, <2>2
  <2>4. Begin("rename", "resolve", S, RootObj, n, <<>>)
    BY <2>1
  <2> HIDE DEF S
  <2> QED BY <2>3, <2>4, BeginsMine
<1>6. CASE BeginDelete
  <2>1. PICK S \in Items : Begin("delete", "resolve", S, RootObj, NoName, <<>>)
    BY <1>6 DEF BeginDelete
  <2>2. CASE S \in SUBSET Held /\ IsFiniteSet(S)
    BY <1>1, <1>2, <2>1, <2>2, HeldKnown, BeginsMine
  <2>3. CASE \E p \in Paths : S = {PathObj(p)}
    BY <1>1, <1>3, <1>4, <2>1, <2>3, BeginsMine
  <2> QED BY <2>2, <2>3 DEF Items
<1>7. CASE BeginMove \/ BeginMkdir \/ BeginBatch
  <2>1. op'.kind \in {"move", "mkdir", "batch"}
    <3>1. \A kind, pc, objs, dst, name, path : Begin(kind, pc, objs, dst, name, path) => op'.kind = kind
      BY DEF Begin, NoOp
    <3>2. BeginMove => op'.kind = "move"
      BY <3>1 DEF BeginMove
    <3>3. BeginMkdir => op'.kind = "mkdir"
      BY <3>1 DEF BeginMkdir
    <3>4. BeginBatch => op'.kind = "batch"
      BY <3>1 DEF BeginBatch
    <3> QED BY <1>7, <3>2, <3>3, <3>4
  <2> QED BY <2>1, NotMine
<1> QED BY <1>5, <1>6, <1>7

------------------------------------------------------------------------------
(* All steps. *)

Mine == op.clean /\ op.kind \in {"rename", "delete"}

\* When it ends nothing is left to do: the operation returns.
LEMMA Ends ==
  ASSUME EInv, Mine, Finish
  PROVE  /\ op.todo = <<>>
         /\ \/ Return("panic", cache, RootObj)
            \/ ~op.panic /\ Return("ok", Del(cache, op.dels), RootObj)
<1>1. op.pc = "finish" /\ op.kind \notin {"move", "batch"}
  BY DEF Finish, Mine
<1>2. op.todo = <<>> /\ op.stack = <<>>
  BY <1>1 DEF EInv, IInv, Places, SendPlaces, BatchPlaces, Sending
<1> QED BY <1>2 DEF Finish

LEMMA MyStepsAre ==
  ASSUME EInv, Mine, Steps
  PROVE  \/ LookFails \/ RequestFail \/ taskQueryFails \/ RenameResolve \/ DeleteResolve
         \/ Request \/ TaskSubmit \/ checkTaskSuccess \/ AnswerLost \/ RefusalUnnoticed \/ Finish
<1>1. op.kind \in {"rename", "delete"} /\ op.pc \in {"resolve"} \cup Sending
  BY DEF EInv, Effect, Asked, Mine
<1>2. ~MoveResolve
  BY <1>1 DEF MoveResolve
<1>3. ~BatchRename
  BY <1>1 DEF BatchRename, Sending
<1>4. ~createDirectoryFail /\ ~createDirectory /\ ~createDirectoryBusy
  BY <1>1 DEF createDirectoryFail, createDirectory, createDirectoryBusy, Sending
<1>5. ~QuarkMkdir /\ ~findChildDirId /\ ~QuarkConflict /\ ~QuarkMade
  BY <1>1 DEF QuarkMkdir, MkdirBegin, findChildDirId, QuarkConflict, QuarkMade, Sending
<1>6. ~BaiduNext
  BY <1>1 DEF BaiduNext, BaiduMkdir, BaiduMade, Sending
<1>7. ~AliNext
  BY <1>1 DEF AliNext, AliMkdir, AliOpenMkdir, Made_, MkdirBegin, Sending
<1>8. ~CloudreveMkdir
  BY <1>1 DEF CloudreveMkdir, MkdirBegin, Sending
<1>9. ~ThunderMkdir
  BY <1>1 DEF ThunderMkdir, MkdirBegin, Sending
<1> QED BY <1>2, <1>3, <1>4, <1>5, <1>6, <1>7, <1>8, <1>9 DEF Steps, QuarkNext, CloudreveNext

LEMMA MySteps ==
  ASSUME EInv, Mine, Steps
  PROVE  Effect'
<1>1. op \in Operation(fresh) /\ UNCHANGED drv /\ op.clean /\ op.kind \in {"rename", "delete"}
  BY Now DEF EInv, Steps, Mine
<1>2. CASE LookFails \/ RequestFail \/ taskQueryFails
  BY <1>2, ReturnIs DEF LookFails, RequestFail, taskQueryFails
<1>3. CASE RenameResolve
  <2>1. op.kind = "rename"
    BY <1>1, <1>3 DEF RenameResolve
  <2> QED BY <1>1, <1>3, <2>1, RenameSends
<1>4. CASE DeleteResolve
  <2>1. op.kind = "delete"
    BY <1>4 DEF DeleteResolve
  <2> QED BY <1>1, <1>4, <2>1, DeleteSends
<1>5. CASE Request \/ TaskSubmit \/ checkTaskSuccess
  BY <1>1, <1>5, SendingGoes
<1>6. CASE AnswerLost
  <2>1. op'.kind = "none"
    BY <1>6 DEF AnswerLost, NoOp
  <2> QED BY <2>1, NotMine
<1>7. CASE RefusalUnnoticed
  <2> DEFINE pc == IF drv \in {"ali", "ali_open"} /\ op.todo # <<>> THEN "resolve" ELSE "finish"
  <2>1. Go(tree, cache, [[op EXCEPT !.pc = pc] EXCEPT !.clean = FALSE])
    BY <1>7 DEF RefusalUnnoticed, Answered
  <2> HIDE DEF pc
  <2>2. op'.clean = FALSE
    BY <1>1, <2>1 DEF Go, Operation
  <2> QED BY <2>2, NotMine
<1>8. CASE Finish
  BY <1>8, Ends, ReturnIs
<1> QED BY <1>2, <1>3, <1>4, <1>5, <1>6, <1>7, <1>8, MyStepsAre

\* What is not a renaming or deletion, or was disturbed, stays so.
LEMMA NotYet ==
  ASSUME ~Mine, Keeps
  PROVE  Effect'
<1>1. op'.clean => op'.kind \notin {"rename", "delete"}
  BY DEF Mine, Keeps
<1> QED BY <1>1, NotMine

LEMMA OtherSteps ==
  ASSUME EInv, ServerTask \/ ListSome \/ Elsewhere
  PROVE  Effect'
<1>1. op \in Operation(fresh)
  BY Now DEF EInv
<1>2. CASE op' = [op EXCEPT !.clean = FALSE]
  <2>1. op'.clean = FALSE
    BY <1>1, <1>2 DEF Operation
  <2> QED BY <2>1, NotMine
<1>3. CASE ServerTask
  <2>1. CASE op.pc # "task"
    BY <1>2, <1>3, <2>1 DEF ServerTask, TaskRuns
  <2>2. CASE op.pc = "task" /\ Mine
    BY <1>3, <2>2, SendingGoes DEF ServerTask, Mine
  <2>3. CASE op.pc = "task" /\ ~Mine
    <3>1. \E t2 : Go(t2, cache, op)
      BY <1>3, <2>3 DEF ServerTask, TaskRuns
    <3>2. Keeps
      BY <1>1, <3>1, GoKeeps DEF Alike
    <3> QED BY <2>3, <3>2, NotYet
  <2> QED BY <2>1, <2>2, <2>3
<1>4. CASE ListSome
  <2>1. CASE Mine
    BY <1>4, <2>1, ListGoes DEF Mine
  <2>2. CASE ~Mine
    <3>1. \E ts : op' = [op EXCEPT !.touched = ts]
      BY <1>4 DEF ListSome, ListDir
    <3>2. Keeps
      BY <1>1, <3>1 DEF Keeps, Operation
    <3> QED BY <2>2, <3>2, NotYet
  <2> QED BY <2>1, <2>2
<1>5. CASE Elsewhere
  BY <1>2, <1>5, ZenonT(60) DEF Elsewhere, Changed
<1> QED BY <1>3, <1>4, <1>5

LEMMA Stutters ==
  ASSUME EInv, UNCHANGED vars
  PROVE  Effect'
<1>1. op' = op /\ UNCHANGED <<drv, tree, task, cache>>
  BY DEF vars
<1>2. CASE Mine
  <2>1. PICK D : Dealt(D)
    BY <1>2 DEF EInv, Effect, Mine
  <2>2. Right(cache) => Right(cache)'
    BY <1>1, SameRight
  <2>3. /\ op.pc \in {"resolve"} \cup Sending
        /\ \A o \in op.objs : drv \in Ali /\ o.id = NoId =>
             (IF op.pc = "resolve" THEN Tail(op.todo) ELSE op.todo) = <<>>
    BY <1>2 DEF EInv, Effect, Asked, Mine
  <2> QED BY <1>1, <1>2, <2>1, <2>2, <2>3, GoesOn DEF Dealt, Mine
<1>3. CASE ~Mine
  BY <1>1, <1>3, NotYet DEF Keeps
<1> QED BY <1>2, <1>3

\* The invariant of renamings and deletions is inductive.
LEMMA EInductive ==
  EInv /\ [Next]_vars => EInv'
<1> SUFFICES ASSUME EInv, [Next]_vars PROVE EInv'
  OBVIOUS
<1>1. IInv'
  BY Inductive DEF EInv
<1> SUFFICES Effect'
  BY <1>1 DEF EInv
<1>2. CASE BeginRename \/ BeginMove \/ BeginDelete \/ BeginMkdir \/ BeginBatch
  BY <1>2, BeginsEffect DEF EInv
<1>3. CASE Steps
  <2>1. CASE ~Mine
    BY <1>3, <2>1, StepsKeep, NotYet DEF EInv
  <2> QED BY <1>3, <2>1, MySteps
<1>4. CASE ServerTask \/ ListSome \/ Elsewhere
  BY <1>4, OtherSteps
<1>5. CASE UNCHANGED vars
  BY <1>5, Stutters
<1> QED BY <1>2, <1>3, <1>4, <1>5 DEF Next

LEMMA EInitially ==
  Init => EInv
<1>1. Init => op.kind = "none"
  BY DEF Init, NoOp
<1> QED BY <1>1, Initially DEF EInv, Effect

\* An operation ends by a step of its own.
LEMMA EndsItself ==
  ASSUME op \in Operation(fresh), op.pc # "idle", op'.pc = "idle", [Next]_vars
  PROVE  Steps
<1>1. op'.pc # op.pc
  OBVIOUS
<1>2. ~ServerTask
  <2>1. ServerTask => \E t2 : Go(t2, cache, op) \/ op' = [op EXCEPT !.clean = FALSE]
    BY DEF ServerTask, TaskRuns
  <2> QED BY <1>1, <2>1 DEF Go, Operation
<1>3. ~ListSome /\ ~Elsewhere
  <2>1. ListSome \/ Elsewhere => \E x : op' = [op EXCEPT !.touched = x] \/ op' = [op EXCEPT !.clean = FALSE]
    BY ZenonT(60) DEF ListSome, ListDir, Elsewhere, Changed
  <2> QED BY <1>1, <2>1 DEF Operation
<1>4. ~BeginRename /\ ~BeginMove /\ ~BeginDelete /\ ~BeginMkdir /\ ~BeginBatch
  BY DEF BeginRename, BeginMove, BeginDelete, BeginMkdir, BeginBatch, Begin, Idle
<1>5. ~UNCHANGED vars
  BY <1>1 DEF vars
<1> QED BY <1>2, <1>3, <1>4, <1>5 DEF Next

\* The steps of renamings, deletions and moves but the last do not return nil.
LEMMA ReturnsNotYet ==
  ASSUME op \in Operation(fresh), op.res # "ok", drv \in AllDrivers,
         \/ LookFails \/ RequestFail \/ taskQueryFails \/ RenameResolve \/ MoveResolve \/ DeleteResolve
         \/ Request \/ TaskSubmit \/ checkTaskSuccess \/ AnswerLost \/ RefusalUnnoticed
  PROVE  op'.res # "ok"
<1>1. \A t2, c2, pc : Go(t2, c2, [op EXCEPT !.pc = pc]) => op'.res # "ok"
  BY ZenonT(60) DEF Go, Operation
<1>2. \A c2, obj : Return("error", c2, obj) => op'.res # "ok"
  BY ReturnIs
<1>3. ASSUME NEW p, NEW rest, Resolve(p, rest) PROVE op'.res # "ok"
  <2> DEFINE pc == IF p.req = NoReq THEN "finish" ELSE "request"  dels == op.dels \cup p.dels
  <2>1. \/ Return("error", p.cache, RootObj)
        \/ Go(tree, p.cache, [op EXCEPT !.pc = pc, !.req = p.req, !.dels = dels, !.panic = p.panic, !.todo = rest])
    BY <1>3 DEF Resolve
  <2> HIDE DEF pc, dels
  <2> QED BY <1>2, <2>1, ZenonT(60) DEF Go, Operation
<1>4. CASE LookFails \/ RequestFail \/ taskQueryFails
  BY <1>2, <1>4 DEF LookFails, RequestFail, taskQueryFails
<1>5. CASE RenameResolve \/ MoveResolve \/ DeleteResolve
  BY <1>3, <1>5 DEF RenameResolve, MoveResolve, DeleteResolve, AllDrivers
<1>6. CASE TaskSubmit \/ checkTaskSuccess
  BY <1>1, <1>6 DEF TaskSubmit, checkTaskSuccess
<1>7. CASE Request \/ RefusalUnnoticed
  <2> DEFINE pc == IF drv \in {"ali", "ali_open"} /\ op.todo # <<>> THEN "resolve" ELSE "finish"
  <2>1. \/ Go(Served(tree, op.req), cache, [op EXCEPT !.pc = pc])
        \/ Go(tree, cache, [[op EXCEPT !.pc = pc] EXCEPT !.clean = FALSE])
    BY <1>7 DEF Request, RefusalUnnoticed, Answered
  <2> HIDE DEF pc
  <2>2. Go(tree, cache, [[op EXCEPT !.pc = pc] EXCEPT !.clean = FALSE]) => op'.res # "ok"
    BY ZenonT(60) DEF Go, Operation
  <2> QED BY <1>1, <2>1, <2>2
<1>8. CASE AnswerLost
  BY <1>8 DEF AnswerLost, NoOp
<1> QED BY <1>4, <1>5, <1>6, <1>7, <1>8

\* An operation that returns nil has dealt with all its objects.
LEMMA ReturnsDone ==
  ASSUME EInv, [Next]_vars, Mine, op'.pc = "idle", op'.res = "ok"
  PROVE  tree' = Goal(op.objs)
<1>1. op \in Operation(fresh) /\ op.pc \in {"resolve"} \cup Sending /\ op.res # "ok" /\ drv \in AllDrivers
  BY Now, DriveParameters DEF EInv, IInv, Types, Effect, Asked, Mine
<1>2. Finish
  <2>1. Steps
    BY <1>1, EndsItself DEF Sending
  <2> QED BY <1>1, <2>1, MyStepsAre, ReturnsNotYet
<1>3. PICK D : Dealt(D)
  BY DEF EInv, Effect, Mine
<1>4. op.pc = "finish" /\ op.todo = <<>> /\ tree' = tree
  BY <1>2, Ends, ReturnIs DEF Finish
<1>5. op.objs = D /\ tree = Goal(D)
  <2>1. Range(<<>>) = {}
    BY DEF Range
  <2> QED BY <1>3, <1>4, <2>1 DEF Dealt
<1> QED BY <1>4, <1>5

------------------------------------------------------------------------------
(* Paths in a tree that grows, and prefixes of a path. *)

\* What was there keeps its path.
LEMMA SamePaths ==
  ASSUME NEW n, NEW t, Shape(t, n), NEW m, NEW t2, Shape(t2, m),
         DOMAIN t \subseteq DOMAIN t2, \A k \in DOMAIN t : t2[k] = t[k]
  PROVE  \A i \in Nodes(t) : i \in Nodes(t2) /\ PathOf(t2, i) = PathOf(t, i)
<1>1. /\ PathOf(t, Root) = <<>>
      /\ \A k \in DOMAIN t : t[k].parent \in Nodes(t) /\ PathOf(t, k) = Append(PathOf(t, t[k].parent), t[k].name)
  BY PathIs
<1>2. /\ PathOf(t2, Root) = <<>>
      /\ \A k \in DOMAIN t : PathOf(t2, k) = Append(PathOf(t2, t[k].parent), t[k].name)
  BY PathIs
<1> DEFINE bad == {k \in DOMAIN t : PathOf(t2, k) # PathOf(t, k)}
<1>3. ASSUME NEW k \in DOMAIN t, t[k].parent \notin bad PROVE k \notin bad
  <2>1. PathOf(t2, t[k].parent) = PathOf(t, t[k].parent)
    BY <1>1, <1>2, <1>3 DEF Nodes
  <2> QED BY <1>1, <1>2, <2>1
<1>4. bad \in SUBSET DOMAIN t /\ Hangs(t)
  BY DEF Shape
<1> HIDE DEF bad
<1>5. bad = {}
  BY <1>3, <1>4, AllBelow
<1> QED BY <1>1, <1>2, <1>5 DEF Nodes, bad

\* The paths in a tree with one more directory.
LEMMA MadePaths ==
  ASSUME NEW n \in Nat \ {0}, NEW t, TreeOK(t, n), NEW at, IsDir(t, at), NEW nm \in Names
  PROVE  LET t2 == Made(t, n, at, nm, "dir")
         IN /\ DOMAIN t2 = DOMAIN t \cup {n} /\ \A k \in DOMAIN t : t2[k] = t[k]
            /\ \A i \in Nodes(t) : i \in Nodes(t2) /\ PathOf(t2, i) = PathOf(t, i)
            /\ PathOf(t2, n) = Append(PathOf(t, at), nm)
            /\ t2[n] = [name |-> nm, parent |-> at, type |-> "dir"] /\ n \notin Nodes(t)
            /\ \A k : Kids(t2, k) = IF k = at THEN Kids(t, k) \cup {n} ELSE Kids(t, k)
<1> DEFINE t2 == Made(t, n, at, nm, "dir")
<1>1. Shape(t, n) /\ Shape(t2, n + 1) /\ DOMAIN t2 = DOMAIN t \cup {n} /\ \A k \in DOMAIN t : t2[k] = t[k]
  BY MadeIs DEF TreeOK
<1>2. t2[n] = [name |-> nm, parent |-> at, type |-> "dir"]
  BY <1>1 DEF Made
<1>3. n \notin Nodes(t) /\ at \in Nodes(t)
  BY <1>1, TreeIs DEF Nodes, Root, IsDir
<1> HIDE DEF t2
<1>4. \A i \in Nodes(t) : i \in Nodes(t2) /\ PathOf(t2, i) = PathOf(t, i)
  BY <1>1, SamePaths
<1>5. PathOf(t2, n) = Append(PathOf(t2, at), nm)
  BY <1>1, <1>2, PathIs
<1>6. \A k : Kids(t2, k) = IF k = at THEN Kids(t, k) \cup {n} ELSE Kids(t, k)
  <2>1. \A k, x : x \in Kids(t2, k) <=> x \in Kids(t, k) \/ (x = n /\ k = at)
    BY <1>1, <1>2, <1>3, SMTT(60) DEF Kids, Nodes
  <2> QED BY <2>1
<1> QED BY <1>1, <1>2, <1>3, <1>4, <1>5, <1>6 DEF t2

\* The first components of a path, and those that follow.
LEMMA UpTo ==
  ASSUME NEW p \in Seq(Names), NEW k \in 0..Len(p)
  PROVE  /\ SubSeq(p, 1, k) \in Seq(Names) /\ Len(SubSeq(p, 1, k)) = k /\ IsPrefix(SubSeq(p, 1, k), p)
         /\ SubSeq(p, 1, Len(p)) = p /\ SubSeq(p, 1, 0) = <<>>
         /\ SubSeq(p, 1, k) = p => k = Len(p)
         /\ k < Len(p) => LET r == SubSeq(p, k + 1, Len(p))
                          IN /\ k + 1 \in 1..Len(p) /\ r # <<>> /\ Head(r) = p[k + 1]
                             /\ Len(r) = Len(p) - k /\ Tail(r) = SubSeq(p, k + 2, Len(p))
                             /\ SubSeq(p, 1, k + 1) = Append(SubSeq(p, 1, k), p[k + 1])
                             /\ p[k + 1] \in Names
<1>1. SubSeq(p, 1, k) \in Seq(Names) /\ Len(SubSeq(p, 1, k)) = k
  OBVIOUS
<1>2. SubSeq(p, 1, Len(p)) = p /\ SubSeq(p, 1, 0) = <<>>
  OBVIOUS
<1>3. IsPrefix(SubSeq(p, 1, k), p)
  <2> DEFINE s == SubSeq(p, 1, k)
  <2>1. SubSeq(s, 1, k) = s /\ Len(s) = k
    OBVIOUS
  <2>2. k <= Len(p) /\ SubSeq(p, 1, Len(s)) = s /\ SubSeq(s, 1, Len(s)) = s
    BY <2>1
  <2> HIDE DEF s
  <2>3. IsPrefix(s, p)
    BY <2>1, <2>2 DEF IsPrefix
  <2> QED BY <2>3 DEF s
<1>4. ASSUME k < Len(p)
      PROVE  LET r == SubSeq(p, k + 1, Len(p))
             IN /\ k + 1 \in 1..Len(p) /\ r # <<>> /\ Head(r) = p[k + 1]
                /\ Len(r) = Len(p) - k /\ Tail(r) = SubSeq(p, k + 2, Len(p))
                /\ SubSeq(p, 1, k + 1) = Append(SubSeq(p, 1, k), p[k + 1])
                /\ p[k + 1] \in Names
  <2> DEFINE r == SubSeq(p, k + 1, Len(p))
  <2>1. k + 1 \in 1..Len(p) /\ k + 1 - 1 = k /\ p[k + 1] \in Names
    BY <1>4
  <2>2. Len(r) = Len(p) - k /\ r \in Seq(Names) /\ r # <<>>
    <3>1. r \in Seq(Names)
      OBVIOUS
    <3>2. Len(r) = Len(p) - k
      BY <1>4
    <3> HIDE DEF r
    <3>3. r # <<>>
      BY <1>4, <3>2
    <3> QED BY <3>1, <3>2, <3>3
  <2>3. Head(r) = p[k + 1]
    BY <1>4, <2>2
  <2>4. Tail(r) = SubSeq(p, k + 2, Len(p))
    <3> DEFINE a == Tail(r)  b == SubSeq(p, k + 2, Len(p))
    <3>1. a \in Seq(Names) /\ Len(a) = Len(p) - k - 1 /\ \A i \in 1..Len(a) : a[i] = p[k + 1 + i]
      BY <1>4, <2>2, SMTT(60)
    <3>2. b \in Seq(Names) /\ Len(b) = Len(p) - k - 1 /\ \A i \in 1..Len(b) : b[i] = p[k + 1 + i]
      BY <1>4, SMTT(60)
    <3> HIDE DEF a, b
    <3> QED BY <3>1, <3>2
  <2>5. SubSeq(p, 1, k + 1) = Append(SubSeq(p, 1, k), p[k + 1])
    BY <2>1, OneMore
  <2> QED BY <2>1, <2>2, <2>3, <2>4, <2>5
<1> QED BY <1>1, <1>2, <1>3, <1>4, ZenonT(60)

\* filepath.Rel down from a prefix.
LEMMA RelDown ==
  ASSUME NEW p \in Seq(Names), NEW k \in 0..Len(p), k < Len(p)
  PROVE  Rel(SubSeq(p, 1, k), p) = SubSeq(p, k + 1, Len(p))
<1> DEFINE from == SubSeq(p, 1, k)
           C == CommonPrefixes({from, p})
           n == Len(LongestCommonPrefix({from, p}))
<1>1. from \in Seq(Names) /\ Len(from) = k /\ IsPrefix(from, p) /\ SubSeq(from, 1, k) = from
  BY UpTo
<1> HIDE DEF from
<1>2. from \in C
  <2>1. from \in Prefixes(from)
    BY <1>1 DEF Prefixes
  <2>2. IsPrefix(from, from)
    BY <1>1 DEF IsPrefix
  <2> QED BY <1>1, <2>1, <2>2 DEF CommonPrefixes
<1>3. \A q \in C : Len(q) <= k
  BY <1>1 DEF CommonPrefixes, IsPrefix
<1>4. LongestCommonPrefix({from, p}) \in C /\ \A q \in C : Len(q) <= n
  <2> DEFINE c == LongestCommonPrefix({from, p})
  <2>1. c = CHOOSE q \in C : \A r \in C : Len(r) <= Len(q)
    BY DEF LongestCommonPrefix
  <2> HIDE DEF C, c
  <2>2. \E q \in C : \A r \in C : Len(r) <= Len(q)
    BY <1>1, <1>2, <1>3
  <2>3. c \in C /\ \A r \in C : Len(r) <= Len(c)
    BY <2>1, <2>2, Zenon
  <2> QED BY <2>3 DEF c
<1> HIDE DEF C
<1>5. n = k
  <2>1. n \in Nat
    <3>1. \A q \in C : Len(q) \in Nat
      BY <1>1 DEF C, CommonPrefixes, Prefixes
    <3> QED BY <1>4, <3>1
  <2>2. n <= k /\ k <= n
    BY <1>1, <1>2, <1>3, <1>4, Zenon
  <2> HIDE DEF n
  <2> QED BY <2>1, <2>2
<1> HIDE DEF n
<1> DEFINE up == [i \in 1..(Len(from) - n) |-> Up]
<1>6. Rel(from, p) = up \o SubSeq(p, n + 1, Len(p))
  BY DEF Rel, n
<1>7. up = <<>>
  BY <1>1, <1>5
<1>8. SubSeq(p, k + 1, Len(p)) \in Seq(Names)
  OBVIOUS
<1> HIDE DEF up
<1>9. <<>> \o SubSeq(p, k + 1, Len(p)) = SubSeq(p, k + 1, Len(p))
  BY <1>8
<1> QED BY <1>5, <1>6, <1>7, <1>9 DEF from

------------------------------------------------------------------------------
(* The deepest directory on a path that the listings know. *)

\* What is got is in the listings from then on; what is loaded shows the directory.
LEMMA LoadsOne ==
  ASSUME Types, NEW c \in Caches(fresh), NEW q \in Object(fresh), Placed(q), NEW pid
  PROVE  LET l == ListingOf(q, pid)  r == GetOrLoad(c, l)
         IN /\ r.ok => l.key \in DOMAIN r.cache
            /\ \/ r.cache = c
               \/ /\ l.key \notin DOMAIN c
                  /\ \E objs : /\ r.cache = Put(c, l.key, objs) /\ Shown(objs) = Entries(q.id)
                               /\ \A o \in objs : o.id \in Kids(tree, q.id)
                                                  /\ Clean(o.path) = PathOf(tree, tree[o.id].parent)
<1> DEFINE l == ListingOf(q, pid)  r == GetOrLoad(c, l)
           objs == {Obj(k, tree[k].name, l.path, tree[k].type, l.pid) : k \in l.nodes}
<1>1. l.nodes = Kids(tree, q.id) /\ Clean(l.path) = PathOf(tree, q.id)
  BY AskIs
<1> HIDE DEF l
<1>2. CASE l.key \in DOMAIN c
  BY <1>2 DEF GetOrLoad, Found, l
<1>3. CASE l.key \notin DOMAIN c /\ ~l.there
  BY <1>3 DEF GetOrLoad, NotFound, l
<1>4. CASE l.key \notin DOMAIN c /\ l.there
  <2>1. r.cache = Put(c, l.key, objs)
    BY <1>4 DEF GetOrLoad, Found
  <2>2. /\ \A k \in l.nodes : LET o == Obj(k, tree[k].name, l.path, tree[k].type, l.pid)
                               IN o \in objs /\ o.id = k /\ o.name = tree[k].name /\ o.type = tree[k].type
        /\ \A o \in objs : /\ o.id \in l.nodes /\ o.name = tree[o.id].name /\ o.type = tree[o.id].type
                           /\ o.path = l.path
    BY DEF Obj
  <2> HIDE DEF objs, r
  <2>3. Shown(objs) = Entries(q.id)
    BY <1>1, <2>2 DEF Shown, Entries
  <2>4. \A o \in objs : o.id \in Kids(tree, q.id) /\ Clean(o.path) = PathOf(tree, tree[o.id].parent)
    BY <1>1, <2>2 DEF Kids
  <2>5. l.key \in DOMAIN r.cache
    BY <2>1 DEF Put
  <2> QED BY <1>4, <2>1, <2>3, <2>4, <2>5 DEF l, r
<1> QED BY <1>2, <1>3, <1>4

\* Where the walk down the path p has got to after k components, or where it has ended.
Near(s, p, k) ==
  /\ Right(s.cache) /\ (~s.end => s.ok)
  /\ s.ok => /\ Placed(s.obj)
             /\ \E m \in 0..k :
                  /\ Full(s.obj) = SubSeq(p, 1, m)
                  /\ IF s.end
                     THEN m < Len(p) /\ ~HasKid(tree, s.obj.id, p[m + 1]) /\ s.obj.id \in DOMAIN s.cache
                     ELSE m = k

\* One component further down the path, or the end at a component that is not there.
LEMMA NearIs ==
  ASSUME Types, drv # "baidu", NEW c, NEW s \in Walks(c), NEW p \in Seq(Names), NEW k \in 1..Len(p), Near(s, p, k - 1)
  PROVE  Near(Look(s, p[k], FALSE), p, k)
<1> DEFINE q == ListingOf(s.obj, s.obj.id)
           l == GetOrLoad(s.cache, q)  m == {o \in l.objs : o.name = p[k]}
           b == SubSeq(p, 1, k - 1)  a == SubSeq(p, 1, k)
<1>1. /\ s \in [ok : BOOLEAN, obj : Object(fresh), cache : Caches(fresh), end : BOOLEAN]
      /\ s.obj \in Object(fresh) /\ s.cache \in Caches(fresh) /\ s.obj.id \in Int
  BY DEF Walks, Object, Types
<1>2. a = Append(b, p[k]) /\ b \in Seq(Names) /\ p[k] \in Names
  BY OneMore
<1>3. Right(s.cache) /\ (~s.end => s.ok)
  BY DEF Near
<1>4. CASE s.end
  <2>1. Look(s, p[k], FALSE) = s
    BY <1>4 DEF Look
  <2>2. 0..(k - 1) \subseteq 0..k
    OBVIOUS
  <2> QED BY <1>4, <2>1, <2>2 DEF Near
<1>5. CASE ~s.end
  <2>1. Placed(s.obj) /\ Full(s.obj) = b /\ s.ok
    BY <1>3, <1>5 DEF Near
  <2> HIDE DEF a, b
  <2>2. PathOf(tree, s.obj.id) = b
    BY <2>1 DEF Placed
  <2>3. /\ l.ok \in BOOLEAN /\ Right(l.cache)
        /\ l.ok => /\ \A o \in l.objs : o.id \in Kids(tree, s.obj.id) /\ o.name = tree[o.id].name /\ Placed(o)
                   /\ \A x \in Kids(tree, s.obj.id) : \E o \in l.objs : o.id = x /\ o.name = tree[x].name
    BY <1>1, <1>3, <2>1, LoadIs
  <2>4. l.ok => s.obj.id \in DOMAIN l.cache
    <3>1. q.key = s.obj.id
      BY <1>1, <2>1, AskIs
    <3>2. l.ok => q.key \in DOMAIN l.cache
      BY <1>1, <2>1, LoadsOne
    <3> QED BY <3>1, <3>2
  <2>5. Look(s, p[k], FALSE) = Down(s, p[k], FALSE, l)
    BY <1>5 DEF Look, Children
  <2> HIDE DEF l
  <2>6. CASE ~l.ok
    <3>1. Look(s, p[k], FALSE) = [s EXCEPT !.ok = FALSE, !.end = TRUE]
      BY <2>5, <2>6 DEF Down
    <3> QED BY <1>1, <1>3, <3>1 DEF Near
  <2>7. CASE l.ok /\ m = {}
    <3>1. Look(s, p[k], FALSE) = [s EXCEPT !.ok = TRUE, !.end = TRUE, !.cache = l.cache]
      BY <2>5, <2>7 DEF Down
    <3>2. ~HasKid(tree, s.obj.id, p[k])
      BY <2>3, <2>7 DEF HasKid
    <3>3. k - 1 \in 0..k /\ k - 1 < Len(p) /\ k - 1 + 1 = k
      OBVIOUS
    <3> DEFINE z == Look(s, p[k], FALSE)
    <3>4. z.ok /\ z.end /\ z.cache = l.cache /\ z.obj = s.obj
      BY <1>1, <3>1
    <3> HIDE DEF z, m
    <3>5. Near(z, p, k)
      BY <2>1, <2>3, <2>4, <2>7, <3>2, <3>3, <3>4 DEF Near, b
    <3> QED BY <3>5 DEF z
  <2>8. CASE l.ok /\ m # {}
    <3> DEFINE o == CHOOSE x \in m : TRUE
    <3>1. Look(s, p[k], FALSE) = [s EXCEPT !.obj = o, !.cache = l.cache]
      BY <2>5, <2>8 DEF Down
    <3>2. o \in m
      BY <2>8
    <3> HIDE DEF o
    <3>3. o.id \in Kids(tree, s.obj.id) /\ o.name = tree[o.id].name /\ Placed(o) /\ o.name = p[k]
      BY <2>3, <2>8, <3>2
    <3>4. PathOf(tree, o.id) = Append(PathOf(tree, tree[o.id].parent), tree[o.id].name)
      BY <3>3, PathIs DEF Types, TreeOK, Kids
    <3>5. Full(o) = a
      BY <1>2, <2>2, <3>3, <3>4 DEF Placed, Kids
    <3> DEFINE z == Look(s, p[k], FALSE)
    <3>6. z.ok /\ ~z.end /\ z.cache = l.cache /\ z.obj = o
      BY <1>1, <1>5, <2>1, <3>1
    <3>7. k \in 0..k
      OBVIOUS
    <3> HIDE DEF m, z
    <3>8. Near(z, p, k)
      BY <2>3, <3>3, <3>5, <3>6, <3>7 DEF Near, a
    <3> QED BY <3>8 DEF z
  <2> QED BY <2>3, <2>6, <2>7, <2>8
<1> QED BY <1>1, <1>4, <1>5

\* With right listings GetPanObj finds the deepest object on a path.
LEMMA Nearest ==
  ASSUME Types, drv # "baidu", NEW c \in Caches(fresh), Right(c), NEW p \in Seq(Names)
  PROVE  LET r == GetPanObj(c, p, FALSE)
         IN /\ r \in Walks(c) /\ Right(r.cache)
            /\ r.ok => /\ Placed(r.obj)
                       /\ \E k \in 0..Len(p) :
                            /\ Full(r.obj) = SubSeq(p, 1, k)
                            /\ k < Len(p) => ~HasKid(tree, r.obj.id, p[k + 1]) /\ r.obj.id \in DOMAIN r.cache
<1> DEFINE n == Len(p)
<1>1. PICK h : /\ Walked(h, c, p, FALSE) /\ GetPanObj(c, p, FALSE) = h[n] /\ h[n] \in Walks(c)
  BY GetPanObjLooks
<1> DEFINE bad == {k \in 0..n : ~Near(h[k], p, k)}
<1>2. 0 \notin bad
  <2>1. SubSeq(p, 1, 0) = <<>> /\ Full(RootObj) = <<>> /\ 0 \in 0..0
    BY DEF Full, Clean, RootObj, Obj
  <2>2. h[0] = [ok |-> TRUE, obj |-> RootObj, cache |-> c, end |-> FALSE]
    BY <1>1 DEF Walked
  <2> DEFINE w == h[0]
  <2>3. w.ok = TRUE /\ w.obj = RootObj /\ w.cache = c /\ w.end = FALSE
    BY <2>2
  <2> HIDE DEF w
  <2>4. Near(w, p, 0)
    BY <2>1, <2>3, RootPlaced DEF Near
  <2> QED BY <2>4 DEF w
<1>3. \A k \in 1..n : Near(h[k - 1], p, k - 1) => Near(h[k], p, k)
  <2>1. ASSUME NEW k \in 1..n, Near(h[k - 1], p, k - 1) PROVE Near(h[k], p, k)
    <3>1. h[k - 1] \in Walks(c) /\ h[k] = Look(h[k - 1], p[k], FALSE)
      BY <1>1 DEF Walked
    <3> QED BY <2>1, <3>1, NearIs
  <2> QED BY <2>1
<1>4. n \in Nat
  OBVIOUS
<1> HIDE DEF n
<1>5. bad = {}
  <2>1. ASSUME bad # {} PROVE FALSE
    <3>1. bad \in SUBSET Nat
      BY <1>4
    <3> HIDE DEF bad
    <3>2. PICK k \in bad : \A j \in bad : k <= j
      BY <2>1, <3>1, Least
    <3>3. k \in 0..n /\ k # 0
      BY <1>2, <3>2 DEF bad
    <3>4. k \in 1..n /\ k - 1 \in 0..n /\ ~ (k <= k - 1)
      BY <1>4, <3>3
    <3>5. k - 1 \notin bad
      BY <3>2, <3>4
    <3> QED BY <1>3, <3>2, <3>4, <3>5 DEF bad
  <2> QED BY <2>1
<1>6. Near(h[n], p, n)
  BY <1>4, <1>5
<1> DEFINE r == h[n]
<1>7. Right(r.cache) /\ (r.ok => Placed(r.obj))
  BY <1>6 DEF Near
<1>8. ASSUME r.ok
      PROVE  \E k \in 0..Len(p) :
               /\ Full(r.obj) = SubSeq(p, 1, k)
               /\ k < Len(p) => ~HasKid(tree, r.obj.id, p[k + 1]) /\ r.obj.id \in DOMAIN r.cache
  BY <1>4, <1>6, <1>8 DEF Near, n
<1> QED BY <1>1, <1>7, <1>8

------------------------------------------------------------------------------
(***************************************************************************)
(* What Mkdir is about.  While it runs undisturbed the tree is what it was *)
(* when the operation began, and directories on the path (Extends); it has *)
(* come to the first k components of the path (Under).  The listings do    *)
(* not show the directories H that it has made: but for the one of base,   *)
(* the directory it began at, they are right (Unseen).                     *)
(***************************************************************************)
Extends ==
  /\ DOMAIN op.snap \subseteq DOMAIN tree /\ \A k \in DOMAIN op.snap : tree[k] = op.snap[k]
  /\ Grown(tree, op.path)

Under(k) ==
  /\ k \in 0..Len(op.path) /\ op.at \in Nodes(tree) /\ PathOf(tree, op.at) = SubSeq(op.path, 1, k)
  /\ IF op.pc = "made" THEN drv = "cloudreve" \/ k = Len(op.path)
     ELSE /\ k < Len(op.path) /\ op.rest = SubSeq(op.path, k + 1, Len(op.path))
          /\ ~HasKid(tree, op.at, op.path[k + 1])

\* Listings that are right but for that of b, and without the directories H.
Partly(c, H, b) ==
  /\ b \in DOMAIN c
  /\ \A k \in DOMAIN c :
       /\ k \notin H /\ Shown(c[k]) \subseteq Truth(tree, k) /\ (k # b => Shown(c[k]) = Truth(tree, k))
       /\ \A o \in c[k] : o.id \notin H /\ (o.id \in DOMAIN tree => Clean(o.path) = PathOf(tree, tree[o.id].parent))

Chain(H, b) == b \notin H /\ H \subseteq DOMAIN tree /\ \A k \in H : tree[k].parent \in H \cup {b}

Unseen(H) ==
  /\ Placed(op.base) /\ Chain(H, op.base.id) /\ op.at \in H \cup {op.base.id}
  /\ drv = "cloudreve" /\ op.pc = "create" => H = {}
  /\ Partly(cache, H, op.base.id)

Making ==
  op.clean /\ op.pc \in Mkdirs =>
    /\ op.res # "ok" /\ task = NoReq /\ Extends /\ (op.pc = "find" => drv = "quark")
    /\ op.pc = "mkdir" /\ drv # "baidu" => Right(cache)
    /\ op.pc # "mkdir" => \E k : Under(k)
    /\ op.pc \in {"find", "create", "made"} /\ drv # "baidu" => \E H : Unseen(H)

MInv == IInv /\ Making

\* What Mkdir is to have done when it returns nil, or goes on with the Move it was made for.
Arrived ==
  /\ op'.pc \in Mkdirs \cup {"idle", "resolve"}
  /\ op'.pc = "idle" /\ op'.res = "ok" =>
       op.kind # "move" /\ tree' = tree /\ NodeAt(tree, op.path) = op'.dst.id
  /\ op'.pc = "resolve" => /\ tree' = tree /\ op'.res = op.res /\ Right(cache')
                           /\ NodeAt(tree, op.path) = op'.dst.id /\ op'.dst.id # NoId
                           /\ drv = "cloudreve" => Full(op'.dst) = op.path

------------------------------------------------------------------------------
(* The listings while directories are made. *)

\* Where the operation is after a step.
LEMMA GoesTo ==
  ASSUME NEW n, NEW o2 \in Operation(n), NEW t2, NEW c2, Go(t2, c2, o2)
  PROVE  /\ tree' = t2 /\ cache' = c2 /\ op'.pc = o2.pc /\ op'.res = o2.res /\ op'.path = o2.path
         /\ op'.base = o2.base /\ op'.at = o2.at /\ op'.rest = o2.rest /\ op'.snap = o2.snap
         /\ op'.clean = o2.clean
BY ZenonT(60) DEF Go, Operation

\* Listings that are right are so in part.
LEMMA RightPartly ==
  ASSUME NEW c, Right(c), NEW b \in DOMAIN c
  PROVE  Partly(c, {}, b)
BY DEF Right, Partly

\* Without the listing of the directory that Mkdir began at, they are right.
LEMMA PartlyRight ==
  ASSUME NEW n, NEW c \in Caches(n), NEW H, NEW b, Partly(c, H, b)
  PROVE  Right(Del(c, {b}))
<1> DEFINE d == Del(c, {b})
<1>1. DOMAIN d = DOMAIN c \ {b} /\ \A k \in DOMAIN d : d[k] = c[k]
  BY DelIs, SMTT(60)
<1> HIDE DEF d
<1>2. Right(d)
  BY <1>1 DEF Right, Partly
<1> QED BY <1>2 DEF d

\* The path of what is shown is right.
LEMMA ShownPlaced ==
  ASSUME Types, NEW objs \in SUBSET Listed(fresh), NEW i, Shown(objs) \subseteq Entries(i), NEW o \in objs,
         o.id \in DOMAIN tree => Clean(o.path) = PathOf(tree, tree[o.id].parent)
  PROVE  Placed(o)
<1>1. <<o.id, o.name, o.type>> \in Entries(i)
  BY DEF Shown
<1>2. o.id \in DOMAIN tree /\ o.name = tree[o.id].name
  BY <1>1 DEF Entries, Kids
<1>3. o.name # NoName
  BY <1>2, DriveParameters DEF Listed
<1>4. Full(o) = Append(PathOf(tree, tree[o.id].parent), tree[o.id].name)
  BY <1>2, <1>3 DEF Full
<1>5. PathOf(tree, o.id) = Append(PathOf(tree, tree[o.id].parent), tree[o.id].name)
  BY <1>2, PathIs DEF Types, TreeOK
<1> QED BY <1>2, <1>4, <1>5 DEF Placed, Nodes

\* Listing a directory shows nothing of what was made.
LEMMA ListPartly ==
  ASSUME Types, drv # "baidu", NEW H, NEW b, Partly(cache, H, b), Chain(H, b),
         NEW dir \in Held \cup {RootObj}, op.res # "ok"
  PROVE  Partly(List(cache, dir, FALSE).cache, H, b)
<1>1. cache \in Caches(fresh) /\ fresh \in Nat \ {0}
  BY DriveParameters DEF Types
<1>2. dir \in Object(fresh) /\ Placed(dir) /\ dir.id \notin H
  <2>1. CASE dir = RootObj
    <3>1. dir \in Object(fresh) /\ Placed(dir)
      BY <1>1, <2>1, RootIs, RootPlaced
    <3>2. Root \notin DOMAIN tree /\ dir.id = Root
      BY <1>1, <2>1, TreeIs DEF Types, Root, RootObj, Obj
    <3> QED BY <3>1, <3>2 DEF Chain
  <2>2. CASE dir \in UNION Range(cache)
    <3>1. PICK k \in DOMAIN cache : dir \in cache[k]
      BY <2>2 DEF Range
    <3>2. cache[k] \in SUBSET Listed(fresh)
      BY <1>1, CacheIs
    <3>3. Shown(cache[k]) \subseteq Entries(k)
      BY DEF Partly, Truth, Entries
    <3>4. dir.id \notin H /\ (dir.id \in DOMAIN tree => Clean(dir.path) = PathOf(tree, tree[dir.id].parent))
      BY <3>1 DEF Partly
    <3>5. Placed(dir)
      BY <3>1, <3>2, <3>3, <3>4, ShownPlaced
    <3> QED BY <3>1, <3>2, <3>4, <3>5 DEF Listed
  <2> QED BY <2>1, <2>2 DEF Held
<1>3. dir.id # NoId
  <2>1. NoId \notin Nodes(tree)
    BY <1>1, TreeIs DEF Types, Nodes, Root, NoId
  <2> QED BY <1>2, <2>1 DEF Placed
<1> DEFINE l == ListingOf(dir, dir.id)  r == GetOrLoad(cache, l)
<1>4. List(cache, dir, FALSE) = r
  BY <1>3 DEF List, ListResolved, ListFound, Given
<1>5. l.key = dir.id
  BY <1>2, AskIs
<1>6. \/ r.cache = cache
      \/ /\ l.key \notin DOMAIN cache
         /\ \E objs : /\ r.cache = Put(cache, l.key, objs) /\ Shown(objs) = Entries(dir.id)
                      /\ \A o \in objs : o.id \in Kids(tree, dir.id)
                                         /\ Clean(o.path) = PathOf(tree, tree[o.id].parent)
  BY <1>1, <1>2, LoadsOne
<1> HIDE DEF r, l
<1>7. ASSUME NEW objs, dir.id \notin DOMAIN cache, r.cache = Put(cache, dir.id, objs), Shown(objs) = Entries(dir.id),
             \A o \in objs : o.id \in Kids(tree, dir.id) /\ Clean(o.path) = PathOf(tree, tree[o.id].parent)
      PROVE  Partly(r.cache, H, b)
  <2> DEFINE c2 == r.cache
  <2>1. DOMAIN c2 = DOMAIN cache \cup {dir.id} /\ c2[dir.id] = objs /\ \A k \in DOMAIN cache : c2[k] = cache[k]
    BY <1>7 DEF Put
  <2> HIDE DEF c2
  <2>2. Truth(tree, dir.id) = Entries(dir.id)
    BY DEF Truth, Entries
  <2>3. dir.id # b /\ b \in DOMAIN c2
    BY <1>7, <2>1 DEF Partly
  <2>4. \A o \in objs : o.id \notin H
    BY <1>2, <1>7, <2>3 DEF Kids, Chain
  <2>5. Partly(c2, H, b)
    BY <1>2, <1>7, <2>1, <2>2, <2>3, <2>4 DEF Partly
  <2> QED BY <2>5 DEF c2
<1> QED BY <1>4, <1>5, <1>6, <1>7

\* One more directory, below one that the listings do not show, or base.
LEMMA MakePartly ==
  ASSUME Types, drv # "baidu", NEW H, NEW b, Partly(cache, H, b), Chain(H, b), b \in Nodes(tree),
         NEW at \in H \cup {b}, IsDir(tree, at), NEW nm \in Names, NEW n, n = fresh,
         tree' = Made(tree, fresh, at, nm, "dir"), UNCHANGED <<drv, cache>>
  PROVE  Partly(cache, H \cup {n}, b)' /\ Chain(H \cup {n}, b)'
<1>1. /\ cache \in Caches(fresh) /\ fresh \in Nat \ {0} /\ TreeOK(tree, fresh)
      /\ DOMAIN cache \subseteq IdsBelow(fresh)
  BY DriveParameters DEF Types
<1>2. /\ \A i \in Nodes(tree) : PathOf(tree', i) = PathOf(tree, i)
      /\ tree'[fresh] = [name |-> nm, parent |-> at, type |-> "dir"] /\ fresh \notin Nodes(tree)
      /\ \A k : Kids(tree', k) = IF k = at THEN Kids(tree, k) \cup {fresh} ELSE Kids(tree, k)
  BY <1>1, MadePaths
<1>3. DOMAIN tree' = DOMAIN tree \cup {fresh} /\ \A k \in DOMAIN tree : tree'[k] = tree[k]
  BY <1>1, MadePaths, ZenonT(60)
<1>4. \A k \in DOMAIN tree : tree[k].parent \in Nodes(tree)
  BY <1>1, PathIs DEF TreeOK
<1>5. fresh \notin DOMAIN cache
  BY <1>1 DEF IdsBelow
<1>6. \A k \in DOMAIN cache : \A o \in cache[k] : o.id # fresh
  <2>1. \A o \in Listed(fresh) : o.id # fresh
    BY <1>1 DEF Listed, Object
  <2> QED BY <1>1, <2>1, CacheIs
<1>7. \A k : /\ Truth(tree, k) = {<<x, tree[x].name, tree[x].type>> : x \in Kids(tree, k)}
             /\ Truth(tree, k)' = {<<x, tree'[x].name, tree'[x].type>> : x \in Kids(tree', k)}
  BY DEF Truth
<1>8. \A k : \A x \in Kids(tree, k) : x \in DOMAIN tree
  BY DEF Kids
<1>9. ASSUME NEW k PROVE Truth(tree, k) \subseteq Truth(tree, k)' /\ (k # at => Truth(tree, k) = Truth(tree, k)')
  <2> DEFINE A == Kids(tree, k)  B == Kids(tree', k)
  <2>1. A \subseteq B /\ (k # at => A = B) /\ \A x \in A : tree'[x] = tree[x]
    BY <1>2, <1>3, <1>8
  <2>2. Truth(tree, k) = {<<x, tree[x].name, tree[x].type>> : x \in A}
    BY <1>7
  <2>3. Truth(tree, k)' = {<<x, tree'[x].name, tree'[x].type>> : x \in B}
    BY <1>7
  <2> HIDE DEF A, B
  <2> QED BY <2>1, <2>2, <2>3
<1>10. Chain(H \cup {n}, b)'
  <2>1. b # fresh /\ at # fresh
    BY <1>2, <1>3 DEF Nodes, Chain
  <2>2. \A k \in H : tree'[k].parent \in H \cup {b}
    BY <1>3 DEF Chain
  <2>3. tree'[fresh].parent \in H \cup {b}
    BY <1>2
  <2>4. H \cup {n} \subseteq DOMAIN tree' /\ b \notin H \cup {n}
    BY <1>3, <2>1 DEF Chain
  <2>5. \A k \in H \cup {n} : tree'[k].parent \in (H \cup {n}) \cup {b}
    BY <2>2, <2>3
  <2> QED BY <2>4, <2>5 DEF Chain
<1>11. ASSUME NEW k \in DOMAIN cache
       PROVE  /\ k \notin H \cup {n} /\ Shown(cache[k]) \subseteq Truth(tree, k)'
              /\ (k # b => Shown(cache[k]) = Truth(tree, k)')
              /\ \A o \in cache[k] :
                   /\ o.id \notin H \cup {n}
                   /\ o.id \in DOMAIN tree' => Clean(o.path) = PathOf(tree', tree'[o.id].parent)
  <2>1. /\ k \notin H /\ Shown(cache[k]) \subseteq Truth(tree, k) /\ (k # b => Shown(cache[k]) = Truth(tree, k))
        /\ \A o \in cache[k] : o.id \notin H /\ (o.id \in DOMAIN tree => Clean(o.path) = PathOf(tree, tree[o.id].parent))
    BY DEF Partly
  <2>2. k # b => k # at
    BY <2>1
  <2>3. ASSUME NEW o \in cache[k], o.id \in DOMAIN tree'
        PROVE  Clean(o.path) = PathOf(tree', tree'[o.id].parent)
    <3>1. o.id \in DOMAIN tree
      BY <1>3, <1>6, <2>3
    <3> QED BY <1>2, <1>3, <1>4, <2>1, <3>1
  <2> QED BY <1>5, <1>6, <1>9, <2>1, <2>2, <2>3
<1>12. b \in DOMAIN cache'
  BY DEF Partly
<1>13. \A k \in DOMAIN cache' :
         /\ k \notin H \cup {n} /\ Shown(cache'[k]) \subseteq Truth(tree, k)'
         /\ (k # b => Shown(cache'[k]) = Truth(tree, k)')
         /\ \A o \in cache'[k] :
              o.id \notin H \cup {n} /\ (o.id \in DOMAIN tree' => Clean(o.path) = PathOf(tree', tree'[o.id].parent))
  BY <1>11
<1>14. Partly(cache, H \cup {n}, b)'
  BY <1>12, <1>13 DEF Partly
<1> QED BY <1>10, <1>14

------------------------------------------------------------------------------
(* The steps of Mkdir. *)

\* What the listings show, in the next state.
LEMMA SamePartly ==
  ASSUME tree' = tree, drv' = drv, NEW H, NEW b, Partly(cache', H, b)
  PROVE  Partly(cache, H, b)'
<1>1. \A k : Truth(tree, k)' = Truth(tree, k)
  BY DEF Truth
<1> QED BY <1>1 DEF Partly

\* The same directories are unseen when the tree stays and the operation stays where it is.
LEMMA SameUnseen ==
  ASSUME tree' = tree, drv' = drv, NEW H, op'.base = op.base, op'.at = op.at, Placed(op.base),
         Chain(H, op.base.id), op.at \in H \cup {op.base.id}, drv = "cloudreve" /\ op'.pc = "create" => H = {},
         Partly(cache', H, op.base.id)
  PROVE  Unseen(H)'
<1>1. PICK b : b = op.base.id
  OBVIOUS
<1>2. Partly(cache, H, b)'
  BY <1>1, SamePartly
<1>3. Chain(H, b)'
  BY <1>1 DEF Chain
<1>4. op'.base.id = b
  BY <1>1
<1>5. Placed(op.base)'
  BY DEF Placed
<1>6. op'.at \in H \cup {b}
  BY <1>1
<1> QED BY <1>2, <1>3, <1>4, <1>5, <1>6 DEF Unseen

\* Mkdir goes on, the tree is the same.
LEMMA MakingGoes ==
  ASSUME MInv, op.clean, op.pc \in Mkdirs, UNCHANGED <<drv, tree, task>>,
         op'.res = op.res, op'.snap = op.snap, op'.path = op.path,
         op'.pc = "mkdir" /\ drv # "baidu" => Right(cache)',
         op'.pc = "find" => drv = "quark", op'.pc # "mkdir" => \E k : Under(k)',
         op'.pc \in {"find", "create", "made"} /\ drv # "baidu" => \E H : Unseen(H)'
  PROVE  Making'
<1>1. op.res # "ok" /\ task = NoReq /\ Extends
  BY DEF MInv, Making
<1>2. Extends'
  BY <1>1 DEF Extends, Grown
<1> QED BY <1>1, <1>2 DEF Making

\* An operation that stops makes nothing more.
LEMMA Stops ==
  ASSUME NEW res, NEW c2, NEW obj, Return(res, c2, obj),
         res = "ok" => op.kind # "move" /\ NodeAt(tree, op.path) = obj.id
  PROVE  Making' /\ Arrived
<1>1. op'.pc = "idle" /\ op'.res = res /\ tree' = tree
  BY ReturnIs
<1>2. op'.dst = obj
  BY DEF Return, NoOp
<1>3. Making'
  BY <1>1 DEF Making, Mkdirs
<1> QED BY <1>1, <1>2, <1>3 DEF Arrived

\* Mkdir that fails.
LEMMA MkdirStops ==
  ASSUME MkdirFail
  PROVE  Making' /\ Arrived
BY Stops DEF MkdirFail

\* Mkdir at its end, or the Move it was made for goes on.
LEMMA Arrives ==
  ASSUME op \in Operation(fresh), NEW c2, NEW obj, MkdirReturn(c2, obj), NodeAt(tree, op.path) = obj.id,
         Right(c2), obj.id # NoId, drv = "cloudreve" => Full(obj) = op.path
  PROVE  Making' /\ Arrived
<1>1. CASE op.kind = "move"
  <2> DEFINE o2 == [op EXCEPT !.pc = "resolve", !.dst = obj]
  <2>1. Go(tree, c2, o2)
    BY <1>1 DEF MkdirReturn
  <2>2. o2.pc = "resolve" /\ o2.dst = obj /\ o2.res = op.res /\ DOMAIN o2 = DOMAIN op
    BY DEF Operation
  <2> HIDE DEF o2
  <2>3. op'.pc = "resolve" /\ op'.dst = obj /\ op'.res = op.res /\ tree' = tree /\ cache' = c2
    BY <2>1, <2>2 DEF Go, Operation
  <2> QED BY <2>3 DEF Making, Mkdirs, Arrived
<1>2. CASE op.kind # "move"
  BY <1>2, Stops DEF MkdirReturn
<1> QED BY <1>1, <1>2

\* What a right listing names is what is at its path.
LEMMA PlacedAt ==
  ASSUME Types, NEW o, Placed(o)
  PROVE  NodeAt(tree, Full(o)) = o.id
BY NodeAtIs DEF Types, Placed

\* It looks for the deepest directory on the path.
LEMMA MakingBegins ==
  ASSUME MInv, op.clean, NEW next \in {"find", "create"}, MkdirBegin(next), drv # "baidu", UNCHANGED drv,
         next = "find" => drv = "quark"
  PROVE  Making' /\ Arrived
<1>1. /\ op \in Operation(fresh) /\ fresh \in Nat \ {0} /\ cache \in Caches(fresh) /\ Types
  BY Now DEF MInv
<1>2. op.pc = "mkdir" /\ op.path \in Seq(Names) /\ UNCHANGED <<fresh, task>> /\ op.pc \in Mkdirs
  BY <1>1 DEF MkdirBegin, Operation, Mkdirs
<1>3. Right(cache)
  BY <1>2 DEF MInv, Making
<1>4. CASE op.path = <<>>
  <2>1. MkdirReturn(cache, RootObj)
    BY <1>4 DEF MkdirBegin
  <2>2. Full(RootObj) = <<>> /\ RootObj.id # NoId
    BY DEF Full, Clean, RootObj, Obj, Root, NoId
  <2> QED BY <1>1, <1>3, <1>4, <2>1, <2>2, Arrives, RootPlaced, PlacedAt
<1>5. CASE op.path # <<>>
  <2> DEFINE g == GetPanObj(cache, op.path, FALSE)  rest == Rel(Full(g.obj), op.path)
             o2 == [op EXCEPT !.pc = next, !.base = g.obj, !.at = g.obj.id, !.rest = rest]
  <2>1. /\ g \in Walks(cache) /\ Right(g.cache)
        /\ g.ok => /\ Placed(g.obj)
                   /\ \E k \in 0..Len(op.path) :
                        /\ Full(g.obj) = SubSeq(op.path, 1, k)
                        /\ k < Len(op.path) => /\ ~HasKid(tree, g.obj.id, op.path[k + 1])
                                               /\ g.obj.id \in DOMAIN g.cache
    BY <1>1, <1>2, <1>3, Nearest
  <2>2. MkdirFrom(g, next)
    BY <1>5 DEF MkdirBegin
  <2>3. MkdirFrom(g, next) <=>
           IF ~g.ok THEN Return("error", g.cache, RootObj)
           ELSE IF Full(g.obj) = op.path THEN MkdirReturn(g.cache, g.obj)
           ELSE Go(tree, g.cache, o2)
    BY DEF MkdirFrom
  <2> HIDE DEF g
  <2>4. CASE ~g.ok
    BY <2>2, <2>3, <2>4, Stops
  <2>5. CASE g.ok /\ Full(g.obj) = op.path
    <3>1. g.obj.id # NoId
      BY <2>1 DEF Walks, Proper, RootObj, Obj, Root, NoId
    <3> QED BY <1>1, <2>1, <2>2, <2>3, <2>5, <3>1, PlacedAt, Arrives
  <2>6. CASE g.ok /\ Full(g.obj) # op.path
    <3>1. PICK k \in 0..Len(op.path) :
            /\ Full(g.obj) = SubSeq(op.path, 1, k)
            /\ k < Len(op.path) => ~HasKid(tree, g.obj.id, op.path[k + 1]) /\ g.obj.id \in DOMAIN g.cache
      BY <2>1, <2>6
    <3>2. k < Len(op.path)
      BY <1>2, <2>6, <3>1, UpTo
    <3>3. rest = SubSeq(op.path, k + 1, Len(op.path)) /\ rest # <<>>
      BY <1>2, <3>1, <3>2, RelDown, UpTo
    <3>4. g.obj \in Object(fresh) /\ Proper(g.obj) /\ g.obj.id \in 0..(fresh - 1)
      BY <1>1, <2>1 DEF Walks, Object, Proper, RootObj, Obj, Root
    <3>5. rest \in Seq(Names \cup {Up})
      BY <1>2, <3>2, <3>3, DownIs
    <3> HIDE DEF rest
    <3>6. o2 \in Operation(fresh)
      BY <1>1, <3>4, <3>5 DEF Operation, PCs
    <3>7. /\ o2.pc = next /\ o2.res = op.res /\ o2.path = op.path /\ o2.base = g.obj /\ o2.at = g.obj.id
          /\ o2.rest = rest /\ o2.snap = op.snap
      BY <1>1 DEF Operation
    <3>8. Go(tree, g.cache, o2)
      BY <2>2, <2>3, <2>6
    <3> HIDE DEF o2
    <3>9. /\ tree' = tree /\ cache' = g.cache /\ op'.pc = next /\ op'.res = op.res /\ op'.path = op.path
          /\ op'.base = g.obj /\ op'.at = g.obj.id /\ op'.rest = rest /\ op'.snap = op.snap
      BY <3>6, <3>7, <3>8, GoesTo
    <3>10. Under(k)'
      BY <2>1, <2>6, <3>1, <3>2, <3>3, <3>9 DEF Under, Placed
    <3>11. Unseen({})'
      <4>1. PICK b : b = g.obj.id
        OBVIOUS
      <4>2. Partly(cache', {}, b)
        BY <2>1, <3>1, <3>2, <3>9, <4>1, RightPartly
      <4>3. Partly(cache, {}, b)'
        BY <3>9, <4>2, SamePartly
      <4>4. Placed(op.base)' /\ op'.base.id = b /\ op'.at = b
        BY <2>1, <2>6, <3>9, <4>1 DEF Placed
      <4>5. Chain({}, b)'
        BY DEF Chain
      <4> QED BY <4>3, <4>4, <4>5 DEF Unseen
    <3>12. op'.pc \notin {"mkdir", "idle", "resolve"} /\ op'.pc \in Mkdirs
      BY <3>9 DEF Mkdirs
    <3>13. Making'
      BY <1>2, <3>9, <3>10, <3>11, <3>12, MakingGoes
    <3> QED BY <3>12, <3>13 DEF Arrived
  <2> QED BY <2>4, <2>5, <2>6
<1> QED BY <1>4, <1>5

\* What is looked for next is not there.
LEMMA NotThere ==
  ASSUME MInv, op.clean, op.pc \in {"find", "create", "conflict"}
  PROVE  ~HasKid(tree, op.at, Head(op.rest))
<1>1. op.path \in Seq(Names)
  BY Now DEF MInv, Operation
<1>2. PICK k : Under(k)
  BY DEF MInv, Making, Mkdirs
<1>3. k \in 0..Len(op.path) /\ k < Len(op.path) /\ op.rest = SubSeq(op.path, k + 1, Len(op.path))
  BY <1>2 DEF Under
<1>4. Head(op.rest) = op.path[k + 1]
  BY <1>1, <1>3, UpTo
<1> QED BY <1>2, <1>4 DEF Under

\* One more directory of the path.
LEMMA MakingMakes ==
  ASSUME MInv, op.clean, op.pc = "create", NEW next \in {"find", "create", "made"},
         MakeAt(op.at, Head(op.rest), next), drv # "baidu", UNCHANGED drv,
         next = "made" <=> drv = "cloudreve", next = "find" => drv = "quark"
  PROVE  Making' /\ Arrived
<1>1. /\ op \in Operation(fresh) /\ fresh \in Nat \ {0} /\ cache \in Caches(fresh) /\ Types
      /\ TreeOK(tree, fresh) /\ MaxId \in Nat
  BY Now DEF MInv
<1>2. op.path \in Seq(Names) /\ op.pc \in Mkdirs
  BY <1>1 DEF Operation, Mkdirs
<1>3. op.res # "ok" /\ task = NoReq /\ Extends
  BY <1>2 DEF MInv, Making
<1>4. PICK k : Under(k)
  BY <1>2 DEF MInv, Making
<1>5. PICK H : Unseen(H)
  BY <1>2 DEF MInv, Making
<1>6. /\ k \in 0..Len(op.path) /\ op.at \in Nodes(tree) /\ PathOf(tree, op.at) = SubSeq(op.path, 1, k)
      /\ k < Len(op.path) /\ op.rest = SubSeq(op.path, k + 1, Len(op.path))
  BY <1>4 DEF Under
<1> DEFINE nm == Head(op.rest)
<1>7. /\ nm = op.path[k + 1] /\ nm \in Names /\ k + 1 \in 0..Len(op.path) /\ Len(op.rest) = Len(op.path) - k
      /\ op.rest # <<>> /\ Tail(op.rest) = SubSeq(op.path, k + 2, Len(op.path))
      /\ SubSeq(op.path, 1, k + 1) = Append(SubSeq(op.path, 1, k), nm)
      /\ IsPrefix(SubSeq(op.path, 1, k + 1), op.path)
  <2>1. k + 1 \in 0..Len(op.path)
    BY <1>2, <1>6
  <2> QED BY <1>2, <1>6, <2>1, UpTo
<1> HIDE DEF nm
<1>8. IsDir(tree, op.at) /\ fresh' = fresh + 1 /\ UNCHANGED task
      /\ Go(Made(tree, fresh, op.at, nm, "dir"), cache, Descend(fresh, next))
  BY DEF MakeAt, CanMake, nm
<1>9. /\ tree' = Made(tree, fresh, op.at, nm, "dir") /\ cache' = cache
      /\ op'.pc = (IF Len(op.rest) = 1 THEN "made" ELSE next) /\ op'.res = op.res /\ op'.path = op.path
      /\ op'.base = op.base /\ op'.at = fresh /\ op'.rest = Tail(op.rest) /\ op'.snap = op.snap
  <2> DEFINE pc == IF Len(op.rest) = 1 THEN "made" ELSE next  rest == Tail(op.rest)
             o2 == [op EXCEPT !.at = fresh, !.rest = rest, !.pc = pc]
  <2>1. pc \in PCs
    BY DEF PCs
  <2>2. op.rest \in Seq(Names \cup {Up})
    BY <1>1 DEF Operation
  <2>3. rest \in Seq(Names \cup {Up}) /\ \E n : fresh \in 0..(n - 1) /\ op \in Operation(n)
    <3>1. fresh \in 0..(fresh + 1 - 1) /\ op \in Operation(fresh + 1)
      BY <1>1, Grows
    <3> QED BY <1>1, <1>7, <2>2, <3>1, TailIs, SMTT(60)
  <2>4. PICK n : fresh \in 0..(n - 1) /\ op \in Operation(n)
    BY <2>3
  <2>5. Go(Made(tree, fresh, op.at, nm, "dir"), cache, o2)
    BY <1>8 DEF Descend
  <2> HIDE DEF pc, rest
  <2>6. o2 \in Operation(n)
    BY <2>1, <2>3, <2>4 DEF Operation, PCs
  <2>7. /\ o2.pc = pc /\ o2.res = op.res /\ o2.path = op.path /\ o2.base = op.base /\ o2.at = fresh
        /\ o2.rest = rest /\ o2.snap = op.snap
    BY <1>1 DEF Operation
  <2> HIDE DEF o2
  <2>8. /\ tree' = Made(tree, fresh, op.at, nm, "dir") /\ cache' = cache
        /\ op'.pc = pc /\ op'.res = op.res /\ op'.path = op.path
        /\ op'.base = op.base /\ op'.at = fresh /\ op'.rest = rest /\ op'.snap = op.snap
    BY <2>5, <2>6, <2>7, GoesTo
  <2> QED BY <2>8 DEF pc, rest
<1>10. /\ DOMAIN tree' = DOMAIN tree \cup {fresh} /\ \A i \in DOMAIN tree : tree'[i] = tree[i]
       /\ \A i \in Nodes(tree) : i \in Nodes(tree') /\ PathOf(tree', i) = PathOf(tree, i)
       /\ PathOf(tree', fresh) = Append(PathOf(tree, op.at), nm)
       /\ tree'[fresh] = [name |-> nm, parent |-> op.at, type |-> "dir"] /\ fresh \notin Nodes(tree)
       /\ \A i : Kids(tree', i) = IF i = op.at THEN Kids(tree, i) \cup {fresh} ELSE Kids(tree, i)
  <2> DEFINE t2 == Made(tree, fresh, op.at, nm, "dir")
  <2>1. /\ DOMAIN t2 = DOMAIN tree \cup {fresh} /\ \A i \in DOMAIN tree : t2[i] = tree[i]
        /\ \A i \in Nodes(tree) : i \in Nodes(t2) /\ PathOf(t2, i) = PathOf(tree, i)
        /\ PathOf(t2, fresh) = Append(PathOf(tree, op.at), nm)
        /\ t2[fresh] = [name |-> nm, parent |-> op.at, type |-> "dir"] /\ fresh \notin Nodes(tree)
        /\ \A i : Kids(t2, i) = IF i = op.at THEN Kids(tree, i) \cup {fresh} ELSE Kids(tree, i)
    <3>1. fresh \in Nat \ {0} /\ TreeOK(tree, fresh) /\ IsDir(tree, op.at) /\ nm \in Names
      BY <1>1, <1>7, <1>8
    <3> QED BY <3>1, MadePaths
  <2>2. tree' = t2
    BY <1>9
  <2> HIDE DEF t2
  <2> QED BY <2>1, <2>2
<1>11. Extends'
  <2>1. DOMAIN op.snap \subseteq DOMAIN tree /\ \A i \in DOMAIN op.snap : tree[i] = op.snap[i]
    BY <1>3 DEF Extends
  <2>2. \A i \in DOMAIN tree \ DOMAIN op.snap : tree[i].type = "dir" /\ IsPrefix(PathOf(tree, i), op.path)
    BY <1>3 DEF Extends, Grown
  <2>3. PathOf(tree', fresh) = SubSeq(op.path, 1, k + 1)
    BY <1>6, <1>7, <1>10
  <2>4. tree'[fresh].type = "dir" /\ IsPrefix(PathOf(tree', fresh), op.path)
    BY <1>7, <1>10, <2>3
  <2>5. ASSUME NEW i \in DOMAIN tree' \ DOMAIN op.snap
        PROVE  tree'[i].type = "dir" /\ IsPrefix(PathOf(tree', i), op.path)
    <3>1. CASE i = fresh
      BY <2>4, <3>1
    <3>2. CASE i \in DOMAIN tree
      BY <1>10, <2>2, <3>2 DEF Nodes
    <3> QED BY <1>10, <3>1, <3>2
  <2>6. Grown(tree, op.path)'
    BY <1>9, <2>5 DEF Grown
  <2>7. DOMAIN op'.snap \subseteq DOMAIN tree' /\ \A i \in DOMAIN op'.snap : tree'[i] = op'.snap[i]
    BY <1>9, <1>10, <2>1
  <2> QED BY <2>6, <2>7 DEF Extends
<1>12. Under(k + 1)'
  <2>1. op'.at \in Nodes(tree') /\ PathOf(tree', op'.at) = SubSeq(op'.path, 1, k + 1)
    BY <1>6, <1>7, <1>9, <1>10, ZenonT(60) DEF Nodes
  <2>2. CASE Len(op.rest) = 1
    <3>1. k + 1 = Len(op.path)
      BY <1>2, <1>6, <1>7, <2>2
    <3> QED BY <1>7, <1>9, <2>1, <2>2, <3>1 DEF Under
  <2>3. CASE Len(op.rest) # 1 /\ next = "made"
    BY <1>7, <1>9, <2>1, <2>3 DEF Under
  <2>4. CASE Len(op.rest) # 1 /\ next # "made"
    <3>1. k + 1 < Len(op.path) /\ k + 1 + 1 = k + 2
      BY <1>2, <1>6, <1>7, <2>4
    <3>2. Kids(tree', fresh) = {}
      <4>1. \A i \in DOMAIN tree : tree[i].parent \in Nodes(tree)
        BY <1>1, PathIs DEF TreeOK
      <4>2. Kids(tree, fresh) = {} /\ fresh # op.at
        BY <1>6, <1>10, <4>1 DEF Kids
      <4> QED BY <1>10, <4>2
    <3>3. ~HasKid(tree', op'.at, op'.path[k + 1 + 1])
      BY <1>9, <3>2 DEF HasKid
    <3> QED BY <1>7, <1>9, <2>1, <2>4, <3>1, <3>3 DEF Under
  <2> QED BY <2>2, <2>3, <2>4
<1>13. \E G : Unseen(G)'
  <2>1. PICK n : n = fresh
    OBVIOUS
  <2>2. PICK b : b = op.base.id
    OBVIOUS
  <2>3. /\ Placed(op.base) /\ Chain(H, b) /\ op.at \in H \cup {b} /\ Partly(cache, H, b) /\ b \in Nodes(tree)
    BY <1>5, <2>2 DEF Unseen, Placed
  <2>4. Partly(cache, H \cup {n}, b)' /\ Chain(H \cup {n}, b)'
    BY <1>1, <1>7, <1>8, <1>9, <2>1, <2>3, MakePartly
  <2>5. Placed(op.base)' /\ op'.base.id = b
    BY <1>9, <1>10, <2>2, <2>3 DEF Placed
  <2>6. op'.at \in (H \cup {n}) \cup {b}
    BY <1>9, <2>1
  <2>7. ~(drv' = "cloudreve" /\ op'.pc = "create")
    BY <1>9
  <2>8. Unseen(H \cup {n})'
    BY <2>4, <2>5, <2>6, <2>7 DEF Unseen
  <2> QED BY <2>8
<1>14. op'.pc \notin {"mkdir", "idle", "resolve"} /\ op'.pc \in Mkdirs
  BY <1>9 DEF Mkdirs
<1>15. Making'
  BY <1>3, <1>8, <1>9, <1>11, <1>12, <1>13, <1>14 DEF Making
<1> QED BY <1>14, <1>15 DEF Arrived

\* It goes on where it is, or begins again without the listing of the directory it began at.
LEMMA MakingTurns ==
  ASSUME MInv, op.clean, op.pc \in {"find", "create", "made"}, drv # "baidu", UNCHANGED <<drv, task>>,
         NEW pc \in Mkdirs, pc = "find" => drv = "quark", NEW tries \in Nat, NEW c2 \in Caches(fresh),
         NEW o2, Go(tree, c2, o2),
         o2 = [op EXCEPT !.pc = pc, !.tries = tries],
         \/ op.pc # "made" /\ pc \in {"find", "create"} /\ c2 = cache /\ drv # "cloudreve"
         \/ op.pc # "made" /\ pc = "conflict"
         \/ pc = "mkdir" /\ c2 = Del(cache, {op.base.id})
  PROVE  Making' /\ Arrived
<1>1. op \in Operation(fresh) /\ cache \in Caches(fresh)
  BY Now DEF MInv
<1>2. o2 \in Operation(fresh)
  BY <1>1, ZenonT(60) DEF Operation, PCs, Mkdirs
<1>3. /\ o2.pc = pc /\ o2.res = op.res /\ o2.path = op.path /\ o2.base = op.base /\ o2.at = op.at
      /\ o2.rest = op.rest /\ o2.snap = op.snap
  BY <1>1 DEF Operation
<1>4. /\ tree' = tree /\ cache' = c2 /\ op'.pc = pc /\ op'.res = op.res /\ op'.path = op.path
      /\ op'.base = op.base /\ op'.at = op.at /\ op'.rest = op.rest /\ op'.snap = op.snap
  BY <1>2, <1>3, GoesTo, ZenonT(60)
<1>5. PICK H : Unseen(H)
  BY DEF MInv, Making, Mkdirs
<1>6. pc = "mkdir" => Right(cache)'
  <2>1. ASSUME pc = "mkdir" PROVE Right(cache')
    <3>1. Right(Del(cache, {op.base.id}))
      BY <1>1, <1>5, PartlyRight DEF Unseen
    <3> QED BY <1>4, <2>1, <3>1
  <2> QED BY <1>4, <2>1, SameRight
<1>7. pc # "mkdir" => \E k : Under(k)'
  <2>1. PICK k : Under(k)
    BY DEF MInv, Making, Mkdirs
  <2>2. ASSUME pc # "mkdir" PROVE Under(k)'
    BY <1>4, <2>1, <2>2 DEF Under
  <2> QED BY <2>2
<1>8. pc \in {"find", "create", "made"} => \E G : Unseen(G)'
  <2>1. ASSUME pc \in {"find", "create", "made"} PROVE Unseen(H)'
    <3>1. Partly(cache', H, op.base.id) /\ drv # "cloudreve"
      BY <1>4, <1>5, <2>1 DEF Unseen
    <3> QED BY <1>4, <1>5, <3>1, SameUnseen DEF Unseen
  <2> QED BY <2>1
<1>9. Making'
  BY <1>4, <1>6, <1>7, <1>8, MakingGoes DEF Mkdirs
<1> QED BY <1>4, <1>9 DEF Arrived, Mkdirs

\* The last directory made is the one at the path.
LEMMA MadeAtPath ==
  ASSUME MInv, op.clean, op.pc = "made", drv # "cloudreve"
  PROVE  NodeAt(tree, op.path) = op.at /\ op.at # NoId
<1>1. op.path \in Seq(Names) /\ TreeOK(tree, fresh)
  BY Now DEF MInv, Operation
<1>2. PICK k : Under(k)
  BY DEF MInv, Making, Mkdirs
<1>3. op.at \in Nodes(tree) /\ PathOf(tree, op.at) = SubSeq(op.path, 1, Len(op.path))
  BY <1>2 DEF Under
<1>4. Len(op.path) \in 0..Len(op.path)
  BY <1>1
<1>5. PathOf(tree, op.at) = op.path
  BY <1>1, <1>3, <1>4, UpTo
<1>6. op.at # NoId
  BY Now DEF MInv, Operation, NoId
<1> QED BY <1>1, <1>3, <1>5, <1>6, NodeAtIs

\* The listings are right again once that of the directory it began at is gone.
LEMMA ForgetsBase ==
  ASSUME MInv, op.clean, op.pc = "made", drv # "baidu"
  PROVE  Right(Del(cache, {op.base.id}))
<1>1. cache \in Caches(fresh)
  BY Now DEF MInv
<1>2. PICK H : Unseen(H)
  BY DEF MInv, Making, Mkdirs
<1> QED BY <1>1, <1>2, PartlyRight DEF Unseen

\* cloudreve names the directory to make one below by its path.
LEMMA BaseAt ==
  ASSUME MInv, op.clean, op.pc = "create", drv = "cloudreve"
  PROVE  NodeAt(tree, Full(op.base)) = op.at
<1>1. PICK H : Unseen(H)
  BY DEF MInv, Making, Mkdirs
<1>2. Placed(op.base) /\ op.at = op.base.id
  BY <1>1 DEF Unseen
<1> QED BY <1>2, PlacedAt DEF MInv, IInv

\* Mkdir of quark.
LEMMA QuarkMaking ==
  ASSUME MInv, op.clean, UNCHANGED drv,
         \/ createDirectoryFail \/ createDirectory \/ createDirectoryBusy
         \/ QuarkMkdir \/ findChildDirId \/ QuarkConflict \/ QuarkMade
  PROVE  Making' /\ Arrived
<1>1. /\ op \in Operation(fresh) /\ cache \in Caches(fresh) /\ op.tries \in Nat /\ op.tries + 1 \in Nat
      /\ drv = "quark"
  <2>1. findChildDirId => drv = "quark"
    BY DEF findChildDirId, MInv, Making, Mkdirs
  <2>2. drv = "quark"
    BY <2>1 DEF createDirectoryFail, createDirectory, createDirectoryBusy, QuarkMkdir, QuarkConflict, QuarkMade
  <2> QED BY <2>2, Now DEF MInv, Operation
<1>2. op.pc \in {"find", "create", "conflict"} => ~HasDir(op.at, Head(op.rest))
  BY NotThere DEF HasDir
<1>3. CASE createDirectoryFail
  <2>1. [op EXCEPT !.pc = "conflict"] = [op EXCEPT !.pc = "conflict", !.tries = op.tries]
    BY <1>1 DEF Operation
  <2>2. Del(cache, {op.at}) \in Caches(fresh)
    BY <1>1, DelIs
  <2> QED BY <1>1, <1>3, <2>1, <2>2, MakingTurns DEF createDirectoryFail, Mkdirs
<1>4. CASE createDirectory
  BY <1>1, <1>4, MakingMakes DEF createDirectory
<1>5. CASE createDirectoryBusy
  <2>1. [op EXCEPT !.tries = @ + 1] = [op EXCEPT !.pc = "create", !.tries = op.tries + 1]
    BY <1>1, <1>5 DEF Operation, createDirectoryBusy
  <2> QED BY <1>1, <1>5, <2>1, MakingTurns DEF createDirectoryBusy, Mkdirs
<1>6. CASE QuarkMkdir
  BY <1>1, <1>6, MakingBegins DEF QuarkMkdir
<1>7. CASE findChildDirId
  <2>1. [op EXCEPT !.pc = "create"] = [op EXCEPT !.pc = "create", !.tries = op.tries]
    BY <1>1 DEF Operation
  <2>2. Go(tree, cache, [op EXCEPT !.pc = "create"]) /\ op.pc = "find" /\ UNCHANGED task
    BY <1>2, <1>7 DEF findChildDirId
  <2> QED BY <1>1, <2>1, <2>2, MakingTurns DEF Mkdirs
<1>8. CASE QuarkConflict
  BY <1>2, <1>8, MkdirStops DEF QuarkConflict
<1>9. CASE QuarkMade
  <2> DEFINE obj == Obj(op.at, Last(op.path), Front(op.path), "dir", op.base.id)
  <2>1. MkdirReturn(Del(cache, {op.base.id}), obj) /\ op.pc = "made"
    BY <1>9 DEF QuarkMade
  <2>2. obj.id = op.at
    BY DEF Obj
  <2> HIDE DEF obj
  <2> QED BY <1>1, <2>1, <2>2, MadeAtPath, ForgetsBase, Arrives
<1> QED BY <1>3, <1>4, <1>5, <1>6, <1>7, <1>8, <1>9

\* Mkdir of aliyundrive and aliyundrive_open.
LEMMA AliMaking ==
  ASSUME MInv, op.clean, UNCHANGED drv, AliNext
  PROVE  Making' /\ Arrived
<1>1. op \in Operation(fresh) /\ drv \notin {"baidu", "cloudreve"}
  BY Now DEF MInv, AliNext, AliMkdir, AliOpenMkdir
<1>2. CASE op.pc = "create" /\ MkdirFail
  BY <1>2, MkdirStops
<1>3. CASE MkdirBegin("create")
  BY <1>1, <1>3, MakingBegins
<1>4. CASE op.pc = "create" /\ MakeAt(op.at, Head(op.rest), "create")
  BY <1>1, <1>4, MakingMakes
<1>5. CASE Made_
  <2>1. MkdirReturn(Del(cache, {op.base.id}), Result) /\ op.pc = "made" /\ Result.id = op.at
    BY <1>5 DEF Made_, Result, Obj
  <2> QED BY <1>1, <2>1, MadeAtPath, ForgetsBase, Arrives
<1>6. op.pc = "create" => ~HasDir(op.at, Head(op.rest)) /\ ~HasKid(tree, op.at, Head(op.rest))
  BY NotThere DEF HasDir
<1> QED BY <1>2, <1>3, <1>4, <1>5, <1>6 DEF AliNext, AliMkdir, AliOpenMkdir

\* Mkdir of cloudreve.
LEMMA CloudreveMaking ==
  ASSUME MInv, op.clean, UNCHANGED drv, CloudreveMkdir
  PROVE  Making' /\ Arrived
<1>1. op \in Operation(fresh) /\ cache \in Caches(fresh) /\ drv = "cloudreve" /\ 0 \in Nat
  BY Now DEF MInv, CloudreveMkdir
<1>2. CASE op.pc = "create" /\ MkdirFail
  BY <1>2, MkdirStops
<1>3. CASE MkdirBegin("create")
  BY <1>1, <1>3, MakingBegins
<1>4. CASE op.pc = "create" /\ MakeAt(NodeAt(tree, Full(op.base)), Head(op.rest), "made")
  <2>1. MakeAt(op.at, Head(op.rest), "made")
    BY <1>1, <1>4, BaseAt
  <2> QED BY <1>1, <1>4, <2>1, MakingMakes
<1>5. CASE Go(tree, cache, [op EXCEPT !.tries = 1, !.pc = "made", !.clean = FALSE])
  <2>1. op'.clean = FALSE /\ op'.pc = "made"
    BY <1>1, <1>5, ZenonT(60) DEF Go, Operation
  <2> QED BY <2>1 DEF Making, Arrived, Mkdirs
<1>6. CASE /\ op.pc = "made"
           /\ Go(tree, Del(cache, {op.base.id}), [op EXCEPT !.pc = "mkdir", !.tries = 0])
           /\ UNCHANGED <<fresh, task>>
  <2>1. Del(cache, {op.base.id}) \in Caches(fresh)
    BY <1>1, DelIs
  <2> QED BY <1>1, <1>6, <2>1, MakingTurns DEF Mkdirs
<1> QED BY <1>2, <1>3, <1>4, <1>5, <1>6 DEF CloudreveMkdir

\* Mkdir of thunder_browser.
LEMMA ThunderMaking ==
  ASSUME MInv, op.clean, UNCHANGED drv, ThunderMkdir
  PROVE  Making' /\ Arrived
<1>1. op \in Operation(fresh) /\ cache \in Caches(fresh) /\ drv = "thunder" /\ op.tries \in Nat
  BY Now DEF MInv, ThunderMkdir, Operation
<1>2. CASE op.pc = "create" /\ MkdirFail
  BY <1>2, MkdirStops
<1>3. CASE MkdirBegin("create")
  BY <1>1, <1>3, MakingBegins
<1>4. CASE op.pc = "create" /\ MakeAt(op.at, Head(op.rest), "create")
  BY <1>1, <1>4, MakingMakes
<1>5. CASE /\ op.pc = "made" /\ Go(tree, Del(cache, {op.base.id}), [op EXCEPT !.pc = "mkdir"])
           /\ UNCHANGED <<fresh, task>>
  <2>1. [op EXCEPT !.pc = "mkdir"] = [op EXCEPT !.pc = "mkdir", !.tries = op.tries]
    BY <1>1 DEF Operation
  <2>2. Del(cache, {op.base.id}) \in Caches(fresh)
    BY <1>1, DelIs
  <2> QED BY <1>1, <1>5, <2>1, <2>2, MakingTurns DEF Mkdirs
<1> QED BY <1>2, <1>3, <1>4, <1>5 DEF ThunderMkdir

------------------------------------------------------------------------------
(* Mkdir of baidu. *)

\* What the server has made after k components of the path p, from the tree t.
OnWay(s, t, p, k) ==
  s.ok => /\ DOMAIN t \subseteq DOMAIN s.t /\ \A i \in DOMAIN t : s.t[i] = t[i]
          /\ \A i \in DOMAIN s.t \ DOMAIN t : s.t[i].type = "dir" /\ IsPrefix(PathOf(s.t, i), p)
          /\ s.at \in Nodes(s.t) /\ PathOf(s.t, s.at) = SubSeq(p, 1, k)

\* One component more.
LEMMA OnWayIs ==
  ASSUME NEW n \in Nat \ {0}, NEW t, NEW p \in Seq(Names), NEW k \in 1..Len(p), NEW s \in Ways(n),
         OnWay(s, t, p, k - 1)
  PROVE  OnWay(EnterOrMake(s, p[k]), t, p, k)
<1> DEFINE r == EnterOrMake(s, p[k])  b == SubSeq(p, 1, k - 1)  a == SubSeq(p, 1, k)
<1>1. /\ s \in [t : Trees, i : Nat, at : Nat, ok : BOOLEAN] /\ n <= s.i /\ s.i \in Nat \ {0} /\ s.ok \in BOOLEAN
      /\ s.ok => TreeOK(s.t, s.i) /\ IsDir(s.t, s.at)
  BY DEF Ways
<1>2. a = Append(b, p[k]) /\ p[k] \in Names /\ IsPrefix(a, p)
  <2>1. k \in 0..Len(p)
    OBVIOUS
  <2> QED BY <2>1, OneMore, UpTo
<1> HIDE DEF a
<1>3. CASE HasKid(s.t, s.at, p[k])
  <2> DEFINE i == Kid(s.t, s.at, p[k])
  <2>1. i \in DOMAIN s.t /\ s.t[i].parent = s.at /\ s.t[i].name = p[k]
    BY <1>3 DEF HasKid, Kid, Kids
  <2>2. r = [s EXCEPT !.at = i, !.ok = @ /\ IsDir(s.t, i)]
    BY <1>3 DEF EnterOrMake
  <2> HIDE DEF i, r, b
  <2>3. r.t = s.t /\ r.at = i /\ (r.ok => s.ok)
    BY <1>1, <2>2
  <2>4. ASSUME r.ok PROVE PathOf(s.t, i) = a
    <3>1. s.ok /\ PathOf(s.t, s.at) = b
      BY <2>3, <2>4 DEF OnWay, b
    <3>2. Shape(s.t, s.i)
      BY <1>1, <3>1 DEF TreeOK
    <3>3. PathOf(s.t, i) = Append(PathOf(s.t, s.t[i].parent), s.t[i].name)
      BY <2>1, <3>2, PathIs
    <3> QED BY <1>2, <2>1, <3>1, <3>3
  <2>5. OnWay(r, t, p, k)
    BY <2>1, <2>3, <2>4 DEF OnWay, Nodes, a
  <2> QED BY <2>5 DEF r
<1>4. CASE ~HasKid(s.t, s.at, p[k])
  <2> DEFINE t2 == Made(s.t, s.i, s.at, p[k], "dir")
  <2>1. r = [t |-> t2, i |-> s.i + 1, at |-> s.i, ok |-> s.ok]
    BY <1>4 DEF EnterOrMake
  <2> HIDE DEF r, b
  <2>2. r.t = t2 /\ r.at = s.i /\ r.ok = s.ok
    BY <2>1
  <2>3. ASSUME s.ok
        PROVE  /\ DOMAIN t2 = DOMAIN s.t \cup {s.i} /\ \A i \in DOMAIN s.t : t2[i] = s.t[i]
               /\ \A i \in Nodes(s.t) : PathOf(t2, i) = PathOf(s.t, i)
               /\ PathOf(t2, s.i) = Append(PathOf(s.t, s.at), p[k]) /\ t2[s.i].type = "dir"
    <3>1. PICK u, m, at, nm : u = s.t /\ m = s.i /\ at = s.at /\ nm = p[k]
      OBVIOUS
    <3>2. m \in Nat \ {0} /\ TreeOK(u, m) /\ IsDir(u, at) /\ nm \in Names
      BY <1>1, <1>2, <2>3, <3>1
    <3> DEFINE x == Made(u, m, at, nm, "dir")
    <3>3. /\ DOMAIN x = DOMAIN u \cup {m} /\ \A i \in DOMAIN u : x[i] = u[i]
          /\ \A i \in Nodes(u) : PathOf(x, i) = PathOf(u, i)
          /\ PathOf(x, m) = Append(PathOf(u, at), nm) /\ x[m] = [name |-> nm, parent |-> at, type |-> "dir"]
      BY <3>2, MadePaths
    <3> HIDE DEF x
    <3>4. x[m].type = "dir"
      BY <3>3
    <3> QED BY <3>1, <3>3, <3>4 DEF x
  <2> HIDE DEF t2
  <2>4. ASSUME s.ok
        PROVE  /\ DOMAIN t \subseteq DOMAIN t2 /\ \A i \in DOMAIN t : t2[i] = t[i]
               /\ \A i \in DOMAIN t2 \ DOMAIN t : t2[i].type = "dir" /\ IsPrefix(PathOf(t2, i), p)
               /\ s.i \in Nodes(t2) /\ PathOf(t2, s.i) = a
    <3>1. DOMAIN t \subseteq DOMAIN s.t /\ (\A i \in DOMAIN t : s.t[i] = t[i]) /\ PathOf(s.t, s.at) = b
      BY <2>4 DEF OnWay, b
    <3>2. \A i \in DOMAIN s.t \ DOMAIN t : s.t[i].type = "dir" /\ IsPrefix(PathOf(s.t, i), p)
      BY <2>4 DEF OnWay
    <3>3. PathOf(t2, s.i) = a
      BY <1>2, <2>3, <2>4, <3>1
    <3> QED BY <1>2, <2>3, <2>4, <3>1, <3>2, <3>3 DEF Nodes
  <2>5. OnWay(r, t, p, k)
    BY <2>2, <2>4 DEF OnWay, a
  <2> QED BY <2>5 DEF r
<1> QED BY <1>3, <1>4

\* One request makes the whole path, and nothing else.
LEMMA MadeAllOnWay ==
  ASSUME NEW n \in Nat \ {0}, NEW t, TreeOK(t, n), NEW p \in Seq(Names)
  PROVE  OnWay(MadeAll(t, n, p), t, p, Len(p))
<1> DEFINE len == Len(p)
<1>1. PICK h : Paves(h, t, n, p) /\ MadeAll(t, n, p) = h[len] /\ h[len] \in Ways(n)
  BY MadeAllPaves
<1> DEFINE bad == {k \in 0..len : ~OnWay(h[k], t, p, k)}
<1>2. 0 \notin bad
  <2> DEFINE w == h[0]
  <2>1. w.t = t /\ w.at = Root
    BY <1>1 DEF Paves
  <2> HIDE DEF w
  <2>2. PathOf(t, Root) = <<>> /\ Root \in Nodes(t)
    BY PathIs DEF TreeOK, Nodes
  <2>3. SubSeq(p, 1, 0) = <<>>
    OBVIOUS
  <2>4. OnWay(w, t, p, 0)
    BY <2>1, <2>2, <2>3 DEF OnWay
  <2> QED BY <2>4 DEF w
<1>3. \A k \in 1..len : OnWay(h[k - 1], t, p, k - 1) => OnWay(h[k], t, p, k)
  <2>1. ASSUME NEW k \in 1..len, OnWay(h[k - 1], t, p, k - 1) PROVE OnWay(h[k], t, p, k)
    <3>1. h[k - 1] \in Ways(n) /\ h[k] = EnterOrMake(h[k - 1], p[k])
      BY <1>1 DEF Paves
    <3> QED BY <2>1, <3>1, OnWayIs
  <2> QED BY <2>1
<1>4. len \in Nat
  OBVIOUS
<1> HIDE DEF len
<1>5. bad = {}
  <2>1. ASSUME bad # {} PROVE FALSE
    <3>1. bad \in SUBSET Nat
      BY <1>4
    <3> HIDE DEF bad
    <3>2. PICK k \in bad : \A j \in bad : k <= j
      BY <2>1, <3>1, Least
    <3>3. k \in 0..len /\ k # 0
      BY <1>2, <3>2 DEF bad
    <3>4. k \in 1..len /\ k - 1 \in 0..len /\ ~ (k <= k - 1)
      BY <1>4, <3>3
    <3>5. k - 1 \notin bad
      BY <3>2, <3>4
    <3> QED BY <1>3, <3>2, <3>4, <3>5 DEF bad
  <2> QED BY <2>1
<1>6. OnWay(h[len], t, p, len)
  BY <1>4, <1>5
<1> QED BY <1>1, <1>6 DEF len

\* Mkdir of baidu_netdisk.
LEMMA BaiduMaking ==
  ASSUME MInv, op.clean, UNCHANGED drv, BaiduNext
  PROVE  Making' /\ Arrived
<1>1. /\ op \in Operation(fresh) /\ fresh \in Nat \ {0} /\ cache \in Caches(fresh) /\ Types
      /\ TreeOK(tree, fresh) /\ op.path \in Seq(Names)
  BY Now DEF MInv, Operation
<1>2. drv = "baidu" /\ op.pc \in {"mkdir", "made"} /\ op.pc \in Mkdirs
  BY DEF BaiduNext, BaiduMkdir, BaiduMade, Mkdirs
<1>3. op.res # "ok" /\ task = NoReq /\ Extends /\ op.kind # "move"
  BY <1>2 DEF MInv, Making, IInv, Places, MkdirPlaces
<1>4. CASE op.path = <<>> /\ Return("ok", cache, RootObj)
  <2>1. Full(RootObj) = <<>> /\ RootObj.id = Root
    BY DEF Full, Clean, RootObj, Obj
  <2> QED BY <1>1, <1>3, <1>4, <2>1, Stops, RootPlaced, PlacedAt
<1>5. CASE Return("error", cache, RootObj)
  BY <1>5, Stops
<1>6. CASE BaiduMade
  <2> DEFINE obj == Obj(op.at, Last(op.path), Front(op.path), "dir", NoParent)
  <2>1. Return("ok", cache, obj) /\ op.pc = "made" /\ obj.id = op.at
    BY <1>6 DEF BaiduMade, Obj
  <2> HIDE DEF obj
  <2> QED BY <1>2, <1>3, <2>1, MadeAtPath, Stops
<1> DEFINE m == MadeAll(tree, fresh, op.path)
<1>7. CASE m.ok /\ UNCHANGED task /\ Go(m.t, cache, [op EXCEPT !.pc = "made", !.at = m.at])
  <2>1. /\ TreeOK(m.t, m.i) /\ Shape(m.t, m.i) /\ Shape(tree, fresh)
        /\ OnWay(m, tree, op.path, Len(op.path)) /\ m.i \in Nat /\ fresh <= m.i
    BY <1>1, <1>7, MadeAllIs, MadeAllOnWay DEF TreeOK
  <2> HIDE DEF m
  <2>2. /\ DOMAIN tree \subseteq DOMAIN m.t /\ \A i \in DOMAIN tree : m.t[i] = tree[i]
        /\ \A i \in DOMAIN m.t \ DOMAIN tree : m.t[i].type = "dir" /\ IsPrefix(PathOf(m.t, i), op.path)
        /\ m.at \in Nodes(m.t) /\ PathOf(m.t, m.at) = SubSeq(op.path, 1, Len(op.path))
    BY <1>7, <2>1 DEF OnWay
  <2>3. /\ tree' = m.t /\ op'.pc = "made" /\ op'.res = op.res /\ op'.path = op.path
        /\ op'.at = m.at /\ op'.snap = op.snap
    BY <1>1, <1>7, ZenonT(60) DEF Go, Operation
  <2>4. \A i \in DOMAIN tree : PathOf(m.t, i) = PathOf(tree, i)
    BY <2>1, <2>2, SamePaths DEF Nodes
  <2>5. Extends'
    <3>1. DOMAIN op.snap \subseteq DOMAIN tree /\ \A i \in DOMAIN op.snap : tree[i] = op.snap[i]
      BY <1>3 DEF Extends
    <3>2. \A i \in DOMAIN tree \ DOMAIN op.snap : tree[i].type = "dir" /\ IsPrefix(PathOf(tree, i), op.path)
      BY <1>3 DEF Extends, Grown
    <3>3. ASSUME NEW i \in DOMAIN tree' \ DOMAIN op.snap
          PROVE  tree'[i].type = "dir" /\ IsPrefix(PathOf(tree', i), op.path)
      <4>1. CASE i \in DOMAIN tree
        BY <2>2, <2>3, <2>4, <3>2, <4>1
      <4>2. CASE i \notin DOMAIN tree
        BY <2>2, <2>3, <4>2
      <4> QED BY <4>1, <4>2
    <3>4. Grown(tree, op.path)'
      BY <2>3, <3>3 DEF Grown
    <3>5. DOMAIN op'.snap \subseteq DOMAIN tree' /\ \A i \in DOMAIN op'.snap : tree'[i] = op'.snap[i]
      BY <2>2, <2>3, <3>1
    <3> QED BY <3>4, <3>5 DEF Extends
  <2>6. Under(Len(op.path))'
    <3>1. Len(op.path) \in 0..Len(op.path)
      BY <1>1
    <3> QED BY <2>2, <2>3, <3>1 DEF Under
  <2>7. \E k : Under(k)'
    BY <2>6
  <2>8. Making'
    BY <1>2, <1>3, <1>7, <2>3, <2>5, <2>7 DEF Making
  <2> QED BY <2>3, <2>8 DEF Arrived, Mkdirs
<1> QED BY <1>4, <1>5, <1>6, <1>7 DEF BaiduNext, BaiduMkdir

------------------------------------------------------------------------------
(* All steps of Mkdir, and others. *)

\* Listing a directory shows nothing of what was made.
LEMMA MakingLists ==
  ASSUME MInv, op.clean, op.pc \in Mkdirs, ListSome
  PROVE  Making'
<1>1. op \in Operation(fresh) /\ Types
  BY Now DEF MInv
<1>2. op.res # "ok"
  BY DEF MInv, Making
<1>3. PICK dir \in Held \cup {RootObj} : ListDir(List(cache, dir, FALSE))
  <2>1. ~Idle
    BY DEF Idle, Mkdirs
  <2> QED BY <2>1 DEF ListSome
<1>4. /\ cache' = List(cache, dir, FALSE).cache /\ UNCHANGED <<drv, tree, task>>
      /\ \E ts : op' = [op EXCEPT !.touched = ts]
  BY <1>3 DEF ListDir
<1>5. /\ op'.pc = op.pc /\ op'.res = op.res /\ op'.path = op.path /\ op'.base = op.base /\ op'.at = op.at
      /\ op'.rest = op.rest /\ op'.snap = op.snap
  BY <1>1, <1>4 DEF Operation
<1>6. op'.pc = "mkdir" /\ drv # "baidu" => Right(cache)'
  <2>1. ASSUME op'.pc = "mkdir", drv # "baidu" PROVE Right(cache')
    <3>1. Right(cache)
      BY <1>5, <2>1 DEF MInv, Making
    <3> QED BY <1>1, <1>2, <1>4, <3>1, ListKeeps
  <2> QED BY <1>4, <2>1, SameRight
<1>7. op'.pc # "mkdir" => \E k : Under(k)'
  <2>1. ASSUME op'.pc # "mkdir" PROVE \E k : Under(k)'
    <3>1. PICK k : Under(k)
      BY <1>5, <2>1 DEF MInv, Making
    <3>2. Under(k)'
      BY <1>4, <1>5, <3>1 DEF Under
    <3> QED BY <3>2
  <2> QED BY <2>1
<1>8. op'.pc \in {"find", "create", "made"} /\ drv # "baidu" => \E H : Unseen(H)'
  <2>1. ASSUME op'.pc \in {"find", "create", "made"}, drv # "baidu" PROVE \E H : Unseen(H)'
    <3>1. PICK H : Unseen(H)
      BY <1>5, <2>1 DEF MInv, Making
    <3>2. Partly(cache', H, op.base.id)
      BY <1>1, <1>2, <1>4, <2>1, <3>1, ListPartly DEF Unseen
    <3>3. Unseen(H)'
      BY <1>4, <1>5, <3>1, <3>2, SameUnseen DEF Unseen
    <3> QED BY <3>3
  <2> QED BY <2>1
<1>9. op'.pc = "find" => drv = "quark"
  BY <1>5 DEF MInv, Making
<1> QED BY <1>4, <1>5, <1>6, <1>7, <1>8, <1>9, MakingGoes

\* A step of an undisturbed Mkdir.
LEMMA MakingStepsAre ==
  ASSUME MInv, op.pc \in Mkdirs, Steps
  PROVE  \/ LookFails
         \/ createDirectoryFail \/ createDirectory \/ createDirectoryBusy
         \/ QuarkMkdir \/ findChildDirId \/ QuarkConflict \/ QuarkMade
         \/ BaiduNext \/ AliNext \/ CloudreveMkdir \/ ThunderMkdir
<1>1. ~RequestFail /\ ~Request /\ ~AnswerLost /\ ~Finish
  BY DEF RequestFail, Request, AnswerLost, Finish, Mkdirs
<1>2. ~RenameResolve /\ ~MoveResolve /\ ~DeleteResolve
  <2>1. \A p, rest : ~Resolve(p, rest)
    BY DEF Resolve, Mkdirs
  <2>2. drv \in AllDrivers
    BY DriveParameters DEF MInv, IInv, Types
  <2>3. ~RenameResolve
    BY <2>1 DEF RenameResolve
  <2>4. ~MoveResolve
    BY <2>1, <2>2 DEF MoveResolve, AllDrivers
  <2>5. ~DeleteResolve
    BY <2>1, <2>2 DEF DeleteResolve, AllDrivers
  <2> QED BY <2>3, <2>4, <2>5
<1>3. ~BatchRename /\ ~TaskSubmit /\ ~checkTaskSuccess /\ ~taskQueryFails /\ ~RefusalUnnoticed
  BY DEF BatchRename, TaskSubmit, checkTaskSuccess, taskQueryFails, RefusalUnnoticed, Mkdirs
<1> QED BY <1>1, <1>2, <1>3 DEF Steps, QuarkNext, CloudreveNext

\* Every step of an undisturbed Mkdir keeps the invariant.
LEMMA MakingSteps ==
  ASSUME MInv, op.clean, op.pc \in Mkdirs, Steps
  PROVE  Making' /\ Arrived
<1>1. UNCHANGED drv
  BY DEF Steps
<1>2. CASE LookFails
  BY <1>2, Stops DEF LookFails
<1>3. CASE \/ createDirectoryFail \/ createDirectory \/ createDirectoryBusy
           \/ QuarkMkdir \/ findChildDirId \/ QuarkConflict \/ QuarkMade
  BY <1>1, <1>3, QuarkMaking
<1> QED BY <1>1, <1>2, <1>3, MakingStepsAre, BaiduMaking, AliMaking, CloudreveMaking, ThunderMaking

\* An operation begins: nothing is made yet.
LEMMA BeginsNothing ==
  ASSUME IInv, NEW kind, NEW pc, pc \notin Mkdirs \ {"mkdir"}, NEW objs, NEW dst, NEW name, NEW path,
         Begin(kind, pc, objs, dst, name, path)
  PROVE  Making'
<1>1. PICK todo \in SetToSeqs(objs) :
        op' = [NoOp EXCEPT !.kind = kind, !.pc = pc, !.objs = objs, !.todo = todo,
                           !.dst = dst, !.name = name, !.path = path,
                           !.snap = tree, !.clean = owed = {} /\ task = NoReq /\ Located]
  BY DEF Begin
<1>2. UNCHANGED <<drv, tree, fresh, task, cache, owed, due>> /\ op.pc = "idle"
  BY DEF Begin, Idle
<1>3. /\ op'.pc = pc /\ op'.res = "none" /\ op'.snap = tree
      /\ (op'.clean => owed = {} /\ task = NoReq /\ Located)
  BY <1>1, ZenonT(60) DEF NoOp
<1>4. ASSUME op'.clean PROVE Right(cache)'
  <2>1. op.touched = {} /\ ListingsCurrent
    BY <1>2 DEF IInv, Places
  <2>2. Right(cache)
    BY <1>3, <1>4, <2>1 DEF Right, Located, ListingsCurrent
  <2> QED BY <1>2, <2>2, SameRight
<1>5. Extends'
  <2>1. Grown(tree, op.path)'
    BY <1>2, <1>3 DEF Grown
  <2> QED BY <1>2, <1>3, <2>1 DEF Extends
<1>6. op'.clean /\ op'.pc \in Mkdirs => op'.pc = "mkdir" /\ op'.res # "ok" /\ task' = NoReq
  BY <1>2, <1>3
<1> QED BY <1>4, <1>5, <1>6, SMTT(60) DEF Making

\* A Mkdir, or a Move, begins.
LEMMA BeginsMaking ==
  ASSUME IInv, BeginRename \/ BeginMove \/ BeginDelete \/ BeginMkdir \/ BeginBatch
  PROVE  Making'
<1>1. \A pc \in {"mkdir", "resolve", "batch"} : pc \notin Mkdirs \ {"mkdir"}
  BY DEF Mkdirs
<1>2. CASE BeginRename \/ BeginDelete \/ BeginBatch
  BY <1>1, <1>2, BeginsNothing DEF BeginRename, BeginDelete, BeginBatch
<1>3. CASE BeginMkdir
  BY <1>1, <1>3, BeginsNothing DEF BeginMkdir
<1>4. CASE BeginMove
  <2>1. PICK S, d, pc : pc \in {"mkdir", "resolve"} /\ Begin("move", pc, S, d, NoName, Full(d))
    <3>1. \A d : (IF d.id = NoId /\ drv # "baidu" THEN "mkdir" ELSE "resolve") \in {"mkdir", "resolve"}
      OBVIOUS
    <3> QED BY <1>4, <3>1 DEF BeginMove
  <2> QED BY <1>1, <2>1, BeginsNothing
<1> QED BY <1>2, <1>3, <1>4

\* The steps of a Move that has its target.
LEMMA MoveStepsAre ==
  ASSUME IInv, op.kind = "move", op.pc \notin Mkdirs, Steps
  PROVE  \/ LookFails \/ RequestFail \/ taskQueryFails \/ MoveResolve
         \/ Request \/ TaskSubmit \/ checkTaskSuccess \/ AnswerLost \/ RefusalUnnoticed \/ Finish
<1>1. ~RenameResolve /\ ~DeleteResolve
  BY DEF RenameResolve, DeleteResolve
<1>2. ~BatchRename
  BY DEF BatchRename, IInv, Places, BatchPlaces
<1>3. ~createDirectoryFail /\ ~createDirectory /\ ~createDirectoryBusy
  BY DEF createDirectoryFail, createDirectory, createDirectoryBusy, Mkdirs
<1>4. ~QuarkMkdir /\ ~findChildDirId /\ ~QuarkConflict /\ ~QuarkMade
  BY DEF QuarkMkdir, MkdirBegin, findChildDirId, QuarkConflict, QuarkMade, Mkdirs
<1>5. ~BaiduNext
  BY DEF BaiduNext, BaiduMkdir, BaiduMade, Mkdirs
<1>6. ~AliNext
  BY DEF AliNext, AliMkdir, AliOpenMkdir, Made_, MkdirBegin, Mkdirs
<1>7. ~CloudreveMkdir
  BY DEF CloudreveMkdir, MkdirBegin, Mkdirs
<1>8. ~ThunderMkdir
  BY DEF ThunderMkdir, MkdirBegin, Mkdirs
<1> QED BY <1>1, <1>2, <1>3, <1>4, <1>5, <1>6, <1>7, <1>8 DEF Steps, QuarkNext, CloudreveNext

\* It makes no more directories.
LEMMA MovesOn ==
  ASSUME IInv, op.kind = "move", op.pc \notin Mkdirs, Steps
  PROVE  op'.pc \notin Mkdirs
<1>1. op \in Operation(fresh)
  BY Now
<1>2. \A res, c2, obj : Return(res, c2, obj) => op'.pc \notin Mkdirs
  BY ReturnIs DEF Mkdirs
<1>3. \A t2, c2, pc, clean :
        pc \notin Mkdirs /\ (Go(t2, c2, [op EXCEPT !.pc = pc]) \/ Go(t2, c2, [[op EXCEPT !.pc = pc] EXCEPT !.clean = clean]))
          => op'.pc \notin Mkdirs
  BY <1>1, ZenonT(60) DEF Go, Operation
<1>4. {"resolve", "request", "task", "finish", "batch", "idle"} \cap Mkdirs = {}
  BY DEF Mkdirs
<1>5. CASE LookFails \/ RequestFail \/ taskQueryFails
  BY <1>2, <1>5 DEF LookFails, RequestFail, taskQueryFails
<1>6. CASE MoveResolve
  <2>1. PICK p, rest : Resolve(p, rest)
    <3>1. drv \in AllDrivers
      BY DriveParameters DEF IInv, Types
    <3> QED BY <1>6, <3>1 DEF MoveResolve, AllDrivers
  <2> DEFINE pc == IF p.req = NoReq THEN "finish" ELSE "request"  dels == op.dels \cup p.dels
             o2 == [op EXCEPT !.pc = pc, !.req = p.req, !.dels = dels, !.panic = p.panic, !.todo = rest]
  <2>2. IF ~p.ok THEN Return("error", p.cache, RootObj) ELSE Go(tree, p.cache, o2)
    BY <2>1 DEF Resolve
  <2>3. pc \notin Mkdirs
    BY <1>4
  <2> HIDE DEF pc, dels
  <2>4. Go(tree, p.cache, o2) => op'.pc = pc
    BY <1>1, ZenonT(60) DEF Go, Operation
  <2> QED BY <1>2, <2>2, <2>3, <2>4
<1>7. CASE Request \/ RefusalUnnoticed
  <2> DEFINE pc == IF drv \in {"ali", "ali_open"} /\ op.todo # <<>> THEN "resolve" ELSE "finish"
  <2>1. \/ Go(Served(tree, op.req), cache, [op EXCEPT !.pc = pc])
        \/ Go(tree, cache, [[op EXCEPT !.pc = pc] EXCEPT !.clean = FALSE])
    BY <1>7 DEF Request, RefusalUnnoticed, Answered
  <2>2. pc \notin Mkdirs
    BY <1>4
  <2> HIDE DEF pc
  <2> QED BY <1>3, <2>1, <2>2
<1>8. CASE TaskSubmit \/ checkTaskSuccess
  BY <1>3, <1>4, <1>8 DEF TaskSubmit, checkTaskSuccess
<1>9. CASE AnswerLost
  BY <1>4, <1>9 DEF AnswerLost, NoOp
<1>10. CASE Finish
  <2>1. op.stack = <<>>
    BY DEF IInv, Places, BatchPlaces
  <2>2. \/ Return("panic", cache, RootObj) \/ Return("ok", Del(cache, op.dels), RootObj)
        \/ Go(tree, Del(cache, op.dels), [op EXCEPT !.pc = "resolve", !.dels = {}])
    BY <1>10, <2>1 DEF Finish
  <2>3. Go(tree, Del(cache, op.dels), [op EXCEPT !.pc = "resolve", !.dels = {}]) => op'.pc = "resolve"
    BY <1>1, ZenonT(60) DEF Go, Operation
  <2> QED BY <1>2, <1>4, <2>2, <2>3
<1> QED BY <1>5, <1>6, <1>7, <1>8, <1>9, <1>10, MoveStepsAre

\* What is not an undisturbed Mkdir does not become one.
LEMMA NotMaking ==
  ASSUME MInv, IInv', Steps, ~ (op.clean /\ op.pc \in Mkdirs)
  PROVE  Making'
<1>1. Keeps
  BY StepsKeep DEF MInv
<1>2. SUFFICES ASSUME op'.clean, op'.pc \in Mkdirs PROVE FALSE
  BY DEF Making
<1>3. op'.kind \in {"mkdir", "move"}
  BY <1>2 DEF IInv, Places, MkdirPlaces
<1>4. op.kind \in {"mkdir", "move"} /\ op.clean
  BY <1>1, <1>2, <1>3 DEF Keeps
<1>5. op.pc \notin Mkdirs
  BY <1>4
<1>6. op.kind = "move"
  BY <1>4, <1>5 DEF MInv, IInv, Places, MkdirPlaces
<1> QED BY <1>2, <1>5, <1>6, MovesOn DEF MInv

\* What else happens: a listing, the server's task, another client.
LEMMA OthersMaking ==
  ASSUME MInv, ServerTask \/ ListSome \/ Elsewhere
  PROVE  Making'
<1>1. op \in Operation(fresh)
  BY Now DEF MInv
<1>2. CASE op' = [op EXCEPT !.clean = FALSE]
  <2>1. op'.clean = FALSE
    BY <1>1, <1>2 DEF Operation
  <2> QED BY <2>1 DEF Making
<1>3. CASE ServerTask
  <2>1. CASE op.pc # "task"
    BY <1>2, <1>3, <2>1 DEF ServerTask, TaskRuns
  <2>2. CASE op.pc = "task"
    <3>1. \E t2 : Go(t2, cache, op)
      BY <1>3, <2>2 DEF ServerTask, TaskRuns
    <3>2. op'.pc = "task"
      BY <1>1, <2>2, <3>1 DEF Go, Operation
    <3> QED BY <3>2 DEF Making, Mkdirs
  <2> QED BY <2>1, <2>2
<1>4. CASE ListSome
  <2>1. CASE op.clean /\ op.pc \in Mkdirs
    BY <1>4, <2>1, MakingLists
  <2>2. CASE ~ (op.clean /\ op.pc \in Mkdirs)
    <3>1. \E ts : op' = [op EXCEPT !.touched = ts]
      BY <1>4 DEF ListSome, ListDir
    <3>2. op'.clean = op.clean /\ op'.pc = op.pc
      BY <1>1, <3>1 DEF Operation
    <3> QED BY <2>2, <3>2 DEF Making
  <2> QED BY <2>1, <2>2
<1>5. CASE Elsewhere
  BY <1>2, <1>5, ZenonT(60) DEF Elsewhere, Changed
<1> QED BY <1>3, <1>4, <1>5

\* Nothing happens.
LEMMA MakingStutters ==
  ASSUME MInv, UNCHANGED vars
  PROVE  Making'
<1>1. op' = op /\ UNCHANGED <<drv, tree, task, cache>>
  BY DEF vars
<1>2. CASE op.clean /\ op.pc \in Mkdirs
  <2>1. op.pc = "mkdir" /\ drv # "baidu" => Right(cache)'
    BY <1>1, <1>2, SameRight DEF MInv, Making
  <2>2. op.pc # "mkdir" => \E k : Under(k)'
    BY <1>1, <1>2 DEF MInv, Making, Under
  <2>3. op.pc \in {"find", "create", "made"} /\ drv # "baidu" => \E H : Unseen(H)'
    <3>1. ASSUME NEW H, Unseen(H) PROVE Unseen(H)'
      BY <1>1, <3>1, SameUnseen DEF Unseen
    <3> QED BY <1>2, <3>1 DEF MInv, Making
  <2>4. op.pc = "find" => drv = "quark"
    BY <1>2 DEF MInv, Making
  <2> QED BY <1>1, <1>2, <2>1, <2>2, <2>3, <2>4, MakingGoes
<1>3. CASE ~ (op.clean /\ op.pc \in Mkdirs)
  BY <1>1, <1>3 DEF Making
<1> QED BY <1>2, <1>3

\* The invariant of Mkdir is inductive.
LEMMA MInductive ==
  MInv /\ [Next]_vars => MInv'
<1> SUFFICES ASSUME MInv, [Next]_vars PROVE MInv'
  OBVIOUS
<1>1. IInv'
  BY Inductive DEF MInv
<1> SUFFICES Making'
  BY <1>1 DEF MInv
<1>2. CASE BeginRename \/ BeginMove \/ BeginDelete \/ BeginMkdir \/ BeginBatch
  BY <1>2, BeginsMaking DEF MInv
<1>3. CASE Steps
  BY <1>1, <1>3, MakingSteps, NotMaking
<1>4. CASE ServerTask \/ ListSome \/ Elsewhere
  BY <1>4, OthersMaking
<1>5. CASE UNCHANGED vars
  BY <1>5, MakingStutters
<1> QED BY <1>2, <1>3, <1>4, <1>5 DEF Next

\* At the start no Mkdir runs.
LEMMA MInitially ==
  Init => MInv
<1>1. Init => op.pc = "idle"
  BY DEF Init, NoOp
<1> QED BY <1>1, Initially DEF MInv, Making, Mkdirs

\* A Mkdir that returns nil has got to where it was to go.
LEMMA ReturnsThere ==
  ASSUME MInv, [Next]_vars, op.clean, op.kind = "mkdir", op'.pc = "idle", op'.res = "ok"
  PROVE  Extends /\ tree' = tree /\ NodeAt(tree, op.path) = op'.dst.id
<1>1. op \in Operation(fresh) /\ op.pc \in Mkdirs /\ op.pc # "idle"
  BY Now DEF MInv, IInv, Places, MkdirPlaces, Mkdirs
<1>2. Extends
  BY <1>1 DEF MInv, Making
<1>3. Steps
  BY <1>1, EndsItself
<1> QED BY <1>1, <1>2, <1>3, MakingSteps DEF Arrived

------------------------------------------------------------------------------
(* Paths in a tree whose nodes are moved. *)

\* A prefix of a path is a prefix of the path one component shorter, or the whole.
LEMMA PrefixUp ==
  ASSUME NEW p \in Seq(Names), NEW q \in Seq(Names), NEW nm \in Names, IsPrefix(p, Append(q, nm))
  PROVE  p = Append(q, nm) \/ IsPrefix(p, q)
<1> DEFINE r == Append(q, nm)
<1>1. /\ r \in Seq(Names) /\ Len(r) = Len(q) + 1 /\ Len(p) \in Nat /\ Len(q) \in Nat
      /\ \A i \in 1..Len(q) : r[i] = q[i]
  OBVIOUS
<1> HIDE DEF r
<1>2. Len(p) <= Len(r) /\ SubSeq(p, 1, Len(p)) = SubSeq(r, 1, Len(p))
  BY DEF IsPrefix, r
<1>3. SubSeq(p, 1, Len(p)) = p
  OBVIOUS
<1>4. CASE Len(p) = Len(r)
  <2>1. SubSeq(r, 1, Len(r)) = r
    BY <1>1
  <2> QED BY <1>2, <1>3, <1>4, <2>1 DEF r
<1>5. CASE Len(p) # Len(r)
  <2>1. Len(p) <= Len(q) /\ Len(p) \in 0..Len(q)
    BY <1>1, <1>2, <1>5
  <2>2. SubSeq(r, 1, Len(p)) = SubSeq(q, 1, Len(p))
    BY <1>1, <2>1
  <2> QED BY <1>2, <2>1, <2>2 DEF IsPrefix
<1> QED BY <1>4, <1>5

\* What is below a node is inside of what the node is inside of.
LEMMA InsideBelow ==
  ASSUME NEW n, NEW t, TreeOK(t, n), NEW ids, NEW k \in Inside(t, ids), NEW d \in Nodes(t),
         IsPrefix(PathOf(t, k), PathOf(t, d))
  PROVE  d \in Inside(t, ids)
<1> DEFINE S == {j \in DOMAIN t : IsPrefix(PathOf(t, k), PathOf(t, j)) /\ j \notin Inside(t, ids)}
<1>1. Shape(t, n) /\ Hangs(t) /\ Root \notin DOMAIN t
  BY DEF TreeOK, Shape, Root
<1>2. k \in DOMAIN t /\ \A j \in DOMAIN t : t[j].parent \in Inside(t, ids) => j \in Inside(t, ids)
  BY InsideIs
<1>3. /\ PathOf(t, Root) = <<>> /\ \A j \in Nodes(t) : PathOf(t, j) \in Seq(Names)
      /\ \A j \in DOMAIN t : /\ t[j].parent \in Nodes(t) /\ t[j].name \in Names
                             /\ PathOf(t, j) = Append(PathOf(t, t[j].parent), t[j].name)
  BY <1>1, PathIs
<1>4. ~IsPrefix(PathOf(t, k), PathOf(t, Root))
  <2>1. SUFFICES ASSUME IsPrefix(PathOf(t, k), <<>>) PROVE FALSE
    BY <1>3
  <2>2. Len(PathOf(t, k)) <= 0 /\ PathOf(t, k) \in Seq(Names)
    BY <1>2, <1>3, <2>1 DEF IsPrefix, Nodes
  <2>3. PathOf(t, k) = PathOf(t, Root)
    BY <1>3, <2>2
  <2> QED BY <1>1, <1>2, <2>3, PathsDiffer DEF Nodes
<1>5. ASSUME NEW j \in DOMAIN t, t[j].parent \notin S, j \in S PROVE FALSE
  <2>1. /\ t[j].parent \in Nodes(t) /\ t[j].name \in Names /\ PathOf(t, j) = Append(PathOf(t, t[j].parent), t[j].name)
        /\ PathOf(t, t[j].parent) \in Seq(Names) /\ PathOf(t, k) \in Seq(Names)
    BY <1>2, <1>3 DEF Nodes
  <2>2. IsPrefix(PathOf(t, k), PathOf(t, j)) /\ j \notin Inside(t, ids)
    BY <1>5
  <2>3. PathOf(t, k) # PathOf(t, j)
    <3>1. j # k
      BY <2>2
    <3> QED BY <1>2, <3>1, PathsDiffer DEF Nodes
  <2>4. IsPrefix(PathOf(t, k), PathOf(t, t[j].parent))
    BY <2>1, <2>2, <2>3, PrefixUp
  <2>5. t[j].parent \in DOMAIN t
    BY <1>4, <2>1, <2>4 DEF Nodes
  <2>6. t[j].parent \in Inside(t, ids)
    BY <1>5, <2>4, <2>5
  <2> QED BY <1>2, <2>2, <2>6
<1>6. S = {}
  <2>1. S \in SUBSET DOMAIN t
    OBVIOUS
  <2> HIDE DEF S
  <2> QED BY <1>1, <1>5, <2>1, AllBelow
<1>7. d \in DOMAIN t
  BY <1>4 DEF Nodes
<1> QED BY <1>6, <1>7

\* What is not inside of what is moved keeps its path.
LEMMA MovedPaths ==
  ASSUME NEW n, NEW t, TreeOK(t, n), NEW ids, NEW dst, TreeOK(Moved(t, ids, dst), n)
  PROVE  \A k \in Nodes(t) \ Inside(t, ids) : PathOf(Moved(t, ids, dst), k) = PathOf(t, k)
<1> DEFINE t2 == Moved(t, ids, dst)
           S == {k \in DOMAIN t \ Inside(t, ids) : PathOf(t2, k) # PathOf(t, k)}
<1>1. Shape(t, n) /\ Hangs(t) /\ Shape(t2, n)
  BY DEF TreeOK, Shape
<1>2. DOMAIN t2 = DOMAIN t /\ \A k \in DOMAIN t \ ids : t2[k] = t[k]
  BY DEF Moved
<1> HIDE DEF t2
<1>3. /\ PathOf(t, Root) = <<>> /\ PathOf(t2, Root) = <<>>
      /\ \A k \in DOMAIN t : /\ t[k].parent \in Nodes(t)
                             /\ PathOf(t, k) = Append(PathOf(t, t[k].parent), t[k].name)
      /\ \A k \in DOMAIN t2 : PathOf(t2, k) = Append(PathOf(t2, t2[k].parent), t2[k].name)
  BY <1>1, PathIs
<1>4. /\ ids \cap DOMAIN t \subseteq Inside(t, ids)
      /\ \A k \in DOMAIN t : t[k].parent \in Inside(t, ids) => k \in Inside(t, ids)
  BY InsideIs
<1>5. ASSUME NEW k \in DOMAIN t, t[k].parent \notin S, k \in S PROVE FALSE
  <2>1. k \notin Inside(t, ids) /\ PathOf(t2, k) # PathOf(t, k)
    BY <1>5
  <2>2. t2[k] = t[k] /\ t[k].parent \notin Inside(t, ids)
    BY <1>2, <1>4, <2>1
  <2>3. PathOf(t2, t[k].parent) = PathOf(t, t[k].parent)
    BY <1>3, <1>5, <2>2 DEF Nodes
  <2> QED BY <1>2, <1>3, <2>1, <2>2, <2>3
<1>6. S = {}
  <2>1. S \in SUBSET DOMAIN t
    OBVIOUS
  <2> HIDE DEF S
  <2> QED BY <1>1, <1>5, <2>1, AllBelow
<1>7. \A k \in Nodes(t) \ Inside(t, ids) : PathOf(t2, k) = PathOf(t, k)
  BY <1>3, <1>6 DEF Nodes
<1> QED BY <1>7 DEF t2

------------------------------------------------------------------------------
(***************************************************************************)
(* What Move is about to do.  While it runs undisturbed the tree is what   *)
(* it was when the operation began, but for the objects D it has dealt     *)
(* with and the directories made on the way to the target (Shifted); this  *)
(* is so of the tree as it will be when the request in flight is served    *)
(* (Upshot).  The listings it looks through are right until its first         *)
(* request; after that it needs none, since only an operation on a single  *)
(* object has no ids.                                                      *)
(***************************************************************************)
ByPath == {"baidu", "cloudreve"}

\* The node that is the target: two drivers name it by its path.
Aim ==
  LET at == IF drv \in ByPath THEN NodeAt(op.snap, Full(op.dst)) ELSE op.dst.id
  IN IF at = NoId THEN op.dst.id ELSE at

Shifted(t, D) ==
  /\ DOMAIN op.snap \subseteq DOMAIN t
  /\ \A k \in DOMAIN op.snap :
       t[k] = IF k \in Ids(D) THEN [op.snap[k] EXCEPT !.parent = Aim] ELSE op.snap[k]
  /\ Grown(t, op.path)
  /\ DOMAIN t \subseteq DOMAIN op.snap \/ (drv # "baidu" /\ Aim \in Nodes(t) /\ PathOf(t, Aim) = op.path)
  /\ drv \in ByPath => NodeAt(t, Full(op.dst)) \in {Aim, NoId}

Upshot ==
  IF op.pc = "request" THEN Served(tree, op.req) ELSE IF task = NoReq THEN tree ELSE Served(tree, task)

Ready(D) == (D = {} /\ Right(cache)) \/ (drv # "baidu" /\ \A o \in op.objs : o.id # NoId)

Shift(D) ==
  /\ op.objs = D \cup Range(op.todo)
  /\ op.pc = "resolve" => Ready(D)
  /\ op.pc # "task" => task = NoReq
  /\ task # NoReq => task = op.req /\ Valid(tree, task)
  /\ (op.pc = "request" => Valid(tree, op.req)) => Shifted(Upshot, D)

\* Only a single object is given by its path.
Alone ==
  \A o \in op.objs : drv # "baidu" /\ o.id = NoId =>
    (IF op.pc \in Mkdirs \cup {"resolve"} THEN Tail(op.todo) ELSE op.todo) = <<>>

Moving == op.clean /\ op.kind = "move"

Shifts ==
  Moving =>
    /\ op.res # "ok" /\ op.pc \in Mkdirs \cup {"resolve"} \cup Sending
    /\ \E n : TreeOK(op.snap, n)
    /\ Alone /\ \A o \in op.objs : Known(o)
    /\ IF op.pc \in Mkdirs THEN op.objs = Range(op.todo) ELSE \E D : Shift(D)

VInv == MInv /\ Shifts

------------------------------------------------------------------------------
(* The requests of a Move. *)

\* As long as nothing is moved, a path names the node it named before, if any.
LEMMA SoughtIs ==
  ASSUME Types, NEW n, TreeOK(op.snap, n), DOMAIN op.snap \subseteq DOMAIN tree,
         \A k \in DOMAIN op.snap : tree[k] = op.snap[k], NEW o
  PROVE  {Sought(o)} \cap DOMAIN op.snap = {Meant(o)} \cap DOMAIN op.snap
<1> DEFINE s == op.snap  p == Full(o)
<1>1. CASE ~ (drv = "baidu" \/ o.id = NoId)
  BY <1>1 DEF Sought, Meant
<1>2. CASE drv = "baidu" \/ o.id = NoId
  <2>1. Sought(o) = NodeAt(tree, p) /\ Meant(o) = NodeAt(s, p)
    BY <1>2 DEF Sought, Meant
  <2>2. TreeOK(tree, fresh) /\ Shape(tree, fresh) /\ TreeOK(s, n) /\ Shape(s, n)
    BY DEF Types, TreeOK
  <2>3. \A i \in Nodes(s) : i \in Nodes(tree) /\ PathOf(tree, i) = PathOf(s, i)
    BY <2>2, SamePaths
  <2>4. /\ \A i \in Nodes(tree) : NodeAt(tree, PathOf(tree, i)) = i
        /\ (\A i \in Nodes(tree) : PathOf(tree, i) # p) => NodeAt(tree, p) = NoId
        /\ \A i \in Nodes(s) : NodeAt(s, PathOf(s, i)) = i
        /\ (\A i \in Nodes(s) : PathOf(s, i) # p) => NodeAt(s, p) = NoId
    BY <2>2, NodeAtIs
  <2>5. NoId \notin DOMAIN s
    BY <2>2, ShapeIs DEF NoId
  <2> HIDE DEF s, p
  <2>6. CASE \E i \in Nodes(s) : PathOf(s, i) = p
    BY <2>1, <2>3, <2>4, <2>6
  <2>7. CASE \A i \in Nodes(s) : PathOf(s, i) # p
    <3>1. Meant(o) \notin DOMAIN s
      BY <2>1, <2>4, <2>5, <2>7
    <3>2. ASSUME Sought(o) \in DOMAIN s PROVE FALSE
      <4>1. PICK i \in Nodes(tree) : PathOf(tree, i) = p
        BY <2>1, <2>3, <2>4, <2>5, <3>2 DEF Nodes
      <4>2. NodeAt(tree, p) = i
        BY <2>4, <4>1
      <4>3. i \in Nodes(s)
        BY <2>1, <3>2, <4>2 DEF Nodes
      <4> QED BY <2>3, <2>7, <4>1, <4>3
    <3> QED BY <3>1, <3>2 DEF s
  <2> QED BY <2>6, <2>7 DEF s
<1> QED BY <1>1, <1>2

\* A request that moves the objects E to the target.
LEMMA MoveServed ==
  ASSUME Types, NEW n, TreeOK(op.snap, n), NEW D, Shifted(tree, D), NEW E,
         NEW r \in Request_(fresh), r.do = "move", r.dst = op.dst, Valid(tree, r),
         \A k \in DOMAIN op.snap : k \in Targets(tree, r) <=> k \in Ids(E)
  PROVE  Shifted(Served(tree, r), D \cup E)
<1> DEFINE t == tree  s == op.snap  ids == Targets(t, r)  dst == Dst(t, r)  t2 == Moved(t, ids, dst)
<1>1. /\ ids \subseteq DOMAIN t /\ IsDir(t, dst) /\ dst \notin Inside(t, ids) /\ Served(t, r) = t2
  BY DEF Valid, Served
<1>2. TreeOK(t, fresh) /\ TreeOK(t2, fresh) /\ DOMAIN t2 = DOMAIN t
      /\ \A k \in DOMAIN t : t2[k] = IF k \in ids THEN [t[k] EXCEPT !.parent = dst] ELSE t[k]
  <2>1. TreeOK(t, fresh) /\ fresh \in Nat /\ r # NoReq
    BY DriveParameters DEF Types, NoReq
  <2>2. TreeOK(Served(t, r), fresh)
    BY <2>1, ServedIs
  <2> QED BY <1>1, <2>1, <2>2 DEF Moved
<1>3. (\A k \in DOMAIN s : s[k] \in Node) /\ NoId \notin DOMAIN t /\ NoId # Root
  BY <1>2, TreeIs DEF NoId, Root
<1>4. dst \in Nodes(t) /\ dst # NoId
  BY <1>1, <1>3 DEF IsDir, Nodes
<1>5. dst = Aim
  <2>1. CASE drv \in ByPath
    <3>1. dst = NodeAt(t, Full(op.dst))
      BY <2>1 DEF Dst, NodeOf, ByPath
    <3> QED BY <1>4, <2>1, <3>1 DEF Shifted
  <2>2. CASE drv \notin ByPath
    BY <2>2 DEF Dst, NodeOf, ByPath, Aim
  <2> QED BY <2>1, <2>2
<1>6. \A k \in Nodes(t) \ Inside(t, ids) : PathOf(t2, k) = PathOf(t, k)
  BY <1>2, MovedPaths
<1> HIDE DEF ids, dst, t2
<1>7. /\ DOMAIN s \subseteq DOMAIN t
      /\ \A k \in DOMAIN s : t[k] = IF k \in Ids(D) THEN [s[k] EXCEPT !.parent = Aim] ELSE s[k]
      /\ \A k \in DOMAIN t \ DOMAIN s : t[k].type = "dir" /\ IsPrefix(PathOf(t, k), op.path)
      /\ DOMAIN t \subseteq DOMAIN s \/ (drv # "baidu" /\ Aim \in Nodes(t) /\ PathOf(t, Aim) = op.path)
  BY DEF Shifted, Grown
<1>8. \A k \in DOMAIN s : t2[k] = IF k \in Ids(D \cup E) THEN [s[k] EXCEPT !.parent = Aim] ELSE s[k]
  <2>1. Ids(D \cup E) = Ids(D) \cup Ids(E)
    BY DEF Ids
  <2>2. ASSUME NEW k \in DOMAIN s
        PROVE  t2[k] = IF k \in Ids(D) \cup Ids(E) THEN [s[k] EXCEPT !.parent = Aim] ELSE s[k]
    <3>1. s[k] \in Node
      BY <1>3
    <3>2. [[s[k] EXCEPT !.parent = Aim] EXCEPT !.parent = Aim] = [s[k] EXCEPT !.parent = Aim]
      <4>1. \A x \in Node : \A a : [[x EXCEPT !.parent = a] EXCEPT !.parent = a] = [x EXCEPT !.parent = a]
        BY DEF Node
      <4> QED BY <3>1, <4>1, Zenon
    <3>3. k \in ids <=> k \in Ids(E)
      BY DEF ids
    <3>4. /\ t[k] = IF k \in Ids(D) THEN [s[k] EXCEPT !.parent = Aim] ELSE s[k]
          /\ t2[k] = IF k \in ids THEN [t[k] EXCEPT !.parent = Aim] ELSE t[k]
      BY <1>2, <1>5, <1>7
    <3> QED BY <3>2, <3>3, <3>4
  <2> QED BY <2>1, <2>2
<1>9. ASSUME NEW k \in DOMAIN t \ DOMAIN s
      PROVE  k \notin Inside(t, ids) /\ t2[k] = t[k]
  <2>1. /\ Aim \in Nodes(t) /\ IsPrefix(PathOf(t, k), PathOf(t, Aim))
    BY <1>7, <1>9
  <2>2. k \notin Inside(t, ids)
    BY <1>1, <1>2, <1>5, <2>1, InsideBelow DEF dst, ids
  <2>3. k \notin ids
    BY <2>2, InsideIs
  <2> QED BY <1>2, <2>2, <2>3
<1>10. \A k \in DOMAIN t2 \ DOMAIN s : t2[k].type = "dir" /\ IsPrefix(PathOf(t2, k), op.path)
  BY <1>2, <1>6, <1>7, <1>9 DEF Nodes
<1>11. PathOf(t2, Aim) = PathOf(t, Aim) /\ Aim \in Nodes(t2)
  BY <1>1, <1>2, <1>4, <1>5, <1>6 DEF Nodes, ids, dst
<1>12. drv \in ByPath => NodeAt(t2, Full(op.dst)) \in {Aim, NoId}
  <2>1. ASSUME drv \in ByPath PROVE NodeAt(t2, Full(op.dst)) = Aim
    <3>1. Aim = NodeAt(t, Full(op.dst))
      BY <1>5, <2>1 DEF Dst, NodeOf, ByPath, dst
    <3>2. PathOf(t, Aim) = Full(op.dst)
      BY <1>2, <1>4, <1>5, <3>1, NodeAtIs
    <3> QED BY <1>2, <1>11, <3>2, NodeAtIs
  <2> QED BY <2>1
<1>13. Shifted(t2, D \cup E)
  BY <1>2, <1>7, <1>8, <1>10, <1>11, <1>12 DEF Shifted, Grown, Nodes
<1> QED BY <1>1, <1>13 DEF t2, ids, dst

\* What the request names is what the objects E stand for, so it is what the caller means.
LEMMA NamesMeant ==
  ASSUME Types, NEW n, TreeOK(op.snap, n), NEW D, Ready(D), Shifted(tree, D), NEW E \in SUBSET op.objs,
         NEW ids, ids \cap DOMAIN tree = {Sought(o) : o \in E} \cap DOMAIN tree
  PROVE  \A k \in DOMAIN op.snap : k \in ids <=> k \in Ids(E)
<1>1. DOMAIN op.snap \subseteq DOMAIN tree
  BY DEF Shifted
<1>2. \A o \in E : {Sought(o)} \cap DOMAIN op.snap = {Meant(o)} \cap DOMAIN op.snap
  <2>1. CASE D = {}
    <3>1. Ids(D) = {}
      BY <2>1 DEF Ids
    <3>2. \A k \in DOMAIN op.snap : tree[k] = op.snap[k]
      BY <3>1 DEF Shifted
    <3> QED BY <1>1, <3>2, SoughtIs
  <2>2. CASE drv # "baidu" /\ \A o \in op.objs : o.id # NoId
    BY <2>2 DEF Sought, Meant
  <2> QED BY <2>1, <2>2 DEF Ready
<1>3. \A k \in DOMAIN op.snap : (\E o \in E : k = Sought(o)) <=> (\E o \in E : k = Meant(o))
  BY <1>2
<1> QED BY <1>1, <1>3 DEF Ids

------------------------------------------------------------------------------
(* The steps of a Move. *)

\* What operators of the state mean is the same as long as the operation is.
LEMMA SameShift ==
  ASSUME op'.snap = op.snap, op'.path = op.path, op'.dst = op.dst, drv' = drv
  PROVE  /\ \A o : Known(o)' = Known(o)
         /\ \A t, r : Served(t, r)' = Served(t, r) /\ Valid(t, r)' = Valid(t, r)
         /\ \A t, D : Shifted(t, D)' = Shifted(t, D)
<1>1. \A t, o : NodeOf(t, o)' = NodeOf(t, o)
  BY DEF NodeOf
<1>2. \A t, r : Targets(t, r)' = Targets(t, r) /\ Dst(t, r)' = Dst(t, r)
  BY <1>1 DEF Targets, Dst
<1>3. Aim' = Aim
  BY DEF Aim
<1>4. \A o : Meant(o)' = Meant(o)
  BY DEF Meant
<1>5. \A D : Ids(D)' = Ids(D)
  BY <1>4 DEF Ids
<1>6. \A t : Grown(t, op.path)' = Grown(t, op.path)
  BY DEF Grown
<1>7. \A t, D : Shifted(t, D)' = Shifted(t, D)
  BY <1>3, <1>5, <1>6 DEF Shifted
<1>8. ASSUME NEW t, NEW r PROVE Served(t, r)' = Served(t, r) /\ Valid(t, r)' = Valid(t, r)
  <2>1. Targets(t, r)' = Targets(t, r) /\ Dst(t, r)' = Dst(t, r)
    BY <1>2
  <2>2. Served(t, r)' = Served(t, r)
    BY <2>1 DEF Served
  <2>3. Valid(t, r)' = Valid(t, r)
    BY <2>1 DEF Valid
  <2> QED BY <2>2, <2>3
<1>9. \A o : Known(o)' = Known(o)
  BY DEF Known
<1> QED BY <1>7, <1>8, <1>9

\* The Move goes on.
LEMMA ShiftGoes ==
  ASSUME VInv, Moving, op.pc \notin Mkdirs, UNCHANGED drv,
         op'.kind = op.kind, op'.snap = op.snap, op'.path = op.path, op'.dst = op.dst, op'.objs = op.objs,
         op'.res = op.res, op'.pc \in {"resolve"} \cup Sending, NEW D, op.objs = D \cup Range(op'.todo),
         \A o \in op.objs : drv # "baidu" /\ o.id = NoId =>
           (IF op'.pc = "resolve" THEN Tail(op'.todo) ELSE op'.todo) = <<>>,
         op'.pc = "resolve" => Ready(D)', op'.pc # "task" => task' = NoReq,
         task' # NoReq => task' = op'.req /\ Valid(tree', task'),
         (op'.pc = "request" => Valid(tree', op'.req)) =>
           Shifted(IF op'.pc = "request" THEN Served(tree', op'.req)
                   ELSE IF task' = NoReq THEN tree' ELSE Served(tree', task'), D)
  PROVE  Shifts'
<1>1. /\ \A o : Known(o)' = Known(o)
      /\ \A t, r : Served(t, r)' = Served(t, r) /\ Valid(t, r)' = Valid(t, r)
      /\ \A t, E : Shifted(t, E)' = Shifted(t, E)
  BY SameShift
<1>2. op'.pc \notin Mkdirs /\ op'.pc \in Mkdirs \cup {"resolve"} \cup Sending
  BY DEF Sending, Mkdirs
<1>3. /\ op.res # "ok" /\ (\E n : TreeOK(op.snap, n)) /\ \A o \in op.objs : Known(o)
  BY DEF VInv, Shifts
<1>4. Alone'
  BY <1>2 DEF Alone
<1>5. (op'.pc = "request" => Valid(tree, op.req)') => Shifted(Upshot, D)'
  BY <1>1 DEF Upshot
<1>6. task' # NoReq => Valid(tree, task)'
  BY <1>1
<1>7. Shift(D)'
  BY <1>5, <1>6 DEF Shift
<1>8. /\ \A o \in op'.objs : Known(o)'
      /\ \E n : TreeOK(op.snap, n)'
  BY <1>1, <1>3
<1> QED BY <1>2, <1>3, <1>4, <1>7, <1>8 DEF Shifts

\* Other operations, and disturbed ones.
LEMMA NotMoving ==
  ASSUME op'.clean => op'.kind # "move"
  PROVE  Shifts'
BY DEF Shifts, Moving

\* What a Move has before it looks through the listings.
LEMMA MoveReady ==
  ASSUME VInv, Moving, op.pc = "resolve", NEW D, Shift(D)
  PROVE  /\ Types /\ op \in Operation(fresh) /\ op.todo \in Seq(Object(fresh)) /\ op.todo # <<>>
         /\ cache \in Caches(fresh) /\ op.objs = D \cup Range(op.todo) /\ Ready(D) /\ Shifted(tree, D)
         /\ Head(op.todo) \in Object(fresh) /\ Range(op.todo) = {Head(op.todo)} \cup Range(Tail(op.todo))
         /\ Range(<<>>) = {} /\ drv \in AllDrivers /\ task = NoReq
         /\ \A o \in op.objs : Known(o) /\ (drv # "baidu" /\ o.id = NoId => Tail(op.todo) = <<>>)
<1>1. Types /\ op \in Operation(fresh) /\ cache \in Caches(fresh) /\ drv \in AllDrivers
  BY Now, DriveParameters DEF VInv, MInv, Types
<1>2. /\ op.todo \in Seq(Object(fresh)) /\ op.todo # <<>>
  BY <1>1 DEF VInv, MInv, IInv, Places, SendPlaces, Operation
<1>3. Head(op.todo) \in Object(fresh) /\ Range(op.todo) = {Head(op.todo)} \cup Range(Tail(op.todo))
  BY <1>2, TailIs
<1>4. op.objs = D \cup Range(op.todo) /\ Ready(D) /\ task = NoReq /\ Shifted(tree, D)
  BY DEF Shift, Upshot
<1>5. \A o \in op.objs : Known(o) /\ (drv # "baidu" /\ o.id = NoId => Tail(op.todo) = <<>>)
  BY DEF VInv, Shifts, Alone
<1>6. Range(<<>>) = {}
  BY DEF Range
<1> QED BY <1>1, <1>2, <1>3, <1>4, <1>5, <1>6

\* A request for the objects E, found by the listings.
LEMMA MoveAsks ==
  ASSUME VInv, Types', Moving, op.pc = "resolve", UNCHANGED drv, NEW D, Shift(D), NEW p, NEW rest,
         Resolve(p, rest), NEW E \in SUBSET op.objs, op.objs = (D \cup E) \cup Range(rest),
         \A o \in op.objs : drv # "baidu" /\ o.id = NoId => rest = <<>>,
         p.ok => /\ p.req.do = "move" /\ p.req.dst = op.dst
                 /\ Targets(tree, p.req) \cap DOMAIN tree = {Sought(o) : o \in E} \cap DOMAIN tree
  PROVE  Shifts'
<1>1. Types /\ op \in Operation(fresh) /\ Ready(D) /\ Shifted(tree, D) /\ task = NoReq
  BY MoveReady
<1>2. PICK n : TreeOK(op.snap, n)
  BY DEF VInv, Shifts
<1>3. CASE ~p.ok
  BY <1>3, ReturnIs, NotMoving DEF Resolve
<1>4. CASE p.ok
  <2> DEFINE pc == IF p.req = NoReq THEN "finish" ELSE "request"  dels == op.dels \cup p.dels
             o2 == [op EXCEPT !.pc = pc, !.req = p.req, !.dels = dels, !.panic = p.panic, !.todo = rest]
  <2>1. p.req # NoReq
    BY <1>4 DEF NoReq
  <2>2. /\ Go(tree, p.cache, o2) /\ UNCHANGED <<fresh, task>>
    BY <1>4 DEF Resolve
  <2>3. pc = "request"
    BY <2>1
  <2> HIDE DEF pc, dels
  <2>4. /\ op'.kind = op.kind /\ op'.snap = op.snap /\ op'.path = op.path /\ op'.dst = op.dst
        /\ op'.objs = op.objs /\ op'.res = op.res /\ op'.pc = pc /\ op'.todo = rest /\ op'.req = p.req
        /\ tree' = tree
    BY <1>1, <2>2 DEF Go, Operation
  <2>5. p.req \in Request_(fresh)
    <3>1. op' \in Operation(fresh)
      BY <2>2 DEF Types
    <3> QED BY <2>4, <3>1 DEF Operation
  <2>6. \A k \in DOMAIN op.snap : k \in Targets(tree, p.req) <=> k \in Ids(E)
    BY <1>1, <1>2, <1>4, NamesMeant
  <2>7. Valid(tree, p.req) => Shifted(Served(tree, p.req), D \cup E)
    BY <1>1, <1>2, <1>4, <2>5, <2>6, MoveServed
  <2> DEFINE F == D \cup E
  <2>8. op.objs = F \cup Range(op'.todo) /\ (Valid(tree, p.req) => Shifted(Served(tree, p.req), F))
    BY <2>4, <2>7
  <2> HIDE DEF F
  <2>9. op.pc \notin Mkdirs /\ op'.pc \in {"resolve"} \cup Sending /\ task' = NoReq
    BY <1>1, <2>2, <2>3, <2>4 DEF Mkdirs, Sending
  <2> QED BY <2>3, <2>4, <2>8, <2>9, ShiftGoes
<1> QED BY <1>3, <1>4

\* A finite set as a sequence.
LEMMA SetInSeq ==
  ASSUME NEW S, IsFiniteSet(S)
  PROVE  SetToSeq(S) \in Seq(S) /\ Range(SetToSeq(S)) = S
<1> DEFINE n == Cardinality(S)
<1>1. n \in Nat /\ ExistsBijection(1..n, S)
  BY FS_CardinalityType
<1> HIDE DEF n
<1>2. PICK f \in [1..n -> S] : \A i, j \in 1..n : f[i] = f[j] => i = j
  BY <1>1 DEF ExistsBijection, Bijection, Injection, IsInjective
<1>3. IsInjective(f)
  BY <1>2 DEF IsInjective
<1>4. SetToSeq(S) \in [1..n -> S] /\ IsInjective(SetToSeq(S))
  BY <1>2, <1>3 DEF SetToSeq, n
<1>5. SetToSeq(S) \in SetToSeqs(S)
  BY <1>4 DEF IsInjective, SetToSeqs, n
<1> QED BY <1>5, TodoIs

\* An object is looked up in the same way by either of its paths.
LEMMA EitherPath ==
  ASSUME NEW c, NEW o, drv # "baidu", Known(o)
  PROVE  LookUp(c, o, Full(o)) = LookUp(c, o, Clean(o.path))
<1>1. CASE o.id \notin {Root, NoId}
  BY <1>1 DEF LookUp
<1>2. CASE o.id = Root
  <2>1. o = RootObj
    BY <1>2 DEF Known, Proper, Root, NoId
  <2>2. o.path = <<>>
    BY <2>1 DEF RootObj, Obj
  <2> QED BY <1>2, <2>2 DEF LookUp
<1>3. CASE o.id = NoId
  <2>1. o.name = NoName
    BY <1>3 DEF Known, Proper, RootObj, Obj, Root, NoId
  <2> QED BY <2>1 DEF Full
<1> QED BY <1>1, <1>2, <1>3

\* What each driver sends names the objects the caller means.
LEMMA MoveSends ==
  ASSUME VInv, Types', Moving, MoveResolve, UNCHANGED drv
  PROVE  Shifts'
<1> DEFINE todo == op.todo  hd == Head(todo)  r == Resolved(cache, hd)
           req(os) == Req("move", os, op.dst, NoName)
<1>1. op.pc = "resolve" /\ op.pc \notin Mkdirs
  <2>1. \A p, rest : Resolve(p, rest) => op.pc = "resolve"
    BY DEF Resolve
  <2>2. drv \in AllDrivers
    BY DriveParameters DEF VInv, MInv, IInv, Types
  <2> QED BY <2>1, <2>2 DEF MoveResolve, AllDrivers, Mkdirs
<1>2. PICK D : Shift(D)
  BY <1>1 DEF VInv, Shifts
<1>3. /\ Types /\ cache \in Caches(fresh) /\ todo \in Seq(Object(fresh)) /\ hd \in Object(fresh) /\ todo # <<>>
      /\ Range(todo) = {hd} \cup Range(Tail(todo)) /\ drv \in AllDrivers /\ Range(<<>>) = {}
      /\ op.objs = D \cup Range(todo) /\ Ready(D)
      /\ \A o \in op.objs : Known(o) /\ (drv # "baidu" /\ o.id = NoId => Tail(todo) = <<>>)
  BY <1>1, <1>2, MoveReady
<1>4. /\ \A os : /\ req(os).do = "move" /\ req(os).dst = op.dst
                 /\ Targets(tree, req(os)) = {NodeOf(tree, o) : o \in os}
      /\ \A c, os, dels : Plan(c, req(os), dels).req = req(os)
  BY DEF Req, Plan, Targets
<1> HIDE DEF todo, hd, r, req
\* A request for the objects E, the others later.
<1>5. ASSUME NEW c, NEW os, NEW dels, NEW rest, Resolve(Plan(c, req(os), dels), rest),
             NEW E \in SUBSET op.objs, op.objs = (D \cup E) \cup Range(rest),
             \A o \in op.objs : drv # "baidu" /\ o.id = NoId => rest = <<>>,
             {NodeOf(tree, o) : o \in os} \cap DOMAIN tree = {Sought(o) : o \in E} \cap DOMAIN tree
      PROVE  Shifts'
  <2> DEFINE p == Plan(c, req(os), dels)
  <2>1. /\ p.req.do = "move" /\ p.req.dst = op.dst
        /\ Targets(tree, p.req) \cap DOMAIN tree = {Sought(o) : o \in E} \cap DOMAIN tree
    BY <1>4, <1>5
  <2>2. Resolve(p, rest)
    BY <1>5
  <2> HIDE DEF p
  <2> QED BY <1>1, <1>2, <1>5, <2>1, <2>2, MoveAsks
\* quark, thunder and cloudreve: what is found of some of them
<1>6. ASSUME drv \in {"quark", "thunder", "cloudreve"}, NEW items \in Seq(Object(fresh)), Range(items) \subseteq op.objs,
             NEW h, h[0] = Nothing(cache),
             \A k \in 1..Len(items) :
               /\ h[k - 1] \in Bags(cache)
               /\ \E keys : h[k] = Collected(h[k - 1], LookUp(h[k - 1].cache, items[k], Clean(items[k].path)), keys)
      PROVE  {NodeOf(tree, o) : o \in h[Len(items)].objs} \cap DOMAIN tree
               = {Sought(o) : o \in Range(items)} \cap DOMAIN tree
  <2>1. \A i \in 1..Len(items) : items[i] \in op.objs
    BY <1>6 DEF Range
  <2>2. /\ \A i \in 1..Len(items) : Known(items[i])
        /\ Right(cache) \/ \A i \in 1..Len(items) : items[i].id # NoId
    BY <1>3, <2>1 DEF Ready
  <2>3. {o.id : o \in h[Len(items)].objs} \cap DOMAIN tree = {Sought(o) : o \in Range(items)} \cap DOMAIN tree
    BY <1>3, <1>6, <2>2, CollectsAll
  <2>4. \A o : NodeOf(tree, o) = o.id
    BY <1>6 DEF NodeOf
  <2> QED BY <2>3, <2>4
<1>7. FALSE \in BOOLEAN
  OBVIOUS
<1>8. Range(todo) \in SUBSET op.objs
  BY <1>3
<1>9. CASE drv \in {"quark", "thunder"}
  <2> DEFINE l == CollectItemIds(cache, todo, FALSE)
  <2>1. Resolve(Plan(l.cache, req(l.objs), l.keys), <<>>)
    BY <1>9 DEF MoveResolve, QuarkMove, ThunderMove, objectMove, move, req, todo
  <2>2. PICK h : Collects(h, cache, todo, FALSE) /\ l = h[Len(todo)]
    BY <1>3, <1>7, CollectItemIdsIs
  <2> HIDE DEF l
  <2>3. /\ h[0] = Nothing(cache)
        /\ \A k \in 1..Len(todo) :
             /\ h[k - 1] \in Bags(cache)
             /\ \E keys : h[k] = Collected(h[k - 1], LookUp(h[k - 1].cache, todo[k], Clean(todo[k].path)), keys)
    BY <2>2 DEF Collects, CollectItem
  <2>4. {NodeOf(tree, o) : o \in l.objs} \cap DOMAIN tree = {Sought(o) : o \in Range(todo)} \cap DOMAIN tree
    BY <1>3, <1>6, <1>8, <1>9, <2>2, <2>3
  <2> DEFINE rest == <<>>
  <2>5. Resolve(Plan(l.cache, req(l.objs), l.keys), rest) /\ op.objs = (D \cup Range(todo)) \cup Range(rest) /\ rest = <<>>
    BY <1>3, <2>1
  <2> HIDE DEF rest
  <2> QED BY <1>5, <1>8, <2>4, <2>5
<1>10. CASE drv = "cloudreve"
  <2> DEFINE same(src) == {o \in Range(todo) : o.path = src}  other(src) == {o \in Range(todo) : o.path # src}
             m(src) == Sources(cache, SameSrc(todo, src), FALSE)
  <2>1. PICK src \in {o.path : o \in Range(todo)} :
          Resolve(Plan(m(src).cache, req(m(src).objs), m(src).keys \cup {op.dst.id}), OtherSrc(todo, src))
    BY <1>10 DEF MoveResolve, CloudreveMove, cloudreveMove, req, todo
  <2> DEFINE items == SameSrc(todo, src)  rest == OtherSrc(todo, src)  l == m(src)
             E == same(src)  R == other(src)
  <2>2. /\ items \in Seq(E) /\ Range(items) = E /\ rest \in Seq(R) /\ Range(rest) = R
    <3>1. IsFiniteSet(Range(todo))
      BY <1>3, FiniteRange
    <3>2. IsFiniteSet(E) /\ IsFiniteSet(R)
      BY <3>1, FS_Subset
    <3> QED BY <3>2, SetInSeq DEF SameSrc, OtherSrc
  <2>3. E \in SUBSET op.objs /\ E \cup R = Range(todo) /\ E \subseteq Object(fresh)
    <3>1. Range(todo) \subseteq Object(fresh)
      BY <1>3 DEF Range
    <3> QED BY <1>3, <3>1
  <2>4. items \in Seq(Object(fresh))
    BY <2>2, <2>3
  <2>5. \A o \in op.objs : drv # "baidu" /\ o.id = NoId => rest = <<>>
    <3>1. ASSUME Tail(todo) = <<>> PROVE rest = <<>>
      <4>1. Range(todo) = {hd}
        BY <1>3, <3>1
      <4>2. R = {}
        BY <4>1
      <4> HIDE DEF R, rest
      <4> QED BY <2>2, <4>2
    <3> QED BY <1>3, <3>1
  <2>6. Resolve(Plan(l.cache, req(l.objs), l.keys \cup {op.dst.id}), rest)
    BY <2>1
  <2>7. PICK h : Gathers(h, cache, items, FALSE) /\ l = h[Len(items)]
    <3> HIDE DEF items
    <3> QED BY <1>3, <1>7, <2>4, SourcesIs DEF items
  <2> HIDE DEF l, items, rest, E, R
  <2>8. /\ h[0] = Nothing(cache)
        /\ \A k \in 1..Len(items) :
             /\ h[k - 1] \in Bags(cache)
             /\ \E keys : h[k] = Collected(h[k - 1], LookUp(h[k - 1].cache, items[k], Clean(items[k].path)), keys)
    <3>1. ASSUME NEW k \in 1..Len(items)
          PROVE  /\ h[k - 1] \in Bags(cache)
                 /\ \E keys : h[k] = Collected(h[k - 1], LookUp(h[k - 1].cache, items[k], Clean(items[k].path)), keys)
      <4>1. Known(items[k])
        BY <1>3, <2>2, <2>3
      <4>2. /\ h[k - 1] \in Bags(cache)
            /\ h[k] = Source(h[k - 1], items[k], LookUp(h[k - 1].cache, items[k], Full(items[k])), FALSE)
        BY <2>7 DEF Gathers
      <4>3. LookUp(h[k - 1].cache, items[k], Full(items[k])) = LookUp(h[k - 1].cache, items[k], Clean(items[k].path))
        BY <1>10, <4>1, EitherPath
      <4> QED BY <4>2, <4>3 DEF Source
    <3> QED BY <2>7, <3>1 DEF Gathers
  <2>9. {NodeOf(tree, o) : o \in l.objs} \cap DOMAIN tree = {Sought(o) : o \in E} \cap DOMAIN tree
    BY <1>6, <1>10, <2>2, <2>3, <2>4, <2>7, <2>8
  <2>10. op.objs = (D \cup E) \cup Range(rest)
    BY <1>3, <2>2, <2>3
  <2> QED BY <1>5, <2>3, <2>5, <2>6, <2>9, <2>10
<1>11. CASE drv = "baidu"
  <2> DEFINE dels == {o.path : o \in Range(todo)} \cup {BaiduKey(op.dst)}  rest == <<>>
  <2>1. Resolve(Plan(cache, req(Range(todo)), dels), rest) /\ op.objs = (D \cup Range(todo)) \cup Range(rest)
    BY <1>3, <1>11 DEF MoveResolve, BaiduMove, manage, req, todo
  <2>2. {NodeOf(tree, o) : o \in Range(todo)} = {Sought(o) : o \in Range(todo)}
    BY <1>11 DEF NodeOf, Sought
  <2> HIDE DEF dels, rest
  <2> QED BY <1>5, <1>8, <1>11, <2>1, <2>2
\* aliyundrive: the first of those left
<1>12. CASE drv \in Ali
  <2> DEFINE p == IF ~r.ok THEN Refuse(r.cache)
                  ELSE Plan(r.cache, req({r.obj}), ParentKey(r.obj) \cup {op.dst.id})
             rest == Tail(todo)
  <2>1. Resolve(p, rest)
    BY <1>12 DEF MoveResolve, AliMove, AliOpenMove, batch, Ali, r, req, hd, todo
  <2>2. {hd} \in SUBSET op.objs /\ op.objs = (D \cup {hd}) \cup Range(rest)
    BY <1>3
  <2>3. \A o \in op.objs : drv # "baidu" /\ o.id = NoId => rest = <<>>
    BY <1>3
  <2>4. CASE ~r.ok
    <3>1. ~p.ok
      BY <2>4 DEF Refuse, Plan
    <3> HIDE DEF p, rest
    <3> QED BY <1>1, <1>2, <2>1, <2>2, <2>3, <3>1, MoveAsks
  <2>5. CASE r.ok
    <3>1. NodeOf(tree, r.obj) = Sought(hd)
      <4>1. Right(cache) \/ hd.id # NoId
        BY <1>3, <2>2 DEF Ready
      <4> QED BY <1>3, <2>5, <4>1, ResolvedFinds DEF r
    <3>2. {NodeOf(tree, o) : o \in {r.obj}} = {Sought(o) : o \in {hd}}
      BY <3>1
    <3>3. Resolve(Plan(r.cache, req({r.obj}), ParentKey(r.obj) \cup {op.dst.id}), rest)
      BY <2>1, <2>5
    <3> HIDE DEF p, rest
    <3> QED BY <1>5, <2>2, <2>3, <3>2, <3>3
  <2> QED BY <2>4, <2>5
<1> QED BY <1>3, <1>9, <1>10, <1>11, <1>12 DEF AllDrivers, Ali

\* A request is answered, a task of quark's server goes on, or the next request is prepared.
LEMMA MoveGoesOn ==
  ASSUME VInv, Moving, UNCHANGED drv,
         \/ Request \/ TaskSubmit \/ (op.pc = "task" /\ TaskRuns) \/ checkTaskSuccess
         \/ Finish /\ ~op.panic /\ op.todo # <<>>
  PROVE  Shifts'
<1>1. op \in Operation(fresh) /\ op.kind = "move"
  BY Now DEF VInv, MInv, Moving
<1>2. op.pc \in {"request", "task", "finish"} /\ op.pc \notin Mkdirs /\ op.pc \in Sending
  BY DEF Request, TaskSubmit, checkTaskSuccess, Finish, Sending, Mkdirs
<1>3. PICK D : Shift(D)
  BY <1>2 DEF VInv, Shifts
<1>4. /\ op.objs = D \cup Range(op.todo) /\ (op.pc # "task" => task = NoReq)
      /\ task # NoReq => task = op.req /\ Valid(tree, task)
      /\ (op.pc = "request" => Valid(tree, op.req)) => Shifted(Upshot, D)
  BY <1>3 DEF Shift
<1>5. \A o \in op.objs : drv # "baidu" /\ o.id = NoId => op.todo = <<>>
  <2>1. op.pc \notin Mkdirs \cup {"resolve"}
    BY <1>2
  <2> QED BY <2>1 DEF VInv, Shifts, Alone
<1>6. op.todo # <<>> /\ drv # "baidu" => \A o \in op.objs : o.id # NoId
  BY <1>5
<1> DEFINE same == /\ op'.kind = op.kind /\ op'.snap = op.snap /\ op'.path = op.path /\ op'.dst = op.dst
                   /\ op'.objs = op.objs /\ op'.res = op.res /\ op'.todo = op.todo /\ op'.req = op.req
<1>7. ASSUME NEW t2, NEW pc, Go(t2, cache, [op EXCEPT !.pc = pc]) PROVE same /\ op'.pc = pc /\ tree' = t2
  BY <1>1, <1>7 DEF Go, Operation
<1>8. ASSUME same, op.todo # <<>>, drv # "baidu" PROVE Ready(D)'
  BY <1>6, <1>8 DEF Ready
<1>9. CASE Request
  <2> DEFINE pc == IF drv \in {"ali", "ali_open"} /\ op.todo # <<>> THEN "resolve" ELSE "finish"
  <2>1. /\ Go(Served(tree, op.req), cache, [op EXCEPT !.pc = pc]) /\ task' = task /\ op.pc = "request"
        /\ Valid(tree, op.req)
    BY <1>9 DEF Request, Answered
  <2>2. /\ pc \in {"resolve", "finish"} /\ (pc = "resolve" => drv # "baidu" /\ op.todo # <<>>)
    OBVIOUS
  <2> HIDE DEF pc
  <2>3. same /\ op'.pc = pc /\ tree' = Served(tree, op.req)
    BY <1>7, <2>1
  <2>4. task' = NoReq /\ Shifted(tree', D)
    BY <1>4, <2>1, <2>3 DEF Upshot
  <2>5. op'.pc = "resolve" => Ready(D)'
    BY <1>8, <2>2, <2>3
  <2>6. op'.pc \in {"resolve"} \cup Sending /\ op'.pc # "request"
    BY <2>2, <2>3 DEF Sending
  <2>7. \A o \in op.objs : drv # "baidu" /\ o.id = NoId =>
          (IF op'.pc = "resolve" THEN Tail(op'.todo) ELSE op'.todo) = <<>>
    BY <1>5, <2>2, <2>3
  <2> HIDE DEF same
  <2> QED BY <1>2, <1>4, <2>3, <2>4, <2>5, <2>6, <2>7, ShiftGoes DEF same
<1>10. CASE TaskSubmit
  <2>1. /\ Go(tree, cache, [op EXCEPT !.pc = "task"]) /\ task' = op.req /\ op.pc = "request"
        /\ Valid(tree, op.req)
    BY <1>10 DEF TaskSubmit
  <2>2. same /\ op'.pc = "task" /\ tree' = tree
    BY <1>7, <2>1
  <2>3. Shifted(Served(tree, op.req), D) /\ op.req # NoReq /\ "task" \in Sending
    BY <1>4, <2>1 DEF Upshot, VInv, MInv, IInv, Places, SendPlaces, Sending
  <2> QED BY <1>2, <1>4, <1>5, <2>1, <2>2, <2>3, ShiftGoes
<1>11. CASE op.pc = "task" /\ TaskRuns
  <2> DEFINE t2 == IF Valid(tree, task) THEN Served(tree, task) ELSE tree
  <2>1. task # NoReq /\ task' = NoReq /\ Go(t2, cache, op)
    BY <1>11 DEF TaskRuns
  <2>2. Shifted(t2, D) /\ "task" \in Sending
    BY <1>4, <1>11, <2>1 DEF Upshot, Sending
  <2> HIDE DEF t2
  <2>3. same /\ op'.pc = "task" /\ tree' = t2
    BY <1>1, <1>11, <2>1 DEF Go, Operation
  <2> QED BY <1>2, <1>4, <1>5, <2>1, <2>2, <2>3, ShiftGoes
<1>12. CASE checkTaskSuccess
  <2>1. Go(tree, cache, [op EXCEPT !.pc = "finish"]) /\ task = NoReq /\ task' = task /\ op.pc = "task"
    BY <1>12 DEF checkTaskSuccess
  <2>2. same /\ op'.pc = "finish" /\ tree' = tree
    BY <1>7, <2>1
  <2>3. Shifted(tree, D) /\ "finish" \in Sending
    BY <1>4, <2>1 DEF Upshot, Sending
  <2> QED BY <1>2, <1>4, <1>5, <2>1, <2>2, <2>3, ShiftGoes
<1>13. CASE Finish /\ ~op.panic /\ op.todo # <<>>
  <2>1. /\ Go(tree, Del(cache, op.dels), [op EXCEPT !.pc = "resolve", !.dels = {}])
        /\ task' = task /\ op.pc = "finish"
    BY <1>13 DEF Finish
  <2>2. same /\ op'.pc = "resolve" /\ tree' = tree
    BY <1>1, <2>1 DEF Go, Operation
  <2>3. drv # "baidu"
    BY <1>1, <1>2, <1>13 DEF VInv, MInv, IInv, Places, SendPlaces, Ali
  <2>4. Shifted(tree, D) /\ task = NoReq
    BY <1>4, <2>1 DEF Upshot
  <2>5. Ready(D)' /\ \A o \in op.objs : o.id # NoId
    BY <1>6, <1>8, <1>13, <2>2, <2>3
  <2> QED BY <1>2, <1>4, <2>1, <2>2, <2>4, <2>5, ShiftGoes
<1> QED BY <1>9, <1>10, <1>11, <1>12, <1>13

\* The operation stays where it is.
LEMMA MoveStays ==
  ASSUME VInv, Moving, UNCHANGED <<drv, tree, task>>,
         op'.kind = op.kind, op'.snap = op.snap, op'.path = op.path, op'.dst = op.dst, op'.objs = op.objs,
         op'.res = op.res, op'.todo = op.todo, op'.req = op.req, op'.pc = op.pc,
         Right(cache) => Right(cache)'
  PROVE  Shifts'
<1>1. /\ op.res # "ok" /\ op.pc \in Mkdirs \cup {"resolve"} \cup Sending
      /\ (\E n : TreeOK(op.snap, n)) /\ Alone /\ \A o \in op.objs : Known(o)
  BY DEF VInv, Shifts
<1>2. CASE op.pc \in Mkdirs
  <2>1. op.objs = Range(op.todo)
    BY <1>2 DEF VInv, Shifts
  <2>2. Alone'
    BY <1>1 DEF Alone
  <2>3. (\E n : TreeOK(op.snap, n))' /\ \A o \in op'.objs : Known(o)'
    BY <1>1, SameShift
  <2> QED BY <1>1, <1>2, <2>1, <2>2, <2>3 DEF Shifts
<1>3. CASE op.pc \notin Mkdirs
  <2>1. PICK D : Shift(D)
    BY <1>3 DEF VInv, Shifts
  <2>2. /\ op.objs = D \cup Range(op.todo) /\ (op.pc # "task" => task = NoReq) /\ (op.pc = "resolve" => Ready(D))
        /\ task # NoReq => task = op.req /\ Valid(tree, task)
        /\ (op.pc = "request" => Valid(tree, op.req)) => Shifted(Upshot, D)
    BY <2>1 DEF Shift
  <2>3. Ready(D) => Ready(D)'
    BY DEF Ready
  <2>4. \A o \in op.objs : drv # "baidu" /\ o.id = NoId =>
          (IF op'.pc = "resolve" THEN Tail(op'.todo) ELSE op'.todo) = <<>>
    BY <1>1, <1>3 DEF Alone
  <2>5. Upshot = IF op.pc = "request" THEN Served(tree, op.req) ELSE IF task = NoReq THEN tree ELSE Served(tree, task)
    BY DEF Upshot
  <2> QED BY <1>1, <1>3, <2>2, <2>3, <2>4, <2>5, ShiftGoes
<1> QED BY <1>2, <1>3

\* Another goroutine, or the caller, lists a directory.
LEMMA MoveLists ==
  ASSUME VInv, Moving, ListSome
  PROVE  Shifts'
<1>1. op \in Operation(fresh) /\ Types
  BY Now DEF VInv, MInv
<1>2. op.res # "ok" /\ op.pc \in Mkdirs \cup {"resolve"} \cup Sending
  BY DEF VInv, Shifts
<1>3. PICK dir \in Held \cup {RootObj} : ListDir(List(cache, dir, FALSE))
  <2>1. ~Idle
    BY <1>2 DEF Idle, Sending, Mkdirs
  <2> QED BY <2>1 DEF ListSome
<1>4. /\ cache' = List(cache, dir, FALSE).cache /\ UNCHANGED <<drv, tree, task>>
      /\ \E ts : op' = [op EXCEPT !.touched = ts]
  BY <1>3 DEF ListDir
<1>5. /\ op'.kind = op.kind /\ op'.snap = op.snap /\ op'.path = op.path /\ op'.dst = op.dst /\ op'.objs = op.objs
      /\ op'.res = op.res /\ op'.todo = op.todo /\ op'.req = op.req /\ op'.pc = op.pc /\ op'.clean = op.clean
  BY <1>1, <1>4 DEF Operation
<1>6. Right(cache) => Right(cache)'
  <2>1. ASSUME Right(cache) PROVE Right(cache')
    BY <1>1, <1>2, <1>4, <2>1, ListKeeps
  <2> QED BY <1>4, <2>1, SameRight
<1> QED BY <1>4, <1>5, <1>6, MoveStays

\* Making directories leaves the server's tasks alone.
LEMMA MakingTasks ==
  ASSUME MInv, op.pc \in Mkdirs, Steps
  PROVE  task' = task
<1>1. \A next : MkdirBegin(next) => task' = task
  BY DEF MkdirBegin
<1>2. \A at, n, next : MakeAt(at, n, next) => task' = task
  BY DEF MakeAt
<1>3. MkdirFail => task' = task
  BY DEF MkdirFail
<1>4. LookFails => task' = task
  BY DEF LookFails
<1>5. createDirectoryFail \/ createDirectory \/ createDirectoryBusy \/ QuarkMkdir \/ findChildDirId \/ QuarkConflict
        \/ QuarkMade => task' = task
  BY <1>1, <1>2, <1>3 DEF createDirectoryFail, createDirectory, createDirectoryBusy, QuarkMkdir, findChildDirId,
     QuarkConflict, QuarkMade
<1>6. BaiduNext => task' = task
  BY <1>3 DEF BaiduNext, BaiduMkdir, BaiduMade
<1>7. AliNext => task' = task
  BY <1>1, <1>2, <1>3 DEF AliNext, AliMkdir, AliOpenMkdir, Made_
<1>8. CloudreveMkdir => task' = task
  BY <1>1, <1>2, <1>3 DEF CloudreveMkdir
<1>9. ThunderMkdir => task' = task
  BY <1>1, <1>2, <1>3 DEF ThunderMkdir
<1> QED BY <1>4, <1>5, <1>6, <1>7, <1>8, <1>9, MakingStepsAre

\* The directory that was made is the target.
LEMMA MadeAim ==
  ASSUME Types, NEW n, TreeOK(op.snap, n), Extends, op'.snap = op.snap, UNCHANGED <<drv, tree>>,
         NodeAt(tree, op.path) = op'.dst.id, op'.dst.id # NoId, drv = "cloudreve" => Full(op'.dst) = op.path,
         drv # "baidu"
  PROVE  /\ Aim' = op'.dst.id /\ op'.dst.id \in Nodes(tree) /\ PathOf(tree, op'.dst.id) = op.path
         /\ drv \in ByPath => NodeAt(tree, Full(op'.dst)) = op'.dst.id
<1> DEFINE d == op'.dst.id  s == op.snap  at == NodeAt(s, op.path)
<1>1. TreeOK(tree, fresh) /\ Shape(tree, fresh) /\ Shape(s, n)
  BY DEF Types, TreeOK
<1>2. /\ \A i \in Nodes(tree) : NodeAt(tree, PathOf(tree, i)) = i
      /\ (\A i \in Nodes(tree) : PathOf(tree, i) # op.path) => NodeAt(tree, op.path) = NoId
      /\ \A i \in Nodes(s) : NodeAt(s, PathOf(s, i)) = i
      /\ (\A i \in Nodes(s) : PathOf(s, i) # op.path) => at = NoId
  BY <1>1, NodeAtIs
<1>3. \A i \in Nodes(s) : i \in Nodes(tree) /\ PathOf(tree, i) = PathOf(s, i)
  BY <1>1, SamePaths DEF Extends
<1>4. d \in Nodes(tree) /\ PathOf(tree, d) = op.path
  BY <1>2
<1>5. at \in {d, NoId}
  BY <1>2, <1>3
<1>6. Aim' = IF drv \in ByPath THEN (IF NodeAt(s, Full(op'.dst)) = NoId THEN d ELSE NodeAt(s, Full(op'.dst)))
             ELSE d
  BY DEF Aim
<1>7. drv \in ByPath => Full(op'.dst) = op.path
  BY DEF ByPath
<1> QED BY <1>4, <1>5, <1>6, <1>7

\* The Move makes the directories on the path to its target.
LEMMA MoveMakes ==
  ASSUME VInv, IInv', Moving, op.pc \in Mkdirs, Steps
  PROVE  Shifts'
<1>1. Making' /\ Arrived /\ Keeps /\ UNCHANGED drv
  BY MakingSteps, StepsKeep DEF VInv, MInv, Moving, Steps
<1>2. CASE op'.kind = "none" \/ ~op'.clean
  BY <1>2, NotMoving
<1>3. CASE op'.kind # "none" /\ op'.clean
  <2>1. /\ op'.kind = "move" /\ op'.objs = op.objs /\ op'.snap = op.snap /\ op'.path = op.path /\ op'.todo = op.todo
    BY <1>1, <1>3 DEF Keeps, Moving
  <2>2. op'.pc \in Mkdirs \cup {"resolve"}
    BY <1>1, <2>1 DEF Arrived, IInv, Places
  <2>3. /\ op.res # "ok" /\ op.objs = Range(op.todo) /\ Alone /\ \A o \in op.objs : Known(o)
    BY DEF VInv, Shifts
  <2>4. PICK n : TreeOK(op.snap, n)
    BY DEF VInv, Shifts
  <2>5. Alone'
    BY <1>1, <2>1, <2>2, <2>3 DEF Alone
  <2>6. \A o \in op'.objs : Known(o)'
    BY <1>1, <2>1, <2>3 DEF Known
  <2>7. op'.pc \in Mkdirs => op'.res # "ok"
    BY <1>1, <1>3 DEF Making
  <2>8. CASE op'.pc \in Mkdirs
    BY <2>1, <2>3, <2>4, <2>5, <2>6, <2>7, <2>8 DEF Shifts
  <2>9. CASE op'.pc \notin Mkdirs
    <3>1. /\ op'.pc = "resolve" /\ tree' = tree /\ op'.res = op.res /\ Right(cache')
          /\ NodeAt(tree, op.path) = op'.dst.id /\ op'.dst.id # NoId
          /\ drv = "cloudreve" => Full(op'.dst) = op.path
      BY <1>1, <2>2, <2>9 DEF Arrived
    <3>2. drv # "baidu" /\ Types /\ Extends /\ task = NoReq
      BY DEF VInv, MInv, IInv, Places, MkdirPlaces, Making, Moving
    <3>3. task' = NoReq
      BY <3>2, MakingTasks DEF VInv
    <3>4. /\ Aim' = op'.dst.id /\ op'.dst.id \in Nodes(tree) /\ PathOf(tree, op'.dst.id) = op.path
          /\ drv \in ByPath => NodeAt(tree, Full(op'.dst)) = op'.dst.id
      BY <1>1, <2>1, <2>4, <3>1, <3>2, MadeAim
    <3>5. Ids({})' = {}
      BY DEF Ids
    <3>6. Grown(tree, op.path)'
      BY <2>1, <3>1, <3>2 DEF Extends, Grown
    <3>7. Shifted(tree, {})'
      BY <1>1, <2>1, <3>1, <3>2, <3>4, <3>5, <3>6 DEF Shifted, Extends
    <3>8. Right(cache)'
      BY <1>1, <3>1, SameRight
    <3>9. Shift({})'
      BY <2>1, <2>3, <3>1, <3>3, <3>7, <3>8 DEF Shift, Ready, Upshot
    <3> QED BY <2>1, <2>2, <2>3, <2>4, <2>5, <2>6, <2>9, <3>1, <3>9 DEF Shifts
  <2> QED BY <2>8, <2>9
<1> QED BY <1>2, <1>3

\* A Move begins: nothing is moved yet.
LEMMA MoveBegins ==
  ASSUME IInv, BeginMove
  PROVE  Shifts'
<1> DEFINE At(d) == IF d.id = NoId /\ drv # "baidu" THEN "mkdir" ELSE "resolve"
<1>1. PICK S \in Items : \E d : Begin("move", At(d), S, d, NoName, Full(d))
  BY DEF BeginMove
<1>2. PICK d : Begin("move", At(d), S, d, NoName, Full(d))
  BY <1>1
<1> DEFINE pc == At(d)
<1>3. Begin("move", pc, S, d, NoName, Full(d)) /\ pc \in {"mkdir", "resolve"}
  BY <1>2, SMTT(60)
<1> HIDE DEF pc
<1>4. PICK todo \in SetToSeqs(S) :
        op' = [NoOp EXCEPT !.kind = "move", !.pc = pc, !.objs = S, !.todo = todo,
                           !.dst = d, !.name = NoName, !.path = Full(d),
                           !.snap = tree, !.clean = owed = {} /\ task = NoReq /\ Located]
  BY <1>3 DEF Begin
<1>5. UNCHANGED <<drv, tree, fresh, task, cache, owed, due>> /\ op.pc = "idle" /\ Idle
  BY <1>3 DEF Begin, Idle
<1>6. /\ op'.pc = pc /\ op'.objs = S /\ op'.todo = todo /\ op'.res = "none" /\ op'.dst = d
      /\ op'.path = Full(d) /\ op'.snap = tree /\ (op'.clean => owed = {} /\ task = NoReq /\ Located)
  BY <1>4, ZenonT(60) DEF NoOp
<1>7. /\ \A o \in S : Known(o)
      /\ (\E x : S = {x}) \/ \A o \in S : drv # "baidu" => o.id # NoId
  <2>1. CASE S \in SUBSET Held
    BY <1>5, <2>1, HeldKnown
  <2>2. CASE \E p \in Paths : S = {PathObj(p)}
    <3>1. \A p : Known(PathObj(p))
      BY DEF Known, Proper, PathObj, Obj
    <3> QED BY <2>2, <3>1
  <2> QED BY <2>1, <2>2 DEF Items
<1>8. IsFiniteSet(S)
  <2>1. \A x : IsFiniteSet({x})
    BY FS_Singleton
  <2> QED BY <2>1 DEF Items
<1>9. Range(todo) = S
  BY <1>8, TodoIs
<1>10. \A o \in S : drv # "baidu" /\ o.id = NoId => Tail(todo) = <<>>
  <2>1. (\E x : S = {x}) => Tail(todo) = <<>>
    BY OneTodo
  <2> QED BY <1>7, <2>1
<1>11. "mkdir" \in Mkdirs /\ "resolve" \notin Mkdirs
  BY DEF Mkdirs
<1>12. Alone'
  BY <1>3, <1>5, <1>6, <1>10, <1>11 DEF Alone
<1>13. \A o \in op'.objs : Known(o)'
  BY <1>5, <1>6, <1>7 DEF Known
<1>14. TreeOK(tree, fresh)
  BY DEF IInv, Types
<1>15. ASSUME op'.clean PROVE Shift({})'
  <2>1. op.touched = {} /\ ListingsCurrent
    BY <1>5 DEF IInv, Places
  <2>2. Right(cache)
    BY <1>6, <1>15, <2>1 DEF Right, Located, ListingsCurrent
  <2>3. Right(cache)'
    BY <1>5, <2>2, SameRight
  <2>4. Ids({})' = {}
    BY DEF Ids
  <2>5. Grown(tree, op.path)'
    BY <1>5, <1>6 DEF Grown
  <2>6. drv \in ByPath => NodeAt(tree, Full(d)) \in {Aim', NoId}
    BY <1>5, <1>6 DEF Aim
  <2>7. Shifted(tree, {})'
    BY <1>5, <1>6, <2>4, <2>5, <2>6 DEF Shifted
  <2>8. task' = NoReq /\ Upshot' = tree
    BY <1>3, <1>5, <1>6, <1>15 DEF Upshot
  <2>9. Ready({})' /\ Shifted(Upshot, {})'
    BY <1>5, <2>3, <2>7, <2>8 DEF Ready
  <2> QED BY <1>6, <1>9, <2>8, <2>9 DEF Shift
<1> QED BY <1>3, <1>6, <1>9, <1>11, <1>12, <1>13, <1>14, <1>15 DEF Shifts, Moving

\* Every step of an undisturbed Move.
LEMMA MovingSteps ==
  ASSUME VInv, IInv', Moving, Steps
  PROVE  Shifts'
<1>1. CASE op.pc \in Mkdirs
  BY <1>1, MoveMakes
<1>2. CASE op.pc \notin Mkdirs
  <2>1. op \in Operation(fresh) /\ UNCHANGED drv /\ op.kind = "move" /\ IInv /\ Types'
    BY Now DEF VInv, MInv, Steps, Moving, IInv
  <2>2. \A res, c2, obj : Return(res, c2, obj) => Shifts'
    BY ReturnIs, NotMoving
  <2>3. CASE LookFails \/ RequestFail \/ taskQueryFails
    BY <2>2, <2>3 DEF LookFails, RequestFail, taskQueryFails
  <2>4. CASE MoveResolve
    BY <2>1, <2>4, MoveSends
  <2>5. CASE Request \/ TaskSubmit \/ checkTaskSuccess
    BY <2>1, <2>5, MoveGoesOn
  <2>6. CASE AnswerLost
    <3>1. op'.kind = "none"
      BY <2>6 DEF AnswerLost, NoOp
    <3> QED BY <3>1, NotMoving
  <2>7. CASE RefusalUnnoticed
    <3> DEFINE pc == IF drv \in {"ali", "ali_open"} /\ op.todo # <<>> THEN "resolve" ELSE "finish"
    <3>1. Go(tree, cache, [[op EXCEPT !.pc = pc] EXCEPT !.clean = FALSE])
      BY <2>7 DEF RefusalUnnoticed, Answered
    <3> HIDE DEF pc
    <3>2. op'.clean = FALSE
      BY <2>1, <3>1 DEF Go, Operation
    <3> QED BY <3>2, NotMoving
  <2>8. CASE Finish
    <3>1. op.stack = <<>>
      BY <2>1 DEF IInv, Places, BatchPlaces
    <3>2. \/ \E res, c2, obj : Return(res, c2, obj)
          \/ ~op.panic /\ op.todo # <<>>
      BY <2>8, <3>1 DEF Finish
    <3> QED BY <2>1, <2>2, <2>8, <3>2, MoveGoesOn
  <2> QED BY <1>2, <2>1, <2>3, <2>4, <2>5, <2>6, <2>7, <2>8, MoveStepsAre
<1> QED BY <1>1, <1>2

\* What is not a Move, or was disturbed, stays so.
LEMMA StillNotMoving ==
  ASSUME ~Moving, Keeps
  PROVE  Shifts'
<1>1. op'.clean => op'.kind # "move"
  BY DEF Keeps, Moving
<1> QED BY <1>1, NotMoving

\* What else happens: a listing, the server's task, another client.
LEMMA OthersMoving ==
  ASSUME VInv, ServerTask \/ ListSome \/ Elsewhere
  PROVE  Shifts'
<1>1. op \in Operation(fresh)
  BY Now DEF VInv, MInv
<1>2. CASE op' = [op EXCEPT !.clean = FALSE]
  <2>1. op'.clean = FALSE
    BY <1>1, <1>2 DEF Operation
  <2> QED BY <2>1, NotMoving
<1>3. CASE ServerTask
  <2>1. CASE op.pc # "task"
    BY <1>2, <1>3, <2>1 DEF ServerTask, TaskRuns
  <2>2. CASE op.pc = "task" /\ Moving
    BY <1>3, <2>2, MoveGoesOn DEF ServerTask
  <2>3. CASE op.pc = "task" /\ ~Moving
    <3>1. \E t2 : Go(t2, cache, op)
      BY <1>3, <2>3 DEF ServerTask, TaskRuns
    <3>2. Keeps
      BY <1>1, <3>1, GoKeeps DEF Alike
    <3> QED BY <2>3, <3>2, StillNotMoving
  <2> QED BY <2>1, <2>2, <2>3
<1>4. CASE ListSome
  <2>1. CASE Moving
    BY <1>4, <2>1, MoveLists
  <2>2. CASE ~Moving
    <3>1. \E ts : op' = [op EXCEPT !.touched = ts]
      BY <1>4 DEF ListSome, ListDir
    <3>2. Keeps
      BY <1>1, <3>1 DEF Keeps, Operation
    <3> QED BY <2>2, <3>2, StillNotMoving
  <2> QED BY <2>1, <2>2
<1>5. CASE Elsewhere
  BY <1>2, <1>5, ZenonT(60) DEF Elsewhere, Changed
<1> QED BY <1>3, <1>4, <1>5

\* The invariant of Move is inductive.
LEMMA VInductive ==
  VInv /\ [Next]_vars => VInv'
<1> SUFFICES ASSUME VInv, [Next]_vars PROVE VInv'
  OBVIOUS
<1>1. MInv' /\ IInv /\ IInv'
  BY MInductive DEF VInv, MInv
<1> SUFFICES Shifts'
  BY <1>1 DEF VInv
<1>2. CASE BeginMove
  BY <1>1, <1>2, MoveBegins
<1>3. CASE BeginRename \/ BeginDelete \/ BeginMkdir \/ BeginBatch
  <2>1. \A kind, pc, objs, dst, name, path : Begin(kind, pc, objs, dst, name, path) => op'.kind = kind
    BY DEF Begin, NoOp
  <2>2. BeginRename => op'.kind = "rename"
    BY <2>1 DEF BeginRename
  <2>3. BeginDelete => op'.kind = "delete"
    BY <2>1 DEF BeginDelete
  <2>4. BeginMkdir => op'.kind = "mkdir"
    BY <2>1 DEF BeginMkdir
  <2>5. BeginBatch => op'.kind = "batch"
    BY <2>1 DEF BeginBatch
  <2> QED BY <1>3, <2>2, <2>3, <2>4, <2>5, NotMoving
<1>4. CASE Steps
  <2>1. CASE Moving
    BY <1>1, <1>4, <2>1, MovingSteps
  <2>2. CASE ~Moving
    BY <1>1, <1>4, <2>2, StepsKeep, StillNotMoving
  <2> QED BY <2>1, <2>2
<1>5. CASE ServerTask \/ ListSome \/ Elsewhere
  BY <1>5, OthersMoving
<1>6. CASE UNCHANGED vars
  <2>1. op' = op /\ UNCHANGED <<drv, tree, task, cache>>
    BY <1>6 DEF vars
  <2>2. Right(cache) => Right(cache)'
    BY <2>1, SameRight
  <2>3. CASE Moving
    BY <2>1, <2>2, <2>3, MoveStays
  <2>4. CASE ~Moving
    BY <2>1, <2>4, StillNotMoving DEF Keeps
  <2> QED BY <2>3, <2>4
<1> QED BY <1>2, <1>3, <1>4, <1>5, <1>6 DEF Next

\* At the start no Move runs.
LEMMA VInitially ==
  Init => VInv
<1>1. Init => op.kind = "none"
  BY DEF Init, NoOp
<1> QED BY <1>1, MInitially DEF VInv, Shifts, Moving

\* A Move that returns nil has dealt with all its objects.
LEMMA MovedAll ==
  ASSUME VInv, [Next]_vars, Moving, op'.pc = "idle", op'.res = "ok"
  PROVE  tree' = tree /\ Shifted(tree, op.objs)
<1>1. op \in Operation(fresh) /\ op.kind = "move" /\ op.clean /\ IInv /\ drv \in AllDrivers
  BY Now, DriveParameters DEF VInv, MInv, IInv, Types, Moving
<1>2. op.res # "ok" /\ op.pc \in Mkdirs \cup {"resolve"} \cup Sending
  BY DEF VInv, Shifts
<1>3. Steps
  BY <1>1, <1>2, EndsItself DEF Mkdirs, Sending
<1>4. op.pc \notin Mkdirs
  BY <1>1, <1>3, MakingSteps DEF Arrived, VInv
<1>5. Finish
  BY <1>1, <1>2, <1>3, <1>4, MoveStepsAre, ReturnsNotYet
<1>6. op.stack = <<>>
  BY <1>1 DEF IInv, Places, BatchPlaces
<1>7. op.todo = <<>> /\ tree' = tree /\ op.pc = "finish"
  <2>1. \/ Return("panic", cache, RootObj)
        \/ op.todo # <<>> /\ Go(tree, Del(cache, op.dels), [op EXCEPT !.pc = "resolve", !.dels = {}])
        \/ op.todo = <<>> /\ Return("ok", Del(cache, op.dels), RootObj)
    BY <1>5, <1>6 DEF Finish
  <2>2. Go(tree, Del(cache, op.dels), [op EXCEPT !.pc = "resolve", !.dels = {}]) => op'.pc = "resolve"
    BY <1>1, ZenonT(60) DEF Go, Operation
  <2> QED BY <1>5, <2>1, <2>2, ReturnIs DEF Finish
<1>8. PICK D : Shift(D)
  BY <1>4 DEF VInv, Shifts
<1>9. op.objs = D /\ Shifted(tree, D)
  <2>1. Range(<<>>) = {}
    BY DEF Range
  <2> QED BY <1>7, <1>8, <2>1 DEF Shift, Upshot
<1> QED BY <1>7, <1>9

------------------------------------------------------------------------------
(* The theorems. *)

(* The inductive invariant: while an ObjRename or Delete runs undisturbed, *)
(* the tree is what it was but for the objects dealt with so far.          *)
THEOREM EffectInvariance ==
  Spec => []EInv
<1>1. Spec => Init /\ [][Next]_vars
  BY PTL DEF Spec
<1> QED BY <1>1, EInitially, EInductive, PTL

(* ObjRename that returns nil has renamed exactly the object the caller    *)
(* named, given by id or by a path, for any of the six drivers.            *)
THEOREM RenamesEffectively ==
  Spec => RenameEffective
<1> DEFINE A == Returns("rename") => \E o \in op.objs : tree' = Renamed(op.snap, Meant(o), op.name)
<1>1. EInv /\ [Next]_vars => [A]_vars
  <2> SUFFICES ASSUME EInv, [Next]_vars, Returns("rename")
               PROVE  \E o \in op.objs : tree' = Renamed(op.snap, Meant(o), op.name)
    OBVIOUS
  <2>1. Mine /\ op.kind = "rename" /\ op'.pc = "idle" /\ op'.res = "ok"
    BY DEF Returns, Mine
  <2>2. tree' = Goal(op.objs)
    BY <2>1, ReturnsDone
  <2>3. PICK o : op.objs = {o}
    BY <2>1 DEF EInv, Effect, Asked, Mine
  <2>4. Ids({o}) = {Meant(o)} /\ {o} # {}
    BY DEF Ids
  <2>5. (CHOOSE i \in {Meant(o)} : TRUE) = Meant(o)
    OBVIOUS
  <2>6. Goal({o}) = Renamed(op.snap, Meant(o), op.name)
    BY <2>1, <2>4, <2>5 DEF Goal
  <2> QED BY <2>2, <2>3, <2>6
<1>2. Spec => [][Next]_vars
  BY PTL DEF Spec
<1> QED BY <1>1, <1>2, EffectInvariance, PTL DEF RenameEffective

(* Delete that returns nil has removed exactly the objects the caller      *)
(* named and what is below them, in one request or in one for each object, *)
(* for any number of objects, in any order.                                *)
THEOREM DeletesEffectively ==
  Spec => DeleteEffective
<1> DEFINE A == Returns("delete") => tree' = Removed(op.snap, {Meant(o) : o \in op.objs})
<1>1. EInv /\ [Next]_vars => [A]_vars
  <2> SUFFICES ASSUME EInv, [Next]_vars, Returns("delete")
               PROVE  tree' = Removed(op.snap, {Meant(o) : o \in op.objs})
    OBVIOUS
  <2>1. Mine /\ op.kind = "delete" /\ op'.pc = "idle" /\ op'.res = "ok"
    BY DEF Returns, Mine
  <2>2. tree' = Goal(op.objs)
    BY <2>1, ReturnsDone
  <2> QED BY <2>1, <2>2 DEF Goal, Ids
<1>2. Spec => [][Next]_vars
  BY PTL DEF Spec
<1> QED BY <1>1, <1>2, EffectInvariance, PTL DEF DeleteEffective

(* Both: the named objects have been treated, and no others.               *)
THEOREM ObjectsTreated ==
  Spec => ObjectsEffective
BY RenamesEffectively, DeletesEffectively DEF ObjectsEffective

(* The inductive invariant: while a Mkdir, or a Move that makes its        *)
(* target, runs undisturbed, the tree is what it was and directories on    *)
(* the path, the operation is at the last of them, and the listings lack   *)
(* nothing but what it has made.                                           *)
THEOREM MakingInvariance ==
  Spec => []MInv
<1>1. Spec => Init /\ [][Next]_vars
  BY PTL DEF Spec
<1> QED BY <1>1, MInitially, MInductive, PTL

(* Mkdir that returns nil returns the object at the path it was given, and *)
(* has made the missing directories above it and nothing else, for any of  *)
(* the six drivers, any path and whatever the listings already knew.       *)
THEOREM MkdirFindsPath ==
  Spec => MkdirFinds
<1> DEFINE A == Returns("mkdir") => /\ NodeAt(tree', op.path) = op'.dst.id
                                    /\ Only(tree', DOMAIN op.snap) = op.snap
                                    /\ Grown(tree', op.path)
<1>1. MInv /\ [Next]_vars => [A]_vars
  <2> SUFFICES ASSUME MInv, [Next]_vars, Returns("mkdir")
               PROVE  /\ NodeAt(tree', op.path) = op'.dst.id
                      /\ Only(tree', DOMAIN op.snap) = op.snap
                      /\ Grown(tree', op.path)
    OBVIOUS
  <2>1. Extends /\ tree' = tree /\ NodeAt(tree, op.path) = op'.dst.id
    BY ReturnsThere DEF Returns
  <2>2. op.snap \in Trees
    BY Now DEF MInv, Operation
  <2>3. op.snap = [k \in DOMAIN op.snap |-> op.snap[k]]
    BY <2>2 DEF Trees
  <2>4. DOMAIN tree \cap DOMAIN op.snap = DOMAIN op.snap /\ \A k \in DOMAIN op.snap : tree[k] = op.snap[k]
    BY <2>1 DEF Extends
  <2>5. Only(tree, DOMAIN op.snap) = op.snap
    BY <2>3, <2>4 DEF Only, Restrict
  <2> QED BY <2>1, <2>5 DEF Extends
<1>2. Spec => [][Next]_vars
  BY PTL DEF Spec
<1> QED BY <1>1, <1>2, MakingInvariance, PTL DEF MkdirFinds

(* The inductive invariant: while a Move runs undisturbed, the tree is     *)
(* what it was but for the objects dealt with so far and the directories   *)
(* made on the path to the target.                                         *)
THEOREM ShiftInvariance ==
  Spec => []VInv
<1>1. Spec => Init /\ [][Next]_vars
  BY PTL DEF Spec
<1> QED BY <1>1, VInitially, VInductive, PTL

(* Move that returns nil has moved exactly the objects the caller named to *)
(* the target, and has made what was missing on the path to it and nothing *)
(* else, for any of the six drivers, in one request, in one for each       *)
(* object or each directory they come from, by ids or by paths.            *)
THEOREM MovesEffectively ==
  Spec => MoveEffective
<1> DEFINE at == IF drv \in {"baidu", "cloudreve"} THEN NodeAt(op.snap, Full(op.dst)) ELSE op.dst.id
           B == /\ Grown(tree', op.path)
                /\ Only(tree', DOMAIN op.snap)
                     = Moved(op.snap, {Meant(o) : o \in op.objs}, IF at = NoId THEN op.dst.id ELSE at)
<1>1. VInv /\ [Next]_vars => [Returns("move") => B]_vars
  <2> SUFFICES ASSUME VInv, [Next]_vars, Returns("move") PROVE B
    OBVIOUS
  <2>1. tree' = tree /\ Shifted(tree, op.objs)
    BY MovedAll DEF Returns, Moving
  <2>2. Aim = IF at = NoId THEN op.dst.id ELSE at
    BY DEF Aim, ByPath
  <2>3. DOMAIN tree \cap DOMAIN op.snap = DOMAIN op.snap
    BY <2>1 DEF Shifted
  <2>4. \A k \in DOMAIN op.snap :
          tree[k] = IF k \in Ids(op.objs) THEN [op.snap[k] EXCEPT !.parent = Aim] ELSE op.snap[k]
    BY <2>1 DEF Shifted
  <2>5. Only(tree, DOMAIN op.snap) = [k \in DOMAIN op.snap |-> tree[k]]
    BY <2>3 DEF Only, Restrict
  <2>6. Only(tree, DOMAIN op.snap) = Moved(op.snap, Ids(op.objs), Aim)
    BY <2>4, <2>5 DEF Moved
  <2> QED BY <2>1, <2>2, <2>6 DEF Shifted, Ids
<1>2. Spec => [][Next]_vars
  BY PTL DEF Spec
<1> QED BY <1>1, <1>2, ShiftInvariance, PTL DEF MoveEffective
==============================================================================
