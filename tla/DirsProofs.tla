------------------------------ MODULE DirsProofs ------------------------------
(***************************************************************************)
(* Proofs about Dirs for any tree, any paths and any number of operations: *)
(* type correctness, and that the listings in the cache are current but    *)
(* for those the code leaves stale.                                        *)
(***************************************************************************)
EXTENDS Dirs, TLAPS, FiniteSetTheorems, NaturalsInduction, WellFoundedInduction

------------------------------------------------------------------------------
(* Types; n is the server's next id. *)

Node == [name : Names, parent : Nat, type : {"dir", "file"}]
Trees == UNION {[D -> Node] : D \in SUBSET Nat}

\* Paths as objects have them: with a trailing slash, perhaps.
PathT == Seq(Names) \cup {Append(p, NoName) : p \in Seq(Names)}
Key == Int \cup PathT

\* Ids known so far, and none.
IdsBelow(n) == (-1)..(n - 1)

Object(n) ==
  {o \in [id : (-1)..(n - 1), name : Names \cup {NoName}, path : PathT, type : {"dir", "file"},
          pid : Int] :
     (o.id = NoId => o.pid = NoParent) /\ (o.type = "file" => o.id > 0)}

Listed(n) == {o \in Object(n) : o.id > 0 /\ o.name \in Names}

\* An object with an id: the root, or one of a node.
Proper(o) == o = RootObj \/ o.id > 0

Caches(n) == UNION {[D -> SUBSET Listed(n)] : D \in SUBSET Key}

Request_(n) ==
  {r \in [do : {"none", "rename", "move", "delete"}, objs : SUBSET Object(n), dst : Object(n),
          name : Names \cup {NoName}] :
     (r.do = "rename" => r.name \in Names /\ r.objs # {}) /\ (r.do = "none" => r = NoReq)}

PCs == {"idle", "resolve", "request", "task", "finish", "mkdir", "find", "create", "conflict",
        "made", "batch"}

Frames(n) == [left : SUBSET Listed(n), dir : Object(n)]

Operation(n) ==
  [kind : {"none", "rename", "move", "delete", "mkdir", "batch"}, pc : PCs,
   res : {"none", "ok", "error", "panic"}, objs : SUBSET Object(n), dst : Object(n),
   name : Names \cup {NoName}, path : Seq(Names), todo : Seq(Object(n)), req : Request_(n),
   dels : SUBSET Key, panic : BOOLEAN, base : Object(n), at : 0..(n - 1), rest : Seq(Names \cup {Up}),
   tries : Nat, stack : Seq(Frames(n)), snap : Trees,
   clean : BOOLEAN, touched : SUBSET Key]

\* The nodes hang from the root: among any there is a topmost one.
Hangs(t) == \A S \in SUBSET DOMAIN t : S # {} => \E i \in S : t[i].parent \notin S

\* No two entries of a directory have one name.
Distinct(t) == \A i, j \in DOMAIN t : t[i].parent = t[j].parent /\ t[i].name = t[j].name => i = j

Shape(t, n) ==
  /\ t \in Trees /\ DOMAIN t \subseteq 1..(n - 1)
  /\ \A i \in DOMAIN t : IsDir(t, t[i].parent)
  /\ Hangs(t)

TreeOK(t, n) == Shape(t, n) /\ Distinct(t)

Types ==
  /\ drv \in Drivers /\ fresh \in 1..(MaxId + 1)
  /\ TreeOK(tree, fresh)
  /\ task \in Request_(fresh) /\ (drv # "quark" => task = NoReq)
  /\ cache \in Caches(fresh) /\ op \in Operation(fresh)
  /\ owed \cup op.touched \subseteq DOMAIN cache
  /\ drv # "baidu" => DOMAIN cache \subseteq IdsBelow(fresh)

------------------------------------------------------------------------------
(* Facts about the data. *)

\* A set of naturals has a least element: induction, in the form these proofs use it.
LEMMA Least ==
  ASSUME NEW T \in SUBSET Nat, T # {}
  PROVE  \E x \in T : \A y \in T : x <= y
<1> DEFINE R == {p \in Nat \X Nat : p[1] < p[2]}
<1>1. IsWellFoundedOn(R, Nat)
  BY NatLessThanWellFounded DEF OpToRel
<1>2. \E x \in T : \A y \in T : ~ (<<y, x>> \in R)
  <2> HIDE DEF R
  <2> QED BY <1>1, WFMin
<1>3. \A x, y \in Nat : <<y, x>> \in R <=> y < x
  OBVIOUS
<1> HIDE DEF R
<1>4. PICK x \in T : \A y \in T : ~ (<<y, x>> \in R)
  BY <1>2
<1>5. ASSUME NEW y \in T PROVE x <= y
  <2>1. x \in Nat /\ y \in Nat /\ ~ (<<y, x>> \in R)
    BY <1>4
  <2>2. ~ (y < x)
    BY <2>1, <1>3, Zenon
  <2> QED BY <2>1, <2>2
<1> QED BY <1>5

\* g is what the steps F[1] to F[n] make of a, and lies in S.
Course(g, n, a, F, S) ==
  /\ g = [k \in 0..n |-> g[k]] /\ g[0] = a /\ \A k \in 0..n : g[k] \in S[k]
  /\ \A k \in 1..n : g[k] = F[k][g[k - 1]]

\* The steps lead from S[0] to S[n], one set to the next.
Leads(n, a, F, S) == a \in S[0] /\ \A k \in 1..n : \A s \in S[k - 1] : F[k][s] \in S[k]

\* h begins with a and makes the steps, as long as it lies in S.
Follows(h, n, a, F, S) == h[0] = a /\ \A k \in 1..n : h[k - 1] \in S[k - 1] => h[k] = F[k][h[k - 1]]

\* Recursion over 1..n: steps that lead from S[0] to S[n] have a course.
LEMMA Recursion ==
  ASSUME NEW n \in Nat, NEW S, NEW F, NEW a, Leads(n, a, F, S)
  PROVE  \E g : Course(g, n, a, F, S)
<1> USE DEF Course
<1>0. a \in S[0] /\ \A k \in 1..n : \A s \in S[k - 1] : F[k][s] \in S[k]
  BY DEF Leads
<1> DEFINE C(m, g) == Course(g, m, a, F, S)
           bad == {m \in 0..n : ~ \E g : C(m, g)}
<1>1. 0 \notin bad
  <2>1. C(0, [k \in 0..0 |-> a])
    BY <1>0
  <2> QED BY <2>1
<1>2. ASSUME NEW m \in 1..n, NEW g, C(m - 1, g) PROVE \E h : C(m, h)
  <2> DEFINE h == [k \in 0..m |-> IF k = m THEN F[m][g[m - 1]] ELSE g[k]]
  <2>1. m - 1 \in 0..(m - 1) /\ m \in Nat /\ 0 \in 0..(m - 1) /\ m # 0
    OBVIOUS
  <2>2. g[m - 1] \in S[m - 1]
    BY <1>2, <2>1
  <2>3. F[m][g[m - 1]] \in S[m]
    BY <1>0, <2>2
  <2>4. \A k \in 0..m : k # m => k \in 0..(m - 1)
    OBVIOUS
  <2>5. h = [k \in 0..m |-> h[k]]
    OBVIOUS
  <2>6. h[0] = a
    BY <1>2, <2>1
  <2>7. \A k \in 0..m : h[k] \in S[k]
    BY <1>2, <2>3, <2>4, SMTT(60)
  <2>8. \A k \in 1..m : h[k] = F[k][h[k - 1]]
    <3>1. ASSUME NEW k \in 1..m, k # m PROVE h[k] = F[k][h[k - 1]]
      <4>1. k \in 0..m /\ k - 1 \in 0..m /\ k - 1 # m /\ k \in 1..(m - 1)
        BY <3>1
      <4> QED BY <1>2, <3>1, <4>1
    <3>2. h[m] = F[m][h[m - 1]]
      <4>1. m \in 0..m /\ m - 1 \in 0..m /\ m - 1 # m
        OBVIOUS
      <4> QED BY <4>1
    <3> QED BY <3>1, <3>2
  <2> HIDE DEF h
  <2>9. C(m, h)
    BY <2>5, <2>6, <2>7, <2>8
  <2> QED BY <2>9
<1> HIDE DEF C, Course
<1>3. ASSUME bad # {} PROVE FALSE
  <2>1. bad \in SUBSET Nat
    OBVIOUS
  <2>2. PICK m \in bad : \A k \in bad : m <= k
    <3> HIDE DEF bad
    <3> QED BY <1>3, <2>1, Least
  <2>3. m \in 1..n /\ m - 1 \in 0..n /\ m - 1 \notin bad
    BY <1>1, <2>2
  <2> QED BY <1>2, <2>2, <2>3
<1>4. n \in 0..n /\ n \notin bad
  BY <1>3
<1> QED BY <1>4 DEF C

\* Whatever follows these steps is that course.
LEMMA OneCourse ==
  ASSUME NEW n \in Nat, NEW S, NEW F, NEW a, NEW g, Course(g, n, a, F, S), NEW h, Follows(h, n, a, F, S)
  PROVE  h[n] \in S[n] /\ n \in 0..n /\ \A k \in 0..n : h[k] \in S[k]
<1> DEFINE bad == {k \in 0..n : h[k] # g[k]}
<1>1. ASSUME bad # {} PROVE FALSE
  <2>1. bad \in SUBSET Nat
    OBVIOUS
  <2>2. PICK k \in bad : \A j \in bad : k <= j
    <3> HIDE DEF bad
    <3> QED BY <1>1, <2>1, Least
  <2>3. k \in 1..n /\ k - 1 \in 0..n
    BY <2>2 DEF Course, Follows
  <2>4. h[k - 1] = g[k - 1]
    BY <2>2, <2>3
  <2> QED BY <2>2, <2>3, <2>4, ZenonT(60) DEF Course, Follows
<1>2. n \in 0..n /\ \A k \in 0..n : h[k] = g[k]
  BY <1>1
<1> QED BY <1>2, Zenon DEF Course

\* Taking a finite set apart into a sequence.
LEMMA TodoIs ==
  ASSUME NEW S, IsFiniteSet(S)
  PROVE  /\ SetToSeq(S) \in Seq(S)
         /\ \A s \in SetToSeqs(S) : s \in Seq(S) /\ Range(s) = S /\ (S # {} => s # <<>>)
<1> DEFINE n == Cardinality(S)
<1>1. n \in Nat /\ ExistsBijection(1..n, S)
  BY FS_CardinalityType
<1>2. IsFiniteSet(1..n) /\ Cardinality(1..n) = n
  BY <1>1, FS_Interval
<1> HIDE DEF n
<1>3. PICK f \in [1..n -> S] : \A i, j \in 1..n : f[i] = f[j] => i = j
  BY <1>1 DEF ExistsBijection, Bijection, Injection, IsInjective
<1>4. SetToSeq(S) \in Seq(S)
  <2>1. IsInjective(f)
    BY <1>3 DEF IsInjective
  <2>2. SetToSeq(S) \in [1..n -> S]
    BY <1>3, <2>1 DEF SetToSeq, n
  <2> QED BY <1>1, <2>2
<1>5. ASSUME NEW s \in SetToSeqs(S)
      PROVE  s \in Seq(S) /\ Range(s) = S /\ (S # {} => s # <<>>)
  <2>1. s \in [1..n -> S] /\ \A i, j \in 1..n : i # j => s[i] # s[j]
    BY <1>5 DEF SetToSeqs, n
  <2>2. s \in Injection(1..n, S)
    BY <2>1 DEF Injection, IsInjective
  <2>3. s \in Surjection(1..n, S)
    BY <1>1, <1>2, <2>2, FS_Injection DEF n
  <2>4. Range(s) = S
    BY <2>1, <2>3 DEF Surjection, Range
  <2>5. s \in Seq(S)
    BY <1>1, <2>1
  <2>6. s = <<>> => Range(s) = {}
    BY DEF Range
  <2> QED BY <2>4, <2>5, <2>6
<1> QED BY <1>4, <1>5

------------------------------------------------------------------------------
(* Paths and objects. *)

LEMMA AppendIs ==
  ASSUME NEW p \in Seq(Names), NEW x
  PROVE  /\ Append(p, x) # <<>> /\ Last(Append(p, x)) = x /\ Front(Append(p, x)) = p
<1>1. Append(p, x) \in Seq(Names \cup {x}) /\ Len(Append(p, x)) = Len(p) + 1
  OBVIOUS
<1>2. Append(p, x)[Len(p) + 1] = x /\ \A i \in 1..Len(p) : Append(p, x)[i] = p[i]
  OBVIOUS
<1>3. Front(Append(p, x)) = p
  BY <1>1, <1>2 DEF Front
<1> QED BY <1>1, <1>2, <1>3 DEF Last

\* What is left without a trailing slash.
LEMMA CleanIs ==
  ASSUME NEW p \in PathT
  PROVE  /\ Clean(p) \in Seq(Names) /\ (p \in Seq(Names) => Clean(p) = p)
         /\ \A q \in Seq(Names) : p = Append(q, NoName) => Clean(p) = q
<1>1. CASE p \in Seq(Names)
  <2>1. p # <<>> => Last(p) \in Names
    BY <1>1 DEF Last
  <2>2. Clean(p) = p
    BY <2>1, DriveParameters DEF Clean
  <2>3. ASSUME NEW q \in Seq(Names), p = Append(q, NoName) PROVE FALSE
    BY <2>1, <2>3, AppendIs, DriveParameters
  <2> QED BY <1>1, <2>2, <2>3
<1>2. CASE p \notin Seq(Names)
  <2>1. PICK q \in Seq(Names) : p = Append(q, NoName)
    BY <1>2 DEF PathT
  <2>2. Clean(p) = q
    BY <2>1, AppendIs DEF Clean
  <2>3. ASSUME NEW r \in Seq(Names), p = Append(r, NoName) PROVE r = q
    <3>1. Front(Append(r, NoName)) = r /\ Front(Append(q, NoName)) = q
      BY AppendIs
    <3> QED BY <2>1, <2>3, <3>1
  <2> QED BY <1>2, <2>2, <2>3
<1> QED BY <1>1, <1>2

\* The first of a sequence and the others.
LEMMA TailIs ==
  ASSUME NEW S, NEW s \in Seq(S), s # <<>>
  PROVE  /\ Head(s) \in S /\ Tail(s) \in Seq(S) /\ (Len(s) # 1 => Tail(s) # <<>>)
         /\ Range(s) = {Head(s)} \cup Range(Tail(s))
<1>1. /\ Len(s) \in Nat \ {0} /\ Tail(s) \in Seq(S) /\ Len(Tail(s)) = Len(s) - 1 /\ Head(s) = s[1]
      /\ \A i \in 1..Len(Tail(s)) : Tail(s)[i] = s[i + 1]
  OBVIOUS
<1>2. /\ \A x : x \in Range(s) <=> \E i \in 1..Len(s) : x = s[i]
      /\ \A x : x \in Range(Tail(s)) <=> \E i \in 1..Len(Tail(s)) : x = Tail(s)[i]
  <2>1. DOMAIN s = 1..Len(s) /\ DOMAIN Tail(s) = 1..Len(Tail(s))
    BY <1>1
  <2> QED BY <2>1 DEF Range
<1>3. \A i \in 1..Len(s) : i = 1 \/ (i - 1 \in 1..Len(Tail(s)) /\ s[i] = Tail(s)[i - 1])
  BY <1>1
<1>4. \A i \in 1..Len(Tail(s)) : i + 1 \in 1..Len(s)
  BY <1>1
<1>5. ASSUME NEW x PROVE x \in Range(s) <=> x = Head(s) \/ x \in Range(Tail(s))
  <2>1. ASSUME x \in Range(s) PROVE x = Head(s) \/ x \in Range(Tail(s))
    <3>1. PICK i \in 1..Len(s) : x = s[i]
      BY <1>2, <2>1
    <3>2. i = 1 \/ (i - 1 \in 1..Len(Tail(s)) /\ x = Tail(s)[i - 1])
      BY <1>3, <3>1
    <3>3. CASE i = 1
      BY <1>1, <3>1, <3>3
    <3>4. CASE i - 1 \in 1..Len(Tail(s)) /\ x = Tail(s)[i - 1]
      BY <1>2, <3>4, Zenon
    <3> QED BY <3>2, <3>3, <3>4
  <2>2. ASSUME x \in Range(Tail(s)) PROVE x \in Range(s)
    BY <1>1, <1>2, <1>4, <2>2
  <2>3. Head(s) \in Range(s)
    <3>1. 1 \in 1..Len(s)
      BY <1>1
    <3> QED BY <1>1, <1>2, <3>1
  <2> QED BY <2>1, <2>2, <2>3
<1>6. Range(s) = {Head(s)} \cup Range(Tail(s))
  <2> DEFINE a == Range(s)  b == Range(Tail(s))
  <2>1. \A x : x \in a <=> x = Head(s) \/ x \in b
    BY <1>5
  <2> HIDE DEF a, b
  <2>2. a = {Head(s)} \cup b
    BY <2>1
  <2> QED BY <2>2 DEF a, b
<1>7. Head(s) \in S /\ (Len(s) # 1 => Tail(s) # <<>>)
  <2>1. Head(s) \in S
    OBVIOUS
  <2> DEFINE t == Tail(s)  m == Len(s)
  <2>2. Len(t) = m - 1 /\ m \in Nat
    BY <1>1
  <2> HIDE DEF t, m
  <2>3. t = <<>> => m = 1
    BY <2>2
  <2> QED BY <2>1, <2>3 DEF t, m
<1> QED BY <1>1, <1>6, <1>7

LEMMA FullIs ==
  ASSUME NEW n, NEW o \in Object(n)
  PROVE  Full(o) \in Seq(Names)
<1>1. o.path \in PathT /\ o.name \in Names \cup {NoName}
  BY DEF Object
<1>2. Clean(o.path) \in Seq(Names)
  BY <1>1, CleanIs
<1> QED BY <1>1, <1>2 DEF Full

\* baidu's key of a directory is its path, but for the slash.
LEMMA BaiduKeyIs ==
  ASSUME NEW n, NEW o \in Object(n)
  PROVE  BaiduKey(o) \in PathT /\ Clean(BaiduKey(o)) = Full(o)
<1>1. o.path \in PathT /\ o.name \in Names \cup {NoName}
  BY DEF Object
<1>2. Clean(o.path) \in Seq(Names) /\ Full(o) \in Seq(Names)
  BY <1>1, CleanIs, FullIs
<1>3. CASE Full(o) = <<>>
  <2>1. BaiduKey(o) = <<>> /\ <<>> \in PathT /\ Clean(<<>>) = <<>>
    BY <1>3 DEF BaiduKey, PathT, Clean
  <2> QED BY <1>3, <2>1
<1>4. CASE Full(o) # <<>> /\ o.name = NoName
  <2>1. BaiduKey(o) = Append(Clean(o.path), NoName) /\ Full(o) = Clean(o.path)
    BY <1>4 DEF BaiduKey, Full
  <2>2. BaiduKey(o) \in PathT
    BY <1>2, <2>1 DEF PathT
  <2> QED BY <1>2, <2>1, <2>2, CleanIs
<1>5. CASE Full(o) # <<>> /\ o.name # NoName
  <2>1. BaiduKey(o) = Full(o)
    BY <1>5 DEF BaiduKey, Full
  <2>2. BaiduKey(o) \in PathT
    BY <1>2, <2>1 DEF PathT
  <2> QED BY <1>2, <2>1, <2>2, CleanIs
<1> QED BY <1>3, <1>4, <1>5

LEMMA RootIs ==
  ASSUME NEW n \in Nat \ {0}
  PROVE  RootObj \in Object(n) /\ \A p \in Seq(Names) : PathObj(p) \in Object(n)
<1>1. RootObj \in Object(n)
  <2>1. <<>> \in PathT
    BY DEF PathT
  <2>2. RootObj = [id |-> 0, name |-> NoName, path |-> <<>>, type |-> "dir", pid |-> -2]
    BY DEF RootObj, Obj, Root, NoParent
  <2>3. 0 \in (-1)..(n - 1) /\ -2 \in Int
    OBVIOUS
  <2> QED BY <2>1, <2>2, <2>3 DEF Object, NoId
<1>2. ASSUME NEW p \in Seq(Names) PROVE PathObj(p) \in Object(n)
  <2>1. p \in PathT
    BY DEF PathT
  <2>2. p # <<>> => PathObj(p) = [id |-> -1, name |-> NoName, path |-> p, type |-> "dir", pid |-> -2]
    BY DEF PathObj, Obj, NoId, NoParent
  <2>3. -1 \in (-1)..(n - 1) /\ -2 \in Int
    OBVIOUS
  <2>4. p # <<>> => PathObj(p) \in Object(n)
    BY <2>1, <2>2, <2>3 DEF Object, NoId, NoParent
  <2> QED BY <1>1, <2>4 DEF PathObj
<1> QED BY <1>1, <1>2

\* There are more objects as there are more ids.
LEMMA Grows ==
  ASSUME NEW m \in Nat, NEW n \in Nat, m <= n
  PROVE  /\ Object(m) \subseteq Object(n) /\ Listed(m) \subseteq Listed(n)
         /\ Request_(m) \subseteq Request_(n) /\ Caches(m) \subseteq Caches(n)
         /\ Operation(m) \subseteq Operation(n)
<1>1. Object(m) \subseteq Object(n)
  BY DEF Object
<1>2. Listed(m) \subseteq Listed(n)
  BY <1>1 DEF Listed
<1>3. Request_(m) \subseteq Request_(n)
  BY <1>1 DEF Request_
<1>4. Caches(m) \subseteq Caches(n)
  BY <1>2 DEF Caches
<1>5. Operation(m) \subseteq Operation(n)
  <2>1. Seq(Object(m)) \subseteq Seq(Object(n))
    BY <1>1
  <2>2. Seq(Frames(m)) \subseteq Seq(Frames(n))
    <3>1. Frames(m) \subseteq Frames(n)
      BY <1>1, <1>2 DEF Frames
    <3> QED BY <3>1
  <2>3. 0..(m - 1) \subseteq 0..(n - 1)
    OBVIOUS
  <2> QED BY <1>1, <1>3, <2>1, <2>2, <2>3 DEF Operation
<1> QED BY <1>1, <1>2, <1>3, <1>4, <1>5

------------------------------------------------------------------------------
(* Listings. *)

\* What looks through the listings c has made of them: listings that are as before or show
\* the tree. (cloudreve's Misfiled tells which of its new listings do not.)
Adds(c, c2) ==
  /\ drv # "cloudreve" =>
       \A k \in DOMAIN c2 : (k \in DOMAIN c /\ c2[k] = c[k]) \/ Shown(c2[k]) = Truth(tree, k)
  /\ drv # "baidu" => DOMAIN c2 \subseteq DOMAIN c \cup IdsBelow(fresh)

LEMMA AddsMore ==
  ASSUME NEW c, NEW c1, NEW c2, Adds(c, c1), Adds(c1, c2)
  PROVE  Adds(c, c2)
BY DEF Adds

LEMMA AddsNothing ==
  ASSUME NEW c
  PROVE  Adds(c, c)
BY DEF Adds

LEMMA CacheIs ==
  ASSUME NEW n, NEW c
  PROVE  c \in Caches(n) <=> /\ DOMAIN c \subseteq Key /\ c = [k \in DOMAIN c |-> c[k]]
                             /\ \A k \in DOMAIN c : c[k] \in SUBSET Listed(n)
BY DEF Caches

\* The directory that a driver asks for, and under which key it keeps what it gets.
LEMMA ListingIs ==
  ASSUME Types, NEW q \in Object(fresh), NEW pid
  PROVE  LET l == ListingOf(q, pid)
         IN /\ l.key \in Key /\ (drv # "baidu" => l.key \in IdsBelow(fresh))
            /\ l.path \in PathT /\ l.pid = pid /\ l.there \in BOOLEAN
            /\ l.nodes \subseteq DOMAIN tree
            /\ drv # "cloudreve" =>
                 Truth(tree, l.key) = {<<k, tree[k].name, tree[k].type>> : k \in l.nodes}
<1> DEFINE l == ListingOf(q, pid)
<1>1. Full(q) \in Seq(Names) /\ BaiduKey(q) \in PathT /\ Clean(BaiduKey(q)) = Full(q)
  BY FullIs, BaiduKeyIs
<1>2. Full(q) \in PathT /\ q.id \in IdsBelow(fresh) /\ q.id \in Int
  BY <1>1 DEF PathT, Object, Types, IdsBelow
<1>3. drv \in AllDrivers
  BY DriveParameters DEF Types
<1>4. \A i : Kids(tree, i) \subseteq DOMAIN tree /\ IsDir(tree, i) \in BOOLEAN
  BY DEF Kids, IsDir
<1>5. CASE drv \in {"quark", "thunder", "ali", "ali_open"}
  <2>1. l = Listing(q.id, IsDir(tree, q.id), Kids(tree, q.id), Full(q), pid)
    BY <1>5 DEF ListingOf, QuarkList, ThunderList, AliList, AliOpenList, fileSort, thunderGetFiles,
                aliGetFiles, aliOpenGetFiles
  <2> HIDE DEF l
  <2>2. /\ l.key = q.id /\ l.path = Full(q) /\ l.pid = pid /\ l.nodes = Kids(tree, q.id)
        /\ l.there = IsDir(tree, q.id)
    BY <2>1 DEF Listing
  <2>3. Truth(tree, l.key) = {<<k, tree[k].name, tree[k].type>> : k \in l.nodes}
    BY <1>5, <2>2 DEF Truth
  <2>4. l.key \in Key /\ l.key \in IdsBelow(fresh)
    BY <1>2, <2>2 DEF Key
  <2> QED BY <1>2, <1>4, <2>2, <2>3, <2>4 DEF l
<1>6. CASE drv = "cloudreve"
  <2>1. l = Listing(q.id, IsDir(tree, NodeAt(tree, Full(q))), Kids(tree, NodeAt(tree, Full(q))), Full(q), pid)
    BY <1>6 DEF ListingOf, CloudreveList, listDirectory
  <2> HIDE DEF l
  <2>2. /\ l.key = q.id /\ l.path = Full(q) /\ l.pid = pid /\ l.nodes = Kids(tree, NodeAt(tree, Full(q)))
        /\ l.there = IsDir(tree, NodeAt(tree, Full(q)))
    BY <2>1 DEF Listing
  <2>4. l.key \in Key /\ l.key \in IdsBelow(fresh)
    BY <1>2, <2>2 DEF Key
  <2> QED BY <1>2, <1>4, <1>6, <2>2, <2>4 DEF l
<1>7. CASE drv = "baidu"
  <2>1. l = Listing(BaiduKey(q), IsDir(tree, NodeAt(tree, Full(q))), Kids(tree, NodeAt(tree, Full(q))),
                    BaiduKey(q), pid)
    BY <1>7 DEF ListingOf, BaiduList, baiduGetFiles
  <2> HIDE DEF l
  <2>2. /\ l.key = BaiduKey(q) /\ l.path = BaiduKey(q) /\ l.pid = pid
        /\ l.nodes = Kids(tree, NodeAt(tree, Full(q))) /\ l.there = IsDir(tree, NodeAt(tree, Full(q)))
    BY <2>1 DEF Listing
  <2>3. Truth(tree, l.key) = {<<k, tree[k].name, tree[k].type>> : k \in l.nodes}
    BY <1>1, <1>7, <2>2 DEF Truth
  <2>4. l.key \in Key
    BY <1>1, <2>2 DEF Key
  <2> QED BY <1>1, <1>4, <1>7, <2>2, <2>3, <2>4 DEF l
<1> QED BY <1>3, <1>5, <1>6, <1>7 DEF AllDrivers

\* A listing that is got or loaded.
LEMMA GetOrLoadIs ==
  ASSUME Types, NEW c \in Caches(fresh), NEW q \in Object(fresh), NEW pid \in Int
  PROVE  LET r == GetOrLoad(c, ListingOf(q, pid))
         IN /\ r.ok \in BOOLEAN /\ r.objs \in SUBSET Listed(fresh) /\ r.cache \in Caches(fresh)
            /\ Adds(c, r.cache)
<1> DEFINE l == ListingOf(q, pid)  r == GetOrLoad(c, l)
           objs == {Obj(k, tree[k].name, l.path, tree[k].type, l.pid) : k \in l.nodes}
<1>1. /\ l.key \in Key /\ (drv # "baidu" => l.key \in IdsBelow(fresh))
      /\ l.path \in PathT /\ l.pid = pid /\ l.there \in BOOLEAN
      /\ l.nodes \subseteq DOMAIN tree
      /\ drv # "cloudreve" =>
           Truth(tree, l.key) = {<<k, tree[k].name, tree[k].type>> : k \in l.nodes}
  BY ListingIs
<1> HIDE DEF l
<1>2. DOMAIN c \subseteq Key /\ c = [k \in DOMAIN c |-> c[k]] /\ \A k \in DOMAIN c : c[k] \in SUBSET Listed(fresh)
  BY CacheIs
<1>3. CASE l.key \in DOMAIN c
  <2>1. r = [ok |-> TRUE, objs |-> c[l.key], cache |-> c]
    BY <1>3 DEF GetOrLoad, Found
  <2> QED BY <1>2, <1>3, <2>1 DEF Adds, l
<1>4. CASE l.key \notin DOMAIN c /\ ~l.there
  <2>1. r = [ok |-> FALSE, objs |-> {}, cache |-> c]
    BY <1>4 DEF GetOrLoad, NotFound
  <2> QED BY <2>1 DEF Adds, l
<1>5. CASE l.key \notin DOMAIN c /\ l.there
  <2>1. r = [ok |-> TRUE, objs |-> objs, cache |-> Put(c, l.key, objs)]
    BY <1>1, <1>5 DEF GetOrLoad, Found
  <2>2. objs \subseteq Listed(fresh)
    <3>1. ASSUME NEW k \in l.nodes
          PROVE  Obj(k, tree[k].name, l.path, tree[k].type, l.pid) \in Listed(fresh)
      <4>1. k \in 1..(fresh - 1) /\ tree[k].name \in Names /\ tree[k].type \in {"dir", "file"}
        BY <1>1 DEF Types, TreeOK, Shape, Trees, Node
      <4> QED BY <1>1, <4>1 DEF Listed, Object, Obj, NoId, Types
    <3> QED BY <3>1
  <2>3. Shown(objs) = {<<k, tree[k].name, tree[k].type>> : k \in l.nodes}
    <3>1. \A k \in l.nodes : LET o == Obj(k, tree[k].name, l.path, tree[k].type, l.pid)
                             IN o \in objs /\ o.id = k /\ o.name = tree[k].name /\ o.type = tree[k].type
      BY DEF Obj
    <3>2. \A o \in objs : o.id \in l.nodes /\ o.name = tree[o.id].name /\ o.type = tree[o.id].type
      BY DEF Obj
    <3> HIDE DEF objs
    <3> QED BY <3>1, <3>2 DEF Shown
  <2> HIDE DEF objs
  <2> DEFINE c2 == Put(c, l.key, objs)
  <2>4. /\ DOMAIN c2 = DOMAIN c \cup {l.key} /\ c2[l.key] = objs
        /\ \A k \in DOMAIN c : c2[k] = c[k] /\ c2 = [i \in DOMAIN c2 |-> c2[i]]
    BY <1>5 DEF Put
  <2>5. c2 = [i \in DOMAIN c2 |-> c2[i]]
    BY DEF Put
  <2> HIDE DEF c2
  <2>6. c2 \in Caches(fresh)
    BY <1>1, <1>2, <2>2, <2>4, <2>5, CacheIs
  <2>7. Adds(c, c2)
    BY <1>1, <2>3, <2>4 DEF Adds
  <2> HIDE DEF r
  <2>8. r.ok = TRUE /\ r.objs = objs /\ r.cache = c2
    BY <2>1 DEF c2
  <2> QED BY <2>2, <2>6, <2>7, <2>8 DEF r, l
<1> QED BY <1>1, <1>3, <1>4, <1>5

\* The walk down from the root.
Walks(c) ==
  {s \in [ok : BOOLEAN, obj : Object(fresh), cache : Caches(fresh), end : BOOLEAN] :
     Adds(c, s.cache) /\ Proper(s.obj)}

LEMMA LookIs ==
  ASSUME Types, NEW c, NEW s \in Walks(c), NEW n, NEW mustExist \in BOOLEAN
  PROVE  Look(s, n, mustExist) \in Walks(c)
<1> DEFINE l == Children(s.cache, s.obj)  m == {o \in l.objs : o.name = n}
<1>0. /\ s.obj \in Object(fresh) /\ s.cache \in Caches(fresh) /\ s.obj.id \in Int /\ Adds(c, s.cache)
      /\ s \in [ok : BOOLEAN, obj : Object(fresh), cache : Caches(fresh), end : BOOLEAN]
      /\ Proper(s.obj)
  BY DEF Walks, Object, Types
<1>1. l.ok \in BOOLEAN /\ l.objs \in SUBSET Listed(fresh) /\ l.cache \in Caches(fresh) /\ Adds(s.cache, l.cache)
  BY <1>0, GetOrLoadIs DEF Children
<1>2. Adds(c, l.cache)
  BY <1>0, <1>1, AddsMore
<1>3. CASE s.end
  BY <1>3 DEF Look
<1>4. CASE ~s.end /\ ~l.ok
  <2>1. Look(s, n, mustExist) = [s EXCEPT !.ok = FALSE, !.end = TRUE]
    BY <1>4 DEF Look, Down
  <2> QED BY <1>0, <2>1 DEF Walks
<1>5. CASE ~s.end /\ l.ok /\ m # {}
  <2>1. Look(s, n, mustExist) = [s EXCEPT !.obj = CHOOSE o \in m : TRUE, !.cache = l.cache]
    BY <1>5 DEF Look, Down
  <2> DEFINE o == CHOOSE x \in m : TRUE
  <2>2. o \in m
    BY <1>5
  <2> HIDE DEF o
  <2>3. o \in Object(fresh) /\ Proper(o)
    BY <1>1, <2>2 DEF Listed, Object, Types, Proper
  <2>4. Look(s, n, mustExist) = [s EXCEPT !.obj = o, !.cache = l.cache]
    BY <2>1 DEF o
  <2> HIDE DEF l, m
  <2> QED BY <1>0, <1>1, <1>2, <2>3, <2>4 DEF Walks
<1>6. CASE ~s.end /\ l.ok /\ m = {}
  <2>1. Look(s, n, mustExist) = [s EXCEPT !.ok = ~mustExist, !.end = TRUE, !.cache = l.cache]
    BY <1>6 DEF Look, Down
  <2> HIDE DEF l, m
  <2> QED BY <1>0, <1>1, <1>2, <2>1 DEF Walks
<1> QED BY <1>0, <1>1, <1>3, <1>4, <1>5, <1>6

\* h is that walk, one component after another.
Walked(h, c, path, mustExist) ==
  /\ h[0] = [ok |-> TRUE, obj |-> RootObj, cache |-> c, end |-> FALSE]
  /\ \A k \in 1..Len(path) : h[k - 1] \in Walks(c) /\ h[k] = Look(h[k - 1], path[k], mustExist)

LEMMA GetPanObjLooks ==
  ASSUME Types, NEW c \in Caches(fresh), NEW path \in Seq(Names), NEW mustExist \in BOOLEAN
  PROVE  \E h : /\ Walked(h, c, path, mustExist) /\ GetPanObj(c, path, mustExist) = h[Len(path)]
                /\ h[Len(path)] \in Walks(c)
<1> DEFINE n == Len(path)
           a == [ok |-> TRUE, obj |-> RootObj, cache |-> c, end |-> FALSE]
           F == [k \in 1..n |-> [s \in Walks(c) |-> Look(s, path[k], mustExist)]]
           S == [k \in 0..n |-> Walks(c)]
           Eq(f) == f = [k \in 0..n |-> IF k = 0 THEN a ELSE Look(f[k - 1], path[k], mustExist)]
           h == CHOOSE f : Eq(f)
<1>1. n \in Nat
  OBVIOUS
<1>2. a \in Walks(c)
  <2>1. RootObj \in Object(fresh) /\ Proper(RootObj)
    BY RootIs DEF Types, Proper
  <2> QED BY <2>1 DEF Walks, Adds
<1>3. GetPanObj(c, path, mustExist) = h[n]
  BY DEF GetPanObj
<1> HIDE DEF n, a, h, Eq
<1>4. \A k \in 1..n : \A s \in Walks(c) : F[k][s] = Look(s, path[k], mustExist) /\ F[k][s] \in Walks(c)
  BY LookIs
<1>5. \A k \in 0..n : S[k] = Walks(c)
  OBVIOUS
<1> HIDE DEF F, S
<1>6. PICK g : Course(g, n, a, F, S)
  <2>1. a \in S[0] /\ \A k \in 1..n : k \in 0..n /\ k - 1 \in 0..n
    BY <1>1, <1>2, <1>5
  <2>2. \A k \in 1..n : \A s \in S[k - 1] : F[k][s] \in S[k]
    BY <1>4, <1>5, <2>1
  <2>3. Leads(n, a, F, S)
    BY <2>1, <2>2 DEF Leads
  <2> QED BY <1>1, <2>3, Recursion
<1>7. \A k \in 0..n : g[k] = IF k = 0 THEN a ELSE Look(g[k - 1], path[k], mustExist)
  <2>1. ASSUME NEW k \in 1..n PROVE g[k] = Look(g[k - 1], path[k], mustExist)
    <3>1. k - 1 \in 0..n
      BY <1>1
    <3>2. g[k] = F[k][g[k - 1]] /\ g[k - 1] \in S[k - 1]
      BY <1>6, <3>1, Zenon DEF Course
    <3>3. g[k - 1] \in Walks(c)
      BY <1>5, <3>1, <3>2, Zenon
    <3> QED BY <1>4, <3>2, <3>3, Zenon
  <2>2. g[0] = a /\ \A k \in 0..n : k # 0 => k \in 1..n
    BY <1>1, <1>6 DEF Course
  <2> QED BY <2>1, <2>2
<1>8. Eq(g)
  BY <1>6, <1>7 DEF Eq, Course
<1>9. Eq(h)
  BY <1>8 DEF h
<1>10. \A k \in 0..n : h[k] = IF k = 0 THEN a ELSE Look(h[k - 1], path[k], mustExist)
  BY <1>9 DEF Eq
<1>11. Follows(h, n, a, F, S)
  <2>1. 0 \in 0..n /\ \A k \in 1..n : k # 0 /\ k \in 0..n /\ k - 1 \in 0..n
    BY <1>1
  <2> QED BY <1>4, <1>5, <1>10, <2>1 DEF Follows
<1>12. n \in 0..n /\ \A k \in 0..n : h[k] \in S[k]
  BY <1>1, <1>6, <1>11, OneCourse
<1>13. \A k \in 0..n : h[k] \in Walks(c)
  BY <1>5, <1>12
<1>14. h[0] = a /\ \A k \in 1..n : h[k - 1] \in Walks(c) /\ h[k] = Look(h[k - 1], path[k], mustExist)
  <2>1. 0 \in 0..n /\ \A k \in 1..n : k # 0 /\ k \in 0..n /\ k - 1 \in 0..n
    BY <1>1
  <2> QED BY <1>10, <1>13, <2>1
<1>15. Walked(h, c, path, mustExist)
  BY <1>14 DEF Walked, n, a
<1> QED BY <1>3, <1>12, <1>13, <1>15 DEF n

LEMMA GetPanObjIs ==
  ASSUME Types, NEW c \in Caches(fresh), NEW path \in Seq(Names), NEW mustExist \in BOOLEAN
  PROVE  GetPanObj(c, path, mustExist) \in Walks(c)
BY GetPanObjLooks

\* An operand.
LEMMA ResolvedIs ==
  ASSUME Types, NEW c \in Caches(fresh), NEW o \in Object(fresh)
  PROVE  LET r == Resolved(c, o)
         IN /\ r.ok \in BOOLEAN /\ r.obj \in Object(fresh) /\ r.cache \in Caches(fresh) /\ Adds(c, r.cache)
            /\ o.id # NoId \/ drv = "baidu" => r.obj = o
<1>1. CASE o.id # NoId \/ drv = "baidu"
  <2>1. Resolved(c, o) = [ok |-> TRUE, obj |-> o, cache |-> c]
    BY <1>1 DEF Resolved, Given
  <2> QED BY <2>1 DEF Adds
<1>2. CASE ~ (o.id # NoId \/ drv = "baidu")
  <2>1. Resolved(c, o) = GetPanObj(c, Full(o), TRUE)
    BY <1>2 DEF Resolved
  <2>2. Resolved(c, o) \in Walks(c)
    BY <2>1, FullIs, GetPanObjIs
  <2> QED BY <1>2, <2>2 DEF Walks
<1> QED BY <1>1, <1>2

LEMMA DelIs ==
  ASSUME NEW n, NEW c \in Caches(n), NEW keys
  PROVE  /\ Del(c, keys) \in Caches(n) /\ Adds(c, Del(c, keys)) /\ DOMAIN Del(c, keys) = DOMAIN c \ keys
         /\ \A k \in DOMAIN c \ keys : Del(c, keys)[k] = c[k]
<1> DEFINE d == Del(c, keys)
<1>1. d = [k \in DOMAIN c \ keys |-> c[k]]
  BY DEF Del, Restrict
<1>2. DOMAIN d = DOMAIN c \ keys /\ (\A k \in DOMAIN c \ keys : d[k] = c[k]) /\ d = [k \in DOMAIN d |-> d[k]]
  BY <1>1
<1> HIDE DEF d
<1>3. d \in Caches(n)
  BY <1>2, CacheIs
<1>4. Adds(c, d)
  BY <1>2 DEF Adds
<1> QED BY <1>2, <1>3, <1>4 DEF d

\* A directory, as its driver lists it.
LEMMA ListIs ==
  ASSUME Types, NEW c \in Caches(fresh), NEW dir \in Object(fresh), NEW reload \in BOOLEAN
  PROVE  LET r == List(c, dir, reload)
         IN /\ r.ok \in BOOLEAN /\ r.objs \in SUBSET Listed(fresh) /\ r.cache \in Caches(fresh)
            /\ Adds(c, r.cache)
<1> DEFINE g == IF dir.id = NoId /\ drv \notin {"cloudreve", "baidu"}
                THEN GetPanObj(c, Full(dir), TRUE) ELSE Given(c, dir)
           l == ListingOf(g.obj, dir.id)
           d == IF reload THEN Del(g.cache, {l.key}) ELSE g.cache
           r == List(c, dir, reload)
<1>1. dir.id \in Int
  BY DEF Object, Types
<1>2. g.ok \in BOOLEAN /\ g.obj \in Object(fresh) /\ g.cache \in Caches(fresh) /\ Adds(c, g.cache)
  <2>1. CASE dir.id = NoId /\ drv \notin {"cloudreve", "baidu"}
    <3>1. g \in Walks(c)
      BY <2>1, FullIs, GetPanObjIs
    <3> HIDE DEF g
    <3> QED BY <3>1 DEF Walks
  <2>2. CASE ~ (dir.id = NoId /\ drv \notin {"cloudreve", "baidu"})
    <3>1. g = [ok |-> TRUE, obj |-> dir, cache |-> c]
      BY <2>2 DEF Given
    <3> HIDE DEF g
    <3> QED BY <3>1, AddsNothing
  <2> QED BY <2>1, <2>2
<1>3. r = IF ~g.ok THEN NotFound(g.cache) ELSE GetOrLoad(d, l)
  BY DEF List, ListResolved, ListFound
<1> HIDE DEF g
<1>4. d \in Caches(fresh) /\ Adds(g.cache, d)
  <2>1. g.cache \in Caches(fresh) /\ Adds(g.cache, g.cache)
    BY <1>2, AddsNothing
  <2>2. Del(g.cache, {l.key}) \in Caches(fresh) /\ Adds(g.cache, Del(g.cache, {l.key}))
    BY <2>1, DelIs
  <2> QED BY <2>1, <2>2
<1> HIDE DEF d, r
<1>5. CASE ~g.ok
  <2>1. r = [ok |-> FALSE, objs |-> {}, cache |-> g.cache]
    BY <1>3, <1>5 DEF NotFound
  <2> QED BY <1>2, <2>1 DEF r
<1>6. CASE g.ok
  <2>1. /\ r.ok \in BOOLEAN /\ r.objs \in SUBSET Listed(fresh) /\ r.cache \in Caches(fresh)
        /\ Adds(d, r.cache)
    BY <1>1, <1>2, <1>3, <1>4, <1>6, GetOrLoadIs
  <2>2. Adds(c, r.cache)
    BY <1>2, <1>4, <2>1, AddsMore
  <2> QED BY <2>1, <2>2 DEF r
<1> QED BY <1>2, <1>5, <1>6

------------------------------------------------------------------------------
(* The objects of one operation. *)

Bags(c) ==
  {s \in [objs : SUBSET Object(fresh), keys : SUBSET Key, cache : Caches(fresh)] : Adds(c, s.cache)}

\* A file is among what was collected, and the listing it is in.
Has(s, item, void) == item.type = "file" => item \in s.objs /\ {item.pid} \ void \subseteq s.keys

LEMMA LookUpIs ==
  ASSUME Types, NEW c \in Caches(fresh), NEW o \in Object(fresh), NEW path \in Seq(Names)
  PROVE  LET g == LookUp(c, o, path)
         IN /\ g.ok \in BOOLEAN /\ g.obj \in Object(fresh) /\ g.cache \in Caches(fresh) /\ Adds(c, g.cache)
            /\ o.type = "file" => o.id \notin {Root, NoId} /\ g.ok /\ g.obj = o
            /\ o.id \notin {Root, NoId} => g.obj = o
<1> DEFINE g == LookUp(c, o, path)
<1>1. o.type = "file" => o.id \notin {Root, NoId}
  BY DEF Object, Root, NoId, Types
<1>2. CASE o.id \notin {Root, NoId}
  <2>1. g = [ok |-> TRUE, obj |-> o, cache |-> c]
    BY <1>2 DEF LookUp, Given
  <2> QED BY <1>1, <2>1, AddsNothing
<1>3. CASE o.id \in {Root, NoId} /\ o.path = <<>>
  <2>1. g = [ok |-> FALSE, obj |-> o, cache |-> c]
    BY <1>3 DEF LookUp, Missing
  <2> QED BY <1>1, <1>3, <2>1, AddsNothing
<1>4. CASE o.id \in {Root, NoId} /\ o.path # <<>>
  <2>1. g \in Walks(c)
    BY <1>4, GetPanObjIs DEF LookUp
  <2> HIDE DEF g
  <2>2. /\ g.ok \in BOOLEAN /\ g.obj \in Object(fresh) /\ g.cache \in Caches(fresh) /\ Adds(c, g.cache)
    BY <2>1 DEF Walks
  <2> QED BY <1>1, <1>4, <2>2 DEF g
<1> QED BY <1>2, <1>3, <1>4

LEMMA CollectedIs ==
  ASSUME NEW c, NEW s \in Bags(c), NEW g, g.ok \in BOOLEAN, g.obj \in Object(fresh),
         g.cache \in Caches(fresh), Adds(s.cache, g.cache), NEW keys \in SUBSET Key
  PROVE  LET t == Collected(s, g, keys)
         IN /\ t \in Bags(c) /\ s.objs \subseteq t.objs /\ s.keys \subseteq t.keys
            /\ g.ok => g.obj \in t.objs /\ keys \subseteq t.keys
            /\ \A o \in t.objs \ s.objs : g.ok /\ o = g.obj
<1> DEFINE t == Collected(s, g, keys)
<1>1. /\ s \in [objs : SUBSET Object(fresh), keys : SUBSET Key, cache : Caches(fresh)]
      /\ Adds(c, g.cache)
  BY AddsMore DEF Bags
<1>2. CASE g.ok
  <2>1. t = [objs |-> s.objs \cup {g.obj}, keys |-> s.keys \cup keys, cache |-> g.cache]
    BY <1>2 DEF Collected
  <2> HIDE DEF t
  <2> QED BY <1>1, <1>2, <2>1 DEF Bags, t
<1>3. CASE ~g.ok
  <2>1. t = [s EXCEPT !.cache = g.cache]
    BY <1>3 DEF Collected
  <2> HIDE DEF t
  <2> QED BY <1>1, <1>3, <2>1 DEF Bags, t
<1> QED BY <1>2, <1>3

LEMMA PathsAre ==
  ASSUME NEW n, NEW o \in Object(n)
  PROVE  Clean(o.path) \in Seq(Names) /\ o.pid \in Key /\ o.id \in Key
BY CleanIs DEF Object, Key

\* h collects one item after another.
Collects(h, c, items, forDelete) ==
  /\ h[0] = Nothing(c)
  /\ \A k \in 1..Len(items) :
       /\ h[k - 1] \in Bags(c)
       /\ h[k] = CollectItem(h[k - 1], items[k],
                            LookUp(h[k - 1].cache, items[k], Clean(items[k].path)), forDelete)

LEMMA CollectItemIdsIs ==
  ASSUME Types, NEW c \in Caches(fresh), NEW items \in Seq(Object(fresh)), NEW forDelete \in BOOLEAN
  PROVE  LET l == CollectItemIds(c, items, forDelete)
         IN /\ l \in Bags(c)
            /\ forDelete => \A i \in 1..Len(items) : Has(l, items[i], {NoParent, NoId})
            /\ \E h : Collects(h, c, items, forDelete) /\ l = h[Len(items)]
<1> DEFINE n == Len(items)
           a == Nothing(c)
           Add(s, item) == CollectItem(s, item, LookUp(s.cache, item, Clean(item.path)), forDelete)
           F == [k \in 1..n |-> [s \in Bags(c) |-> Add(s, items[k])]]
           S == [k \in 0..n |-> {s \in Bags(c) : forDelete => \A i \in 1..k : Has(s, items[i], {NoParent, NoId})}]
           Eq(f) == f = [k \in 0..n |-> IF k = 0 THEN a ELSE Add(f[k - 1], items[k])]
           h == CHOOSE f : Eq(f)
<1>1. n \in Nat /\ \A k \in 1..n : items[k] \in Object(fresh)
  OBVIOUS
<1>2. a \in Bags(c)
  <2>1. a = [objs |-> {}, keys |-> {}, cache |-> c]
    BY DEF Nothing
  <2> HIDE DEF a
  <2> QED BY <2>1, AddsNothing DEF Bags
<1>3. CollectItemIds(c, items, forDelete) = h[n]
  BY DEF CollectItemIds
<1>4. ASSUME NEW s \in Bags(c), NEW item \in Object(fresh)
      PROVE  /\ Add(s, item) \in Bags(c) /\ s.objs \subseteq Add(s, item).objs
             /\ s.keys \subseteq Add(s, item).keys
             /\ forDelete => Has(Add(s, item), item, {NoParent, NoId})
  <2> DEFINE g == LookUp(s.cache, item, Clean(item.path))
             keys == IF g.obj.type = "dir" THEN {g.obj.id}
                     ELSE IF forDelete THEN {item.pid} \ {NoParent, NoId} ELSE {}
  <2>1. s.cache \in Caches(fresh)
    BY DEF Bags
  <2>2. /\ g.ok \in BOOLEAN /\ g.obj \in Object(fresh) /\ g.cache \in Caches(fresh)
        /\ Adds(s.cache, g.cache) /\ (item.type = "file" => g.ok /\ g.obj = item)
    BY <2>1, LookUpIs, PathsAre
  <2> HIDE DEF g
  <2>3. keys \in SUBSET Key
    BY <2>2, PathsAre
  <2>4. Add(s, item) = Collected(s, g, keys)
    BY DEF CollectItem, g
  <2> HIDE DEF Add
  <2>5. item.type = "file" => (forDelete => keys = {item.pid} \ {NoParent, NoId})
    BY <2>2
  <2> HIDE DEF keys
  <2>6. /\ Add(s, item) \in Bags(c) /\ s.objs \subseteq Add(s, item).objs
        /\ s.keys \subseteq Add(s, item).keys
        /\ g.ok => g.obj \in Add(s, item).objs /\ keys \subseteq Add(s, item).keys
    BY <2>2, <2>3, <2>4, CollectedIs
  <2> QED BY <2>2, <2>5, <2>6 DEF Has
<1> HIDE DEF n, a, h, Eq, Add
<1>5. /\ \A k \in 1..n : \A s \in Bags(c) : F[k][s] = Add(s, items[k])
      /\ \A k \in 0..n : S[k] = {s \in Bags(c) : forDelete => \A i \in 1..k : Has(s, items[i], {NoParent, NoId})}
  OBVIOUS
<1> HIDE DEF F, S
<1>6. ASSUME NEW k \in 1..n, NEW s \in S[k - 1] PROVE s \in Bags(c) /\ F[k][s] \in S[k]
  <2>1. k - 1 \in 0..n /\ k \in 0..n /\ items[k] \in Object(fresh) /\ \A i \in 1..k : i # k => i \in 1..(k - 1)
    BY <1>1
  <2>2. s \in Bags(c) /\ (forDelete => \A i \in 1..(k - 1) : Has(s, items[i], {NoParent, NoId}))
    BY <1>5, <2>1
  <2>3. /\ F[k][s] = Add(s, items[k]) /\ Add(s, items[k]) \in Bags(c)
        /\ s.objs \subseteq Add(s, items[k]).objs /\ s.keys \subseteq Add(s, items[k]).keys
        /\ forDelete => Has(Add(s, items[k]), items[k], {NoParent, NoId})
    BY <1>4, <1>5, <2>1, <2>2
  <2>4. ASSUME forDelete, NEW i \in 1..k PROVE Has(F[k][s], items[i], {NoParent, NoId})
    BY <2>1, <2>2, <2>3, <2>4 DEF Has
  <2>5. F[k][s] \in Bags(c) /\ (forDelete => \A i \in 1..k : Has(F[k][s], items[i], {NoParent, NoId}))
    BY <2>3, <2>4
  <2>6. F[k][s] \in S[k]
    BY <1>5, <2>1, <2>5, Zenon
  <2> QED BY <2>2, <2>6
<1>7. PICK g : Course(g, n, a, F, S)
  <2>1. a \in S[0]
    BY <1>1, <1>2, <1>5
  <2>2. \A k \in 1..n : \A s \in S[k - 1] : F[k][s] \in S[k]
    BY <1>6
  <2>3. Leads(n, a, F, S)
    BY <2>1, <2>2 DEF Leads
  <2> QED BY <1>1, <2>3, Recursion
<1>8. Eq(g)
  <2>1. \A k \in 0..n : k # 0 => k \in 1..n /\ k - 1 \in 0..n
    BY <1>1
  <2>2. \A k \in 0..n : g[k] = IF k = 0 THEN a ELSE Add(g[k - 1], items[k])
    BY <1>5, <1>6, <1>7, <2>1 DEF Course
  <2> QED BY <1>7, <2>2 DEF Eq, Course
<1>9. Eq(h)
  BY <1>8 DEF h
<1>10. \A k \in 0..n : h[k] = IF k = 0 THEN a ELSE Add(h[k - 1], items[k])
  BY <1>9 DEF Eq
<1>11. Follows(h, n, a, F, S)
  <2>1. 0 \in 0..n /\ \A k \in 1..n : k # 0 /\ k \in 0..n /\ k - 1 \in 0..n
    BY <1>1
  <2> QED BY <1>5, <1>6, <1>10, <2>1 DEF Follows
<1>12. n \in 0..n /\ \A k \in 0..n : h[k] \in S[k]
  BY <1>1, <1>7, <1>11, OneCourse, Zenon
<1>13. h[n] \in S[n] /\ \A k \in 0..n : h[k] \in Bags(c)
  BY <1>5, <1>12
<1>14. h[0] = a /\ \A k \in 1..n : h[k - 1] \in Bags(c) /\ h[k] = Add(h[k - 1], items[k])
  <2>1. 0 \in 0..n /\ \A k \in 1..n : k # 0 /\ k \in 0..n /\ k - 1 \in 0..n
    BY <1>1
  <2> QED BY <1>10, <1>13, <2>1
<1>15. Collects(h, c, items, forDelete)
  BY <1>14 DEF Collects, n, a, Add
<1> QED BY <1>3, <1>5, <1>12, <1>13, <1>15 DEF n

Gathers(h, c, items, forDelete) ==
  /\ h[0] = Nothing(c)
  /\ \A k \in 1..Len(items) :
       /\ h[k - 1] \in Bags(c)
       /\ h[k] = Source(h[k - 1], items[k],
                       LookUp(h[k - 1].cache, items[k],
                              IF forDelete THEN Clean(items[k].path) ELSE Full(items[k])), forDelete)

\* Every file in s is one of the first n items, or in a listing that is to be deleted.
Named(s, items, n) ==
  \A o \in s.objs : o.type = "file" => (\E i \in 1..n : o = items[i]) \/ o.pid \in s.keys

LEMMA SourcesIs ==
  ASSUME Types, NEW c \in Caches(fresh), NEW items \in Seq(Object(fresh)), NEW forDelete \in BOOLEAN
  PROVE  LET l == Sources(c, items, forDelete)
         IN /\ l \in Bags(c)
            /\ forDelete => \A i \in 1..Len(items) : Has(l, items[i], {NoParent, NoId})
            /\ Named(l, items, Len(items))
            /\ \E h : Gathers(h, c, items, forDelete) /\ l = h[Len(items)]
<1> DEFINE n == Len(items)
           a == Nothing(c)
           Path(item) == IF forDelete THEN Clean(item.path) ELSE Full(item)
           Add(s, item) == Source(s, item, LookUp(s.cache, item, Path(item)), forDelete)
           F == [k \in 1..n |-> [s \in Bags(c) |-> Add(s, items[k])]]
           All(s, k) == forDelete => \A i \in 1..k : Has(s, items[i], {NoParent, NoId})
           S == [k \in 0..n |-> {s \in Bags(c) : All(s, k) /\ Named(s, items, k)}]
           Eq(f) == f = [k \in 0..n |-> IF k = 0 THEN a ELSE Add(f[k - 1], items[k])]
           h == CHOOSE f : Eq(f)
<1>1. n \in Nat /\ \A k \in 1..n : items[k] \in Object(fresh)
  OBVIOUS
<1>2. a \in Bags(c)
  <2>1. a = [objs |-> {}, keys |-> {}, cache |-> c]
    BY DEF Nothing
  <2> HIDE DEF a
  <2> QED BY <2>1, AddsNothing DEF Bags
<1>3. Sources(c, items, forDelete) = h[n]
  BY DEF Sources
<1>4. ASSUME NEW s \in Bags(c), NEW item \in Object(fresh)
      PROVE  /\ Add(s, item) \in Bags(c) /\ s.objs \subseteq Add(s, item).objs
             /\ s.keys \subseteq Add(s, item).keys
             /\ forDelete => Has(Add(s, item), item, {NoParent, NoId})
             /\ \A o \in Add(s, item).objs \ s.objs :
                  o.type = "file" => o = item \/ o.pid \in Add(s, item).keys
  <2> DEFINE g == LookUp(s.cache, item, Path(item))
             keys == IF g.obj.type = "dir" THEN {g.obj.id}
                     ELSE IF item.id \in {Root, NoId} THEN {g.obj.pid}
                     ELSE IF forDelete THEN {item.pid} \ {NoId} ELSE {}
  <2>1. s.cache \in Caches(fresh) /\ Path(item) \in Seq(Names)
    BY PathsAre, FullIs DEF Bags
  <2>2. /\ g.ok \in BOOLEAN /\ g.obj \in Object(fresh) /\ g.cache \in Caches(fresh)
        /\ Adds(s.cache, g.cache)
        /\ (item.type = "file" => item.id \notin {Root, NoId} /\ g.ok /\ g.obj = item)
        /\ (item.id \notin {Root, NoId} => g.obj = item)
    <3> HIDE DEF Path
    <3> QED BY <2>1, LookUpIs
  <2> HIDE DEF g
  <2>3. keys \in SUBSET Key
    BY <2>2, PathsAre
  <2>4. Add(s, item) = Collected(s, g, keys)
    BY DEF Source, g
  <2> HIDE DEF Add
  <2>5. /\ item.type = "file" => (forDelete => {item.pid} \ {NoParent, NoId} \subseteq keys)
        /\ g.obj.type = "file" => g.obj = item \/ g.obj.pid \in keys
    BY <2>2
  <2> HIDE DEF keys
  <2>6. /\ Add(s, item) \in Bags(c) /\ s.objs \subseteq Add(s, item).objs
        /\ s.keys \subseteq Add(s, item).keys
        /\ g.ok => g.obj \in Add(s, item).objs /\ keys \subseteq Add(s, item).keys
        /\ \A o \in Add(s, item).objs \ s.objs : g.ok /\ o = g.obj
    BY <2>2, <2>3, <2>4, CollectedIs
  <2> QED BY <2>2, <2>5, <2>6 DEF Has
<1> HIDE DEF n, a, h, Eq, Add
<1>5. /\ \A k \in 1..n : \A s \in Bags(c) : F[k][s] = Add(s, items[k])
      /\ \A k \in 0..n : S[k] = {s \in Bags(c) : All(s, k) /\ Named(s, items, k)}
  OBVIOUS
<1> HIDE DEF F, S
<1>6. ASSUME NEW k \in 1..n, NEW s \in S[k - 1] PROVE s \in Bags(c) /\ F[k][s] \in S[k]
  <2>1. k - 1 \in 0..n /\ k \in 0..n /\ items[k] \in Object(fresh) /\ \A i \in 1..k : i # k => i \in 1..(k - 1)
    BY <1>1
  <2>2. s \in Bags(c) /\ All(s, k - 1) /\ Named(s, items, k - 1)
    BY <1>5, <2>1
  <2>3. /\ F[k][s] = Add(s, items[k]) /\ Add(s, items[k]) \in Bags(c)
        /\ s.objs \subseteq Add(s, items[k]).objs /\ s.keys \subseteq Add(s, items[k]).keys
        /\ forDelete => Has(Add(s, items[k]), items[k], {NoParent, NoId})
        /\ \A o \in Add(s, items[k]).objs \ s.objs :
             o.type = "file" => o = items[k] \/ o.pid \in Add(s, items[k]).keys
    BY <1>4, <1>5, <2>1, <2>2
  <2>4. ASSUME forDelete, NEW i \in 1..k PROVE Has(F[k][s], items[i], {NoParent, NoId})
    BY <2>1, <2>2, <2>3, <2>4 DEF Has
  <2>5. Named(F[k][s], items, k)
    <3>1. k \in 1..k /\ \A i \in 1..(k - 1) : i \in 1..k
      BY <1>1
    <3> QED BY <2>2, <2>3, <3>1 DEF Named
  <2>6. F[k][s] \in S[k]
    <3>1. F[k][s] \in Bags(c) /\ All(F[k][s], k)
      BY <2>3, <2>4
    <3> QED BY <1>5, <2>1, <2>5, <3>1, Zenon
  <2> QED BY <2>2, <2>6
<1>7. PICK g : Course(g, n, a, F, S)
  <2>1. a \in S[0]
    <3>1. a.objs = {} /\ 1..0 = {} /\ 0 \in 0..n
      BY <1>1 DEF a, Nothing
    <3> QED BY <1>2, <1>5, <3>1 DEF Named
  <2>2. \A k \in 1..n : \A s \in S[k - 1] : F[k][s] \in S[k]
    BY <1>6
  <2>3. Leads(n, a, F, S)
    BY <2>1, <2>2 DEF Leads
  <2> QED BY <1>1, <2>3, Recursion
<1>8. Eq(g)
  <2>1. \A k \in 0..n : k # 0 => k \in 1..n /\ k - 1 \in 0..n
    BY <1>1
  <2>2. \A k \in 0..n : g[k] = IF k = 0 THEN a ELSE Add(g[k - 1], items[k])
    BY <1>5, <1>6, <1>7, <2>1 DEF Course
  <2> QED BY <1>7, <2>2 DEF Eq, Course
<1>9. Eq(h)
  BY <1>8 DEF h
<1>10. \A k \in 0..n : h[k] = IF k = 0 THEN a ELSE Add(h[k - 1], items[k])
  BY <1>9 DEF Eq
<1>11. Follows(h, n, a, F, S)
  <2>1. 0 \in 0..n /\ \A k \in 1..n : k # 0 /\ k \in 0..n /\ k - 1 \in 0..n
    BY <1>1
  <2> QED BY <1>5, <1>6, <1>10, <2>1 DEF Follows
<1>12. n \in 0..n /\ \A k \in 0..n : h[k] \in S[k]
  BY <1>1, <1>7, <1>11, OneCourse, Zenon
<1>13. h[n] \in S[n] /\ \A k \in 0..n : h[k] \in Bags(c)
  BY <1>5, <1>12
<1>14. h[0] = a /\ \A k \in 1..n : h[k - 1] \in Bags(c) /\ h[k] = Add(h[k - 1], items[k])
  <2>1. 0 \in 0..n /\ \A k \in 1..n : k # 0 /\ k \in 0..n /\ k - 1 \in 0..n
    BY <1>1
  <2> QED BY <1>10, <1>13, <2>1
<1>15. Gathers(h, c, items, forDelete)
  BY <1>14 DEF Gathers, n, a, Add
<1> QED BY <1>3, <1>5, <1>12, <1>13, <1>15 DEF n

------------------------------------------------------------------------------
(* The server's tree. *)

LEMMA ShapeIs ==
  ASSUME NEW n, NEW t
  PROVE  Shape(t, n) <=> /\ DOMAIN t \subseteq Nat /\ DOMAIN t \subseteq 1..(n - 1)
                         /\ t = [k \in DOMAIN t |-> t[k]]
                         /\ \A k \in DOMAIN t : t[k] \in Node /\ IsDir(t, t[k].parent)
                         /\ Hangs(t)
BY DEF Shape, Trees

LEMMA TreeIs ==
  ASSUME NEW n, NEW t, TreeOK(t, n)
  PROVE  /\ DOMAIN t \subseteq Nat /\ DOMAIN t \subseteq 1..(n - 1)
         /\ t = [k \in DOMAIN t |-> t[k]]
         /\ \A k \in DOMAIN t : t[k] \in Node /\ IsDir(t, t[k].parent)
BY ShapeIs DEF TreeOK

LEMMA MadeIs ==
  ASSUME NEW n \in Nat \ {0}, NEW t, TreeOK(t, n), NEW at, IsDir(t, at), NEW nm \in Names,
         NEW ty \in {"dir", "file"}
  PROVE  LET t2 == Made(t, n, at, nm, ty)
         IN /\ Shape(t2, n + 1) /\ (~HasKid(t, at, nm) => TreeOK(t2, n + 1))
            /\ DOMAIN t2 = DOMAIN t \cup {n} /\ (\A k \in DOMAIN t : t2[k] = t[k])
            /\ (\A i : IsDir(t, i) => IsDir(t2, i)) /\ (ty = "dir" => IsDir(t2, n))
<1> DEFINE t2 == Made(t, n, at, nm, ty)
<1>0. n \notin DOMAIN t /\ at \in Nat /\ at # n
  BY TreeIs DEF IsDir, Root
<1>1. /\ DOMAIN t2 = DOMAIN t \cup {n} /\ t2 = [k \in DOMAIN t2 |-> t2[k]]
      /\ t2[n] = [name |-> nm, parent |-> at, type |-> ty]
      /\ \A k \in DOMAIN t : t2[k] = t[k]
  BY <1>0 DEF Made
<1> HIDE DEF t2
<1>2. \A i : IsDir(t, i) => IsDir(t2, i)
  BY <1>1 DEF IsDir
<1>3. DOMAIN t2 \subseteq Nat /\ DOMAIN t2 \subseteq 1..n
  BY <1>1, TreeIs
<1>4. \A k \in DOMAIN t2 : t2[k] \in Node /\ IsDir(t2, t2[k].parent)
  <2>1. t2[n] \in Node /\ IsDir(t2, t2[n].parent)
    BY <1>0, <1>1, <1>2 DEF Node
  <2>2. \A k \in DOMAIN t : t2[k] \in Node /\ IsDir(t2, t2[k].parent)
    BY <1>1, <1>2, TreeIs
  <2> QED BY <1>1, <2>1, <2>2
<1>5. Hangs(t2)
  <2>1. ASSUME NEW S \in SUBSET DOMAIN t2, S # {} PROVE \E i \in S : t2[i].parent \notin S
    <3> DEFINE T == S \ {n}
    <3>1. T \in SUBSET DOMAIN t
      BY <1>1
    <3>2. CASE T = {}
      <4>1. S = {n}
        BY <2>1, <3>2
      <4> QED BY <1>0, <1>1, <4>1
    <3>3. CASE T # {}
      <4>1. PICK i \in T : t[i].parent \notin T
        BY <3>1, <3>3 DEF TreeOK, Shape, Hangs
      <4>2. i \in DOMAIN t /\ i \in S /\ t2[i].parent = t[i].parent
        BY <1>1, <3>1, <4>1
      <4>3. t[i].parent # n
        BY <1>0, <4>2, TreeIs DEF IsDir, Root
      <4> QED BY <4>1, <4>2, <4>3
    <3> QED BY <3>2, <3>3
  <2> QED BY <2>1 DEF Hangs
<1>6. Shape(t2, n + 1)
  <2>1. n + 1 - 1 = n
    OBVIOUS
  <2> QED BY <1>1, <1>3, <1>4, <1>5, <2>1, ShapeIs
<1>7. ~HasKid(t, at, nm) => Distinct(t2)
  <2>1. Distinct(t)
    BY DEF TreeOK
  <2> QED BY <1>0, <1>1, <2>1 DEF Distinct, HasKid, Kids
<1> QED BY <1>1, <1>2, <1>6, <1>7 DEF t2, IsDir, TreeOK

\* Inside is closed under what is below.
LEMMA InsideIs ==
  ASSUME NEW t, NEW ids
  PROVE  /\ Inside(t, ids) \subseteq DOMAIN t /\ ids \cap DOMAIN t \subseteq Inside(t, ids)
         /\ \A k \in DOMAIN t : t[k].parent \in Inside(t, ids) => k \in Inside(t, ids)
         /\ \A S \in SUBSET DOMAIN t :
              ids \cap DOMAIN t \subseteq S /\ (\A j \in DOMAIN t : t[j].parent \in S => j \in S)
                => Inside(t, ids) \subseteq S
<1>1. ASSUME NEW k \in DOMAIN t, t[k].parent \in Inside(t, ids) PROVE k \in Inside(t, ids)
  <2>1. t[k].parent \in DOMAIN t
    BY <1>1 DEF Inside
  <2> QED BY <1>1, <2>1 DEF Inside
<1> QED BY <1>1 DEF Inside

LEMMA RemovedIs ==
  ASSUME NEW n \in Nat, NEW t, TreeOK(t, n), NEW ids
  PROVE  LET t2 == Removed(t, ids)
         IN TreeOK(t2, n) /\ DOMAIN t2 = DOMAIN t \ Inside(t, ids) /\ \A k \in DOMAIN t2 : t2[k] = t[k]
<1> DEFINE t2 == Removed(t, ids)
<1>1. DOMAIN t2 = DOMAIN t \ Inside(t, ids) /\ t2 = [k \in DOMAIN t2 |-> t2[k]] /\ \A k \in DOMAIN t2 : t2[k] = t[k]
  BY DEF Removed, Restrict
<1> HIDE DEF t2
<1>2. ASSUME NEW k \in DOMAIN t2 PROVE t2[k] \in Node /\ IsDir(t2, t2[k].parent)
  <2>1. k \in DOMAIN t /\ t2[k] = t[k] /\ IsDir(t, t[k].parent) /\ t[k] \in Node /\ t[k].parent \notin Inside(t, ids)
    BY <1>1, TreeIs, InsideIs
  <2> QED BY <1>1, <2>1 DEF IsDir
<1>3. Hangs(t) /\ Distinct(t) /\ DOMAIN t2 \subseteq DOMAIN t
  BY <1>1 DEF TreeOK, Shape
<1>4. Hangs(t2) /\ Distinct(t2)
  BY <1>1, <1>3 DEF Hangs, Distinct
<1>5. TreeOK(t2, n)
  BY <1>1, <1>2, <1>3, <1>4, TreeIs, ShapeIs DEF TreeOK
<1> QED BY <1>1, <1>5 DEF t2

LEMMA RenamedIs ==
  ASSUME NEW n \in Nat, NEW t, TreeOK(t, n), NEW i \in DOMAIN t, NEW nm \in Names
  PROVE  LET t2 == Renamed(t, i, nm)
         IN /\ Shape(t2, n) /\ (~HasKid(t, t[i].parent, nm) => TreeOK(t2, n))
            /\ DOMAIN t2 = DOMAIN t /\ \A k \in DOMAIN t2 : t2[k].parent = t[k].parent
<1> DEFINE t2 == Renamed(t, i, nm)
<1>1. /\ DOMAIN t2 = DOMAIN t /\ t2 = [k \in DOMAIN t2 |-> t2[k]]
      /\ \A k \in DOMAIN t : t2[k] = IF k = i THEN [t[k] EXCEPT !.name = nm] ELSE t[k]
  BY DEF Renamed
<1> HIDE DEF t2
<1>2. ASSUME NEW k \in DOMAIN t
      PROVE  /\ t2[k] \in Node /\ t2[k].parent = t[k].parent /\ t2[k].type = t[k].type
             /\ t2[k].name = IF k = i THEN nm ELSE t[k].name
  BY <1>1, TreeIs DEF Node
<1>3. \A k \in DOMAIN t2 : IsDir(t2, t2[k].parent)
  BY <1>1, <1>2, TreeIs DEF IsDir
<1>4. Hangs(t) /\ Distinct(t)
  BY DEF TreeOK, Shape
<1>5. Hangs(t2)
  BY <1>1, <1>2, <1>4 DEF Hangs
<1>6. Shape(t2, n)
  BY <1>1, <1>2, <1>3, <1>5, TreeIs, ShapeIs
<1>7. ~HasKid(t, t[i].parent, nm) => Distinct(t2)
  BY <1>1, <1>2, <1>4 DEF Distinct, HasKid, Kids
<1> QED BY <1>1, <1>2, <1>6, <1>7 DEF t2, TreeOK

LEMMA MovedIs ==
  ASSUME NEW n \in Nat, NEW t, TreeOK(t, n), NEW ids, NEW dst, IsDir(t, dst),
         dst \notin Inside(t, ids), \A i \in ids \cap DOMAIN t : ~HasKid(t, dst, t[i].name),
         \A i, j \in ids \cap DOMAIN t : t[i].name = t[j].name => i = j
  PROVE  LET t2 == Moved(t, ids, dst)
         IN TreeOK(t2, n) /\ DOMAIN t2 = DOMAIN t
<1> DEFINE t2 == Moved(t, ids, dst)
<1>1. /\ DOMAIN t2 = DOMAIN t /\ t2 = [k \in DOMAIN t2 |-> t2[k]]
      /\ \A k \in DOMAIN t : t2[k] = IF k \in ids THEN [t[k] EXCEPT !.parent = dst] ELSE t[k]
  BY DEF Moved
<1> HIDE DEF t2
<1>2. dst \in Nat
  BY TreeIs DEF IsDir, Root
<1>3. ASSUME NEW k \in DOMAIN t
      PROVE  /\ t2[k] \in Node /\ t2[k].parent = (IF k \in ids THEN dst ELSE t[k].parent)
             /\ t2[k].type = t[k].type /\ t2[k].name = t[k].name
  BY <1>1, <1>2, TreeIs DEF Node
<1>4. \A k \in DOMAIN t2 : IsDir(t2, t2[k].parent)
  BY <1>1, <1>3, TreeIs DEF IsDir
<1>5. Hangs(t) /\ Distinct(t)
  BY DEF TreeOK, Shape
<1>6. Hangs(t2)
  <2>1. ASSUME NEW S \in SUBSET DOMAIN t2, S # {} PROVE \E i \in S : t2[i].parent \notin S
    <3> DEFINE I == Inside(t, ids)
    <3>1. CASE S \ I # {}
      <4>1. PICK i \in S \ I : t[i].parent \notin S \ I
        <5>1. S \ I \in SUBSET DOMAIN t
          BY <1>1
        <5> QED BY <1>5, <3>1, <5>1 DEF Hangs
      <4>2. i \in DOMAIN t /\ i \notin ids /\ t[i].parent \notin I
        BY <1>1, <4>1, InsideIs
      <4> QED BY <1>3, <4>1, <4>2
    <3>2. CASE S \subseteq I
      <4>1. PICK i \in S : t[i].parent \notin S
        BY <1>1, <1>5, <2>1 DEF Hangs
      <4>2. i \in DOMAIN t /\ dst \notin S
        BY <1>1, <3>2
      <4> QED BY <1>3, <4>1, <4>2
    <3> QED BY <3>1, <3>2
  <2> QED BY <2>1 DEF Hangs
<1>7. Distinct(t2)
  <2>1. ASSUME NEW i \in DOMAIN t, NEW j \in DOMAIN t, t2[i].parent = t2[j].parent, t2[i].name = t2[j].name,
               i \in ids
        PROVE  i = j
    <3>1. t2[i].parent = dst /\ t[i].name = t[j].name /\ ~HasKid(t, dst, t[i].name)
      BY <1>3, <2>1
    <3>2. CASE j \in ids
      BY <2>1, <3>1, <3>2
    <3>3. CASE j \notin ids
      <4>1. t[j].parent = dst
        BY <1>3, <2>1, <3>1, <3>3
      <4> QED BY <3>1, <4>1 DEF HasKid, Kids
    <3> QED BY <3>2, <3>3
  <2>2. ASSUME NEW i \in DOMAIN t, NEW j \in DOMAIN t, t2[i].parent = t2[j].parent, t2[i].name = t2[j].name,
               i \notin ids, j \notin ids
        PROVE  i = j
    BY <1>3, <1>5, <2>2 DEF Distinct
  <2>3. ASSUME NEW i \in DOMAIN t, NEW j \in DOMAIN t, t2[i].parent = t2[j].parent, t2[i].name = t2[j].name
        PROVE  i = j
    <3>1. CASE i \in ids
      BY <2>1, <2>3, <3>1
    <3>2. CASE j \in ids
      <4>1. j = i
        BY <2>1, <2>3, <3>2
      <4> QED BY <4>1
    <3>3. CASE i \notin ids /\ j \notin ids
      BY <2>2, <2>3, <3>3
    <3> QED BY <3>1, <3>2, <3>3
  <2> QED BY <1>1, <2>3 DEF Distinct
<1>8. TreeOK(t2, n)
  BY <1>1, <1>3, <1>4, <1>6, <1>7, TreeIs, ShapeIs DEF TreeOK
<1> QED BY <1>1, <1>8 DEF t2

LEMMA ServedIs ==
  ASSUME NEW n \in Nat, NEW t, TreeOK(t, n), NEW r \in Request_(n), r # NoReq, Valid(t, r)
  PROVE  LET t2 == Served(t, r)
         IN /\ TreeOK(t2, n) /\ DOMAIN t2 \subseteq DOMAIN t
            /\ r.do = "rename" => \A k \in DOMAIN t2 : t2[k].parent = t[k].parent
<1>1. r.do \in {"rename", "move", "delete"} /\ (r.do = "rename" => r.name \in Names /\ r.objs # {})
  BY DEF Request_
<1>2. CASE r.do = "delete"
  <2> DEFINE T == Targets(t, r)
  <2>1. Served(t, r) = Removed(t, T)
    BY <1>2 DEF Served
  <2> HIDE DEF T
  <2>2. TreeOK(Removed(t, T), n) /\ DOMAIN Removed(t, T) \subseteq DOMAIN t
    BY RemovedIs, ZenonT(60)
  <2> QED BY <1>2, <2>1, <2>2
<1>3. CASE r.do = "rename"
  <2> DEFINE i == CHOOSE x \in Targets(t, r) : TRUE
  <2>1. Targets(t, r) # {}
    BY <1>1, <1>3 DEF Targets
  <2>2. i \in Targets(t, r)
    BY <2>1
  <2>3. i \in DOMAIN t /\ ~HasKid(t, t[i].parent, r.name)
    BY <1>3, <2>2, Zenon DEF Valid
  <2>4. Served(t, r) = Renamed(t, i, r.name)
    BY <1>3 DEF Served
  <2> HIDE DEF i
  <2> QED BY <1>1, <1>3, <2>3, <2>4, RenamedIs
<1>4. CASE r.do = "move"
  <2> DEFINE T == Targets(t, r)  d == Dst(t, r)
  <2>1. /\ IsDir(t, d) /\ d \notin Inside(t, T) /\ \A i \in T : ~HasKid(t, d, t[i].name)
        /\ \A i, j \in T : t[i].name = t[j].name => i = j
    BY <1>4, Zenon DEF Valid
  <2>2. Served(t, r) = Moved(t, T, d)
    BY <1>4 DEF Served
  <2> HIDE DEF T, d
  <2> QED BY <1>4, <2>1, <2>2, MovedIs
<1> QED BY <1>1, <1>2, <1>3, <1>4

------------------------------------------------------------------------------
(* Paths of nodes. *)

Nodes(t) == {Root} \cup DOMAIN t

\* What is so of a node if it is so of the one above is so of all.
LEMMA AllBelow ==
  ASSUME NEW t, Hangs(t), NEW S \in SUBSET DOMAIN t,
         \A i \in DOMAIN t : t[i].parent \notin S => i \notin S
  PROVE  S = {}
BY DEF Hangs

\* The paths of the nodes obey their equation: the least relation that has the path of the
\* root, and of a node if it has the path of the one above, is a function.
LEMMA PathIs ==
  ASSUME NEW n, NEW t, Shape(t, n)
  PROVE  /\ PathOf(t, Root) = <<>> /\ \A i \in Nodes(t) : PathOf(t, i) \in Seq(Names)
         /\ \A i \in DOMAIN t : /\ t[i].parent \in Nodes(t) /\ t[i].name \in Names
                               /\ PathOf(t, i) = Append(PathOf(t, t[i].parent), t[i].name)
<1> DEFINE N == Nodes(t)
           P == Seq(Names)
           up(k) == t[k].parent
           path(k, p) == Append(p, t[k].name)
           Closed(R) == <<Root, <<>>>> \in R /\ \A k \in DOMAIN t, p \in P :
                          <<up(k), p>> \in R => <<k, path(k, p)>> \in R
           M == {x \in N \X P : \A R \in SUBSET (N \X P) : Closed(R) => x \in R}
           Eq(f) == f = [k \in {Root} \cup DOMAIN t |->
                           IF k = Root THEN <<>> ELSE Append(f[t[k].parent], t[k].name)]
           of(k) == CHOOSE p \in P : <<k, p>> \in M
           g == [k \in N |-> of(k)]
<1>1. /\ Hangs(t) /\ N = {Root} \cup DOMAIN t /\ Root \notin DOMAIN t
      /\ \A k \in DOMAIN t : up(k) \in N /\ t[k].name \in Names
  BY ShapeIs DEF IsDir, Node, Root, Nodes
<1>2. <<>> \in P /\ \A k \in DOMAIN t, p \in P : path(k, p) \in P
  BY <1>1
<1> HIDE DEF N, P, up, path
<1>3. M \subseteq N \X P /\ Closed(M)
  <2>1. <<Root, <<>>>> \in N \X P
    BY <1>1, <1>2
  <2>2. <<Root, <<>>>> \in M
    BY <2>1
  <2>3. ASSUME NEW k \in DOMAIN t, NEW p \in P, <<up(k), p>> \in M
        PROVE  <<k, path(k, p)>> \in M
    <3>1. <<k, path(k, p)>> \in N \X P
      BY <1>1, <1>2
    <3>2. ASSUME NEW R \in SUBSET (N \X P), Closed(R) PROVE <<k, path(k, p)>> \in R
      <4>1. <<up(k), p>> \in R
        BY <2>3, <3>2
      <4> QED BY <3>2, <4>1
    <3> QED BY <3>1, <3>2
  <2> QED BY <2>2, <2>3
<1>4. \A R \in SUBSET (N \X P) : Closed(R) => M \subseteq R
  OBVIOUS
<1> HIDE DEF M
<1>5. \A p \in P : <<Root, p>> \in M => p = <<>>
  <2>1. ASSUME NEW q \in P, <<Root, q>> \in M, q # <<>> PROVE FALSE
    <3> DEFINE R == M \ {<<Root, q>>}
    <3>1. R \in SUBSET (N \X P)
      BY <1>3
    <3>2. <<Root, <<>>>> \in R
      BY <1>3, <2>1
    <3>3. ASSUME NEW k \in DOMAIN t, NEW p \in P, <<up(k), p>> \in R PROVE <<k, path(k, p)>> \in R
      <4>1. <<k, path(k, p)>> \in M
        BY <1>3, <3>3
      <4>2. k # Root
        BY <1>1
      <4> QED BY <4>1, <4>2
    <3>4. Closed(R)
      BY <3>2, <3>3
    <3> QED BY <1>4, <2>1, <3>1, <3>4
  <2> QED BY <2>1
<1>6. \A k \in DOMAIN t, q \in P : <<k, q>> \in M => \E p \in P : <<up(k), p>> \in M /\ q = path(k, p)
  <2>1. ASSUME NEW k \in DOMAIN t, NEW q \in P, <<k, q>> \in M,
               ~ \E p \in P : <<up(k), p>> \in M /\ q = path(k, p)
        PROVE  FALSE
    <3> DEFINE R == M \ {<<k, q>>}
    <3>1. R \in SUBSET (N \X P)
      BY <1>3
    <3>2. <<Root, <<>>>> \in R
      BY <1>1, <1>3
    <3>3. ASSUME NEW j \in DOMAIN t, NEW p \in P, <<up(j), p>> \in R PROVE <<j, path(j, p)>> \in R
      <4>1. <<j, path(j, p)>> \in M /\ <<up(j), p>> \in M
        BY <1>3, <3>3
      <4>2. ~ (j = k /\ path(j, p) = q)
        BY <2>1, <4>1
      <4> QED BY <4>1, <4>2
    <3>4. Closed(R)
      BY <3>2, <3>3
    <3> QED BY <1>4, <2>1, <3>1, <3>4
  <2> QED BY <2>1
<1>7. <<Root, <<>>>> \in M /\ \A k \in DOMAIN t, p \in P : <<up(k), p>> \in M => <<k, path(k, p)>> \in M
  BY <1>3
<1> HIDE DEF Closed
<1> DEFINE One(k) == \E p \in P : <<k, p>> \in M /\ \A q \in P : <<k, q>> \in M => q = p
<1>8. One(Root)
  BY <1>2, <1>5, <1>7
<1>9. ASSUME NEW k \in DOMAIN t, One(up(k)) PROVE One(k)
  <2>1. PICK p \in P : <<up(k), p>> \in M /\ \A q \in P : <<up(k), q>> \in M => q = p
    BY <1>9
  <2>2. <<k, path(k, p)>> \in M /\ path(k, p) \in P
    BY <1>2, <1>7, <2>1
  <2>3. \A q \in P : <<k, q>> \in M => q = path(k, p)
    BY <1>6, <2>1
  <2> QED BY <2>2, <2>3
<1> HIDE DEF One
<1>10. \A k \in N : One(k)
  <2> DEFINE bad == {k \in DOMAIN t : ~One(k)}
  <2>1. ASSUME NEW i \in DOMAIN t, t[i].parent \notin bad PROVE i \notin bad
    <3>1. One(up(i))
      BY <1>1, <1>8, <2>1 DEF up
    <3> QED BY <1>9, <3>1
  <2>2. bad \in SUBSET DOMAIN t
    OBVIOUS
  <2> HIDE DEF bad
  <2>3. bad = {}
    BY <1>1, <2>1, <2>2, AllBelow
  <2> QED BY <1>1, <1>8, <2>3 DEF bad
<1>11. \A k \in N : g[k] \in P /\ <<k, g[k]>> \in M /\ \A q \in P : <<k, q>> \in M => q = g[k]
  <2>1. \A k \in N : \E p \in P : <<k, p>> \in M /\ \A q \in P : <<k, q>> \in M => q = p
    BY <1>10 DEF One
  <2>2. ASSUME NEW k \in N PROVE g[k] \in P /\ <<k, g[k]>> \in M
    BY <2>1
  <2> HIDE DEF g
  <2> QED BY <2>1, <2>2
<1>12. g = [k \in N |-> g[k]]
  <2> HIDE DEF of
  <2> QED OBVIOUS
<1> HIDE DEF g
<1>13. g[Root] = <<>>
  BY <1>1, <1>2, <1>7, <1>11
<1>14. ASSUME NEW k \in DOMAIN t PROVE g[k] = path(k, g[up(k)])
  <2>1. <<up(k), g[up(k)]>> \in M /\ g[up(k)] \in P /\ k \in N
    BY <1>1, <1>11
  <2>2. <<k, path(k, g[up(k)])>> \in M /\ path(k, g[up(k)]) \in P
    BY <1>2, <1>7, <2>1
  <2> QED BY <1>11, <2>1, <2>2
<1>15. Eq(g)
  BY <1>1, <1>12, <1>13, <1>14, Zenon DEF up, path
<1> DEFINE f == CHOOSE h : Eq(h)
<1>16. Eq(f)
  BY <1>15, Zenon
<1>17. \A i : PathOf(t, i) = f[i]
  BY SMTT(60) DEF PathOf
<1> HIDE DEF f
<1>18. f[Root] = <<>> /\ \A k \in DOMAIN t : f[k] = path(k, f[up(k)])
  BY <1>1, <1>16 DEF up, path
<1> HIDE DEF Eq
<1>19. \A i \in N : f[i] \in P
  <2> DEFINE bad == {k \in DOMAIN t : f[k] \notin P}
  <2>1. ASSUME NEW i \in DOMAIN t, t[i].parent \notin bad PROVE i \notin bad
    <3>1. f[up(i)] \in P
      BY <1>1, <1>2, <1>18, <2>1 DEF up
    <3>2. f[i] \in P
      BY <1>2, <1>18, <3>1
    <3> QED BY <3>2
  <2>2. bad \in SUBSET DOMAIN t
    OBVIOUS
  <2> HIDE DEF bad
  <2>3. bad = {}
    BY <1>1, <2>1, <2>2, AllBelow
  <2> QED BY <1>1, <1>2, <1>18, <2>3 DEF bad
<1> QED BY <1>1, <1>17, <1>18, <1>19 DEF N, P, up, path

\* If no two nodes have one path, no two entries of a directory have one name.
LEMMA PathsDistinct ==
  ASSUME NEW n, NEW t, Shape(t, n), \A i, j \in DOMAIN t : PathOf(t, i) = PathOf(t, j) => i = j
  PROVE  TreeOK(t, n)
BY PathIs DEF TreeOK, Distinct

\* What MadeAll has made of the tree so far, and where it is.
Ways(n) ==
  {s \in [t : Trees, i : Nat, at : Nat, ok : BOOLEAN] :
     n <= s.i /\ (s.ok => TreeOK(s.t, s.i) /\ IsDir(s.t, s.at))}

LEMMA EnterOrMakeIs ==
  ASSUME NEW n \in Nat \ {0}, NEW s \in Ways(n), NEW nm \in Names
  PROVE  EnterOrMake(s, nm) \in Ways(n)
<1>1. /\ s \in [t : Trees, i : Nat, at : Nat, ok : BOOLEAN] /\ n <= s.i
      /\ s.i \in Nat \ {0} /\ s.at \in Nat /\ s.ok \in BOOLEAN /\ s.t \in Trees
      /\ (s.ok => TreeOK(s.t, s.i) /\ IsDir(s.t, s.at))
  BY DEF Ways
<1>2. CASE HasKid(s.t, s.at, nm)
  <2> DEFINE k == Kid(s.t, s.at, nm)
  <2>1. k \in DOMAIN s.t
    BY <1>2 DEF HasKid, Kid, Kids
  <2>2. k \in Nat
    BY <1>1, <2>1 DEF Trees
  <2>3. EnterOrMake(s, nm) = [s EXCEPT !.at = k, !.ok = @ /\ IsDir(s.t, k)]
    BY <1>2 DEF EnterOrMake
  <2> HIDE DEF k
  <2>4. IsDir(s.t, k) \in BOOLEAN
    BY DEF IsDir
  <2> QED BY <1>1, <2>2, <2>3, <2>4 DEF Ways
<1>3. CASE ~HasKid(s.t, s.at, nm)
  <2> DEFINE t2 == Made(s.t, s.i, s.at, nm, "dir")
  <2>1. EnterOrMake(s, nm) = [t |-> t2, i |-> s.i + 1, at |-> s.i, ok |-> s.ok]
    BY <1>3 DEF EnterOrMake
  <2>2. t2 \in Trees
    <3>1. t2 = [k \in DOMAIN s.t \cup {s.i} |->
                   IF k = s.i THEN [name |-> nm, parent |-> s.at, type |-> "dir"] ELSE s.t[k]]
      BY DEF Made
    <3>2. /\ [name |-> nm, parent |-> s.at, type |-> "dir"] \in Node
          /\ DOMAIN s.t \in SUBSET Nat /\ \A k \in DOMAIN s.t : s.t[k] \in Node
      <4>1. [name |-> nm, parent |-> s.at, type |-> "dir"] \in Node
        BY <1>1 DEF Node
      <4>2. \A x \in Trees : DOMAIN x \in SUBSET Nat /\ \A k \in DOMAIN x : x[k] \in Node
        <5> SUFFICES ASSUME NEW x \in Trees PROVE DOMAIN x \in SUBSET Nat /\ \A k \in DOMAIN x : x[k] \in Node
          OBVIOUS
        <5>1. PICK D \in SUBSET Nat : x \in [D -> Node]
          BY DEF Trees
        <5> QED BY <5>1
      <4> QED BY <1>1, <4>1, <4>2
    <3>3. t2 \in [DOMAIN s.t \cup {s.i} -> Node]
      BY <3>1, <3>2
    <3> QED BY <1>1, <3>2, <3>3 DEF Trees
  <2>3. s.ok => TreeOK(t2, s.i + 1) /\ IsDir(t2, s.i)
    BY <1>1, <1>3, MadeIs
  <2> HIDE DEF t2
  <2> QED BY <1>1, <2>1, <2>2, <2>3 DEF Ways
<1> QED BY <1>2, <1>3

\* h is the way down the path p, one component after another.
Paves(h, t, n, p) ==
  /\ h[0] = [t |-> t, i |-> n, at |-> Root, ok |-> TRUE]
  /\ \A k \in 1..Len(p) : h[k - 1] \in Ways(n) /\ h[k] = EnterOrMake(h[k - 1], p[k])

LEMMA MadeAllPaves ==
  ASSUME NEW n \in Nat \ {0}, NEW t, TreeOK(t, n), NEW p \in Seq(Names)
  PROVE  \E h : /\ Paves(h, t, n, p) /\ MadeAll(t, n, p) = h[Len(p)] /\ h[Len(p)] \in Ways(n)
<1> DEFINE len == Len(p)
           a == [t |-> t, i |-> n, at |-> Root, ok |-> TRUE]
           F == [k \in 1..len |-> [s \in Ways(n) |-> EnterOrMake(s, p[k])]]
           S == [k \in 0..len |-> Ways(n)]
           Eq(f) == f = [k \in 0..len |-> IF k = 0 THEN a ELSE EnterOrMake(f[k - 1], p[k])]
           h == CHOOSE f : Eq(f)
<1>1. len \in Nat /\ \A k \in 1..len : p[k] \in Names
  OBVIOUS
<1>2. a \in Ways(n)
  BY DEF Ways, TreeOK, Shape, IsDir, Root
<1>3. MadeAll(t, n, p) = h[len]
  BY DEF MadeAll
<1> HIDE DEF len, a, h, Eq
<1>6. /\ \A k \in 1..len : \A s \in Ways(n) : F[k][s] = EnterOrMake(s, p[k]) /\ F[k][s] \in Ways(n)
      /\ \A k \in 0..len : S[k] = Ways(n)
  BY <1>1, EnterOrMakeIs
<1> HIDE DEF F, S
<1>7. PICK g : Course(g, len, a, F, S)
  <2>1. a \in S[0] /\ \A k \in 1..len : k \in 0..len /\ k - 1 \in 0..len
    BY <1>1, <1>2, <1>6
  <2>2. \A k \in 1..len : \A s \in S[k - 1] : F[k][s] \in S[k]
    BY <1>6, <2>1
  <2>3. Leads(len, a, F, S)
    BY <2>1, <2>2 DEF Leads
  <2> QED BY <1>1, <2>3, Recursion
<1>8. Eq(g)
  <2>1. ASSUME NEW k \in 1..len PROVE g[k] = EnterOrMake(g[k - 1], p[k])
    <3>1. k - 1 \in 0..len
      BY <1>1
    <3>2. g[k] = F[k][g[k - 1]] /\ g[k - 1] \in S[k - 1]
      BY <1>7, <3>1, Zenon DEF Course
    <3>3. g[k - 1] \in Ways(n)
      BY <1>6, <3>1, <3>2, Zenon
    <3> QED BY <1>6, <3>2, <3>3, Zenon
  <2>2. ASSUME NEW k \in 0..len PROVE g[k] = IF k = 0 THEN a ELSE EnterOrMake(g[k - 1], p[k])
    <3>1. k # 0 => k \in 1..len
      BY <1>1
    <3>2. g[0] = a
      BY <1>7 DEF Course
    <3> QED BY <2>1, <3>1, <3>2
  <2> QED BY <1>7, <2>2 DEF Eq, Course
<1>9. Eq(h)
  BY <1>8 DEF h
<1>10. \A k \in 0..len : h[k] = IF k = 0 THEN a ELSE EnterOrMake(h[k - 1], p[k])
  BY <1>9 DEF Eq
<1>11. Follows(h, len, a, F, S)
  <2>1. 0 \in 0..len /\ \A k \in 1..len : k # 0 /\ k \in 0..len /\ k - 1 \in 0..len
    BY <1>1
  <2> QED BY <1>6, <1>10, <2>1 DEF Follows
<1>12. len \in 0..len /\ \A k \in 0..len : h[k] \in Ways(n)
  <2>1. len \in 0..len /\ \A k \in 0..len : h[k] \in S[k]
    BY <1>1, <1>7, <1>11, OneCourse, Zenon
  <2> QED BY <1>6, <2>1
<1>13. h[0] = a /\ \A k \in 1..len : h[k - 1] \in Ways(n) /\ h[k] = EnterOrMake(h[k - 1], p[k])
  <2>1. 0 \in 0..len /\ \A k \in 1..len : k # 0 /\ k \in 0..len /\ k - 1 \in 0..len
    BY <1>1
  <2> QED BY <1>10, <1>12, <2>1
<1>14. Paves(h, t, n, p)
  BY <1>13 DEF Paves, len, a
<1> QED BY <1>3, <1>12, <1>14 DEF len

LEMMA MadeAllIs ==
  ASSUME NEW n \in Nat \ {0}, NEW t, TreeOK(t, n), NEW p \in Seq(Names)
  PROVE  LET m == MadeAll(t, n, p)
         IN /\ m.ok \in BOOLEAN /\ m.i \in Nat /\ n <= m.i
            /\ m.ok => TreeOK(m.t, m.i) /\ IsDir(m.t, m.at)
<1>1. MadeAll(t, n, p) \in Ways(n)
  BY MadeAllPaves
<1> QED BY <1>1 DEF Ways

------------------------------------------------------------------------------
(***************************************************************************)
(* The invariant.  Places says what a place of an operation means; there   *)
(* only what the next one relies on: which operands are left, and which    *)
(* request is sent.  Dues says where listings may be due, and that the     *)
(* operation knows them: what is due has a key it is about to delete, and  *)
(* a request is sent with the keys that will be due when it is served.     *)
(***************************************************************************)
Ali == {"ali", "ali_open"}
Mkdirs == {"mkdir", "find", "create", "conflict", "made"}
Sending == {"request", "task", "finish"}
Naming == {"rename", "batch"}
Shifting == {"move", "delete"}

\* Keys under which only baidu could have a listing of something.
Void == IF drv = "baidu" THEN {} ELSE {NoId, NoParent}
Done == op.objs \ Range(op.todo)

MkdirPlaces ==
  /\ op.kind = "mkdir" => op.pc \in Mkdirs \cup {"idle"}
  /\ op.pc \in Mkdirs => /\ op.kind \in {"mkdir", "move"} /\ (drv = "baidu" => op.kind = "mkdir")
                         /\ op.kind = "move" => op.todo # <<>> /\ Done = {}
  /\ op.pc \in Mkdirs \ {"mkdir"} => op.path # <<>>
  /\ op.pc \in {"find", "create", "conflict"} => op.rest # <<>>
  /\ op.pc = "made" /\ drv \notin {"cloudreve", "baidu"} => op.at > 0

SendPlaces ==
  /\ op.pc \in {"resolve"} \cup Sending => op.kind \in Naming \cup Shifting
  /\ op.pc = "resolve" => op.todo # <<>> /\ (op.kind \in Naming => op.name \in Names)
  /\ op.pc = "resolve" /\ op.kind \in Shifting /\ drv \notin Ali =>
       (drv = "cloudreve" /\ op.kind = "move") \/ Done = {}
  /\ op.kind = "move" => Range(op.todo) \subseteq op.objs
  /\ op.pc \in Sending => \/ op.todo = <<>>
                          \/ op.kind \in Shifting /\ drv \in Ali
                          \/ op.kind = "move" /\ drv = "cloudreve"
  /\ op.pc = "request" => op.req # NoReq
  /\ op.pc = "finish" /\ drv \in Ali => op.todo = <<>>
  /\ op.pc = "task" => drv = "quark" /\ task \in {NoReq, op.req}

BatchPlaces ==
  /\ op.pc = "batch" \/ op.stack # <<>> => op.kind = "batch"
  /\ op.pc = "batch" => op.touched = {} /\ (op.stack = <<>> => op.todo # <<>>)
  /\ \A i \in 2..Len(op.stack) : op.stack[i].dir \in Listed(fresh)

Places ==
  /\ op.pc = "idle" => /\ op.touched = {} /\ op.kind = "none"
                       /\ op.res = "ok" /\ drv # "baidu" => Proper(op.dst)
  /\ MkdirPlaces /\ SendPlaces /\ BatchPlaces

\* With these keys goes what is due when r is served.
Pays(r, keys) ==
  /\ \A o \in r.objs :
       IF r.do = "rename" /\ drv = "thunder"
       THEN o.id \in DOMAIN tree => tree[o.id].parent \in keys \cup {Root}
       ELSE ~Slips(r, o) => Home(o) \in keys \cup Void
  /\ r.do = "move" /\ drv \in Ali \cup {"cloudreve"} => r.dst.id \in keys
  /\ r.do = "move" /\ drv = "baidu" => BaiduKey(r.dst) \in keys

Dues ==
  /\ drv # "baidu" => NoParent \notin due
  /\ op.pc \in {"idle", "batch", "mkdir"} => due = {}
  /\ op.pc \in Mkdirs => due \subseteq {op.base.id} /\ (drv = "baidu" => due = {})
  /\ op.pc = "create" /\ drv = "cloudreve" => due = {}
  /\ op.pc \in {"resolve"} \cup Sending => due \subseteq op.dels
  /\ op.pc \in {"resolve", "request"} /\ ~(drv \in Ali /\ op.kind \in Shifting) => due = {}
  /\ op.pc \in {"request", "task"} => Pays(op.req, op.dels)
  /\ op.pc \in {"resolve", "batch"} /\ op.kind \in Naming => op.dels = {}
  /\ op.pc \in Sending /\ op.panic => drv # "baidu" /\ op.dels \subseteq {NoParent}

IInv == Types /\ Places /\ Dues /\ ListingsCurrent

------------------------------------------------------------------------------
(* Listings and steps. *)

LEMMA BrokenNot ==
  Broken(tree) = {}
BY DEF Broken

\* cloudreve misfiles nothing that it had before.
LEMMA MisfiledNot ==
  ASSUME NEW c2, \A k \in DOMAIN c2 : k \in DOMAIN cache /\ c2[k] = cache[k]
  PROVE  Misfiled(c2) = {}
BY DEF Misfiled, StaleIn

\* New listings have the ids of objects that are known.
LEMMA KeysStay ==
  ASSUME Types, NEW c2, Adds(cache, c2), cache' = c2, drv' = drv, fresh' \in Nat, fresh <= fresh'
  PROVE  drv' # "baidu" => DOMAIN cache' \subseteq IdsBelow(fresh')
<1>1. fresh \in Nat /\ IdsBelow(fresh) \subseteq IdsBelow(fresh')
  BY DriveParameters DEF Types, IdsBelow
<1> QED BY <1>1 DEF Types, Adds

\* A step keeps ListingsCurrent if it changes the tree or the listings, not both, and leaves
\* no listing out that was stale, or is now.
LEMMA StaysCurrent ==
  ASSUME ListingsCurrent, NEW t2, NEW c2, tree' = t2, cache' = c2, drv' = drv,
         Adds(cache, c2), t2 = tree \/ c2 = cache,
         \A k \in DOMAIN c2 :
           Shown(c2[k]) # Truth(t2, k) /\ k \in owed \cup op.touched \cup Broken(t2) \cup Misfiled(c2)
             => k \in owed' \cup op'.touched
  PROVE  ListingsCurrent'
<1>1. ASSUME NEW k \in DOMAIN c2, Shown(c2[k]) # Truth(t2, k)
      PROVE  k \in owed' \cup op'.touched
  <2>1. CASE c2 = cache
    <3>1. k \in owed \cup op.touched \/ Truth(tree, k) # Truth(t2, k)
      BY <1>1, <2>1 DEF ListingsCurrent
    <3>2. k \in owed \cup op.touched \cup Broken(t2)
      BY <1>1, <2>1, <3>1 DEF Broken
    <3> QED BY <1>1, <3>2
  <2>2. CASE t2 = tree /\ k \in DOMAIN cache /\ c2[k] = cache[k]
    <3>1. k \in owed \cup op.touched
      BY <1>1, <2>2 DEF ListingsCurrent
    <3> QED BY <1>1, <3>1
  <2>3. CASE t2 = tree /\ ~ (k \in DOMAIN cache /\ c2[k] = cache[k])
    <3>1. drv = "cloudreve"
      BY <1>1, <2>3 DEF Adds
    <3>2. k \in Misfiled(c2)
      BY <1>1, <2>3, <3>1 DEF Misfiled, StaleIn
    <3> QED BY <1>1, <3>2
  <2> QED BY <2>1, <2>2, <2>3
<1>2. \A k \in DOMAIN c2 \ (owed' \cup op'.touched) : Shown(c2[k]) = Truth(t2, k)
  BY <1>1
<1> QED BY <1>2 DEF ListingsCurrent, Truth

\* An operation goes on: what is left to show is about its new place.
LEMMA Goes ==
  ASSUME IInv, NEW t2, NEW c2 \in Caches(fresh), NEW n \in fresh..(MaxId + 1), NEW o2 \in Operation(n),
         Go(t2, c2, o2), o2.touched = op.touched, TreeOK(t2, n), fresh' = n, drv' = drv,
         task' \in Request_(n), drv # "quark" => task' = NoReq,
         Adds(cache, c2), t2 = tree \/ c2 = cache
  PROVE  /\ Types' /\ ListingsCurrent'
         /\ op' = [o2 EXCEPT !.touched = op'.touched]
         /\ t2 = tree => op'.touched \subseteq op.touched /\ due' \subseteq due
         /\ due' \subseteq (due \cup Due(t2)) \cap DOMAIN c2 /\ (drv' # "baidu" => NoParent \notin due')
<1>1. /\ Types /\ fresh \in Nat /\ n \in Nat /\ fresh <= n /\ n \in 1..(MaxId + 1)
  BY DriveParameters DEF IInv, Types
<1>2. /\ tree' = t2 /\ cache' = c2
      /\ op' = [o2 EXCEPT !.touched = StaleIn(c2, t2, op.touched \cup Broken(t2))]
      /\ owed' = StaleIn(c2, t2, owed \cup Misfiled(c2)) /\ due' = StaleIn(c2, t2, due \cup Due(t2))
  BY DEF Go
<1>3. \A s : StaleIn(c2, t2, s) \subseteq s \cap DOMAIN c2
  BY DEF StaleIn
<1>4. c2 \in Caches(n) /\ DOMAIN c2 \subseteq Key
  BY <1>1, Grows, CacheIs
<1>5. /\ op' = [o2 EXCEPT !.touched = op'.touched] /\ op' \in Operation(n)
      /\ op'.touched = StaleIn(c2, t2, op.touched \cup Broken(t2))
      /\ op'.touched \subseteq DOMAIN c2
  <2> DEFINE T == StaleIn(c2, t2, op.touched \cup Broken(t2))
  <2>1. T \subseteq DOMAIN c2 /\ T \in SUBSET Key
    BY <1>3, <1>4
  <2>2. op' = [o2 EXCEPT !.touched = T]
    BY <1>2
  <2> HIDE DEF T
  <2>3. op'.touched = T /\ op' = [o2 EXCEPT !.touched = op'.touched] /\ op' \in Operation(n)
    BY <2>1, <2>2 DEF Operation
  <2> QED BY <2>1, <2>3 DEF T
<1>6. owed' \cup op'.touched \subseteq DOMAIN c2
  BY <1>2, <1>3, <1>5
<1>7. Types'
  <2>1. drv' # "baidu" => DOMAIN cache' \subseteq IdsBelow(fresh')
    BY <1>1, <1>2, KeysStay
  <2> QED BY <1>1, <1>2, <1>4, <1>5, <1>6, <2>1 DEF Types
<1>8. /\ t2 = tree => op'.touched \subseteq op.touched /\ due' \subseteq due
      /\ due' \subseteq (due \cup Due(t2)) \cap DOMAIN c2 /\ (drv' # "baidu" => NoParent \notin due')
  <2>1. due' \subseteq (due \cup Due(t2)) \cap DOMAIN c2
    BY <1>2, <1>3
  <2>2. Broken(tree) = {} /\ Due(tree) = {}
    BY BrokenNot DEF Due
  <2>3. drv' # "baidu" => NoParent \notin DOMAIN c2
    BY <1>2, <1>7 DEF Types, IdsBelow, NoParent
  <2> QED BY <1>3, <1>5, <2>1, <2>2, <2>3
<1>9. ListingsCurrent'
  <2>1. ASSUME NEW k \in DOMAIN c2, Shown(c2[k]) # Truth(t2, k),
               k \in owed \cup op.touched \cup Broken(t2) \cup Misfiled(c2)
        PROVE  k \in owed' \cup op'.touched
    BY <1>2, <1>5, <2>1 DEF StaleIn
  <2> QED BY <1>2, <2>1, StaysCurrent DEF IInv
<1> QED BY <1>5, <1>7, <1>8, <1>9

LEMMA NoOpIs ==
  ASSUME NEW n \in Nat \ {0}
  PROVE  NoOp \in Operation(n)
<1>1. RootObj \in Object(n)
  BY RootIs
<1>2. NoReq \in Request_(n)
  BY <1>1 DEF NoReq, Request_
<1>3. <<>> \in Trees
  <2>1. <<>> \in [{} -> Node]
    OBVIOUS
  <2> QED BY <2>1 DEF Trees
<1>4. 0 \in 0..(n - 1)
  OBVIOUS
<1> QED BY <1>1, <1>2, <1>3, <1>4 DEF NoOp, Operation, PCs, Root

LEMMA Idles ==
  ASSUME op'.pc = "idle", op'.kind = "none", op'.stack = <<>>, op'.touched = {}, due' = {},
         op'.res = "ok" /\ drv' # "baidu" => Proper(op'.dst)
  PROVE  Places' /\ Dues'
<1>1. 2..Len(op'.stack) = {}
  OBVIOUS
<1>2. Places'
  BY <1>1 DEF Places, MkdirPlaces, SendPlaces, BatchPlaces, Mkdirs, Sending, Proper
<1> QED BY <1>2 DEF Dues, Mkdirs, Sending

\* An operation returns: nothing that is due is left, unless the error skips the deletion.
LEMMA Returned ==
  ASSUME IInv, NEW res \in {"ok", "error", "panic"}, NEW c2 \in Caches(fresh), NEW obj \in Object(fresh),
         Return(res, c2, obj), UNCHANGED <<drv, fresh, task>>, Adds(cache, c2),
         (res = "error" /\ Skips) \/ due \cap DOMAIN c2 = {},
         res = "ok" /\ drv # "baidu" => Proper(obj)
  PROVE  IInv'
<1>1. Types /\ fresh \in Nat \ {0}
  BY DEF IInv, Types
<1>2. /\ tree' = tree /\ cache' = c2 /\ op' = [NoOp EXCEPT !.res = res, !.dst = obj]
      /\ owed' = StaleIn(c2, tree, owed \cup Unsettled(res) \cup Misfiled(c2)) /\ due' = {}
  BY DEF Return
<1>3. owed' \subseteq DOMAIN c2 /\ op'.touched = {}
  BY <1>2 DEF StaleIn, NoOp
<1>4. op' \in Operation(fresh)
  <2>1. NoOp \in Operation(fresh)
    BY <1>1, NoOpIs
  <2> QED BY <1>2, <2>1 DEF Operation
<1>5. Types'
  <2>1. drv' # "baidu" => DOMAIN cache' \subseteq IdsBelow(fresh')
    BY <1>1, <1>2, KeysStay
  <2> QED BY <1>1, <1>2, <1>3, <1>4, <2>1 DEF Types
<1>6. ListingsCurrent'
  <2>1. ASSUME NEW k \in DOMAIN c2, Shown(c2[k]) # Truth(tree, k),
               k \in owed \cup op.touched \cup Broken(tree) \cup Misfiled(c2)
        PROVE  k \in owed'
    <3>1. k \in op.touched => k \in Unsettled(res)
      BY DEF Unsettled
    <3> QED BY <1>2, <2>1, <3>1, BrokenNot DEF StaleIn
  <2> QED BY <1>2, <2>1, StaysCurrent DEF IInv
<1>7. Places' /\ Dues'
  BY <1>2, Idles DEF NoOp
<1> QED BY <1>5, <1>6, <1>7 DEF IInv

------------------------------------------------------------------------------
(* Mkdir. *)

\* What follows the first n components of a path.
LEMMA DownIs ==
  ASSUME NEW p \in Seq(Names), NEW n \in Nat, n <= Len(p)
  PROVE  SubSeq(p, n + 1, Len(p)) \in Seq(Names \cup {Up}) /\ Len(SubSeq(p, n + 1, Len(p))) = Len(p) - n
<1>1. SubSeq(p, n + 1, Len(p)) \in Seq(Names \cup {Up})
  OBVIOUS
<1>2. Len(SubSeq(p, n + 1, Len(p))) = Len(p) - n
  OBVIOUS
<1> QED BY <1>1, <1>2

\* filepath.Rel of two different paths is not empty.
LEMMA RelIs ==
  ASSUME NEW from \in Seq(Names), NEW to \in Seq(Names), from # to
  PROVE  Rel(from, to) \in Seq(Names \cup {Up}) /\ Rel(from, to) # <<>>
<1> DEFINE C == CommonPrefixes({from, to})
           T == {Len(from) - Len(q) : q \in C}
           n == Len(LongestCommonPrefix({from, to}))
<1>1. \A q \in C : /\ q \in Seq(Names) /\ Len(q) <= Len(from) /\ Len(q) <= Len(to)
                   /\ q = SubSeq(from, 1, Len(q)) /\ q = SubSeq(to, 1, Len(q))
  <2>1. ASSUME NEW q \in C PROVE \E s \in {from, to} : \E l \in 0..Len(s) : q = SubSeq(s, 1, l)
    BY DEF CommonPrefixes, Prefixes
  <2>2. ASSUME NEW q \in C PROVE IsPrefix(q, from) /\ IsPrefix(q, to)
    BY DEF CommonPrefixes
  <2>3. ASSUME NEW q \in C PROVE q \in Seq(Names) /\ q = SubSeq(q, 1, Len(q))
    <3>1. PICK s \in {from, to} : \E l \in 0..Len(s) : q = SubSeq(s, 1, l)
      BY <2>1
    <3>2. PICK l \in 0..Len(s) : q = SubSeq(s, 1, l)
      BY <3>1
    <3>3. q \in Seq(Names) /\ Len(q) = l
      BY <3>2
    <3> QED BY <3>3
  <2> QED BY <2>2, <2>3 DEF IsPrefix
<1>2. <<>> \in C
  <2>1. SubSeq(from, 1, 0) = <<>> /\ SubSeq(to, 1, 0) = <<>> /\ SubSeq(<<>>, 1, 0) = <<>> /\ 0 \in 0..Len(from)
    OBVIOUS
  <2> QED BY <2>1 DEF CommonPrefixes, Prefixes, IsPrefix
<1> HIDE DEF C
<1>3. T \in SUBSET Nat /\ T # {}
  BY <1>1, <1>2
<1>4. PICK q \in C : \A r \in C : Len(r) <= Len(q)
  <2> HIDE DEF T
  <2>1. PICK m \in T : \A k \in T : m <= k
    BY <1>3, Least
  <2>2. PICK q \in C : m = Len(from) - Len(q)
    BY <2>1 DEF T
  <2>3. \A r \in C : Len(from) - Len(q) <= Len(from) - Len(r)
    BY <2>1, <2>2 DEF T
  <2> QED BY <1>1, <2>3
<1>5. LongestCommonPrefix({from, to}) \in C
  BY <1>4 DEF LongestCommonPrefix, C
<1>6. n \in Nat /\ n <= Len(from) /\ n <= Len(to) /\ SubSeq(from, 1, n) = SubSeq(to, 1, n)
  <2>1. \A r \in C : Len(r) \in Nat /\ SubSeq(from, 1, Len(r)) = SubSeq(to, 1, Len(r))
    BY <1>1
  <2> QED BY <1>1, <1>5, <2>1
<1> HIDE DEF n
<1> DEFINE up == [i \in 1..(Len(from) - n) |-> Up]
           down == SubSeq(to, n + 1, Len(to))
<1>7. Rel(from, to) = up \o down
  BY DEF Rel, n
<1>8. up \in Seq(Names \cup {Up}) /\ Len(up) = Len(from) - n
  <2>1. Len(from) - n \in Nat
    BY <1>6
  <2> QED BY <2>1
<1>9. down \in Seq(Names \cup {Up}) /\ Len(down) = Len(to) - n
  BY <1>6, DownIs, Zenon
<1>10. n # Len(from) \/ n # Len(to)
  <2>1. SubSeq(from, 1, Len(from)) = from /\ SubSeq(to, 1, Len(to)) = to
    OBVIOUS
  <2>2. CASE n = Len(from) /\ n = Len(to)
    <3>1. from = to
      BY <1>6, <2>1, <2>2, Zenon
    <3> QED BY <3>1
  <2> QED BY <2>2
<1> HIDE DEF up, down
<1>11. Len(up \o down) # 0 /\ up \o down \in Seq(Names \cup {Up})
  BY <1>6, <1>8, <1>9, <1>10
<1> QED BY <1>7, <1>11

\* Mkdir goes on.
LEMMA MkdirGoes ==
  ASSUME IInv, NEW t2, NEW c2 \in Caches(fresh), NEW n \in fresh..(MaxId + 1), NEW o2 \in Operation(n),
         Go(t2, c2, o2), o2.touched = op.touched, TreeOK(t2, n), fresh' = n, UNCHANGED <<drv, task>>,
         Adds(cache, c2), t2 = tree \/ c2 = cache, op.pc \in Mkdirs,
         o2.kind = op.kind, o2.objs = op.objs, o2.todo = op.todo, o2.stack = op.stack, o2.path = op.path,
         o2.pc \in Mkdirs, op.pc = "mkdir" \/ (o2.base = op.base /\ drv # "baidu"),
         o2.pc = "mkdir" => t2 = tree /\ op.base.id \notin DOMAIN c2,
         drv = "cloudreve" /\ o2.pc = "create" => op.pc = "mkdir",
         o2.pc # "mkdir" => op.path # <<>>,
         o2.pc \in {"find", "create", "conflict"} => o2.rest # <<>>,
         o2.pc = "made" /\ drv \notin {"cloudreve", "baidu"} => o2.at > 0
  PROVE  IInv'
<1>1. task' \in Request_(n) /\ (drv # "quark" => task' = NoReq)
  BY Grows DEF IInv, Types
<1>2. /\ Types' /\ ListingsCurrent' /\ op' = [o2 EXCEPT !.touched = op'.touched]
      /\ t2 = tree => due' \subseteq due
      /\ due' \subseteq (due \cup Due(t2)) \cap DOMAIN c2 /\ (drv' # "baidu" => NoParent \notin due')
  BY <1>1, Goes, ZenonT(60)
<1>3. /\ op'.kind = op.kind /\ op'.objs = op.objs /\ op'.todo = op.todo /\ op'.stack = op.stack
      /\ op'.path = op.path /\ op'.pc = o2.pc /\ op'.base = o2.base /\ op'.rest = o2.rest
      /\ op'.at = o2.at
  BY <1>2, SMTT(60) DEF Operation
<1>4. op.kind \in {"mkdir", "move"} /\ op.stack = <<>> /\ 2..Len(op.stack) = {}
  BY DEF IInv, Places, MkdirPlaces, BatchPlaces
<1>5. MkdirPlaces'
  BY <1>2, <1>3 DEF IInv, Places, MkdirPlaces, Done
<1>6. Places'
  <2>1. SendPlaces' /\ BatchPlaces'
    BY <1>3, <1>4 DEF SendPlaces, BatchPlaces, Mkdirs, Sending, IInv, Places
  <2> QED BY <1>3, <1>5, <2>1 DEF Places, Mkdirs
<1>7. Dues'
  <2>1. due \subseteq {op.base.id} /\ (op.pc = "mkdir" => due = {})
    BY DEF IInv, Dues
  <2>2. Due(t2) \subseteq {op.base.id} /\ (op.pc = "mkdir" => Due(t2) = {})
    BY DEF Due, Mkdirs
  <2>3. op.pc = "mkdir" \/ o2.pc = "mkdir" => due' = {}
    BY <1>2, <2>1, <2>2
  <2>4. due' \subseteq {op'.base.id}
    BY <1>2, <1>3, <2>1, <2>2, <2>3
  <2> QED BY <1>2, <1>3, <2>3, <2>4 DEF Dues, Mkdirs, Sending
<1> QED BY <1>2, <1>6, <1>7 DEF IInv

\* Mkdir has its directory.
LEMMA MkdirReturns ==
  ASSUME IInv, NEW c2 \in Caches(fresh), NEW obj \in Object(fresh), MkdirReturn(c2, obj), Proper(obj),
         UNCHANGED <<drv, fresh, task>>, Adds(cache, c2), op.pc \in Mkdirs, drv # "baidu",
         due \cap DOMAIN c2 = {}
  PROVE  IInv'
<1>1. CASE op.kind = "move"
  <2> DEFINE o2 == [op EXCEPT !.pc = "resolve", !.dst = obj]
  <2>1. /\ op \in Operation(fresh) /\ fresh \in fresh..(MaxId + 1) /\ TreeOK(tree, fresh)
        /\ task' \in Request_(fresh) /\ (drv # "quark" => task' = NoReq)
    BY DriveParameters DEF IInv, Types
  <2>2. o2 \in Operation(fresh) /\ o2.touched = op.touched
    BY <2>1 DEF Operation, PCs
  <2>3. Go(tree, c2, o2)
    BY <1>1 DEF MkdirReturn
  <2> HIDE DEF o2
  <2>4. Types' /\ ListingsCurrent' /\ op' = [o2 EXCEPT !.touched = op'.touched] /\ due' = {}
    <3>1. /\ Types' /\ ListingsCurrent' /\ op' = [o2 EXCEPT !.touched = op'.touched]
          /\ due' \subseteq due /\ due' \subseteq DOMAIN c2
      BY <2>1, <2>2, <2>3, Goes
    <3> QED BY <3>1
  <2>5. /\ op'.kind = "move" /\ op'.objs = op.objs /\ op'.todo = op.todo /\ op'.stack = op.stack
        /\ op'.pc = "resolve"
    BY <1>1, <2>1, <2>4 DEF o2, Operation
  <2>6. /\ op.todo # <<>> /\ Done = {} /\ op.stack = <<>> /\ 2..Len(op.stack) = {}
        /\ Range(op.todo) \subseteq op.objs
    BY <1>1 DEF IInv, Places, MkdirPlaces, SendPlaces, BatchPlaces
  <2>7. Done' = {}
    BY <2>5, <2>6 DEF Done
  <2>8. Places'
    BY <2>5, <2>6, <2>7 DEF Places, MkdirPlaces, SendPlaces, BatchPlaces, Mkdirs, Sending, Naming, Shifting
  <2> QED BY <2>4, <2>5, <2>8 DEF IInv, Dues, Mkdirs, Sending, Naming
<1>2. CASE op.kind # "move"
  BY <1>2, Returned DEF MkdirReturn
<1> QED BY <1>1, <1>2

\* It returns an error: where nothing is due, or the deletion is skipped.
LEMMA MkdirFails ==
  ASSUME IInv, MkdirFail, UNCHANGED drv, Skips \/ due = {}
  PROVE  IInv'
<1>1. cache \in Caches(fresh) /\ RootObj \in Object(fresh)
  BY RootIs DEF IInv, Types
<1> QED BY <1>1, AddsNothing, Returned DEF MkdirFail

\* So it is wherever a request or a look can fail.
LEMMA ErrorsSkip ==
  ASSUME IInv, \/ op.pc \in {"resolve", "request", "task", "batch", "mkdir", "create"}
               \/ op.pc = "conflict" /\ drv # "cloudreve"
  PROVE  Skips \/ due = {}
BY DEF Skips, IInv, Dues, Ali, Shifting

\* What a step of an operation may start from.
LEMMA Now ==
  ASSUME IInv
  PROVE  /\ op \in Operation(fresh) /\ fresh \in Nat \ {0} /\ MaxId \in Nat /\ fresh \in fresh..(MaxId + 1)
         /\ cache \in Caches(fresh) /\ TreeOK(tree, fresh) /\ Adds(cache, cache) /\ Types
BY AddsNothing, DriveParameters DEF IInv, Types

\* The same without a new node.
LEMMA GoesHere ==
  ASSUME IInv, NEW t2, NEW c2 \in Caches(fresh), NEW o2 \in Operation(fresh),
         Go(t2, c2, o2), o2.touched = op.touched, TreeOK(t2, fresh), fresh' = fresh, drv' = drv,
         task' \in Request_(fresh), drv # "quark" => task' = NoReq,
         Adds(cache, c2), t2 = tree \/ c2 = cache
  PROVE  /\ Types' /\ ListingsCurrent'
         /\ op' = [o2 EXCEPT !.touched = op'.touched]
         /\ t2 = tree => op'.touched \subseteq op.touched /\ due' \subseteq due
         /\ due' \subseteq (due \cup Due(t2)) \cap DOMAIN c2 /\ (drv' # "baidu" => NoParent \notin due')
<1> DEFINE n == fresh
<1>1. n \in fresh..(MaxId + 1) /\ o2 \in Operation(n) /\ TreeOK(t2, n) /\ fresh' = n /\ task' \in Request_(n)
  BY Now
<1> HIDE DEF n
<1> QED BY <1>1, Goes

LEMMA Descends ==
  ASSUME IInv, op.pc \in {"find", "create", "conflict"}, NEW t2, NEW n \in fresh..(MaxId + 1),
         TreeOK(t2, n), NEW i \in 1..(n - 1), NEW next \in {"find", "create", "made"},
         drv # "baidu", drv = "cloudreve" => next = "made",
         Go(t2, cache, Descend(i, next)), fresh' = n, UNCHANGED <<drv, task>>
  PROVE  IInv'
<1> DEFINE o2 == Descend(i, next)
<1>1. /\ op \in Operation(n) /\ n \in Nat /\ cache \in Caches(fresh) /\ Adds(cache, cache)
      /\ i \in 0..(n - 1)
  BY Now, Grows
<1>2. op.rest \in Seq(Names \cup {Up}) /\ op.rest # <<>> /\ op.path # <<>> /\ op.pc \in Mkdirs
  BY <1>1 DEF IInv, Places, MkdirPlaces, Operation, Mkdirs
<1>3. /\ Tail(op.rest) \in Seq(Names \cup {Up}) /\ (Len(op.rest) # 1 => Tail(op.rest) # <<>>)
  BY <1>2, TailIs
<1>4. o2 = [op EXCEPT !.at = i, !.rest = Tail(op.rest), !.pc = IF Len(op.rest) = 1 THEN "made" ELSE next]
  BY <1>1 DEF Descend, Operation
<1> HIDE DEF o2
<1>5. o2 \in Operation(n)
  BY <1>1, <1>3, <1>4, ZenonT(60) DEF Operation, PCs
<1>6. /\ o2.touched = op.touched /\ o2.kind = op.kind /\ o2.objs = op.objs /\ o2.todo = op.todo
      /\ o2.stack = op.stack /\ o2.path = op.path /\ o2.pc = (IF Len(op.rest) = 1 THEN "made" ELSE next)
      /\ o2.rest = Tail(op.rest) /\ o2.at = i /\ i > 0 /\ o2.base = op.base
  BY <1>1, <1>4 DEF Operation
<1>7. /\ o2.pc \in Mkdirs /\ o2.pc # "mkdir" /\ (o2.pc \in {"find", "create", "conflict"} => o2.rest # <<>>)
      /\ drv = "cloudreve" => o2.pc # "create"
  BY <1>3, <1>6 DEF Mkdirs
<1> QED BY <1>1, <1>2, <1>5, <1>6, <1>7, MkdirGoes DEF o2

LEMMA Makes ==
  ASSUME IInv, op.pc = "create", NEW at, NEW next \in {"find", "create", "made"},
         drv # "baidu", drv = "cloudreve" => next = "made",
         MakeAt(at, Head(op.rest), next), UNCHANGED drv
  PROVE  IInv'
<1> DEFINE nm == Head(op.rest)  t2 == Made(tree, fresh, at, nm, "dir")
<1>1. /\ op \in Operation(fresh) /\ fresh \in Nat \ {0} /\ TreeOK(tree, fresh) /\ MaxId \in Nat
  BY Now
<1>2. nm \in Names \cup {Up}
  BY <1>1 DEF IInv, Places, MkdirPlaces, Operation
<1>3. nm \in Names /\ IsDir(tree, at) /\ ~HasKid(tree, at, nm) /\ fresh + 1 \in fresh..(MaxId + 1)
  BY <1>1, <1>2 DEF MakeAt, CanMake
<1>4. TreeOK(t2, fresh + 1) /\ fresh \in 1..(fresh + 1 - 1)
  <2>1. "dir" \in {"dir", "file"}
    OBVIOUS
  <2>2. TreeOK(t2, fresh + 1)
    <3> HIDE DEF nm
    <3> QED BY <1>1, <1>3, <2>1, MadeIs
  <2> QED BY <1>1, <2>2
<1>5. Go(t2, cache, Descend(fresh, next)) /\ fresh' = fresh + 1 /\ UNCHANGED task
  BY DEF MakeAt
<1> QED BY <1>3, <1>4, <1>5, Descends

LEMMA Begins ==
  ASSUME IInv, NEW next \in {"find", "create"}, MkdirBegin(next), drv # "baidu", UNCHANGED drv
  PROVE  IInv'
<1>1. /\ op \in Operation(fresh) /\ fresh \in Nat \ {0} /\ cache \in Caches(fresh) /\ Adds(cache, cache)
      /\ Types /\ TreeOK(tree, fresh) /\ fresh \in fresh..(MaxId + 1)
  BY Now
<1>2. /\ op.pc = "mkdir" /\ op.path \in Seq(Names) /\ due = {}
      /\ UNCHANGED <<drv, fresh, task>> /\ op.pc \in Mkdirs
  BY <1>1 DEF MkdirBegin, IInv, Dues, Operation, Mkdirs
<1>3. CASE op.path = <<>>
  <2>1. MkdirReturn(cache, RootObj) /\ RootObj \in Object(fresh) /\ Proper(RootObj)
    BY <1>1, <1>3, RootIs DEF MkdirBegin, Proper
  <2> QED BY <1>1, <1>2, <2>1, MkdirReturns
<1>4. CASE op.path # <<>>
  <2> DEFINE g == GetPanObj(cache, op.path, FALSE)
             o2 == [op EXCEPT !.pc = next, !.base = g.obj, !.at = g.obj.id,
                              !.rest = Rel(Full(g.obj), op.path)]
  <2>1. g \in Walks(cache)
    BY <1>1, <1>2, GetPanObjIs
  <2>2. MkdirFrom(g, next)
    BY <1>4 DEF MkdirBegin
  <2>3. /\ g.ok \in BOOLEAN /\ g.obj \in Object(fresh) /\ g.cache \in Caches(fresh)
        /\ Adds(cache, g.cache) /\ Proper(g.obj)
    <3> HIDE DEF g
    <3> QED BY <2>1 DEF Walks
  <2>4. MkdirFrom(g, next) <=>
           IF ~g.ok THEN Return("error", g.cache, RootObj)
           ELSE IF Full(g.obj) = op.path THEN MkdirReturn(g.cache, g.obj)
           ELSE Go(tree, g.cache, o2)
    BY DEF MkdirFrom
  <2> HIDE DEF g
  <2>5. CASE ~g.ok
    BY <1>1, <1>2, <2>2, <2>3, <2>4, <2>5, RootIs, Returned
  <2>6. CASE g.ok /\ Full(g.obj) = op.path
    BY <1>1, <1>2, <2>2, <2>3, <2>4, <2>6, MkdirReturns
  <2>7. CASE g.ok /\ Full(g.obj) # op.path
    <3>1. Rel(Full(g.obj), op.path) \in Seq(Names \cup {Up}) /\ Rel(Full(g.obj), op.path) # <<>>
      BY <1>2, <2>3, <2>7, FullIs, RelIs
    <3>2. g.obj.id \in 0..(fresh - 1)
      BY <1>1, <2>3 DEF Object, Proper, RootObj, Obj, Root
    <3>3. o2 \in Operation(fresh)
      BY <1>1, <2>3, <3>1, <3>2 DEF Operation, PCs
    <3>4. /\ o2.touched = op.touched /\ o2.kind = op.kind /\ o2.objs = op.objs /\ o2.todo = op.todo
          /\ o2.stack = op.stack /\ o2.path = op.path /\ o2.pc = next /\ o2.rest # <<>>
      BY <1>1, <3>1 DEF Operation
    <3>5. Go(tree, g.cache, o2)
      BY <2>2, <2>4, <2>7
    <3> HIDE DEF o2
    <3>6. o2.pc \in Mkdirs /\ o2.pc # "mkdir" /\ o2.pc # "made"
      BY <3>4 DEF Mkdirs
    <3> QED BY <1>1, <1>2, <1>4, <2>3, <3>3, <3>4, <3>5, <3>6, MkdirGoes
  <2> QED BY <2>5, <2>6, <2>7
<1> QED BY <1>3, <1>4

\* A step that only changes the place, the number of tries, or deletes a listing.
LEMMA Turns ==
  ASSUME IInv, op.pc \in Mkdirs \ {"mkdir"}, NEW pc \in Mkdirs, NEW tries \in Nat, NEW clean \in BOOLEAN,
         NEW c2 \in Caches(fresh), Adds(cache, c2), NEW o2, Go(tree, c2, o2),
         o2 = [op EXCEPT !.pc = pc, !.tries = tries, !.clean = clean],
         pc = "mkdir" => op.base.id \notin DOMAIN c2, pc = "made" <=> drv = "cloudreve" /\ pc # "mkdir",
         drv # "baidu",
         pc \in {"find", "create", "conflict"} => op.rest # <<>>,
         UNCHANGED <<drv, fresh, task>>
  PROVE  IInv'
<1>1. /\ op \in Operation(fresh) /\ TreeOK(tree, fresh) /\ fresh \in fresh..(MaxId + 1)
  BY Now
<1>2. o2 \in Operation(fresh)
  BY <1>1, ZenonT(60) DEF Operation, PCs, Mkdirs
<1>3. /\ o2.touched = op.touched /\ o2.kind = op.kind /\ o2.objs = op.objs /\ o2.todo = op.todo
      /\ o2.stack = op.stack /\ o2.path = op.path /\ o2.pc = pc /\ o2.rest = op.rest /\ o2.base = op.base
  BY <1>1 DEF Operation
<1>4. op.path # <<>> /\ op.pc \in Mkdirs /\ fresh' = fresh /\ UNCHANGED <<drv, task>>
  BY DEF IInv, Places, MkdirPlaces, Mkdirs
<1> QED BY <1>1, <1>2, <1>3, <1>4, MkdirGoes

\* The directory that is there already.
LEMMA KidIs ==
  ASSUME IInv, NEW at, NEW nm, HasKid(tree, at, nm)
  PROVE  Kid(tree, at, nm) \in 1..(fresh - 1)
<1>1. Kid(tree, at, nm) \in DOMAIN tree
  BY DEF HasKid, Kid, Kids
<1>2. DOMAIN tree \subseteq 1..(fresh - 1) /\ fresh \in Nat
  BY Now, TreeIs
<1> QED BY <1>1, <1>2

\* An object for the last directory made.
LEMMA MadeObj ==
  ASSUME IInv, op.pc = "made", NEW path \in Seq(Names), NEW pid \in Int
  PROVE  /\ Obj(op.at, Last(op.path), path, "dir", pid) \in Object(fresh)
         /\ drv \notin {"cloudreve", "baidu"} => Proper(Obj(op.at, Last(op.path), path, "dir", pid))
<1>1. op \in Operation(fresh) /\ op.path # <<>> /\ fresh \in Nat
  BY Now DEF IInv, Places, MkdirPlaces, Mkdirs
<1>2. op.path \in Seq(Names) /\ op.at \in 0..(fresh - 1)
  BY <1>1 DEF Operation
<1>3. Last(op.path) \in Names /\ path \in PathT
  BY <1>1, <1>2 DEF Last, PathT
<1>4. drv \notin {"cloudreve", "baidu"} => op.at > 0
  BY DEF IInv, Places, MkdirPlaces
<1> QED BY <1>1, <1>2, <1>3, <1>4 DEF Object, Obj, NoId, Proper

LEMMA QuarkMakes ==
  ASSUME IInv, UNCHANGED drv,
         \/ createDirectoryFail \/ createDirectory \/ createDirectoryBusy
         \/ QuarkMkdir \/ findChildDirId \/ QuarkConflict \/ QuarkMade
  PROVE  IInv'
<1>1. /\ op \in Operation(fresh) /\ TreeOK(tree, fresh) /\ fresh \in fresh..(MaxId + 1)
      /\ cache \in Caches(fresh) /\ Adds(cache, cache)
      /\ op.tries \in Nat /\ op.clean \in BOOLEAN
  BY Now, SMTT(60) DEF Operation
<1>2. op.pc \in {"find", "create", "conflict"} => op.rest # <<>> /\ op.pc \in Mkdirs \ {"mkdir"}
  BY DEF IInv, Places, MkdirPlaces, Mkdirs
<1>3. CASE createDirectoryFail
  <2>1. [op EXCEPT !.pc = "conflict"] = [op EXCEPT !.pc = "conflict", !.tries = op.tries, !.clean = op.clean]
    BY <1>1 DEF Operation
  <2>2. Del(cache, {op.at}) \in Caches(fresh) /\ Adds(cache, Del(cache, {op.at}))
    BY <1>1, DelIs
  <2> QED BY <1>1, <1>2, <1>3, <2>1, <2>2, Turns DEF createDirectoryFail, Mkdirs
<1>4. CASE createDirectory
  BY <1>4, Makes, SMTT(60) DEF createDirectory
<1>5. CASE createDirectoryBusy
  <2>1. [op EXCEPT !.tries = @ + 1] = [op EXCEPT !.pc = "create", !.tries = op.tries + 1, !.clean = op.clean]
    BY <1>1, <1>5 DEF Operation, createDirectoryBusy
  <2>2. op.tries + 1 \in Nat
    BY <1>1
  <2> QED BY <1>1, <1>2, <1>5, <2>1, <2>2, Turns DEF createDirectoryBusy, Mkdirs
<1>6. CASE QuarkMkdir
  BY <1>6, Begins DEF QuarkMkdir
<1>7. CASE findChildDirId
  <2>1. CASE /\ HasDir(op.at, Head(op.rest))
             /\ Go(tree, cache, Descend(Kid(tree, op.at, Head(op.rest)), "find"))
    <3>1. Kid(tree, op.at, Head(op.rest)) \in 1..(fresh - 1)
      BY <2>1, KidIs, SMTT(60) DEF HasDir
    <3> QED BY <1>1, <1>7, <2>1, <3>1, Descends DEF findChildDirId
  <2>2. CASE Go(tree, cache, [op EXCEPT !.pc = "create"])
    <3>1. [op EXCEPT !.pc = "create"] = [op EXCEPT !.pc = "create", !.tries = op.tries, !.clean = op.clean]
      BY <1>1 DEF Operation
    <3> QED BY <1>1, <1>2, <1>7, <2>2, <3>1, Turns DEF findChildDirId, Mkdirs
  <2> QED BY <1>7, <2>1, <2>2 DEF findChildDirId
<1>8. CASE QuarkConflict
  <2>1. CASE /\ HasDir(op.at, Head(op.rest))
             /\ Go(tree, cache, Descend(Kid(tree, op.at, Head(op.rest)), "find"))
             /\ UNCHANGED <<fresh, task>>
    <3>1. Kid(tree, op.at, Head(op.rest)) \in 1..(fresh - 1)
      BY <2>1, KidIs DEF HasDir
    <3> QED BY <1>1, <1>8, <2>1, <3>1, Descends DEF QuarkConflict
  <2> QED BY <1>8, <2>1, MkdirFails, ErrorsSkip DEF QuarkConflict
<1>9. CASE QuarkMade
  <2> DEFINE obj == Obj(op.at, Last(op.path), Front(op.path), "dir", op.base.id)
  <2>1. op.path # <<>> /\ op.path \in Seq(Names) /\ op.pc \in Mkdirs /\ op.base.id \in Int
    BY <1>1, <1>9 DEF QuarkMade, IInv, Places, MkdirPlaces, Mkdirs, Operation, Object
  <2>2. Front(op.path) \in Seq(Names)
    BY <2>1 DEF Front
  <2>3. obj \in Object(fresh) /\ Proper(obj)
    BY <1>9, <2>1, <2>2, MadeObj DEF QuarkMade
  <2>4. /\ Del(cache, {op.base.id}) \in Caches(fresh) /\ Adds(cache, Del(cache, {op.base.id}))
        /\ DOMAIN Del(cache, {op.base.id}) = DOMAIN cache \ {op.base.id}
    BY <1>1, DelIs
  <2>5. MkdirReturn(Del(cache, {op.base.id}), obj) /\ UNCHANGED <<fresh, task>> /\ drv = "quark"
    BY <1>9 DEF QuarkMade
  <2>6. due \subseteq {op.base.id}
    BY <2>1 DEF IInv, Dues
  <2> HIDE DEF obj
  <2> QED BY <2>1, <2>3, <2>4, <2>5, <2>6, MkdirReturns
<1> QED BY <1>3, <1>4, <1>5, <1>6, <1>7, <1>8, <1>9

LEMMA BaiduMakes ==
  ASSUME IInv, UNCHANGED drv, BaiduNext
  PROVE  IInv'
<1>1. /\ op \in Operation(fresh) /\ TreeOK(tree, fresh) /\ fresh \in fresh..(MaxId + 1)
      /\ cache \in Caches(fresh) /\ Adds(cache, cache) /\ fresh \in Nat \ {0} /\ MaxId \in Nat
      /\ RootObj \in Object(fresh)
  BY Now, RootIs
<1>2. drv = "baidu" /\ op.pc \in Mkdirs
  BY DEF BaiduNext, BaiduMkdir, BaiduMade, Mkdirs
<1>3. due = {}
  BY <1>2 DEF IInv, Dues
<1>4. CASE BaiduMkdir
  <2>1. op.pc = "mkdir" /\ task' = task
    BY <1>4 DEF BaiduMkdir
  <2>2. CASE op.path = <<>> /\ Return("ok", cache, RootObj) /\ UNCHANGED fresh
    BY <1>1, <1>2, <1>3, <2>1, <2>2, Returned
  <2>3. CASE op.path # <<>> /\ Return("error", cache, RootObj) /\ UNCHANGED fresh
    BY <1>1, <1>3, <2>1, <2>3, Returned
  <2> DEFINE m == MadeAll(tree, fresh, op.path)
  <2>4. CASE /\ m.ok /\ fresh < m.i /\ m.i <= MaxId + 1 /\ fresh' = m.i
             /\ Go(m.t, cache, [op EXCEPT !.pc = "made", !.at = m.at])
    <3> DEFINE o2 == [op EXCEPT !.pc = "made", !.at = m.at]
    <3>1. op.path \in Seq(Names)
      BY <1>1 DEF Operation
    <3>2. m.i \in Nat /\ TreeOK(m.t, m.i) /\ IsDir(m.t, m.at)
      BY <1>1, <2>4, <3>1, MadeAllIs
    <3>3. op.path # <<>>
      <4>1. ASSUME op.path = <<>> PROVE m.i = fresh
        <5> DEFINE a == [t |-> tree, i |-> fresh, at |-> Root, ok |-> TRUE]
                   Eq(f) == f = [k \in 0..0 |-> IF k = 0 THEN a ELSE EnterOrMake(f[k - 1], op.path[k])]
                   h == CHOOSE f : Eq(f)
        <5>1. Len(op.path) = 0
          BY <4>1
        <5>2. m = h[0]
          BY <5>1 DEF MadeAll
        <5> HIDE DEF h, a, m
        <5>3. Eq([k \in 0..0 |-> a])
          OBVIOUS
        <5> HIDE DEF Eq
        <5>4. Eq(h)
          BY <5>3 DEF h
        <5>5. h[0] = a
          BY <5>4 DEF Eq
        <5> QED BY <5>2, <5>5 DEF a
      <4> QED BY <1>1, <2>4, <4>1
    <3> HIDE DEF m
    <3>4. m.at \in 0..(m.i - 1) /\ m.i \in fresh..(MaxId + 1) /\ op \in Operation(m.i)
      <4>1. DOMAIN m.t \subseteq 1..(m.i - 1) /\ m.i # 0
        BY <1>1, <2>4, <3>2, TreeIs
      <4> QED BY <1>1, <2>4, <3>2, <4>1, Grows DEF IsDir, Root
    <3>5. o2 \in Operation(m.i)
      BY <3>4 DEF Operation, PCs
    <3>6. /\ o2.touched = op.touched /\ o2.kind = op.kind /\ o2.objs = op.objs /\ o2.todo = op.todo
          /\ o2.stack = op.stack /\ o2.path = op.path /\ o2.pc = "made"
      BY <1>1 DEF Operation
    <3>7. o2.pc \in Mkdirs /\ o2.pc # "mkdir" /\ o2.pc \notin {"find", "create", "conflict"}
      BY <3>6 DEF Mkdirs
    <3>8. Go(m.t, cache, o2)
      BY <2>4
    <3> HIDE DEF o2
    <3> QED BY <1>1, <1>2, <2>1, <2>4, <3>2, <3>3, <3>4, <3>5, <3>6, <3>7, <3>8, MkdirGoes
  <2> QED BY <1>4, <2>2, <2>3, <2>4 DEF BaiduMkdir
<1>5. CASE BaiduMade
  <2>1. op.path # <<>> /\ op.path \in Seq(Names)
    BY <1>1, <1>5 DEF BaiduMade, IInv, Places, MkdirPlaces, Mkdirs, Operation
  <2>2. Front(op.path) \in Seq(Names) /\ NoParent \in Int
    BY <2>1 DEF Front, NoParent
  <2>3. Obj(op.at, Last(op.path), Front(op.path), "dir", NoParent) \in Object(fresh)
    BY <1>5, <2>2, MadeObj DEF BaiduMade
  <2> QED BY <1>1, <1>3, <1>5, <2>3, Returned DEF BaiduMade
<1> QED BY <1>4, <1>5 DEF BaiduNext

LEMMA AliMakes ==
  ASSUME IInv, UNCHANGED drv, AliNext
  PROVE  IInv'
<1>1. /\ op \in Operation(fresh) /\ TreeOK(tree, fresh) /\ fresh \in fresh..(MaxId + 1)
      /\ cache \in Caches(fresh) /\ drv \in Ali /\ drv # "baidu" /\ drv # "cloudreve"
  BY Now DEF AliNext, AliMkdir, AliOpenMkdir, Ali
<1>2. CASE op.pc = "create" /\ MkdirFail
  BY <1>2, MkdirFails, ErrorsSkip
<1>3. CASE MkdirBegin("create")
  BY <1>1, <1>3, Begins
<1>4. CASE op.pc = "create" /\ MakeAt(op.at, Head(op.rest), "create")
  BY <1>1, <1>4, Makes
<1>5. CASE /\ op.pc = "create" /\ HasKid(tree, op.at, Head(op.rest))
           /\ Go(tree, cache, Descend(Kid(tree, op.at, Head(op.rest)), "create"))
           /\ UNCHANGED <<fresh, task>>
  <2>1. Kid(tree, op.at, Head(op.rest)) \in 1..(fresh - 1)
    BY <1>5, KidIs
  <2> QED BY <1>1, <1>5, <2>1, Descends
<1>6. CASE Made_
  <2>1. op.path # <<>> /\ op.path \in Seq(Names) /\ op.pc \in Mkdirs /\ NoParent \in Int
    BY <1>1, <1>6 DEF Made_, IInv, Places, MkdirPlaces, Mkdirs, Operation, NoParent
  <2>2. Result \in Object(fresh) /\ Proper(Result)
    BY <1>1, <1>6, <2>1, MadeObj DEF Made_, Result, Ali
  <2>3. /\ Del(cache, {op.base.id}) \in Caches(fresh) /\ Adds(cache, Del(cache, {op.base.id}))
        /\ DOMAIN Del(cache, {op.base.id}) = DOMAIN cache \ {op.base.id}
    BY <1>1, DelIs, ZenonT(60)
  <2>4. MkdirReturn(Del(cache, {op.base.id}), Result) /\ UNCHANGED <<fresh, task>>
    BY <1>6 DEF Made_
  <2>5. due \subseteq {op.base.id}
    BY <2>1 DEF IInv, Dues
  <2> QED BY <1>1, <2>1, <2>2, <2>3, <2>4, <2>5, MkdirReturns
<1>7. HasDir(op.at, Head(op.rest)) => HasKid(tree, op.at, Head(op.rest))
  BY DEF HasDir
<1> QED BY <1>2, <1>3, <1>4, <1>5, <1>6, <1>7 DEF AliNext, AliMkdir, AliOpenMkdir

LEMMA CloudreveMakes ==
  ASSUME IInv, UNCHANGED drv, CloudreveMkdir
  PROVE  IInv'
<1>1. /\ op \in Operation(fresh) /\ TreeOK(tree, fresh) /\ fresh \in fresh..(MaxId + 1)
      /\ cache \in Caches(fresh) /\ Adds(cache, cache) /\ drv = "cloudreve" /\ 0 \in Nat /\ 1 \in Nat
      /\ op.clean \in BOOLEAN
  BY Now DEF CloudreveMkdir, Operation
<1>2. CASE op.pc = "create" /\ MkdirFail
  BY <1>2, MkdirFails, ErrorsSkip
<1>3. CASE MkdirBegin("create")
  BY <1>1, <1>3, Begins
<1>4. CASE /\ op.pc = "create"
           /\ LET at == NodeAt(tree, Full(op.base)) IN MakeAt(at, Head(op.rest), "made")
  BY <1>1, <1>4, Makes, SMTT(60)
<1>5. CASE /\ op.pc = "create"
           /\ Go(tree, cache, [op EXCEPT !.tries = 1, !.pc = "made", !.clean = FALSE])
           /\ UNCHANGED <<fresh, task>>
  <2>1. [op EXCEPT !.tries = 1, !.pc = "made", !.clean = FALSE]
          = [op EXCEPT !.pc = "made", !.tries = 1, !.clean = FALSE]
    BY <1>1 DEF Operation
  <2> QED BY <1>1, <1>5, <2>1, Turns DEF Mkdirs
<1>6. CASE /\ op.pc = "made"
           /\ Go(tree, Del(cache, {op.base.id}), [op EXCEPT !.pc = "mkdir", !.tries = 0])
           /\ UNCHANGED <<fresh, task>>
  <2>1. [op EXCEPT !.pc = "mkdir", !.tries = 0] = [op EXCEPT !.pc = "mkdir", !.tries = 0, !.clean = op.clean]
    BY <1>1 DEF Operation
  <2>2. /\ Del(cache, {op.base.id}) \in Caches(fresh) /\ Adds(cache, Del(cache, {op.base.id}))
        /\ DOMAIN Del(cache, {op.base.id}) = DOMAIN cache \ {op.base.id}
    BY <1>1, DelIs
  <2> QED BY <1>1, <1>6, <2>1, <2>2, Turns DEF Mkdirs
<1> QED BY <1>2, <1>3, <1>4, <1>5, <1>6 DEF CloudreveMkdir

LEMMA ThunderMakes ==
  ASSUME IInv, UNCHANGED drv, ThunderMkdir
  PROVE  IInv'
<1>1. /\ op \in Operation(fresh) /\ cache \in Caches(fresh) /\ drv # "baidu" /\ drv # "cloudreve"
      /\ op.clean \in BOOLEAN /\ op.tries \in Nat
  BY Now, SMTT(60) DEF ThunderMkdir, Operation
<1>2. CASE op.pc = "create" /\ MkdirFail
  BY <1>2, MkdirFails, ErrorsSkip
<1>3. CASE MkdirBegin("create")
  BY <1>1, <1>3, Begins
<1>4. CASE op.pc = "create" /\ MakeAt(op.at, Head(op.rest), "create")
  BY <1>1, <1>4, Makes
<1>5. CASE /\ op.pc = "made" /\ Go(tree, Del(cache, {op.base.id}), [op EXCEPT !.pc = "mkdir"])
           /\ UNCHANGED <<fresh, task>>
  <2>1. [op EXCEPT !.pc = "mkdir"] = [op EXCEPT !.pc = "mkdir", !.tries = op.tries, !.clean = op.clean]
    BY <1>1 DEF Operation
  <2>2. /\ Del(cache, {op.base.id}) \in Caches(fresh) /\ Adds(cache, Del(cache, {op.base.id}))
        /\ DOMAIN Del(cache, {op.base.id}) = DOMAIN cache \ {op.base.id}
    BY <1>1, DelIs
  <2>3. op.pc \in Mkdirs \ {"mkdir"} /\ "mkdir" \in Mkdirs
    BY <1>5 DEF Mkdirs
  <2> QED BY <1>1, <1>5, <2>1, <2>2, <2>3, Turns
<1> QED BY <1>2, <1>3, <1>4, <1>5 DEF ThunderMkdir

------------------------------------------------------------------------------
(* Plans: what an operation is about to send, and the listings to delete. *)

Planned(p) ==
  /\ p.ok \in BOOLEAN /\ p.cache \in Caches(fresh) /\ Adds(cache, p.cache)
  /\ p.req \in Request_(fresh) /\ p.dels \in SUBSET Key /\ p.panic \in BOOLEAN

\* The plan p, after which rest is left, deletes what will be due when it has been served.
Covers(p, rest) ==
  /\ Pays(p.req, p.dels)
  /\ p.panic => op.kind \in Naming /\ drv # "baidu" /\ p.dels \subseteq {NoParent}
  /\ op.kind \in Naming => rest = <<>>
  /\ op.kind \in Shifting /\ drv \in Ali => p.req # NoReq
  /\ op.kind = "move" => Range(rest) \subseteq op.objs
  /\ rest = <<>> \/ (op.kind \in Shifting /\ drv \in Ali) \/ (op.kind = "move" /\ drv = "cloudreve")

LEMMA Resolves ==
  ASSUME IInv, NEW p, NEW rest \in Seq(Object(fresh)), Resolve(p, rest), UNCHANGED drv,
         Planned(p), p.ok => Covers(p, rest)
  PROVE  IInv'
<1>1. /\ op \in Operation(fresh) /\ TreeOK(tree, fresh) /\ fresh \in fresh..(MaxId + 1)
      /\ RootObj \in Object(fresh) /\ task \in Request_(fresh) /\ (drv # "quark" => task = NoReq)
      /\ drv \in AllDrivers
  BY Now, RootIs, DriveParameters DEF Types
<1>2. op.pc = "resolve" /\ UNCHANGED <<fresh, task>>
  BY DEF Resolve
<1>3. CASE ~p.ok
  <2>1. Skips \/ due = {}
    BY <1>2, ErrorsSkip
  <2> QED BY <1>1, <1>2, <1>3, <2>1, Returned DEF Resolve, Planned
<1>4. CASE p.ok
  <2> DEFINE pc == IF p.req = NoReq THEN "finish" ELSE "request"
             o2 == [op EXCEPT !.pc = pc, !.req = p.req, !.dels = op.dels \cup p.dels,
                              !.panic = p.panic, !.todo = rest]
  <2>1. Go(tree, p.cache, o2)
    <3>1. o2 = [op EXCEPT !.pc = IF p.req = NoReq THEN "finish" ELSE "request",
                          !.req = p.req, !.dels = @ \cup p.dels, !.panic = p.panic, !.todo = rest]
      BY <1>1 DEF Operation
    <3> QED BY <1>4, <3>1 DEF Resolve
  <2>2. o2 \in Operation(fresh) /\ o2.touched = op.touched
    BY <1>1, ZenonT(60) DEF Operation, PCs, Planned
  <2>3. pc \in {"finish", "request"} /\ (pc = "request" => p.req # NoReq)
        /\ (pc = "finish" => p.req = NoReq)
    OBVIOUS
  <2> HIDE DEF pc
  <2>4. /\ Types' /\ ListingsCurrent' /\ op' = [o2 EXCEPT !.touched = op'.touched]
        /\ due' \subseteq due /\ (drv' # "baidu" => NoParent \notin due')
    <3>1. p.cache \in Caches(fresh) /\ Adds(cache, p.cache) /\ task' \in Request_(fresh)
          /\ (drv # "quark" => task' = NoReq) /\ fresh' = fresh
      BY <1>1, <1>2 DEF Planned
    <3> HIDE DEF o2
    <3> QED BY <1>1, <2>1, <2>2, <3>1, Goes
  <2>5. /\ op'.kind = op.kind /\ op'.objs = op.objs /\ op'.dst = op.dst /\ op'.stack = op.stack
        /\ op'.pc = pc /\ op'.req = p.req /\ op'.dels = op.dels \cup p.dels /\ op'.todo = rest
        /\ op'.panic = p.panic
    BY <1>1, <2>4, ZenonT(60) DEF Operation
  <2>6. op.kind \in Naming \cup Shifting /\ (op.stack # <<>> => op.kind = "batch")
        /\ \A i \in 2..Len(op.stack) : op.stack[i].dir \in Listed(fresh)
    BY <1>2 DEF IInv, Places, SendPlaces, BatchPlaces
  <2>7. Covers(p, rest) /\ tree' = tree
    BY <1>4, <2>1 DEF Go
  <2>8. Places'
    <3>1. MkdirPlaces'
      BY <2>3, <2>5, <2>6 DEF MkdirPlaces, Mkdirs, Shifting, Naming
    <3>2. SendPlaces'
      BY <2>3, <2>5, <2>6, <2>7 DEF SendPlaces, Sending, Covers, Shifting, Naming, Ali
    <3>3. BatchPlaces'
      BY <1>2, <2>3, <2>5, <2>6 DEF BatchPlaces
    <3> QED BY <2>3, <2>5, <3>1, <3>2, <3>3 DEF Places
  <2>9. Dues'
    <3>1. /\ due \subseteq op.dels /\ (~(drv \in Ali /\ op.kind \in Shifting) => due = {})
          /\ op.kind \in Naming => op.dels = {}
      BY <1>2 DEF IInv, Dues
    <3>2. Pays(op.req, op.dels)'
      <4>1. Pays(p.req, op'.dels)
        BY <2>5, <2>7 DEF Covers, Pays
      <4> QED BY <2>5, <2>7, <4>1 DEF Pays, Slips, Home, Void
    <3>3. due' \subseteq op'.dels /\ (~(drv' \in Ali /\ op'.kind \in Shifting) => due' = {})
      BY <2>4, <2>5, <3>1
    <3>4. op'.panic => drv' # "baidu" /\ op'.dels \subseteq {NoParent}
      BY <2>5, <2>7, <3>1 DEF Covers
    <3>5. pc \notin Mkdirs \cup {"idle", "batch", "resolve"}
      BY <2>3 DEF Mkdirs
    <3> QED BY <2>4, <2>5, <3>2, <3>3, <3>4, <3>5 DEF Dues, Mkdirs
  <2> QED BY <2>4, <2>8, <2>9 DEF IInv
<1> QED BY <1>3, <1>4 DEF Planned

\* The operand and the listings after the look at it.
Operand(r) ==
  /\ r.ok \in BOOLEAN /\ r.obj \in Object(fresh) /\ r.cache \in Caches(fresh) /\ Adds(cache, r.cache)

LEMMA PlansAre ==
  ASSUME NEW c \in Caches(fresh), Adds(cache, c), Types
  PROVE  /\ Planned(Refuse(c)) /\ ~Refuse(c).ok
         /\ \A req \in Request_(fresh), dels \in SUBSET Key, panic \in BOOLEAN :
              LET p == [Plan(c, req, dels) EXCEPT !.panic = panic]
              IN Planned(p) /\ p.req = req /\ p.dels = dels
         /\ \A req \in Request_(fresh), dels \in SUBSET Key :
              LET p == Plan(c, req, dels) IN Planned(p) /\ p.req = req /\ p.dels = dels
<1>1. NoReq \in Request_(fresh)
  <2>1. RootObj \in Object(fresh)
    BY RootIs DEF Types
  <2> QED BY <2>1 DEF NoReq, Request_
<1> QED BY <1>1 DEF Planned, Refuse, Plan

LEMMA RenameReqIs ==
  ASSUME NEW n \in Nat \ {0}, NEW os \in SUBSET Object(n), os # {}, NEW nm \in Names
  PROVE  LET r == Req("rename", os, RootObj, nm)
         IN r \in Request_(n) /\ r.objs = os /\ r.do = "rename"
<1>1. RootObj \in Object(n)
  BY RootIs
<1> QED BY <1>1 DEF Req, Request_, NoReq

LEMMA Renames ==
  ASSUME IInv, RenameResolve, UNCHANGED drv
  PROVE  IInv'
<1> DEFINE r == Resolved(cache, Head(op.todo))  nm == op.name  p == ObjRename(r, nm)
<1>1. /\ op \in Operation(fresh) /\ cache \in Caches(fresh) /\ Types /\ fresh \in Nat \ {0}
      /\ TreeOK(tree, fresh)
  BY Now
<1>2. /\ op.kind \in Naming /\ Resolve(p, <<>>) /\ op.pc = "resolve"
      /\ nm \in Names /\ op.todo # <<>> /\ <<>> \in Seq(Object(fresh)) /\ op.todo \in Seq(Object(fresh))
  BY <1>1 DEF RenameResolve, Resolve, IInv, Places, SendPlaces, Operation, Naming
<1>3. Operand(r)
  <2>1. Head(op.todo) \in Object(fresh)
    BY <1>2, TailIs
  <2> QED BY <1>1, <2>1, ResolvedIs DEF Operand
<1> HIDE DEF r, nm
<1> DEFINE req == Req("rename", {r.obj}, RootObj, nm)
<1>4. req \in Request_(fresh) /\ req.objs = {r.obj} /\ req.do = "rename"
  <2>1. {r.obj} \in SUBSET Object(fresh) /\ {r.obj} # {}
    BY <1>3 DEF Operand
  <2> QED BY <1>1, <1>2, <2>1, RenameReqIs, ZenonT(60)
<1> HIDE DEF req
<1>5. r.obj.pid \in Key /\ r.obj.path \in Key /\ r.obj.id \in Int /\ r.obj.id < fresh
  BY <1>1, <1>3 DEF Operand, Object, Key
<1>6. drv \in AllDrivers
  BY <1>1, DriveParameters DEF Types
<1>7. CASE p = Refuse(r.cache)
  <2>1. Planned(p) /\ ~p.ok
    BY <1>1, <1>3, <1>7, PlansAre DEF Operand
  <2> HIDE DEF p
  <2> QED BY <1>2, <2>1, Resolves
<1>8. CASE \E dels \in SUBSET Key, panic \in BOOLEAN :
             /\ p = [Plan(r.cache, req, dels) EXCEPT !.panic = panic]
             /\ panic => drv # "baidu" /\ dels \subseteq {NoParent}
             /\ drv # "thunder" => Home(r.obj) \in dels \cup Void
             /\ drv = "thunder" => (r.obj.id \in DOMAIN tree => tree[r.obj.id].parent \in dels \cup {Root})
  <2>1. PICK dels \in SUBSET Key, panic \in BOOLEAN :
             /\ p = [Plan(r.cache, req, dels) EXCEPT !.panic = panic]
             /\ panic => drv # "baidu" /\ dels \subseteq {NoParent}
             /\ drv # "thunder" => Home(r.obj) \in dels \cup Void
             /\ drv = "thunder" => (r.obj.id \in DOMAIN tree => tree[r.obj.id].parent \in dels \cup {Root})
    BY <1>8
  <2>2. Planned(p) /\ p.req = req /\ p.dels = dels
    BY <1>1, <1>3, <1>4, <2>1, PlansAre DEF Operand
  <2>6. p.panic = panic
    BY <2>1 DEF Plan
  <2> HIDE DEF p
  <2>3. Pays(req, dels)
    BY <1>4, <2>1 DEF Pays
  <2>4. Range(<<>>) = {}
    BY DEF Range
  <2>5. Covers(p, <<>>)
    BY <1>2, <2>1, <2>2, <2>3, <2>4, <2>6 DEF Covers, Naming, Shifting
  <2> QED BY <1>2, <2>2, <2>5, Resolves
<1>9. ASSUME NEW dels \in SUBSET Key
      PROVE  Plan(r.cache, req, dels) = [Plan(r.cache, req, dels) EXCEPT !.panic = FALSE]
  <2>1. Plan(r.cache, req, dels)
          \in [ok : {TRUE}, cache : {r.cache}, req : {req}, dels : {dels}, panic : {FALSE}]
    BY DEF Plan
  <2> QED BY <2>1
<1>10. {r.obj.pid} \in SUBSET Key /\ {r.obj.pid} \ {NoParent} \in SUBSET Key /\ {r.obj.path} \in SUBSET Key
       /\ FALSE \in BOOLEAN /\ (r.obj.pid = NoParent) \in BOOLEAN
  BY <1>5
<1>11. CASE drv \in {"quark", "cloudreve", "ali_open"}
  <2>1. Home(r.obj) = r.obj.pid
    BY <1>11 DEF Home
  <2>2. p = Refuse(r.cache) \/ p = [Plan(r.cache, req, {r.obj.pid}) EXCEPT !.panic = r.obj.pid = NoParent]
    BY <1>11 DEF ObjRename, QuarkObjRename, CloudreveObjRename, AliOpenObjRename, objectRename,
                 cloudreveRename, req
  <2> HIDE DEF p
  <2> QED BY <1>7, <1>8, <1>10, <1>11, <2>1, <2>2
<1>12. CASE drv = "ali"
  <2>1. Home(r.obj) = r.obj.pid /\ NoParent \in Void
    BY <1>12 DEF Home, Void
  <2>2. p = Refuse(r.cache) \/ p = Plan(r.cache, req, {r.obj.pid} \ {NoParent})
    BY <1>12 DEF ObjRename, AliObjRename, ParentKey, req
  <2> HIDE DEF p
  <2> QED BY <1>7, <1>8, <1>9, <1>10, <1>12, <2>1, <2>2
<1>13. CASE drv = "baidu"
  <2>1. Home(r.obj) = r.obj.path
    BY <1>13 DEF Home
  <2>2. p = Plan(r.cache, req, {r.obj.path})
    BY <1>13 DEF ObjRename, BaiduObjRename, manage, req
  <2> HIDE DEF p
  <2> QED BY <1>8, <1>9, <1>10, <1>13, <2>1, <2>2
<1>14. CASE drv = "thunder"
  <2> DEFINE above == IF r.obj.id \in DOMAIN tree THEN tree[r.obj.id].parent ELSE NoId
             key == IF above = Root THEN NoId ELSE above
  <2>1. p = Refuse(r.cache) \/ p = Plan(r.cache, req, {key})
    BY <1>14 DEF ObjRename, ThunderObjRename, rename, req
  <2>2. {key} \in SUBSET Key
    <3>1. r.obj.id \in DOMAIN tree => tree[r.obj.id].parent \in Nat
      BY <1>1, TreeIs DEF Node
    <3> QED BY <3>1 DEF Key, NoId
  <2>3. r.obj.id \in DOMAIN tree => tree[r.obj.id].parent \in {key} \cup {Root}
    OBVIOUS
  <2> HIDE DEF p, key
  <2> QED BY <1>7, <1>8, <1>9, <1>10, <1>14, <2>1, <2>2, <2>3
<1> QED BY <1>6, <1>11, <1>12, <1>13, <1>14 DEF AllDrivers

LEMMA FiniteRange ==
  ASSUME NEW S, NEW s \in Seq(S)
  PROVE  IsFiniteSet(Range(s)) /\ Range(s) \in SUBSET S
<1>1. DOMAIN s = 1..Len(s) /\ Len(s) \in Nat /\ \A i \in 1..Len(s) : s[i] \in S
  OBVIOUS
<1>2. IsFiniteSet(1..Len(s))
  BY <1>1, FS_Interval
<1>3. s \in Surjection(1..Len(s), Range(s))
  <2>1. s \in [1..Len(s) -> Range(s)]
    BY <1>1 DEF Range
  <2>2. \A t \in Range(s) : \E i \in 1..Len(s) : s[i] = t
    BY <1>1 DEF Range
  <2> QED BY <2>1, <2>2 DEF Surjection
<1>4. IsFiniteSet(Range(s))
  BY <1>2, <1>3, FS_Surjection
<1> QED BY <1>1, <1>4 DEF Range

\* What an operation that moves or deletes has when it looks through the listings.
LEMMA Operands ==
  ASSUME IInv, op.pc = "resolve", op.kind \in Shifting
  PROVE  /\ op.todo \in Seq(Object(fresh)) /\ op.dst \in Object(fresh)
         /\ Range(op.todo) \in SUBSET Object(fresh) /\ Tail(op.todo) \in Seq(Object(fresh))
         /\ <<>> \in Seq(Object(fresh)) /\ fresh \in Nat \ {0} /\ drv \in AllDrivers
         /\ drv \notin Ali /\ ~ (drv = "cloudreve" /\ op.kind = "move") => op.objs \subseteq Range(op.todo)
         /\ op.kind = "move" => Range(op.todo) \subseteq op.objs
         /\ Range(Tail(op.todo)) \subseteq Range(op.todo)
         /\ LET r == Resolved(cache, Head(op.todo))
            IN /\ Operand(r) /\ r.obj.pid \in Key
               /\ drv \in Ali => r.obj.pid \in ParentKey(r.obj) \cup Void
<1> DEFINE hd == Head(op.todo)  r == Resolved(cache, hd)
<1>1. /\ op \in Operation(fresh) /\ cache \in Caches(fresh) /\ Types /\ fresh \in Nat \ {0}
      /\ drv \in AllDrivers
  BY Now, DriveParameters DEF Types
<1>2. /\ op.todo \in Seq(Object(fresh)) /\ op.dst \in Object(fresh) /\ op.todo # <<>>
      /\ op.objs \in SUBSET Object(fresh)
  BY <1>1 DEF IInv, Places, SendPlaces, Operation
<1>3. /\ hd \in Object(fresh) /\ Tail(op.todo) \in Seq(Object(fresh))
      /\ Range(op.todo) = {hd} \cup Range(Tail(op.todo)) /\ Range(op.todo) \in SUBSET Object(fresh)
  BY <1>2, TailIs, FiniteRange
<1>4. drv \notin Ali /\ ~ (drv = "cloudreve" /\ op.kind = "move") => op.objs \subseteq Range(op.todo)
  BY DEF IInv, Places, SendPlaces, Done
<1> HIDE DEF hd
<1>5. Operand(r)
  BY <1>1, <1>3, ResolvedIs DEF Operand
<1>6. r.obj.pid \in Key
  BY <1>5 DEF Operand, Object, Key
<1> HIDE DEF r
<1>7. drv \in Ali => r.obj.pid \in ParentKey(r.obj) \cup Void
  BY DEF Ali, ParentKey, Void
<1>8. op.kind = "move" => Range(op.todo) \subseteq op.objs
  BY DEF IInv, Places, SendPlaces
<1> QED BY <1>1, <1>2, <1>3, <1>4, <1>5, <1>6, <1>7, <1>8 DEF r, hd

LEMMA Moves ==
  ASSUME IInv, MoveResolve, UNCHANGED drv
  PROVE  IInv'
<1> DEFINE todo == op.todo  dst == op.dst  none == <<>>
           r == Resolved(cache, Head(todo))
           req(os) == Req("move", os, dst, NoName)
<1>1. /\ cache \in Caches(fresh) /\ Types /\ Adds(cache, cache)
  BY Now
<1>2. op.kind = "move" /\ op.pc = "resolve" /\ op.kind \in Shifting
  <2>1. \A p, rest : Resolve(p, rest) => op.pc = "resolve"
    BY DEF Resolve
  <2>2. drv \in AllDrivers
    BY <1>1, DriveParameters DEF Types
  <2> QED BY <2>1, <2>2 DEF MoveResolve, AllDrivers, Shifting
<1>3. /\ todo \in Seq(Object(fresh)) /\ dst \in Object(fresh)
      /\ Range(todo) \in SUBSET Object(fresh) /\ Tail(todo) \in Seq(Object(fresh))
      /\ none \in Seq(Object(fresh)) /\ fresh \in Nat \ {0} /\ drv \in AllDrivers
      /\ Range(todo) \subseteq op.objs /\ Range(Tail(todo)) \subseteq op.objs
      /\ Operand(r) /\ r.obj.pid \in Key
      /\ drv \in Ali => r.obj.pid \in ParentKey(r.obj) \cup Void
  BY <1>2, Operands
<1> HIDE DEF r
<1>4. dst.id \in Key
  BY <1>3 DEF Object, Key
<1>5. ASSUME NEW os \in SUBSET Object(fresh)
      PROVE  /\ req(os) \in Request_(fresh) /\ req(os) # NoReq
             /\ req(os).do = "move" /\ req(os).objs = os /\ req(os).dst = dst
  <2>1. NoName \in Names \cup {NoName} /\ req(os) # NoReq
    BY DEF Req, NoReq
  <2>2. req(os) = [do |-> "move", objs |-> os, dst |-> dst, name |-> NoName]
    BY DEF Req
  <2> QED BY <1>3, <2>1, <2>2 DEF Request_
<1>10. Range(none) = {}
  BY DEF Range
<1>6. CASE drv \in {"quark", "thunder"}
  <2> DEFINE l == CollectItemIds(cache, todo, FALSE)  p == Plan(l.cache, req(l.objs), l.keys)
  <2>1. Resolve(p, none)
    BY <1>6 DEF MoveResolve, QuarkMove, ThunderMove, objectMove, move
  <2>2. FALSE \in BOOLEAN
    OBVIOUS
  <2>3. l \in Bags(cache)
    <3> HIDE DEF todo
    <3> QED BY <1>1, <1>3, <2>2, CollectItemIdsIs
  <2> HIDE DEF l
  <2>4. l.objs \in SUBSET Object(fresh) /\ l.cache \in Caches(fresh) /\ l.keys \in SUBSET Key /\ Adds(cache, l.cache)
    BY <2>3 DEF Bags
  <2> HIDE DEF req
  <2>5. Planned(p) /\ p.req = req(l.objs) /\ p.dels = l.keys
    BY <1>1, <1>5, <2>4, PlansAre
  <2>7. p.panic = FALSE
    BY DEF Plan
  <2> HIDE DEF p
  <2>6. Covers(p, none)
    <3>1. Pays(p.req, p.dels)
      BY <1>5, <1>6, <2>4, <2>5 DEF Pays, Slips, Ali
    <3> QED BY <1>2, <1>6, <1>10, <2>5, <2>7, <3>1 DEF Covers, Ali, Naming
  <2> QED BY <1>3, <2>1, <2>5, <2>6, Resolves
<1>7. CASE drv = "baidu"
  <2> DEFINE dels == {o.path : o \in Range(todo)} \cup {BaiduKey(dst)}
             p == Plan(cache, req(Range(todo)), dels)
  <2>1. Resolve(p, none)
    BY <1>7 DEF MoveResolve, BaiduMove, manage
  <2>2. dels \in SUBSET Key
    <3>1. BaiduKey(dst) \in Key
      BY <1>3, BaiduKeyIs DEF Key
    <3>2. \A o \in Range(todo) : o.path \in Key
      BY <1>3 DEF Object, Key
    <3> QED BY <3>1, <3>2
  <2>3. (\A o \in Range(todo) : o.path \in dels) /\ BaiduKey(dst) \in dels
    OBVIOUS
  <2> HIDE DEF dels, req
  <2>4. Planned(p) /\ p.req = req(Range(todo)) /\ p.dels = dels
    BY <1>1, <1>3, <1>5, <2>2, PlansAre
  <2>6. p.panic = FALSE
    BY DEF Plan
  <2> HIDE DEF p
  <2>5. Covers(p, none)
    <3>1. Pays(p.req, p.dels)
      BY <1>3, <1>5, <1>7, <2>3, <2>4 DEF Pays, Home, Ali
    <3> QED BY <1>2, <1>7, <1>10, <2>4, <2>6, <3>1 DEF Covers, Ali, Naming
  <2> QED BY <1>3, <2>1, <2>4, <2>5, Resolves
<1>8. CASE drv = "cloudreve"
  <2> DEFINE same(src) == SameSrc(todo, src)  other(src) == OtherSrc(todo, src)
             l(src) == Sources(cache, same(src), FALSE)
             p(src) == Plan(l(src).cache, req(l(src).objs), l(src).keys \cup {dst.id})
  <2>1. PICK src : Resolve(p(src), other(src))
    BY <1>8 DEF MoveResolve, CloudreveMove, cloudreveMove
  <2>2. /\ same(src) \in Seq(Object(fresh)) /\ other(src) \in Seq(Object(fresh))
        /\ Range(same(src)) \subseteq op.objs /\ Range(other(src)) \subseteq op.objs
    <3>1. IsFiniteSet(Range(todo))
      BY <1>3, FiniteRange
    <3>2. /\ IsFiniteSet({o \in Range(todo) : o.path = src})
          /\ IsFiniteSet({o \in Range(todo) : o.path # src})
      BY <3>1, FS_Subset
    <3>3. /\ same(src) \in Seq({o \in Range(todo) : o.path = src})
          /\ other(src) \in Seq({o \in Range(todo) : o.path # src})
      BY <3>2, TodoIs DEF SameSrc, OtherSrc
    <3>4. \A T \in SUBSET Object(fresh) : Seq(T) \subseteq Seq(Object(fresh))
      OBVIOUS
    <3>5. \A T : \A t \in Seq(T) : Range(t) \subseteq T
      BY FiniteRange
    <3> QED BY <1>3, <3>3, <3>4, <3>5
  <2> DEFINE m == l(src)  q == Plan(m.cache, req(m.objs), m.keys \cup {dst.id})
  <2>3. FALSE \in BOOLEAN
    OBVIOUS
  <2>4. m \in Bags(cache) /\ Named(m, same(src), Len(same(src)))
    <3> HIDE DEF same, other
    <3> QED BY <1>1, <2>2, <2>3, SourcesIs
  <2>5. Resolve(q, other(src))
    BY <2>1
  <2>9. ASSUME NEW o \in m.objs, o.type = "file", o \notin op.objs PROVE o.pid \in m.keys
    <3> HIDE DEF m, same
    <3>1. \A k \in 1..Len(same(src)) : same(src)[k] \in Range(same(src))
      BY <2>2 DEF Range
    <3> QED BY <2>2, <2>4, <2>9, <3>1 DEF Named
  <2> HIDE DEF m, other, req
  <2>6. m.objs \in SUBSET Object(fresh) /\ m.cache \in Caches(fresh) /\ m.keys \in SUBSET Key /\ Adds(cache, m.cache)
    BY <2>4 DEF Bags
  <2>10. q.panic = FALSE
    BY DEF Plan
  <2>7. Planned(q) /\ q.req = req(m.objs) /\ q.dels = m.keys \cup {dst.id}
    <3>1. m.keys \cup {dst.id} \in SUBSET Key
      BY <1>4, <2>6
    <3> QED BY <1>1, <1>5, <2>6, <3>1, PlansAre
  <2> HIDE DEF q
  <2>8. Covers(q, other(src))
    <3>1. \A o \in m.objs : o.type = "dir" \/ o.type = "file"
      BY <2>6 DEF Object
    <3>2. Pays(q.req, q.dels)
      BY <1>5, <1>8, <2>6, <2>7, <2>9, <3>1 DEF Pays, Slips, Home
    <3> QED BY <1>2, <1>8, <2>2, <2>7, <2>10, <3>2 DEF Covers, Ali, Naming
  <2> QED BY <2>2, <2>5, <2>7, <2>8, Resolves
<1>9. CASE drv \in Ali
  <2> DEFINE dels == ParentKey(r.obj) \cup {dst.id}
             p == IF ~r.ok THEN Refuse(r.cache) ELSE Plan(r.cache, req({r.obj}), dels)
  <2>1. Resolve(p, Tail(todo))
    BY <1>9 DEF MoveResolve, AliMove, AliOpenMove, batch, Ali, r
  <2>2. dels \in SUBSET Key
    BY <1>3, <1>4 DEF ParentKey
  <2>3. {r.obj} \in SUBSET Object(fresh) /\ r.cache \in Caches(fresh) /\ Adds(cache, r.cache)
    BY <1>3 DEF Operand
  <2>4. ParentKey(r.obj) \subseteq dels /\ dst.id \in dels
    OBVIOUS
  <2> HIDE DEF dels, req
  <2>5. CASE ~r.ok
    <3>1. Planned(p) /\ ~p.ok
      BY <1>1, <2>3, <2>5, PlansAre
    <3> HIDE DEF p
    <3> QED BY <1>3, <2>1, <3>1, Resolves
  <2>6. CASE r.ok
    <3>1. Planned(p) /\ p.req = req({r.obj}) /\ p.dels = dels /\ p.req # NoReq
      BY <1>1, <1>5, <2>2, <2>3, <2>6, PlansAre
    <3>4. p.panic = FALSE
      BY <2>6 DEF Plan
    <3> HIDE DEF p
    <3>2. Pays(p.req, p.dels)
      BY <1>3, <1>5, <1>9, <2>3, <2>4, <3>1 DEF Pays, Home, Ali
    <3>3. Covers(p, Tail(todo))
      BY <1>2, <1>3, <1>9, <3>1, <3>2, <3>4 DEF Covers, Ali, Naming
    <3> QED BY <1>3, <2>1, <3>1, <3>3, Resolves
  <2> QED BY <2>5, <2>6, <1>3 DEF Operand
<1> QED BY <1>3, <1>6, <1>7, <1>8, <1>9 DEF AllDrivers, Ali

LEMMA Deletes ==
  ASSUME IInv, DeleteResolve, UNCHANGED drv
  PROVE  IInv'
<1> DEFINE todo == op.todo  none == <<>>
           r == Resolved(cache, Head(todo))
           req(os) == Req("delete", os, RootObj, NoName)
<1>1. /\ cache \in Caches(fresh) /\ Types /\ Adds(cache, cache)
  BY Now
<1>2. op.kind = "delete" /\ op.pc = "resolve" /\ op.kind \in Shifting
  <2>1. \A p, rest : Resolve(p, rest) => op.pc = "resolve"
    BY DEF Resolve
  <2>2. drv \in AllDrivers
    BY <1>1, DriveParameters DEF Types
  <2> QED BY <2>1, <2>2 DEF DeleteResolve, AllDrivers, Shifting
<1>3. /\ todo \in Seq(Object(fresh))
      /\ Range(todo) \in SUBSET Object(fresh) /\ Tail(todo) \in Seq(Object(fresh))
      /\ none \in Seq(Object(fresh)) /\ fresh \in Nat \ {0} /\ drv \in AllDrivers
      /\ drv \notin Ali => op.objs \subseteq Range(todo)
      /\ Operand(r) /\ r.obj.pid \in Key
      /\ drv \in Ali => r.obj.pid \in ParentKey(r.obj) \cup Void
  BY <1>2, Operands
<1> HIDE DEF r
<1>4. NoReq \in Request_(fresh) /\ RootObj \in Object(fresh)
  <2>1. RootObj \in Object(fresh)
    BY <1>3, RootIs
  <2> QED BY <2>1 DEF NoReq, Request_
<1>5. ASSUME NEW os \in SUBSET Object(fresh)
      PROVE  /\ req(os) \in Request_(fresh) /\ req(os) # NoReq
             /\ req(os).do = "delete" /\ req(os).objs = os
  <2>1. NoName \in Names \cup {NoName} /\ req(os) # NoReq
    BY DEF Req, NoReq
  <2>2. req(os) = [do |-> "delete", objs |-> os, dst |-> RootObj, name |-> NoName]
    BY DEF Req
  <2> QED BY <1>4, <2>1, <2>2 DEF Request_
<1>11. Range(none) = {} /\ NoReq.objs = {} /\ NoReq.do = "none"
  BY DEF Range, NoReq
\* quark, thunder and cloudreve delete the listings collected with the objects
<1>6. ASSUME NEW l \in Bags(cache), drv \in {"quark", "thunder", "cloudreve"},
             Resolve(IF l.objs = {} THEN Plan(l.cache, NoReq, {}) ELSE Plan(l.cache, req(l.objs), l.keys), none),
             \A i \in 1..Len(todo) : Has(l, todo[i], {NoParent, NoId}),
             drv = "cloudreve" => Named(l, todo, Len(todo))
      PROVE  IInv'
  <2> DEFINE p == IF l.objs = {} THEN Plan(l.cache, NoReq, {}) ELSE Plan(l.cache, req(l.objs), l.keys)
  <2>1. l.objs \in SUBSET Object(fresh) /\ l.cache \in Caches(fresh) /\ l.keys \in SUBSET Key /\ Adds(cache, l.cache)
    BY DEF Bags
  <2> HIDE DEF req
  <2>9. p.panic = FALSE
    BY DEF Plan
  <2>2. Planned(p) /\ p.req.objs = l.objs /\ p.req.do \in {"none", "delete"}
        /\ (l.objs # {} => p.dels = l.keys /\ p.req.do = "delete")
    <3>1. CASE l.objs = {}
      <4>1. {} \in SUBSET Key
        OBVIOUS
      <4>2. Planned(Plan(l.cache, NoReq, {})) /\ Plan(l.cache, NoReq, {}).req = NoReq
        BY <1>1, <1>4, <2>1, <4>1, PlansAre
      <4> QED BY <1>11, <3>1, <4>2
    <3>2. CASE l.objs # {}
      <4>1. /\ Planned(Plan(l.cache, req(l.objs), l.keys))
            /\ Plan(l.cache, req(l.objs), l.keys).req = req(l.objs)
            /\ Plan(l.cache, req(l.objs), l.keys).dels = l.keys
        BY <1>1, <1>5, <2>1, PlansAre
      <4> QED BY <1>5, <2>1, <3>2, <4>1
    <3> QED BY <3>1, <3>2
  <2>3. Void = {NoId, NoParent}
    BY <1>6 DEF Void
  <2>4. ASSUME NEW o, o \in Range(todo), o.type = "file" PROVE o.pid \in l.keys \cup Void
    <3>1. PICK i \in 1..Len(todo) : todo[i] = o
      BY <1>3, <2>4 DEF Range
    <3>2. Has(l, o, {NoParent, NoId})
      BY <1>6, <3>1
    <3> QED BY <2>3, <2>4, <3>2 DEF Has
  <2>5. ASSUME NEW o \in l.objs, o.type = "file", drv = "cloudreve" PROVE o.pid \in l.keys \cup Void
    <3>1. \A i \in 1..Len(todo) : todo[i] \in Range(todo)
      BY <1>3 DEF Range
    <3>2. Named(l, todo, Len(todo))
      BY <1>6, <2>5
    <3> QED BY <2>4, <2>5, <3>1, <3>2 DEF Named
  <2>6. Pays(p.req, p.dels)
    <3>1. ASSUME NEW o \in l.objs, p.req.do = "delete", ~Slips(p.req, o) PROVE Home(o) \in l.keys \cup Void
      <4>1. o.type = "file" /\ (drv \in {"quark", "thunder"} => o \in op.objs)
        BY <1>6, <2>1, <3>1 DEF Slips, Object
      <4>2. Home(o) = o.pid
        BY <1>6 DEF Home
      <4>3. CASE drv = "cloudreve"
        BY <2>5, <4>1, <4>2, <4>3
      <4>4. CASE drv \in {"quark", "thunder"}
        <5>1. o \in Range(todo)
          BY <1>3, <4>1, <4>4 DEF Ali
        <5> QED BY <2>4, <4>1, <4>2, <5>1
      <4> QED BY <1>6, <4>3, <4>4
    <3> HIDE DEF p
    <3> QED BY <2>2, <3>1 DEF Pays
  <2>7. Resolve(p, none)
    BY <1>6
  <2> HIDE DEF p
  <2>8. Covers(p, none)
    BY <1>2, <1>6, <1>11, <2>2, <2>6, <2>9 DEF Covers, Ali, Naming
  <2> QED BY <1>3, <2>2, <2>7, <2>8, Resolves
<1>7. CASE drv \in {"quark", "thunder"}
  <2> DEFINE l == CollectItemIds(cache, todo, TRUE)
  <2>1. Resolve(IF l.objs = {} THEN Plan(l.cache, NoReq, {}) ELSE Plan(l.cache, req(l.objs), l.keys), none)
    BY <1>7 DEF DeleteResolve, QuarkDelete, ThunderDelete, objectDelete, remove
  <2>2. l \in Bags(cache) /\ \A i \in 1..Len(todo) : Has(l, todo[i], {NoParent, NoId})
    <3>1. TRUE \in BOOLEAN
      OBVIOUS
    <3> HIDE DEF todo
    <3> QED BY <1>1, <1>3, <3>1, CollectItemIdsIs
  <2> HIDE DEF l, todo, req
  <2> QED BY <1>6, <1>7, <2>1, <2>2
<1>8. CASE drv = "cloudreve"
  <2> DEFINE l == Sources(cache, todo, TRUE)
  <2>1. Resolve(IF l.objs = {} THEN Plan(l.cache, NoReq, {}) ELSE Plan(l.cache, req(l.objs), l.keys), none)
    BY <1>8 DEF DeleteResolve, CloudreveDelete, cloudreveDelete
  <2>2. /\ l \in Bags(cache) /\ \A i \in 1..Len(todo) : Has(l, todo[i], {NoParent, NoId})
        /\ Named(l, todo, Len(todo))
    <3>1. TRUE \in BOOLEAN
      OBVIOUS
    <3> HIDE DEF todo
    <3> QED BY <1>1, <1>3, <3>1, SourcesIs
  <2> HIDE DEF l, todo, req
  <2> QED BY <1>6, <1>8, <2>1, <2>2
<1>9. CASE drv = "baidu"
  <2> DEFINE dels == {o.path : o \in Range(todo)}  p == Plan(cache, req(Range(todo)), dels)
  <2>1. Resolve(p, none)
    BY <1>9 DEF DeleteResolve, BaiduDelete, manage
  <2>2. dels \in SUBSET Key
    BY <1>3 DEF Object, Key
  <2>3. \A o \in Range(todo) : o.path \in dels
    OBVIOUS
  <2> HIDE DEF dels, req
  <2>4. Planned(p) /\ p.req = req(Range(todo)) /\ p.dels = dels
    BY <1>1, <1>3, <1>5, <2>2, PlansAre
  <2>6. p.panic = FALSE
    BY DEF Plan
  <2> HIDE DEF p
  <2>5. Covers(p, none)
    <3>1. Pays(p.req, p.dels)
      BY <1>3, <1>5, <1>9, <2>3, <2>4 DEF Pays, Home
    <3> QED BY <1>2, <1>9, <1>11, <2>4, <2>6, <3>1 DEF Covers, Ali, Naming
  <2> QED BY <1>3, <2>1, <2>4, <2>5, Resolves
<1>10. CASE drv \in Ali
  <2> DEFINE dels == ParentKey(r.obj)
             p == IF ~r.ok THEN Refuse(r.cache) ELSE Plan(r.cache, req({r.obj}), dels)
  <2>1. Resolve(p, Tail(todo))
    BY <1>10 DEF DeleteResolve, AliDelete, AliOpenDelete, Ali, r
  <2>2. dels \in SUBSET Key
    BY <1>3 DEF ParentKey
  <2>3. {r.obj} \in SUBSET Object(fresh) /\ r.cache \in Caches(fresh) /\ Adds(cache, r.cache)
    BY <1>3 DEF Operand
  <2>4. ParentKey(r.obj) = dels
    OBVIOUS
  <2> HIDE DEF dels, req
  <2>5. CASE ~r.ok
    <3>1. Planned(p) /\ ~p.ok
      BY <1>1, <2>3, <2>5, PlansAre
    <3> HIDE DEF p
    <3> QED BY <1>3, <2>1, <3>1, Resolves
  <2>6. CASE r.ok
    <3>1. Planned(p) /\ p.req = req({r.obj}) /\ p.dels = dels /\ p.req # NoReq
      BY <1>1, <1>5, <2>2, <2>3, <2>6, PlansAre
    <3>4. p.panic = FALSE
      BY <2>6 DEF Plan
    <3> HIDE DEF p
    <3>2. Pays(p.req, p.dels)
      BY <1>3, <1>5, <1>10, <2>3, <2>4, <3>1 DEF Pays, Home, Ali
    <3>3. Covers(p, Tail(todo))
      BY <1>2, <1>10, <3>1, <3>2, <3>4 DEF Covers, Ali, Naming, Shifting
    <3> QED BY <1>3, <2>1, <3>1, <3>3, Resolves
  <2> QED BY <2>5, <2>6, <1>3 DEF Operand
<1> QED BY <1>3, <1>7, <1>8, <1>9, <1>10 DEF AllDrivers, Ali

------------------------------------------------------------------------------
(* Requests, and what comes after. *)

\* The keys stay right as long as the request is the same and (thunder) the parents of what it
\* renames are.
LEMMA PaysOn ==
  ASSUME Pays(op.req, op.dels), drv' = drv, op'.req = op.req, op'.dels = op.dels, op'.objs = op.objs,
         drv = "thunder" /\ op.req.do = "rename" =>
           \A o \in op.req.objs : o.id \in DOMAIN tree' =>
             o.id \in DOMAIN tree /\ tree'[o.id].parent = tree[o.id].parent
  PROVE  Pays(op.req, op.dels)'
<1>1. CASE drv = "thunder" /\ op.req.do = "rename"
  BY <1>1 DEF Pays
<1>2. CASE ~ (drv = "thunder" /\ op.req.do = "rename")
  <2>1. \A o : /\ Slips(op.req, o)' <=> Slips(op.req, o)
               /\ Home(o)' = Home(o)
    BY DEF Slips, Home
  <2>2. Void' = Void /\ BaiduKey(op.req.dst)' = BaiduKey(op.req.dst)
    BY DEF Void, BaiduKey, Full, Clean
  <2> QED BY <1>2, <2>1, <2>2 DEF Pays
<1> QED BY <1>1, <1>2

\* What gets due when the request is served has a key that will be deleted.
LEMMA DueIs ==
  ASSUME IInv, op.pc \in {"request", "task"}, NEW t2, t2 # tree => Valid(tree, op.req)
  PROVE  Due(t2) \subseteq op.dels
<1> DEFINE r == op.req
<1>1. /\ Pays(r, op.dels) /\ drv \in AllDrivers /\ TreeOK(tree, fresh) /\ r.dst \in Object(fresh)
  BY Now, DriveParameters DEF IInv, Dues, Types, Operation, Request_
<1>2. DOMAIN tree \subseteq Nat /\ \A k \in DOMAIN tree : tree[k].parent \in Nat
  BY <1>1, TreeIs DEF Node
<1> HIDE DEF r
<1>3. CASE t2 = tree
  BY <1>3 DEF Due
<1>4. CASE t2 # tree
  <2>1. Valid(tree, r)
    BY <1>4 DEF r
  <2>2. ASSUME NEW o \in r.objs, ~Slips(r, o), HomeKnown(r, o)
        PROVE  Above(o) \in op.dels
    <3> DEFINE i == NodeOf(tree, o)
    <3>1. i \in DOMAIN tree /\ tree[i].parent \in Nat
      BY <1>2, <2>1 DEF Valid, Targets
    <3>2. drv # "baidu" => Above(o) = tree[i].parent /\ i = o.id
      BY DEF Above, KeyOf, NodeOf
    <3> HIDE DEF i
    <3>3. CASE r.do = "rename" /\ drv = "thunder"
      <4>1. Above(o) # Root
        BY <2>2, <3>3 DEF HomeKnown
      <4>2. tree[o.id].parent \in op.dels \cup {Root}
        BY <1>1, <3>1, <3>2, <3>3 DEF Pays
      <4> QED BY <3>2, <3>3, <4>1, <4>2
    <3>4. CASE ~ (r.do = "rename" /\ drv = "thunder")
      <4>1. Home(o) \in op.dels \cup Void
        BY <1>1, <2>2, <3>4 DEF Pays
      <4>2. Home(o) = Above(o)
        BY <2>2, <3>4 DEF HomeKnown
      <4>3. Above(o) \notin Void
        BY <3>1, <3>2 DEF Void, NoId, NoParent
      <4> QED BY <4>1, <4>2, <4>3
    <3> QED BY <3>3, <3>4
  <2>3. ASSUME r.do = "move", TargetKnown(r)
        PROVE  KeyOf(Dst(tree, r)) \in op.dels
    <3>1. CASE drv = "baidu"
      <4> DEFINE i == Dst(tree, r)  p == Full(r.dst)
      <4>1. IsDir(tree, i)
        BY <2>1, <2>3 DEF Valid
      <4>2. i = NodeAt(tree, p) /\ i # NoId
        BY <1>2, <3>1, <4>1 DEF Dst, NodeOf, IsDir, Root, NoId
      <4>3. PathOf(tree, i) = p
        <5> HIDE DEF i, p
        <5> QED BY <4>2 DEF NodeAt
      <4>4. BaiduKey(r.dst) = p
        BY <2>3, <3>1 DEF TargetKnown, BaiduKey, Full
      <4>5. BaiduKey(r.dst) \in op.dels
        BY <1>1, <2>3, <3>1 DEF Pays
      <4> QED BY <3>1, <4>3, <4>4, <4>5 DEF KeyOf
    <3>2. CASE drv # "baidu"
      <4>1. drv \in Ali \cup {"cloudreve"}
        BY <1>1, <2>3, <3>2 DEF TargetKnown, AllDrivers, Ali
      <4>2. r.dst.id \in op.dels
        BY <1>1, <2>3, <4>1 DEF Pays
      <4>3. Dst(tree, r) = r.dst.id
        BY <2>3, <4>1 DEF TargetKnown, Dst, NodeOf, Ali
      <4> QED BY <3>2, <4>2, <4>3 DEF KeyOf
    <3> QED BY <3>1, <3>2
  <2>4. Due(t2) = {Above(o) : o \in {x \in r.objs : ~Slips(r, x) /\ HomeKnown(r, x)}}
                  \cup IF r.do = "move" /\ TargetKnown(r) THEN {KeyOf(Dst(tree, r))} ELSE {}
    BY <1>4 DEF Due, r
  <2> QED BY <2>2, <2>3, <2>4
<1> QED BY <1>3, <1>4

\* A request is under way, or has been answered.
Sent(pc, clean) == [op EXCEPT !.pc = pc, !.clean = clean]

LEMMA SendGoes ==
  ASSUME IInv, op.pc \in {"request", "task"}, NEW t2, TreeOK(t2, fresh), NEW pc \in {"resolve", "task", "finish"},
         t2 # tree => Valid(tree, op.req), NEW clean \in BOOLEAN, Go(t2, cache, Sent(pc, clean)),
         UNCHANGED <<drv, fresh>>, task' \in Request_(fresh), drv # "quark" => task' = NoReq,
         pc = "task" => drv = "quark" /\ task' \in {NoReq, op.req}, pc = "resolve" => drv \in Ali /\ op.todo # <<>>,
         pc = "finish" /\ drv \in Ali => op.todo = <<>>,
         drv = "thunder" /\ op.req.do = "rename" =>
           \A o \in op.req.objs : o.id \in DOMAIN t2 =>
             o.id \in DOMAIN tree /\ t2[o.id].parent = tree[o.id].parent
  PROVE  IInv'
<1>1. /\ op \in Operation(fresh) /\ fresh \in fresh..(MaxId + 1) /\ cache \in Caches(fresh) /\ Adds(cache, cache)
  BY Now
<1>2. Sent(pc, clean) \in Operation(fresh) /\ Sent(pc, clean).touched = op.touched
  BY <1>1, ZenonT(60) DEF Operation, PCs, Sent
<1>3. /\ Types' /\ ListingsCurrent' /\ op' = [Sent(pc, clean) EXCEPT !.touched = op'.touched]
      /\ due' \subseteq due \cup Due(t2) /\ (drv' # "baidu" => NoParent \notin due')
  BY <1>1, <1>2, GoesHere
<1>4. /\ op'.kind = op.kind /\ op'.base = op.base /\ op'.req = op.req /\ op'.objs = op.objs
      /\ op'.dst = op.dst /\ op'.dels = op.dels /\ op'.pc = pc /\ op'.todo = op.todo
      /\ op'.stack = op.stack /\ op'.panic = op.panic /\ tree' = t2
  BY <1>1, <1>2, <1>3 DEF Operation, Go, Sent
<1>5. /\ op.kind \in Naming \cup Shifting /\ (op.stack # <<>> => op.kind = "batch")
      /\ \A i \in 2..Len(op.stack) : op.stack[i].dir \in Listed(fresh)
      /\ \/ op.todo = <<>>
         \/ op.kind \in Shifting /\ drv \in Ali
         \/ op.kind = "move" /\ drv = "cloudreve"
      /\ op.kind = "move" => Range(op.todo) \subseteq op.objs
  BY DEF IInv, Places, SendPlaces, BatchPlaces, Sending
<1>6. Places'
  <2>1. MkdirPlaces'
    BY <1>4, <1>5 DEF MkdirPlaces, Mkdirs, Shifting, Naming
  <2>2. SendPlaces'
    BY <1>4, <1>5 DEF SendPlaces, Sending, Shifting, Naming, Ali
  <2>3. BatchPlaces'
    BY <1>4, <1>5 DEF BatchPlaces
  <2> QED BY <1>4, <2>1, <2>2, <2>3 DEF Places
<1>7. Dues'
  <2>1. due \subseteq op.dels /\ Pays(op.req, op.dels)
        /\ (op.panic => drv # "baidu" /\ op.dels \subseteq {NoParent})
    BY DEF IInv, Dues, Sending
  <2>2. Due(t2) \subseteq op.dels
    BY DueIs
  <2>3. Pays(op.req, op.dels)'
    BY <1>4, <2>1, PaysOn
  <2>4. pc = "resolve" => drv \in Ali /\ op.kind \in Shifting /\ op.kind \notin Naming
    BY <1>5 DEF Ali, Shifting, Naming
  <2>5. pc \notin Mkdirs \cup {"idle", "batch", "request"}
    BY DEF Mkdirs
  <2> QED BY <1>3, <1>4, <2>1, <2>2, <2>3, <2>4, <2>5 DEF Dues, Mkdirs
<1> QED BY <1>3, <1>6, <1>7 DEF IInv

\* The server has done what it was asked for.
LEMMA Serves ==
  ASSUME IInv, op.pc = "request", Valid(tree, op.req)
  PROVE  /\ TreeOK(Served(tree, op.req), fresh) /\ op.clean \in BOOLEAN /\ op.req \in Request_(fresh)
         /\ drv = "thunder" /\ op.req.do = "rename" =>
              \A o \in op.req.objs : o.id \in DOMAIN Served(tree, op.req) =>
                o.id \in DOMAIN tree /\ Served(tree, op.req)[o.id].parent = tree[o.id].parent
<1>1. /\ op \in Operation(fresh) /\ fresh \in Nat /\ TreeOK(tree, fresh)
      /\ op.req # NoReq
  BY Now DEF IInv, Places, SendPlaces
<1>2. op.req \in Request_(fresh) /\ op.clean \in BOOLEAN
  BY <1>1 DEF Operation
<1>3. /\ TreeOK(Served(tree, op.req), fresh) /\ DOMAIN Served(tree, op.req) \subseteq DOMAIN tree
      /\ op.req.do = "rename" =>
           \A k \in DOMAIN Served(tree, op.req) : Served(tree, op.req)[k].parent = tree[k].parent
  BY <1>1, <1>2, ServedIs
<1> QED BY <1>1, <1>2, <1>3

LEMMA Requests ==
  ASSUME IInv, UNCHANGED drv, Request \/ RefusalUnnoticed
  PROVE  IInv'
<1> DEFINE pc == IF drv \in {"ali", "ali_open"} /\ op.todo # <<>> THEN "resolve" ELSE "finish"
<1>1. /\ op \in Operation(fresh) /\ TreeOK(tree, fresh) /\ task \in Request_(fresh)
      /\ (drv # "quark" => task = NoReq) /\ op.clean \in BOOLEAN
  BY Now DEF Types, Operation
<1>2. pc \in {"resolve", "finish"} /\ (pc = "resolve" => drv \in Ali /\ op.todo # <<>>)
      /\ (pc = "finish" /\ drv \in Ali => op.todo = <<>>)
  BY DEF Ali
<1>3. Answered = Sent(pc, op.clean)
  <2>1. Answered = [op EXCEPT !.pc = pc]
    BY DEF Answered
  <2> HIDE DEF pc
  <2> QED BY <1>1, <2>1 DEF Operation, Sent
<1>4. [Answered EXCEPT !.clean = FALSE] = Sent(pc, FALSE)
  BY DEF Answered, Sent
<1> HIDE DEF pc
<1>5. CASE Request
  <2>1. /\ op.pc = "request" /\ Valid(tree, op.req) /\ Go(Served(tree, op.req), cache, Answered)
        /\ UNCHANGED <<fresh, task>>
    BY <1>5 DEF Request
  <2> QED BY <1>1, <1>2, <1>3, <2>1, Serves, SendGoes
<1>6. CASE RefusalUnnoticed
  <2>1. op.pc = "request" /\ Go(tree, cache, [Answered EXCEPT !.clean = FALSE]) /\ UNCHANGED <<fresh, task>>
        /\ drv = "cloudreve" /\ FALSE \in BOOLEAN
    BY <1>6 DEF RefusalUnnoticed
  <2> QED BY <1>1, <1>2, <1>4, <2>1, SendGoes
<1> QED BY <1>5, <1>6

------------------------------------------------------------------------------
(* Others, and the server's tasks. *)

\* Only listings, or the tree, change.
LEMMA Stays ==
  ASSUME IInv, NEW c \in BOOLEAN, NEW ts \in SUBSET op.touched,
         op' = [op EXCEPT !.clean = c, !.touched = ts], due' = due, task' \in {task, NoReq}, drv' = drv, fresh' \in Nat, fresh <= fresh',
         drv = "thunder" /\ op.req.do = "rename" =>
           \A o \in op.req.objs : o.id \in DOMAIN tree' =>
             o.id \in DOMAIN tree /\ tree'[o.id].parent = tree[o.id].parent
  PROVE  Places' /\ Dues'
<1>1. op \in Operation(fresh) /\ fresh \in Nat
  BY Now
<1>2. /\ op'.kind = op.kind /\ op'.pc = op.pc /\ op'.base = op.base /\ op'.req = op.req /\ op'.objs = op.objs
      /\ op'.dst = op.dst /\ op'.dels = op.dels /\ op'.todo = op.todo /\ op'.stack = op.stack
      /\ op'.name = op.name /\ op'.path = op.path /\ op'.rest = op.rest /\ op'.panic = op.panic /\ op'.at = op.at /\ op'.touched \subseteq op.touched
  BY <1>1 DEF Operation
<1>3. Places'
  <2>1. Listed(fresh) \subseteq Listed(fresh')
    BY <1>1, Grows
  <2>2. MkdirPlaces'
    BY <1>2 DEF IInv, Places, MkdirPlaces, Done
  <2>3. SendPlaces'
    <3>1. SendPlaces
      BY DEF IInv, Places
    <3>2. Done' = Done
      BY <1>2 DEF Done
    <3>3. task \in {NoReq, op.req} => task' \in {NoReq, op'.req}
      BY <1>2
    <3> QED BY <1>2, <3>1, <3>2, <3>3 DEF SendPlaces
  <2>4. BatchPlaces'
    BY <1>2, <2>1 DEF IInv, Places, BatchPlaces
  <2> QED BY <1>2, <2>2, <2>3, <2>4 DEF IInv, Places
<1>4. Dues'
  <2>1. op.pc \in {"request", "task"} => Pays(op.req, op.dels)'
    BY <1>2, PaysOn DEF IInv, Dues
  <2> QED BY <1>2, <2>1 DEF IInv, Dues
<1> QED BY <1>3, <1>4

\* Somebody else changes the tree, and makes at most node fresh.
LEMMA Foreign ==
  ASSUME IInv, NEW t2, NEW n \in fresh..(MaxId + 1), TreeOK(t2, n), tree' = t2, fresh' = n,
         UNCHANGED <<drv, cache, due>>, op' = [op EXCEPT !.clean = FALSE],
         owed' = StaleIn(cache, t2, owed \cup Broken(t2)),
         task' \in {task, NoReq},
         drv = "thunder" => \A i \in DOMAIN t2 : i < fresh => i \in DOMAIN tree /\ t2[i].parent = tree[i].parent
  PROVE  IInv'
<1>1. /\ op \in Operation(fresh) /\ fresh \in Nat \ {0} /\ MaxId \in Nat /\ cache \in Caches(fresh) /\ Types
      /\ n \in Nat /\ fresh <= n /\ n \in 1..(MaxId + 1)
      /\ task' \in Request_(n) /\ (drv # "quark" => task' = NoReq)
  <2>1. NoReq \in Request_(n) /\ (task \in Request_(fresh) => task \in Request_(n))
    <3>1. fresh \in Nat /\ n \in Nat \ {0} /\ fresh <= n
      BY Now
    <3>2. RootObj \in Object(n)
      BY <3>1, RootIs
    <3> QED BY <3>1, <3>2, Grows DEF NoReq, Request_
  <2> QED BY <2>1, Now DEF Types
<1>2. op' = [op EXCEPT !.clean = FALSE, !.touched = op.touched] /\ op.touched \in SUBSET op.touched
      /\ FALSE \in BOOLEAN
  BY <1>1 DEF Operation
<1>3. op' \in Operation(fresh) /\ op'.touched = op.touched
  BY <1>1 DEF Operation
<1>4. Types'
  <2>1. owed' \cup op'.touched \subseteq DOMAIN cache
    BY <1>1, <1>3 DEF Types, StaleIn
  <2>2. op' \in Operation(n) /\ cache \in Caches(n)
    BY <1>1, <1>3, Grows
  <2>3. drv' # "baidu" => DOMAIN cache' \subseteq IdsBelow(fresh')
    BY <1>1, AddsNothing, KeysStay
  <2> QED BY <1>1, <2>1, <2>2, <2>3 DEF Types
<1>5. ListingsCurrent'
  <2>1. Misfiled(cache) = {} /\ Adds(cache, cache)
    BY MisfiledNot, AddsNothing
  <2>2. ASSUME NEW k \in DOMAIN cache, Shown(cache[k]) # Truth(t2, k),
               k \in owed \cup op.touched \cup Broken(t2) \cup Misfiled(cache)
        PROVE  k \in owed' \cup op'.touched
    BY <1>3, <2>1, <2>2 DEF StaleIn
  <2> QED BY <2>1, <2>2, StaysCurrent DEF IInv
<1>6. \A o \in op.req.objs : o.id < fresh
  <2>1. op.req \in Request_(fresh)
    BY <1>1 DEF Operation
  <2>2. op.req.objs \subseteq Object(fresh)
    BY <2>1 DEF Request_
  <2> QED BY <1>1, <2>2 DEF Object
<1>7. Places' /\ Dues'
  BY <1>1, <1>2, <1>6, Stays
<1> QED BY <1>4, <1>5, <1>7 DEF IInv

\* quark: the operation waits for its task, which may run meanwhile.
LEMMA Tasks ==
  ASSUME IInv, UNCHANGED drv, TaskSubmit \/ TaskRuns \/ checkTaskSuccess
  PROVE  IInv'
<1>1. /\ op \in Operation(fresh) /\ TreeOK(tree, fresh) /\ task \in Request_(fresh)
      /\ (drv # "quark" => task = NoReq) /\ op.clean \in BOOLEAN /\ fresh \in Nat \ {0}
      /\ fresh \in fresh..(MaxId + 1) /\ NoReq \in Request_(fresh)
  <2>1. NoOp \in Operation(fresh) /\ NoOp.req = NoReq
    BY Now, NoOpIs DEF NoOp
  <2> QED BY <2>1, Now DEF Types, Operation
<1>2. op.req \in Request_(fresh) /\ "quark" \notin Ali
  BY <1>1 DEF Operation, Ali
<1>3. op = Sent(op.pc, op.clean)
  BY <1>1 DEF Operation, Sent
<1>4. CASE TaskSubmit
  <2>1. op.pc = "request" /\ drv = "quark" /\ task' = op.req /\ fresh' = fresh
    BY <1>4 DEF TaskSubmit
  <2>2. Go(tree, cache, Sent("task", op.clean))
    <3>1. [op EXCEPT !.pc = "task"] = Sent("task", op.clean)
      BY <1>1 DEF Operation, Sent
    <3> QED BY <1>4, <3>1 DEF TaskSubmit
  <2> QED BY <1>1, <1>2, <2>1, <2>2, SendGoes
<1>5. CASE checkTaskSuccess
  <2>1. op.pc = "task" /\ drv = "quark" /\ UNCHANGED <<fresh, task>>
    BY <1>5 DEF checkTaskSuccess, IInv, Places, SendPlaces
  <2>2. Go(tree, cache, Sent("finish", op.clean))
    <3>1. [op EXCEPT !.pc = "finish"] = Sent("finish", op.clean)
      BY <1>1 DEF Operation, Sent
    <3> QED BY <1>5, <3>1 DEF checkTaskSuccess
  <2> QED BY <1>1, <1>2, <2>1, <2>2, SendGoes
<1>6. CASE TaskRuns
  <2> DEFINE t2 == IF Valid(tree, task) THEN Served(tree, task) ELSE tree
  <2>1. task # NoReq /\ task' = NoReq /\ fresh' = fresh /\ drv = "quark"
    BY <1>1, <1>6 DEF TaskRuns
  <2>2. TreeOK(t2, fresh) /\ (t2 # tree => Valid(tree, task))
    <3>1. Valid(tree, task) => TreeOK(Served(tree, task), fresh)
      BY <1>1, <2>1, ServedIs
    <3> QED BY <1>1, <3>1
  <2>3. IF op.pc = "task" THEN Go(t2, cache, op)
        ELSE /\ tree' = t2
             /\ owed' = StaleIn(cache, t2, owed \cup Broken(t2))
             /\ op' = [op EXCEPT !.clean = FALSE]
             /\ UNCHANGED <<cache, due>>
    BY <1>6 DEF TaskRuns
  <2> HIDE DEF t2
  <2>4. CASE op.pc = "task"
    <3>1. Go(t2, cache, Sent("task", op.clean)) /\ task = op.req
      BY <1>3, <2>1, <2>3, <2>4 DEF IInv, Places, SendPlaces
    <3> QED BY <1>1, <1>2, <2>1, <2>2, <2>4, <3>1, SendGoes
  <2>5. CASE op.pc # "task"
    BY <1>1, <2>1, <2>2, <2>3, <2>5, Foreign
  <2> QED BY <2>4, <2>5
<1> QED BY <1>4, <1>5, <1>6

\* A request, a list request or a task query fails, or the answer is lost.
LEMMA Fails ==
  ASSUME IInv, UNCHANGED drv, LookFails \/ RequestFail \/ taskQueryFails
  PROVE  IInv'
<1>1. Return("error", cache, RootObj) /\ UNCHANGED <<fresh, task>>
  BY DEF LookFails, RequestFail, taskQueryFails
<1>2. op.pc \in {"resolve", "request", "task", "batch", "mkdir"}
  BY DEF LookFails, RequestFail, taskQueryFails
<1> QED BY <1>1, <1>2, ErrorsSkip, MkdirFails DEF MkdirFail

LEMMA Loses ==
  ASSUME IInv, UNCHANGED drv, AnswerLost
  PROVE  IInv'
<1> DEFINE t2 == Served(tree, op.req)
<1>1. /\ op.pc = "request" /\ Valid(tree, op.req) /\ tree' = t2
      /\ owed' = StaleIn(cache, t2, owed \cup op.touched \cup Broken(t2)) /\ due' = {}
      /\ op' = [NoOp EXCEPT !.res = "error"] /\ UNCHANGED <<fresh, task, cache>>
  <2>1. Unsettled("error") = op.touched
    BY ErrorsSkip DEF Unsettled, AnswerLost
  <2> QED BY <2>1 DEF AnswerLost
<1>2. TreeOK(t2, fresh)
  BY <1>1, Serves
<1> HIDE DEF t2
<1>3. Types /\ fresh \in Nat \ {0} /\ NoOp \in Operation(fresh)
  BY Now, NoOpIs
<1>4. Types'
  <2>1. owed' \subseteq DOMAIN cache /\ op'.touched = {} /\ op' \in Operation(fresh)
    BY <1>1, <1>3, ZenonT(60) DEF StaleIn, NoOp, Operation
  <2> QED BY <1>1, <1>2, <1>3, <2>1 DEF Types
<1>5. ListingsCurrent'
  <2>1. Misfiled(cache) = {} /\ Adds(cache, cache)
    BY MisfiledNot, AddsNothing
  <2>2. ASSUME NEW k \in DOMAIN cache, Shown(cache[k]) # Truth(t2, k),
               k \in owed \cup op.touched \cup Broken(t2) \cup Misfiled(cache)
        PROVE  k \in owed' \cup op'.touched
    BY <1>1, <2>1, <2>2 DEF StaleIn
  <2> QED BY <1>1, <2>1, <2>2, StaysCurrent DEF IInv
<1>6. Places' /\ Dues'
  BY <1>1, Idles DEF NoOp
<1> QED BY <1>4, <1>5, <1>6 DEF IInv

LEMMA Finishes ==
  ASSUME IInv, UNCHANGED drv, Finish
  PROVE  IInv'
<1> DEFINE c2 == Del(cache, op.dels)
<1>1. /\ op \in Operation(fresh) /\ fresh \in Nat \ {0} /\ fresh \in fresh..(MaxId + 1)
      /\ cache \in Caches(fresh) /\ TreeOK(tree, fresh) /\ Types /\ RootObj \in Object(fresh)
  BY Now, RootIs
<1>2. op.pc = "finish" /\ UNCHANGED <<fresh, task>>
  BY DEF Finish
<1>3. IF op.panic THEN Return("panic", cache, RootObj)
      ELSE IF op.todo # <<>> THEN Go(tree, c2, [op EXCEPT !.pc = "resolve", !.dels = {}])
      ELSE IF op.stack = <<>> THEN Return("ok", c2, RootObj)
      ELSE /\ tree' = tree /\ cache' = c2
           /\ op' = [op EXCEPT !.pc = "batch", !.dels = {}, !.touched = {}]
           /\ owed' = StaleIn(c2, tree, owed \cup (op.touched \ due)) /\ due' = {}
  BY DEF Finish
<1>4. /\ c2 \in Caches(fresh) /\ Adds(cache, c2) /\ DOMAIN c2 = DOMAIN cache \ op.dels
      /\ \A k \in DOMAIN c2 : c2[k] = cache[k]
  <2>1. /\ c2 \in Caches(fresh) /\ Adds(cache, c2) /\ DOMAIN c2 = DOMAIN cache \ op.dels
        /\ \A k \in DOMAIN cache \ op.dels : c2[k] = cache[k]
    BY <1>1, DelIs, ZenonT(60)
  <2> HIDE DEF c2
  <2> QED BY <2>1
<1> HIDE DEF c2
<1>9. due \subseteq op.dels /\ due \cap DOMAIN c2 = {}
  BY <1>2, <1>4 DEF IInv, Dues, Sending
<1>5. CASE op.panic
  <2>1. due = {}
    BY <1>2, <1>5, <1>9 DEF IInv, Dues, Sending
  <2> QED BY <1>1, <1>2, <1>3, <1>5, <2>1, AddsNothing, Returned
<1>6. CASE ~op.panic /\ op.todo # <<>>
  <2> DEFINE o2 == [op EXCEPT !.pc = "resolve", !.dels = {}]
  <2>1. o2 \in Operation(fresh) /\ o2.touched = op.touched
    BY <1>1 DEF Operation, PCs
  <2>2. Go(tree, c2, o2)
    BY <1>3, <1>6
  <2>3. task' \in Request_(fresh) /\ (drv # "quark" => task' = NoReq) /\ fresh' = fresh
    BY <1>1, <1>2 DEF Types
  <2> HIDE DEF o2
  <2>4. /\ Types' /\ ListingsCurrent' /\ op' = [o2 EXCEPT !.touched = op'.touched]
        /\ due' = {}
    <3>1. /\ Types' /\ ListingsCurrent' /\ op' = [o2 EXCEPT !.touched = op'.touched]
          /\ due' \subseteq due /\ due' \subseteq DOMAIN c2
      BY <1>1, <1>4, <2>1, <2>2, <2>3, Goes
    <3> QED BY <1>9, <3>1
  <2>5. /\ op'.kind = op.kind /\ op'.todo = op.todo /\ op'.stack = op.stack /\ op'.pc = "resolve"
        /\ op'.objs = op.objs
    BY <1>1, <2>1, <2>4, ZenonT(60) DEF o2, Operation
  <2>6. op.kind = "move" /\ drv = "cloudreve" /\ op.stack = <<>> /\ 2..Len(op.stack) = {}
        /\ Range(op.todo) \subseteq op.objs
    BY <1>2, <1>6 DEF IInv, Places, SendPlaces, BatchPlaces, Sending
  <2>7. Places'
    BY <1>6, <2>5, <2>6 DEF Places, MkdirPlaces, SendPlaces, BatchPlaces, Mkdirs, Sending, Shifting, Naming
  <2>8. Dues'
    BY <2>4, <2>5, <2>6 DEF Dues, Mkdirs, Sending, Naming
  <2> QED BY <2>4, <2>7, <2>8 DEF IInv
<1>7. CASE ~op.panic /\ op.todo = <<>> /\ op.stack = <<>>
  <2>1. Proper(RootObj)
    BY DEF Proper
  <2> QED BY <1>1, <1>2, <1>3, <1>4, <1>7, <1>9, <2>1, Returned
<1>8. CASE ~op.panic /\ op.todo = <<>> /\ op.stack # <<>>
  <2>1. /\ tree' = tree /\ cache' = c2 /\ op' = [op EXCEPT !.pc = "batch", !.dels = {}, !.touched = {}]
        /\ owed' = StaleIn(c2, tree, owed \cup (op.touched \ due)) /\ due' = {}
    BY <1>3, <1>8
  <2>2. op' \in Operation(fresh) /\ op'.touched = {} /\ op'.pc = "batch" /\ op'.kind = op.kind
        /\ op'.stack = op.stack /\ op'.todo = op.todo /\ op'.dels = {} /\ op'.panic = op.panic
    BY <1>1, <2>1, ZenonT(60) DEF Operation, PCs
  <2>3. Types'
    BY <1>1, <1>2, <1>4, <2>1, <2>2 DEF Types, StaleIn
  <2>4. ListingsCurrent'
    <3>1. Misfiled(c2) = {} /\ Broken(tree) = {}
      BY <1>4, MisfiledNot, BrokenNot
    <3>2. ASSUME NEW k \in DOMAIN c2, Shown(c2[k]) # Truth(tree, k),
                 k \in owed \cup op.touched \cup Broken(tree) \cup Misfiled(c2)
          PROVE  k \in owed' \cup op'.touched
      BY <1>9, <2>1, <3>1, <3>2 DEF StaleIn
    <3> QED BY <1>4, <2>1, <3>2, StaysCurrent DEF IInv
  <2>5. op.kind = "batch" /\ \A i \in 2..Len(op.stack) : op.stack[i].dir \in Listed(fresh)
    BY <1>8 DEF IInv, Places, BatchPlaces
  <2>6. Places'
    BY <1>2, <1>8, <2>2, <2>5 DEF Places, MkdirPlaces, SendPlaces, BatchPlaces, Mkdirs, Sending
  <2>7. Dues'
    BY <2>1, <2>2 DEF Dues, Mkdirs, Sending
  <2> QED BY <2>3, <2>4, <2>6, <2>7 DEF IInv
<1> QED BY <1>5, <1>6, <1>7, <1>8

------------------------------------------------------------------------------
(* BaseBatchRename. *)

\* Every frame of s but the first has a directory that was listed.
Deep(s) == \A i \in 2..Len(s) : s[i].dir \in Listed(fresh)

LEMMA FramesAre ==
  ASSUME NEW s \in Seq(Frames(fresh)), Deep(s)
  PROVE  /\ \A f \in Frames(fresh) :
              /\ Append(s, f) \in Seq(Frames(fresh)) /\ Append(s, f) # <<>>
              /\ s = <<>> \/ f.dir \in Listed(fresh) => Deep(Append(s, f))
         /\ s # <<>> => /\ Last(s) \in Frames(fresh)
                        /\ \A o : LET t == [s EXCEPT ![Len(s)].left = @ \ {o}]
                                  IN t \in Seq(Frames(fresh)) /\ t # <<>> /\ Deep(t)
                        /\ Front(s) \in Seq(Frames(fresh)) /\ Deep(Front(s))
                        /\ Len(s) # 1 => Front(s) # <<>> /\ Last(s).dir \in Listed(fresh)
<1>1. ASSUME NEW f \in Frames(fresh)
      PROVE  /\ Append(s, f) \in Seq(Frames(fresh)) /\ Append(s, f) # <<>>
             /\ s = <<>> \/ f.dir \in Listed(fresh) => Deep(Append(s, f))
  <2> DEFINE t == Append(s, f)
  <2>1. t \in Seq(Frames(fresh)) /\ Len(t) = Len(s) + 1 /\ t[Len(s) + 1] = f /\ \A i \in 1..Len(s) : t[i] = s[i]
    OBVIOUS
  <2> HIDE DEF t
  <2>2. s = <<>> \/ f.dir \in Listed(fresh) => Deep(t)
    BY <2>1 DEF Deep
  <2> QED BY <2>1, <2>2 DEF t
<1>2. ASSUME s # <<>> PROVE Len(s) \in Nat \ {0} /\ Last(s) = s[Len(s)] /\ Last(s) \in Frames(fresh)
  BY <1>2 DEF Last
<1>3. ASSUME s # <<>>, NEW o
      PROVE  LET t == [s EXCEPT ![Len(s)].left = @ \ {o}]
             IN t \in Seq(Frames(fresh)) /\ t # <<>> /\ Deep(t)
  <2> DEFINE f == [s[Len(s)] EXCEPT !.left = @ \ {o}]  t == [s EXCEPT ![Len(s)] = f]
  <2>1. f \in Frames(fresh) /\ f.dir = s[Len(s)].dir
    BY <1>2, <1>3 DEF Frames
  <2> HIDE DEF f
  <2>2. t \in Seq(Frames(fresh)) /\ Len(t) = Len(s) /\ \A i \in 1..Len(s) : t[i].dir = s[i].dir
    BY <1>2, <1>3, <2>1
  <2> HIDE DEF t
  <2>3. t # <<>> /\ Deep(t)
    BY <1>2, <1>3, <2>2 DEF Deep
  <2> QED BY <2>2, <2>3 DEF t, f
<1>4. ASSUME s # <<>>
      PROVE  /\ Front(s) \in Seq(Frames(fresh)) /\ Deep(Front(s))
             /\ Len(s) # 1 => Front(s) # <<>> /\ Last(s).dir \in Listed(fresh)
  <2> DEFINE t == Front(s)
  <2>1. t \in Seq(Frames(fresh)) /\ Len(t) = Len(s) - 1 /\ \A i \in 1..Len(t) : t[i] = s[i]
    <3> DEFINE n == Len(s) - 1  r == SubSeq(s, 1, n)
    <3>1. n \in Nat /\ n <= Len(s) /\ t = r
      BY <1>2, <1>4 DEF Front
    <3> HIDE DEF n, t
    <3>2. r \in Seq(Frames(fresh)) /\ Len(r) = n /\ \A i \in 1..n : r[i] = s[i]
      BY <3>1
    <3> QED BY <3>1, <3>2 DEF n
  <2> HIDE DEF t
  <2>2. Deep(t) /\ (Len(s) # 1 => t # <<>> /\ Last(s).dir \in Listed(fresh))
    BY <1>2, <1>4, <2>1 DEF Deep
  <2> QED BY <2>1, <2>2 DEF t
<1> QED BY <1>1, <1>2, <1>3, <1>4

\* It goes on with the recursion, or to rename an object.
LEMMA BatchGoes ==
  ASSUME IInv, op.pc = "batch", UNCHANGED <<drv, fresh, task>>,
         NEW c2 \in Caches(fresh), Adds(cache, c2), NEW o2 \in Operation(fresh), Go(tree, c2, o2),
         o2.touched = op.touched, o2.kind = op.kind, o2.dels = op.dels, o2.pc \in {"batch", "resolve"}, Deep(o2.stack),
         o2.pc = "batch" => o2.stack # <<>>, o2.pc = "resolve" => o2.todo # <<>> /\ o2.name \in Names
  PROVE  IInv'
<1>1. /\ op \in Operation(fresh) /\ TreeOK(tree, fresh) /\ fresh \in fresh..(MaxId + 1)
      /\ task' \in Request_(fresh) /\ (drv # "quark" => task' = NoReq)
      /\ op.kind = "batch" /\ op.touched = {} /\ due = {} /\ op.dels = {}
  BY Now DEF Types, IInv, Places, BatchPlaces, Dues, Naming
<1>2. /\ Types' /\ ListingsCurrent' /\ op' = [o2 EXCEPT !.touched = op'.touched] /\ op'.touched \subseteq {}
      /\ due' \subseteq {}
  BY <1>1, GoesHere, ZenonT(60)
<1>3. /\ op'.kind = "batch" /\ op'.pc = o2.pc /\ op'.stack = o2.stack /\ op'.todo = o2.todo
      /\ op'.name = o2.name /\ op'.touched = {} /\ op'.dels = {} /\ fresh' = fresh
  <2>1. op'.touched = {} /\ op' = [o2 EXCEPT !.touched = {}]
    BY <1>2
  <2>2. /\ op'.pc = o2.pc /\ op'.stack = o2.stack /\ op'.todo = o2.todo
        /\ op'.name = o2.name /\ op'.kind = o2.kind /\ op'.dels = o2.dels
    BY <2>1 DEF Operation
  <2> QED BY <1>1, <2>1, <2>2
<1>4. Places'
  <2>1. BatchPlaces'
    BY <1>3 DEF BatchPlaces, Deep
  <2> QED BY <1>3, <2>1 DEF Places, MkdirPlaces, SendPlaces, Mkdirs, Sending, Shifting, Naming
<1>5. Dues'
  BY <1>2, <1>3 DEF Dues, Mkdirs, Sending, Shifting
<1> QED BY <1>2, <1>4, <1>5 DEF IInv

LEMMA Batches ==
  ASSUME IInv, BatchRename, UNCHANGED drv
  PROVE  IInv'
<1>1. /\ op \in Operation(fresh) /\ fresh \in Nat \ {0} /\ cache \in Caches(fresh) /\ Adds(cache, cache)
      /\ Types /\ RootObj \in Object(fresh)
  BY Now, RootIs
<1>2. op.pc = "batch" /\ op.kind = "batch" /\ op.touched = {} /\ (op.stack = <<>> => op.todo # <<>>)
      /\ UNCHANGED <<fresh, task>>
      /\ due = {}
  BY DEF BatchRename, IInv, Places, BatchPlaces, Dues
<1>3. op.stack \in Seq(Frames(fresh)) /\ Deep(op.stack) /\ op.todo \in Seq(Object(fresh))
  BY <1>1 DEF Operation, Deep, IInv, Places, BatchPlaces
<1>4. ASSUME NEW dir \in Object(fresh), NEW s \in Seq(Frames(fresh)), Deep(s),
             s = <<>> \/ dir \in Listed(fresh),
             BatchList(List(cache, dir, TRUE), dir, [op EXCEPT !.stack = s])
      PROVE  IInv'
  <2> DEFINE l == List(cache, dir, TRUE)  s2 == Append(s, Frame(l.objs, dir))
             o2 == [op EXCEPT !.stack = s2, !.todo = <<>>]
  <2>1. l.ok \in BOOLEAN /\ l.objs \in SUBSET Listed(fresh) /\ l.cache \in Caches(fresh) /\ Adds(cache, l.cache)
    <3>1. TRUE \in BOOLEAN
      OBVIOUS
    <3> QED BY <1>1, <1>4, <3>1, ListIs
  <2>2. IF ~l.ok THEN Return("error", l.cache, RootObj)
        ELSE Go(tree, l.cache, [[op EXCEPT !.stack = s] EXCEPT !.stack = Append(@, Frame(l.objs, dir)), !.todo = <<>>])
    BY <1>4 DEF BatchList
  <2> HIDE DEF l
  <2>3. CASE ~l.ok
    BY <1>1, <1>2, <2>1, <2>2, <2>3, Returned
  <2>4. CASE l.ok
    <3>1. Frame(l.objs, dir) \in Frames(fresh) /\ Frame(l.objs, dir).dir = dir
      BY <1>4, <2>1 DEF Frame, Frames
    <3>2. s2 \in Seq(Frames(fresh)) /\ Deep(s2) /\ s2 # <<>>
      BY <1>4, <3>1, FramesAre
    <3>3. [op EXCEPT !.stack = s].stack = s
      BY <1>1 DEF Operation
    <3>4. Go(tree, l.cache, o2)
      BY <2>2, <2>4, <3>3
    <3> HIDE DEF s2
    <3>5. /\ o2 \in Operation(fresh) /\ o2.touched = op.touched /\ o2.kind = op.kind /\ o2.pc = "batch"
          /\ o2.stack = s2 /\ o2.dels = op.dels
      <4>1. <<>> \in Seq(Object(fresh))
        OBVIOUS
      <4> QED BY <1>1, <1>2, <3>2, <4>1 DEF Operation
    <3> HIDE DEF o2
    <3> QED BY <1>2, <2>1, <3>2, <3>4, <3>5, BatchGoes
  <2> QED BY <2>3, <2>4
<1>5. ASSUME NEW o \in Listed(fresh), NEW s \in Seq(Frames(fresh)), Deep(s), s # <<>>,
             Go(tree, cache, NameOf(o, [op EXCEPT !.stack = s]))
      PROVE  IInv'
  <2> DEFINE o2 == NameOf(o, [op EXCEPT !.stack = s])
  <2>1. Func[o.name] \in Names /\ o \in Object(fresh) /\ <<o>> \in Seq(Object(fresh)) /\ <<o>> # <<>>
    <3>1. o.name \in Names /\ o \in Object(fresh)
      BY <1>5 DEF Listed
    <3> QED BY <3>1, DriveParameters
  <2>2. \/ o2 = [op EXCEPT !.stack = s]
        \/ o2 = [op EXCEPT !.stack = s, !.pc = "resolve", !.todo = <<o>>, !.name = Func[o.name]]
    BY DEF NameOf
  <2>3. Go(tree, cache, o2)
    BY <1>5
  <2> HIDE DEF o2
  <2>4. /\ o2 \in Operation(fresh) /\ o2.touched = op.touched /\ o2.kind = op.kind
        /\ o2.pc \in {"batch", "resolve"} /\ o2.stack = s /\ o2.dels = op.dels
        /\ o2.pc = "resolve" => o2.todo # <<>> /\ o2.name \in Names
    <3>1. CASE o2 = [op EXCEPT !.stack = s]
      BY <1>1, <1>2, <1>5, <3>1, ZenonT(60) DEF Operation
    <3>2. CASE o2 = [op EXCEPT !.stack = s, !.pc = "resolve", !.todo = <<o>>, !.name = Func[o.name]]
      <4> DEFINE seq == <<o>>  nm == Func[o.name]
      <4>1. o2 = [op EXCEPT !.stack = s, !.pc = "resolve", !.todo = seq, !.name = nm]
            /\ seq \in Seq(Object(fresh)) /\ nm \in Names /\ seq # <<>>
        BY <2>1, <3>2
      <4> HIDE DEF seq, nm
      <4> QED BY <1>1, <1>2, <1>5, <4>1, ZenonT(60) DEF Operation, PCs
    <3> QED BY <2>2, <3>1, <3>2
  <2> QED BY <1>1, <1>2, <1>5, <2>3, <2>4, BatchGoes
<1>6. CASE BatchStart
  <2>1. Head(op.todo) \in Object(fresh) /\ op.stack = <<>>
    BY <1>2, <1>3, <1>6 DEF BatchStart
  <2>2. op = [op EXCEPT !.stack = op.stack]
    BY <1>1 DEF Operation
  <2>3. BatchList(List(cache, Head(op.todo), TRUE), Head(op.todo), [op EXCEPT !.stack = op.stack])
    BY <1>6, <2>2 DEF BatchStart
  <2> QED BY <1>3, <1>4, <2>1, <2>3
<1>7. CASE BatchObject
  <2>1. op.stack # <<>>
    BY <1>7 DEF BatchObject
  <2>2. PICK o \in Last(op.stack).left :
          LET o2 == [op EXCEPT !.stack[Len(op.stack)].left = @ \ {o}]
          IN IF o.type = "dir" THEN BatchList(List(cache, o, TRUE), o, o2) ELSE Go(tree, cache, NameOf(o, o2))
    BY <1>7 DEF BatchObject
  <2> DEFINE s == [op.stack EXCEPT ![Len(op.stack)].left = @ \ {o}]
  <2>3. o \in Listed(fresh) /\ s \in Seq(Frames(fresh)) /\ s # <<>> /\ Deep(s)
    <3>1. Last(op.stack) \in Frames(fresh)
      BY <1>3, <2>1, FramesAre
    <3>2. o \in Listed(fresh)
      BY <3>1 DEF Frames
    <3> QED BY <1>3, <2>1, <3>2, FramesAre
  <2>4. IF o.type = "dir" THEN BatchList(List(cache, o, TRUE), o, [op EXCEPT !.stack = s])
        ELSE Go(tree, cache, NameOf(o, [op EXCEPT !.stack = s]))
    BY <2>2
  <2>5. o \in Object(fresh)
    BY <2>3 DEF Listed
  <2> HIDE DEF s
  <2> QED BY <1>4, <1>5, <2>3, <2>4, <2>5
<1>8. CASE BatchUp
  <2> DEFINE s == Front(op.stack)  dir == Last(op.stack).dir
  <2>1. /\ op.stack # <<>>
        /\ IF Len(op.stack) = 1 THEN Return("ok", cache, RootObj)
           ELSE Go(tree, cache, NameOf(dir, [op EXCEPT !.stack = s]))
    BY <1>8 DEF BatchUp
  <2>2. s \in Seq(Frames(fresh)) /\ Deep(s) /\ (Len(op.stack) # 1 => s # <<>> /\ dir \in Listed(fresh))
    BY <1>3, <2>1, FramesAre
  <2> HIDE DEF s, dir
  <2>3. CASE Len(op.stack) = 1
    <3>1. Proper(RootObj)
      BY DEF Proper
    <3> QED BY <1>1, <1>2, <2>1, <2>3, <3>1, Returned
  <2>4. CASE Len(op.stack) # 1
    BY <1>5, <2>1, <2>2, <2>4
  <2> QED BY <2>3, <2>4
<1> QED BY <1>6, <1>7, <1>8 DEF BatchRename

------------------------------------------------------------------------------
(* The caller: listings, and operations that begin. *)

LEMMA HeldIs ==
  ASSUME Types
  PROVE  Held \subseteq Object(fresh) /\ \A p \in Paths \cup {<<>>} : PathObj(p) \in Object(fresh) /\ p \in Seq(Names)
<1>1. fresh \in Nat \ {0} /\ cache \in Caches(fresh) /\ op.dst \in Object(fresh)
  BY DEF Types, Operation
<1>2. \A k \in DOMAIN cache : cache[k] \subseteq Object(fresh)
  BY <1>1, CacheIs DEF Listed
<1>3. Held \subseteq Object(fresh)
  BY <1>1, <1>2 DEF Held, Range
<1>4. \A p \in Paths \cup {<<>>} : p \in Seq(Names)
  <2>1. <<>> \in Seq(Names) /\ Paths \subseteq Seq(Names)
    BY DirsParameters
  <2> QED BY <2>1
<1> QED BY <1>1, <1>3, <1>4, RootIs

LEMMA Looks ==
  ASSUME IInv, ListSome
  PROVE  IInv'
<1>1. /\ op \in Operation(fresh) /\ fresh \in Nat \ {0} /\ cache \in Caches(fresh) /\ Types
      /\ Held \subseteq Object(fresh) /\ RootObj \in Object(fresh)
      /\ \A p \in Paths \cup {<<>>} : PathObj(p) \in Object(fresh)
  BY Now, HeldIs, RootIs
<1>2. PICK dir \in Object(fresh), reload \in BOOLEAN : ListDir(List(cache, dir, reload))
  BY <1>1 DEF ListSome
<1> DEFINE c2 == List(cache, dir, reload).cache  ts == StaleIn(c2, tree, op.touched)
<1>3. c2 \in Caches(fresh) /\ Adds(cache, c2)
  BY <1>1, ListIs
<1>4. /\ cache' = c2 /\ UNCHANGED <<drv, tree, fresh, task, due>>
      /\ owed' = StaleIn(c2, tree, owed \cup Misfiled(c2))
      /\ op' = [op EXCEPT !.touched = ts]
  BY <1>2 DEF ListDir
<1> HIDE DEF c2
<1>5. ts \subseteq DOMAIN c2 /\ ts \subseteq op.touched /\ owed' \subseteq DOMAIN c2 /\ DOMAIN c2 \subseteq Key
  BY <1>3, <1>4, CacheIs DEF StaleIn
<1>6. ListingsCurrent'
  <2>1. op'.touched = ts
    BY <1>1, <1>4 DEF Operation
  <2>2. ASSUME NEW k \in DOMAIN c2, Shown(c2[k]) # Truth(tree, k),
               k \in owed \cup op.touched \cup Broken(tree) \cup Misfiled(c2)
        PROVE  k \in owed' \cup op'.touched
    BY <1>4, <2>1, <2>2, BrokenNot DEF StaleIn
  <2> QED BY <1>3, <1>4, <2>2, StaysCurrent DEF IInv
<1> HIDE DEF ts
<1>7. op' \in Operation(fresh) /\ op'.touched = ts
  BY <1>1, <1>4, <1>5 DEF Operation
<1>8. Types'
  <2>1. drv' # "baidu" => DOMAIN cache' \subseteq IdsBelow(fresh')
    BY <1>1, <1>3, <1>4, KeysStay
  <2> QED BY <1>1, <1>3, <1>4, <1>5, <1>7, <2>1 DEF Types
<1>9. Places' /\ Dues'
  <2>1. op' = [op EXCEPT !.clean = op.clean, !.touched = ts] /\ op.clean \in BOOLEAN
    BY <1>1, <1>4 DEF Operation
  <2>2. ts \in SUBSET op.touched /\ drv' = drv /\ fresh' \in Nat /\ fresh <= fresh'
        /\ due' = due /\ task' \in {task, NoReq}
    BY <1>1, <1>4, <1>5
  <2>3. \A o \in op.req.objs : o.id \in DOMAIN tree' => o.id \in DOMAIN tree /\ tree'[o.id].parent = tree[o.id].parent
    BY <1>4
  <2> QED BY <2>1, <2>2, <2>3, Stays
<1> QED BY <1>6, <1>8, <1>9 DEF IInv

LEMMA Starts ==
  ASSUME IInv, NEW kind \in {"rename", "move", "delete", "mkdir", "batch"}, NEW pc \in {"resolve", "mkdir", "batch"},
         NEW objs \in SUBSET Object(fresh), IsFiniteSet(objs), NEW dst \in Object(fresh),
         NEW name \in Names \cup {NoName}, NEW path \in Seq(Names), Begin(kind, pc, objs, dst, name, path),
         kind = "mkdir" => pc = "mkdir", kind \notin {"mkdir", "move"} => pc # "mkdir",
         kind = "batch" <=> pc = "batch", drv = "baidu" /\ kind = "move" => pc # "mkdir",
         kind # "mkdir" => objs # {}, kind = "rename" => name \in Names
  PROVE  IInv'
<1>1. /\ op \in Operation(fresh) /\ fresh \in Nat \ {0} /\ tree \in Trees /\ Types /\ NoOp \in Operation(fresh)
  BY Now, NoOpIs DEF TreeOK, Shape
<1>2. /\ op.pc = "idle" /\ UNCHANGED <<drv, tree, fresh, task, cache, owed, due>>
      /\ \E todo \in SetToSeqs(objs) :
           op' = [NoOp EXCEPT !.kind = kind, !.pc = pc, !.objs = objs, !.todo = todo,
                              !.dst = dst, !.name = name, !.path = path,
                              !.snap = tree, !.clean = owed = {} /\ task = NoReq /\ Located]
  BY ZenonT(60) DEF Begin, Idle
<1>3. PICK todo \in SetToSeqs(objs) :
        op' = [NoOp EXCEPT !.kind = kind, !.pc = pc, !.objs = objs, !.todo = todo,
                           !.dst = dst, !.name = name, !.path = path,
                           !.snap = tree, !.clean = owed = {} /\ task = NoReq /\ Located]
  BY <1>2
<1>4. todo \in Seq(Object(fresh)) /\ Range(todo) = objs /\ (objs # {} => todo # <<>>)
  <2>1. todo \in Seq(objs) /\ Range(todo) = objs /\ (objs # {} => todo # <<>>)
    BY TodoIs
  <2> QED BY <2>1
<1>5. /\ op'.kind = kind /\ op'.pc = pc /\ op'.objs = objs /\ op'.todo = todo /\ op'.name = name
      /\ op'.stack = <<>> /\ op'.touched = {} /\ op'.dels = {}
  BY <1>3 DEF NoOp
<1>6. op' \in Operation(fresh)
  <2> DEFINE clean == owed = {} /\ task = NoReq /\ Located
  <2>1. clean \in BOOLEAN
    OBVIOUS
  <2>2. op' = [NoOp EXCEPT !.kind = kind, !.pc = pc, !.objs = objs, !.todo = todo,
                           !.dst = dst, !.name = name, !.path = path, !.snap = tree, !.clean = clean]
    BY <1>3
  <2> HIDE DEF clean
  <2>3. /\ kind \in {"none", "rename", "move", "delete", "mkdir", "batch"} /\ pc \in PCs
        /\ objs \in SUBSET Object(fresh) /\ dst \in Object(fresh) /\ name \in Names \cup {NoName}
        /\ path \in Seq(Names) /\ todo \in Seq(Object(fresh)) /\ tree \in Trees
    BY <1>1, <1>4 DEF PCs
  <2> QED BY <1>1, <2>1, <2>2, <2>3, ZenonT(60) DEF Operation
<1>7. Types'
  BY <1>1, <1>2, <1>5, <1>6 DEF Types
<1>8. ListingsCurrent'
  <2>1. op.touched = {} /\ ListingsCurrent
    BY <1>2 DEF IInv, Places
  <2> QED BY <1>2, <1>5, <2>1 DEF ListingsCurrent, Truth
<1>9. Done' = {} /\ 2..Len(op'.stack) = {} /\ Range(op'.todo) = op'.objs /\ due = {}
  BY <1>2, <1>4, <1>5 DEF Done, IInv, Dues
<1>10. Places'
  BY <1>2, <1>4, <1>5, <1>9 DEF Places, MkdirPlaces, SendPlaces, BatchPlaces, Mkdirs, Sending, Shifting, Naming
<1>11. Dues'
  BY <1>2, <1>5, <1>9 DEF Dues, Mkdirs, Sending
<1> QED BY <1>7, <1>8, <1>10, <1>11 DEF IInv

LEMMA BeginsAll ==
  ASSUME IInv, BeginRename \/ BeginMove \/ BeginDelete \/ BeginMkdir \/ BeginBatch
  PROVE  IInv'
<1>1. /\ op \in Operation(fresh) /\ Types /\ Held \subseteq Object(fresh) /\ RootObj \in Object(fresh)
      /\ \A p \in Paths \cup {<<>>} : PathObj(p) \in Object(fresh) /\ p \in Seq(Names)
      /\ NoName \in Names \cup {NoName} /\ <<>> \in Seq(Names) /\ fresh \in Nat \ {0}
  BY Now, HeldIs, RootIs
<1>2. \A o \in Object(fresh) : {o} \in SUBSET Object(fresh) /\ IsFiniteSet({o}) /\ {o} # {}
  BY FS_Singleton
<1>3. \A S \in Items : S \in SUBSET Object(fresh) /\ IsFiniteSet(S) /\ S # {}
  BY <1>1, <1>2 DEF Items
<1>4. CASE BeginRename
  <2>1. PICK o \in Object(fresh), n \in Names : Begin("rename", "resolve", {o}, RootObj, n, <<>>)
    BY <1>1, <1>4 DEF BeginRename
  <2> QED BY <1>1, <1>2, <2>1, Starts
<1>5. CASE BeginMove
  <2>1. PICK S \in Items, d \in Object(fresh) :
          Begin("move", IF d.id = NoId /\ drv # "baidu" THEN "mkdir" ELSE "resolve", S, d, NoName, Full(d))
    BY <1>1, <1>5 DEF BeginMove
  <2>2. Full(d) \in Seq(Names) /\ S \in SUBSET Object(fresh) /\ IsFiniteSet(S) /\ S # {}
    BY <1>3, FullIs
  <2> DEFINE pc == IF d.id = NoId /\ drv # "baidu" THEN "mkdir" ELSE "resolve"  path == Full(d)
  <2>3. pc \in {"resolve", "mkdir", "batch"} /\ pc # "batch" /\ (drv = "baidu" => pc # "mkdir")
        /\ Begin("move", pc, S, d, NoName, path)
    BY <2>1
  <2> HIDE DEF pc, path
  <2>4. path \in Seq(Names)
    BY <2>2 DEF path
  <2> QED BY <1>1, <2>2, <2>3, <2>4, Starts
<1>6. CASE BeginDelete
  <2>1. PICK S \in Items : Begin("delete", "resolve", S, RootObj, NoName, <<>>)
    BY <1>6 DEF BeginDelete
  <2> QED BY <1>1, <1>3, <2>1, Starts
<1>7. CASE BeginMkdir
  <2>1. PICK p \in Paths : Begin("mkdir", "mkdir", {}, RootObj, NoName, p)
    BY <1>7 DEF BeginMkdir
  <2>2. {} \in SUBSET Object(fresh) /\ IsFiniteSet({}) /\ p \in Seq(Names)
    BY <1>1, FS_EmptySet
  <2> QED BY <1>1, <2>1, <2>2, Starts
<1>8. CASE BeginBatch
  <2>1. PICK o \in Object(fresh) : Begin("batch", "batch", {o}, RootObj, NoName, <<>>)
    BY <1>1, <1>8 DEF BeginBatch
  <2> QED BY <1>1, <1>2, <2>1, Starts
<1> QED BY <1>4, <1>5, <1>6, <1>7, <1>8

\* Another device.
LEMMA Changes ==
  ASSUME IInv, NEW t2, Changed(t2), NEW n \in {fresh, fresh + 1}, Shape(t2, n), fresh \in DOMAIN t2 <=> n = fresh + 1,
         \A k \in DOMAIN t2 : k < fresh => k \in DOMAIN tree /\ t2[k].parent = tree[k].parent
  PROVE  IInv'
<1>1. fresh \in Nat \ {0} /\ MaxId \in Nat /\ fresh \in fresh..(MaxId + 1) /\ Types
  BY Now
<1>2. /\ fresh \in DOMAIN t2 => fresh <= MaxId
      /\ tree' = t2
      /\ fresh' = IF fresh \in DOMAIN t2 THEN fresh + 1 ELSE fresh
      /\ owed' = StaleIn(cache, t2, owed \cup Broken(t2))
      /\ op' = [op EXCEPT !.clean = FALSE] /\ UNCHANGED <<drv, task, cache, due>>
  BY DEF Changed
<1>3. n \in fresh..(MaxId + 1) /\ fresh' = n
  BY <1>1, <1>2
<1>4. TreeOK(t2, n)
  BY PathsDistinct DEF Changed
<1> QED BY <1>2, <1>3, <1>4, Foreign

LEMMA Interferes ==
  ASSUME IInv, Elsewhere
  PROVE  IInv'
<1>1. fresh \in Nat \ {0} /\ TreeOK(tree, fresh) /\ fresh # fresh + 1
  BY Now
<1>2. fresh \notin DOMAIN tree
  BY <1>1, TreeIs
<1>3. ASSUME NEW i \in DOMAIN tree, Changed(Removed(tree, {i})) PROVE IInv'
  <2> DEFINE t2 == Removed(tree, {i})
  <2>1. Shape(t2, fresh) /\ DOMAIN t2 \subseteq DOMAIN tree /\ \A k \in DOMAIN t2 : t2[k] = tree[k]
    <3>1. TreeOK(t2, fresh) /\ DOMAIN t2 = DOMAIN tree \ Inside(tree, {i}) /\ \A k \in DOMAIN t2 : t2[k] = tree[k]
      BY <1>1, RemovedIs, ZenonT(60)
    <3> HIDE DEF t2
    <3> QED BY <3>1 DEF TreeOK
  <2>2. Changed(t2)
    BY <1>3
  <2> HIDE DEF t2
  <2> QED BY <1>1, <1>2, <2>1, <2>2, Changes
<1>4. ASSUME NEW i \in DOMAIN tree, NEW nm \in Names, Changed(Renamed(tree, i, nm)) PROVE IInv'
  <2> DEFINE t2 == Renamed(tree, i, nm)
  <2>1. Shape(t2, fresh) /\ DOMAIN t2 = DOMAIN tree /\ \A k \in DOMAIN t2 : t2[k].parent = tree[k].parent
    BY <1>1, RenamedIs
  <2>2. Changed(t2)
    BY <1>4
  <2> HIDE DEF t2
  <2> QED BY <1>1, <1>2, <2>1, <2>2, Changes
<1>5. ASSUME NEW i, NEW nm \in Names, NEW ty \in {"dir", "file"}, IsDir(tree, i),
             Changed(Made(tree, fresh, i, nm, ty))
      PROVE  IInv'
  <2> DEFINE t2 == Made(tree, fresh, i, nm, ty)
  <2>1. Shape(t2, fresh + 1) /\ DOMAIN t2 = DOMAIN tree \cup {fresh} /\ \A k \in DOMAIN tree : t2[k] = tree[k]
    <3>1. Shape(t2, fresh + 1)
      BY <1>1, <1>5, MadeIs
    <3>2. DOMAIN t2 = DOMAIN tree \cup {fresh} /\ \A k \in DOMAIN tree : t2[k] = tree[k]
      BY <1>2 DEF Made
    <3> QED BY <3>1, <3>2
  <2>2. Changed(t2)
    BY <1>5
  <2> HIDE DEF t2
  <2>3. \A k \in DOMAIN t2 : k < fresh => k \in DOMAIN tree /\ t2[k].parent = tree[k].parent
    BY <1>1, <2>1
  <2> QED BY <1>1, <2>1, <2>2, <2>3, Changes
<1> QED BY <1>3, <1>4, <1>5 DEF Elsewhere

------------------------------------------------------------------------------
(* The invariant. *)

LEMMA Initially ==
  Init => IInv
<1> SUFFICES ASSUME Init PROVE IInv
  OBVIOUS
<1> DEFINE n == Len(Tree0) + 1
<1>1. /\ MaxId \in Nat /\ n \in 1..(MaxId + 1) /\ n \in Nat \ {0} /\ Tree0 \in Seq(Node)
      /\ \A i \in 1..Len(Tree0) : IsDir(Tree0, Tree0[i].parent) /\ Tree0[i].parent < i
  BY DriveParameters, DirsParameters DEF Node
<1>2. /\ drv \in Drivers /\ tree = Tree0 /\ fresh = n /\ task = NoReq /\ cache = <<>> /\ op = NoOp /\ owed = {}
      /\ due = {}
  BY DEF Init
<1>3. TreeOK(Tree0, n)
  <2>1. Tree0 \in [1..Len(Tree0) -> Node] /\ DOMAIN Tree0 = 1..Len(Tree0)
    BY <1>1
  <2>2. DOMAIN Tree0 \subseteq 1..(n - 1) /\ 1..Len(Tree0) \in SUBSET Nat
    BY <1>1, <2>1
  <2>3. Hangs(Tree0)
    <3>1. ASSUME NEW S \in SUBSET DOMAIN Tree0, S # {} PROVE \E i \in S : Tree0[i].parent \notin S
      <4>1. PICK i \in S : \A j \in S : i <= j
        BY <2>2, <3>1, Least, SMTT(60)
      <4>2. i \in 1..Len(Tree0) /\ Tree0[i].parent < i /\ Tree0[i].parent \in Nat
        BY <1>1, <2>1 DEF Node
      <4>3. \A j \in S : j \in Nat
        BY <2>2
      <4> QED BY <2>2, <4>1, <4>2, <4>3
    <3> QED BY <3>1 DEF Hangs
  <2>4. Distinct(Tree0)
    BY <2>1, DirsParameters DEF Distinct
  <2> QED BY <1>1, <2>1, <2>2, <2>3, <2>4 DEF TreeOK, Shape, Trees
<1> HIDE DEF n
<1>4. NoOp \in Operation(n) /\ NoReq \in Request_(n)
  <2>1. NoOp \in Operation(n) /\ NoOp.req = NoReq
    BY <1>1, NoOpIs DEF NoOp
  <2> QED BY <2>1 DEF Operation
<1>5. cache \in Caches(n) /\ DOMAIN cache = {}
  <2>1. <<>> \in [{} -> SUBSET Listed(n)]
    OBVIOUS
  <2> QED BY <1>2, <2>1 DEF Caches
<1>6. /\ op.touched = {} /\ op.res = "none" /\ op.pc = "idle" /\ op.kind = "none"
      /\ op.stack = <<>> /\ 2..Len(op.stack) = {}
  BY <1>2 DEF NoOp
<1>7. Types
  BY <1>1, <1>2, <1>3, <1>4, <1>5, <1>6 DEF Types
<1>8. Places /\ Dues
  BY <1>2, <1>6 DEF Places, MkdirPlaces, SendPlaces, BatchPlaces, Mkdirs, Sending, Dues
<1>9. ListingsCurrent
  BY <1>5 DEF ListingsCurrent
<1> QED BY <1>7, <1>8, <1>9 DEF IInv

LEMMA Inductive ==
  IInv /\ [Next]_vars => IInv'
<1> SUFFICES ASSUME IInv, [Next]_vars PROVE IInv'
  OBVIOUS
<1>1. CASE BeginRename \/ BeginMove \/ BeginDelete \/ BeginMkdir \/ BeginBatch
  BY <1>1, BeginsAll
<1>2. CASE Steps
  <2>1. UNCHANGED drv
    BY <1>2 DEF Steps
  <2>2. CASE LookFails \/ RequestFail \/ taskQueryFails
    BY <2>1, <2>2, Fails
  <2>3. CASE RenameResolve
    BY <2>1, <2>3, Renames
  <2>4. CASE MoveResolve
    BY <2>1, <2>4, Moves
  <2>5. CASE DeleteResolve
    BY <2>1, <2>5, Deletes
  <2>6. CASE Request \/ RefusalUnnoticed
    BY <2>1, <2>6, Requests
  <2>7. CASE AnswerLost
    BY <2>1, <2>7, Loses
  <2>8. CASE Finish
    BY <2>1, <2>8, Finishes
  <2>9. CASE BatchRename
    BY <2>1, <2>9, Batches
  <2>10. CASE TaskSubmit \/ checkTaskSuccess
    BY <2>1, <2>10, Tasks
  <2>11. CASE \/ createDirectoryFail \/ createDirectory \/ createDirectoryBusy
              \/ QuarkMkdir \/ findChildDirId \/ QuarkConflict \/ QuarkMade
    BY <2>1, <2>11, QuarkMakes
  <2>12. CASE BaiduNext
    BY <2>1, <2>12, BaiduMakes
  <2>13. CASE AliNext
    BY <2>1, <2>13, AliMakes
  <2>14. CASE CloudreveMkdir
    BY <2>1, <2>14, CloudreveMakes
  <2>15. CASE ThunderMkdir
    BY <2>1, <2>15, ThunderMakes
  <2> QED
    BY <1>2, <2>2, <2>3, <2>4, <2>5, <2>6, <2>7, <2>8, <2>9, <2>10, <2>11, <2>12, <2>13, <2>14, <2>15
       DEF Steps, QuarkNext, CloudreveNext
<1>3. CASE ServerTask
  BY <1>3, Tasks DEF ServerTask
<1>4. CASE ListSome
  BY <1>4, Looks
<1>5. CASE Elsewhere
  BY <1>5, Interferes
<1>6. CASE UNCHANGED vars
  <2>1. UNCHANGED <<drv, tree, fresh, task, cache, op, owed, due>>
    BY <1>6 DEF vars
  <2>2. Types'
    BY <2>1 DEF IInv, Types
  <2>3. Places'
    BY <2>1 DEF IInv, Places, MkdirPlaces, SendPlaces, BatchPlaces, Done
  <2>4. Dues'
    BY <2>1 DEF IInv, Dues, Pays, Slips, Home, Void, BaiduKey, Full, Clean
  <2>5. ListingsCurrent'
    BY <2>1 DEF IInv, ListingsCurrent, Truth
  <2> QED BY <2>2, <2>3, <2>4, <2>5 DEF IInv
<1> QED BY <1>1, <1>2, <1>3, <1>4, <1>5, <1>6 DEF Next

LEMMA Typed ==
  IInv => TypeOK
<1> SUFFICES ASSUME IInv PROVE TypeOK
  OBVIOUS
<1>1. /\ op \in Operation(fresh) /\ fresh \in 1..(MaxId + 1) /\ MaxId \in Nat /\ Types
      /\ TreeOK(tree, fresh) /\ cache \in Caches(fresh)
  BY Now DEF Types
<1>2. \A i \in DOMAIN tree : tree[i].name \in Names /\ IsDir(tree, tree[i].parent)
  BY <1>1, TreeIs DEF Node
<1>3. ASSUME NEW k \in DOMAIN cache, NEW o \in cache[k] PROVE o.id \in 1..MaxId /\ o.type \in {"dir", "file"}
  <2>1. o \in Listed(fresh)
    BY <1>1, <1>3, CacheIs
  <2> QED BY <1>1, <2>1 DEF Listed, Object
<1>4. op.pc \in PCs /\ op.res \in {"none", "ok", "error", "panic"}
  BY <1>1 DEF Operation
<1> QED BY <1>1, <1>2, <1>3, <1>4 DEF TypeOK, PCs, Types

------------------------------------------------------------------------------
(* The theorems. *)

(* The inductive invariant: types, where an operation is and what it may   *)
(* have there, and that the keys it will delete cover the listings that    *)
(* are due, or will be when its request is served.                         *)
THEOREM Invariance ==
  Spec => []IInv
<1>1. Spec => Init /\ [][Next]_vars
  BY PTL DEF Spec
<1> QED BY <1>1, Initially, Inductive, PTL

(* Every node hangs below a directory, every listing holds objects the     *)
(* server has given an id, and no listing is called stale that is not in   *)
(* the cache: for any tree to begin with, any number of operations and     *)
(* changes by others, of any of the six drivers.                           *)
THEOREM TypeCorrect ==
  Spec => []TypeOK
BY Invariance, Typed, PTL

(* A listing in the cache shows the directory as it is, but for those the  *)
(* operation in flight has touched and those that are owed.  Nothing that  *)
(* an answered request made stale is owed if it is due: the listing of the *)
(* directory the server has an object in, or moves it to, under the key    *)
(* List files it under, has been deleted when the operation returns, with  *)
(* nil or an error, in however many requests and whoever listed            *)
(* directories meanwhile; but where the drivers slip or skip (Due, Skips). *)
THEOREM ListingsStayCurrent ==
  Spec => []ListingsCurrent
<1>1. IInv => ListingsCurrent
  BY DEF IInv
<1> QED BY <1>1, Invariance, PTL
==============================================================================
