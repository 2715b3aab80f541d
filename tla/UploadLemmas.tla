---------------------------- MODULE UploadLemmas -----------------------------
(***************************************************************************)
(* What the proofs about Uploads rest on: the invariant, and what it takes *)
(* to show that a step keeps it.                                           *)
(*                                                                         *)
(* The invariant IInv says of every server that files are missing or       *)
(* whole, and that a part is the section of the file that it stands for.   *)
(* For the next step to keep this, the reader has to stand where the part  *)
(* begins (Reading, QuarkAt, CloudAt), and a list of parts that is taken   *)
(* for complete has to be complete (QuarkAt, AliAt); and a session that    *)
(* belongs to no call has to be closed, or the parts of a call that failed *)
(* would be taken for those of the next one, whose part size may be        *)
(* another (OneSession). Cloudreve resumes the sessions of earlier calls;  *)
(* there, what a session holds is a beginning of the file, of any length.  *)
(*                                                                         *)
(* Shown is what every step of a call is shown to keep: the invariant, and *)
(* one of the three outcomes that a caller can tell apart.                 *)
(***************************************************************************)
EXTENDS Uploads, TLAPS, WellFoundedInduction

Cloud == {"onedrive", "cloudreve"}

Data == Seq(Nat)
PartMaps == UNION {[D -> Data] : D \in SUBSET (Nat \ {0})}
Session == [open : BOOLEAN, parts : PartMaps]
Server == [file : [Files -> Data], sess : [Files -> Session]]

Reader == [total : Nat, chunk : Nat, pos : Nat, uploaded : Nat, size : Nat, current : Nat,
           limit : Nat, finish : BOOLEAN]

Places(d) ==
  {"idle", "start"} \cup
  CASE d = "quark" -> {"pre", "hash", "part", "put", "commit", "finish"}
    [] d = "baidu" -> {"precreate", "locate", "part", "create"}
    [] d = "ali" -> {"create", "part"}
    [] d = "ali_open" -> {"prehash", "hash", "create", "part"}
    [] d = "thunder" -> {"task", "s3"}
    [] OTHER -> {"offset", "session", "conflict", "again", "reader", "next", "put", "after"}

PCs == {"idle", "start", "pre", "hash", "part", "put", "commit", "finish", "precreate", "locate",
        "create", "prehash", "task", "s3", "offset", "session", "conflict", "again", "reader",
        "next", "after"}

Ongoing == [pc : PCs, f : Files \cup {NoFile}, ret : {"none", "ok", "error"},
            del : BOOLEAN, resumable : BOOLEAN, fast : BOOLEAN, cancelled : BOOLEAN,
            size : Nat \ {0}, part : Nat \ {0}, try : 0..(MaxTries - 1), left : Nat,
            todo : SUBSET (Nat \ {0}), saved : Nat, body : Data,
            urls : {"fresh", "old", "expired"}]

Keys(f) == [session : {"none", "kept"}, chunk : {NoChunk} \cup 0..Size[f], errs : 0..MaxErrs]

------------------------------------------------------------------------------
\* Bytes a + 1 to b of a file.
Seg(a, b) == [i \in 1..(b - a) |-> a + i]

\* Where part k ends.
Base(f, k, size) == MinOf(k * size, Size[f])

\* A section is data as long as it says.
LEMMA SegIs ==
  ASSUME NEW a \in Nat, NEW b \in Nat, a <= b
  PROVE  Seg(a, b) \in Data /\ Len(Seg(a, b)) = b - a /\ Seg(a, a) = <<>>
BY DEF Seg, Data

\* A section and the one that follows it are one section.
LEMMA SegsJoin ==
  ASSUME NEW a \in Nat, NEW b \in Nat, NEW c \in Nat, a <= b, b <= c
  PROVE  Seg(a, b) \o Seg(b, c) = Seg(a, c)
BY DEF Seg

\* Files have sizes.
LEMMA SizeIs ==
  ASSUME NEW f \in Files
  PROVE  Size[f] \in Nat
BY UploadOpsParameters

\* Reading a file from one place to another yields that section.
LEMMA SubWhole ==
  ASSUME NEW f \in Files, NEW a \in Nat, NEW b \in Nat, a <= b, b <= Size[f]
  PROVE  SubSeq(Whole(f), a + 1, b) = Seg(a, b)
BY SizeIs DEF Seg, Whole

\* A whole file is the section from its beginning to its end, and is not taken for no file.
LEMMA WholeIs ==
  ASSUME NEW f \in Files
  PROVE  /\ Whole(f) = Seg(0, Size[f]) /\ Whole(f) \in Data /\ Len(Whole(f)) = Size[f]
         /\ Whole(f) # NoData
BY SizeIs DEF Seg, Whole, Data, NoData

\* The beginning of a beginning is a beginning.
LEMMA SubSeg ==
  ASSUME NEW a \in Nat, NEW b \in Nat, a <= b
  PROVE  SubSeq(Seg(0, b), 1, a) = Seg(0, a)
BY DEF Seg

\* Parts follow one another, up to the end of the file.
LEMMA BaseIs ==
  ASSUME NEW f \in Files, NEW k \in Nat, NEW size \in Nat \ {0}
  PROVE  /\ Base(f, k, size) \in 0..Size[f] /\ Base(f, 0, size) = 0
         /\ Base(f, k + 1, size) = MinOf(Base(f, k, size) + size, Size[f])
         /\ Base(f, k, size) <= Base(f, k + 1, size)
<1>1. (k + 1) * size = k * size + size /\ k * size \in Nat /\ 0 * size = 0
  OBVIOUS
<1> QED BY <1>1, SizeIs DEF Base, MinOf

\* Part i is the section from where part i - 1 ends to where part i ends.
LEMMA SliceIs ==
  ASSUME NEW f \in Files, NEW i \in Nat \ {0}, NEW size \in Nat \ {0}
  PROVE  Slice(f, i, size) = Seg(Base(f, i - 1, size), Base(f, i, size))
<1>1. i * size = (i - 1) * size + size /\ (i - 1) * size \in Nat
  OBVIOUS
<1> DEFINE a == (i - 1) * size  n == Size[f]  b == MinOf(i * size, n)
<1>2. a \in Nat /\ b \in Nat /\ b <= n /\ n \in Nat /\ (a <= n => a <= b /\ Base(f, i - 1, size) = a)
      /\ (a > n => Base(f, i - 1, size) = n /\ b = n) /\ Base(f, i, size) = b
  BY <1>1, SizeIs DEF Base, MinOf
<1>3. Slice(f, i, size) = SubSeq(Whole(f), a + 1, b)
  BY DEF Slice
<1> HIDE DEF a, n, b
<1>4. CASE a <= n
  BY <1>2, <1>3, <1>4, SubWhole DEF n
<1>5. CASE a > n
  <2>1. SubSeq(Whole(f), a + 1, b) = <<>> /\ Seg(n, n) = <<>>
    BY <1>2, <1>5 DEF Seg, Whole
  <2> QED BY <1>2, <1>3, <1>5, <2>1
<1> QED BY <1>2, <1>4, <1>5

\* The same, with the types that are needed wherever a part is named.
LEMMA PartIs ==
  ASSUME NEW f \in Files, NEW i \in Nat \ {0}, NEW size \in Nat \ {0}
  PROVE  /\ Base(f, i - 1, size) \in Nat /\ Base(f, i, size) \in Nat
         /\ Base(f, i - 1, size) <= Base(f, i, size) /\ Base(f, i, size) <= Size[f]
         /\ Base(f, i, size) = MinOf(Base(f, i - 1, size) + size, Size[f])
         /\ Slice(f, i, size) \in Data
<1>1. i - 1 \in Nat /\ (i - 1) + 1 = i
  OBVIOUS
<1>2. /\ Base(f, i - 1, size) \in Nat /\ Base(f, i, size) \in Nat
      /\ Base(f, i - 1, size) <= Base(f, i, size) /\ Base(f, i, size) <= Size[f]
      /\ Base(f, i, size) = MinOf(Base(f, i - 1, size) + size, Size[f])
  <2>1. Base(f, i - 1, size) \in 0..Size[f] /\ Base(f, i, size) \in 0..Size[f] /\ Size[f] \in Nat
    BY <1>1, BaseIs, SizeIs
  <2>2. /\ Base(f, i - 1, size) <= Base(f, i, size)
        /\ Base(f, i, size) = MinOf(Base(f, i - 1, size) + size, Size[f])
    BY <1>1, BaseIs
  <2> QED BY <2>1, <2>2
<1> QED BY <1>2, SliceIs, SegIs

\* As many parts as there are reach the end of the file.
LEMMA CountIs ==
  ASSUME NEW f \in Files, NEW size \in Nat \ {0}
  PROVE  Count(f, size) \in Nat /\ Base(f, Count(f, size), size) = Size[f]
<1>1. \A n \in Nat : (n + size - 1) \div size \in Nat /\ ((n + size - 1) \div size) * size >= n
  OBVIOUS
<1> QED BY <1>1, SizeIs DEF Count, Base, MinOf

\* A set of naturals has a least element: induction, in the form these proofs use it.
LEMMA Least ==
  ASSUME NEW T \in SUBSET Nat, T # {}
  PROVE  \E x \in T : \A y \in T : x <= y
<1> DEFINE R == {p \in Nat \X Nat : p[1] < p[2]}
<1>1. IsWellFoundedOn(R, Nat)
  BY NatLessThanWellFounded DEF OpToRel
<1>2. \E x \in T : \A y \in T : ~ (<<y, x>> \in R)
  <2> HIDE DEF R
  <2> QED BY <1>1, WFMin
<1>3. \A x, y \in Nat : <<y, x>> \in R <=> y < x
  OBVIOUS
<1> HIDE DEF R
<1>4. PICK x \in T : \A y \in T : ~ (<<y, x>> \in R)
  BY <1>2
<1>5. ASSUME NEW y \in T PROVE x <= y
  <2>1. x \in Nat /\ y \in Nat /\ ~ (<<y, x>> \in R)
    BY <1>4
  <2>2. ~ (y < x)
    BY <2>1, <1>3, Zenon
  <2> QED BY <2>1, <2>2
<1> QED BY <1>5

\* By induction on the number of parts, in the form of the least counterexample.
LEMMA JoinedIs ==
  ASSUME NEW f \in Files, NEW n \in Nat, NEW size \in Nat \ {0},
         \A i \in 1..n : srv.sess[f].parts[i] = Seg(Base(f, i - 1, size), Base(f, i, size))
  PROVE  Joined(f, n) = Seg(0, Base(f, n, size))
<1> DEFINE p == srv.sess[f].parts
           g == [i \in 0..n |-> Seg(0, Base(f, i, size))]
           Eq(j) == j = [i \in 0..n |-> IF i = 0 THEN <<>> ELSE j[i - 1] \o p[i]]
           h == CHOOSE j : Eq(j)
<1>1. ASSUME NEW i \in 1..n PROVE g[i] = g[i - 1] \o p[i]
  <2>1. i - 1 \in 0..n /\ i \in 0..n /\ i - 1 \in Nat /\ (i - 1) + 1 = i
    OBVIOUS
  <2>2. /\ Base(f, i - 1, size) \in Nat /\ Base(f, i, size) \in Nat
        /\ Base(f, i - 1, size) <= Base(f, i, size)
    BY <2>1, BaseIs, SizeIs
  <2>3. Seg(0, Base(f, i - 1, size)) \o Seg(Base(f, i - 1, size), Base(f, i, size))
          = Seg(0, Base(f, i, size))
    <3>1. 0 \in Nat /\ 0 <= Base(f, i - 1, size)
      BY <2>2
    <3> QED BY <2>2, <3>1, SegsJoin, ZenonT(60)
  <2> QED BY <2>1, <2>3
<1>2. g[0] = <<>>
  <2>1. Base(f, 0, size) = 0 /\ Seg(0, 0) = <<>>
    BY BaseIs DEF Seg
  <2> QED BY <2>1
<1>3. Eq(g)
  <2> DEFINE k == [i \in 0..n |-> IF i = 0 THEN <<>> ELSE g[i - 1] \o p[i]]
  <2>1. g[0] = k[0]
    BY <1>2
  <2>2. \A i \in 1..n : g[i] = k[i]
    <3>1. \A i \in 1..n : i \in 0..n /\ i # 0
      OBVIOUS
    <3>2. \A i \in 1..n : k[i] = g[i - 1] \o p[i]
      BY <3>1, ZenonT(60)
    <3> HIDE DEF g, k
    <3> QED BY <1>1, <3>2
  <2>3. g = k
    <3>1. \A i \in 0..n : g[i] = k[i]
      <4> HIDE DEF g, k
      <4> QED BY <2>1, <2>2
    <3> QED BY <3>1
  <2> QED BY <2>3
<1>4. Eq(h)
  <2> HIDE DEF Eq
  <2> QED BY <1>3
<1>5. Joined(f, n) = h[n]
  BY DEF Joined
<1> HIDE DEF h
<1>6. h[0] = <<>>
  BY <1>4
<1>7. ASSUME NEW i \in 1..n PROVE h[i] = h[i - 1] \o p[i]
  <2>1. i \in 0..n /\ i # 0
    OBVIOUS
  <2> QED BY <1>4, <2>1, ZenonT(60)
<1>8. g[n] = Seg(0, Base(f, n, size))
  OBVIOUS
<1> HIDE DEF g, Eq
<1> DEFINE bad == {i \in 0..n : h[i] # g[i]}
<1>9. ASSUME bad # {} PROVE FALSE
  <2>1. bad \in SUBSET Nat
    OBVIOUS
  <2>2. PICK i \in bad : \A k \in bad : i <= k
    <3> HIDE DEF bad
    <3> QED BY <1>9, <2>1, Least
  <2>3. i \in 1..n /\ i - 1 \in 0..n
    BY <1>2, <1>6, <2>2
  <2>4. h[i - 1] = g[i - 1]
    BY <2>2, <2>3
  <2>5. h[i] = h[i - 1] \o p[i] /\ g[i] = g[i - 1] \o p[i]
    BY <1>1, <1>7, <2>3
  <2> QED BY <2>2, <2>4, <2>5
<1> QED BY <1>5, <1>8, <1>9

------------------------------------------------------------------------------
(* The invariant, of a driver d, an upload u, a server s, a reader r, the keys
   c that a cloudreve client caches and the refusals un that were not seen. *)

\* A file of the server is missing or whole.
WholeOrNone(s) == \A f \in Files : s.file[f] \in {NoData, Whole(f)}

\* Parts are the parts of the file they stand for; a cloudreve session holds a beginning.
InPlace(d, u, s) ==
  \A f \in Files : \A i \in DOMAIN s.sess[f].parts :
    IF d \in Cloud
    THEN /\ i = 1 /\ Len(s.sess[f].parts[i]) <= Size[f]
         /\ s.sess[f].parts[i] = Seg(0, Len(s.sess[f].parts[i]))
    ELSE s.sess[f].parts[i] = Seg(Base(f, i - 1, u.size), Base(f, i, u.size))

\* No driver but cloudreve has a session but that of the upload in flight.
OneSession(d, u, s) ==
  d \notin Cloud =>
    \A f \in Files : f # u.f \/ u.pc \in {"idle", "start"} \/ (d = "ali" /\ u.pc = "create")
                       => s.sess[f] = Closed

\* The reader within a chunk that begins at base.
Reading(body, r, base) ==
  /\ r.current = Len(body) /\ r.pos = base + r.current /\ r.limit = r.chunk - r.current
  /\ r.size = MinOf(r.total, base + r.chunk) - base /\ r.current <= r.size
  /\ body = Seg(base, r.pos) /\ base <= r.total
  /\ r.uploaded = IF r.current = r.size THEN base + r.size ELSE base

\* quark: u.part - 1 parts are there, which end at base; what is left is what follows this one.
QuarkAt(u, s, r) ==
  LET n == Size[u.f]
      base == Base(u.f, u.part - 1, u.size)
  IN /\ u.pc # "put" => u.body = <<>>
     /\ u.pc \in {"part", "put", "commit", "finish"} =>
          1..(u.part - 1) \subseteq DOMAIN s.sess[u.f].parts
     /\ u.pc \in {"part", "put"} => r.total = n /\ r.chunk = u.size
     /\ u.pc = "part" /\ u.try = 0 => r.uploaded = base /\ r.pos = base /\ u.left = n - base
     /\ u.pc = "put" \/ (u.pc = "part" /\ u.try > 0) =>
          u.saved = base /\ base < n /\ u.left = n - Base(u.f, u.part, u.size)
     /\ u.pc = "put" => Reading(u.body, r, base)
     /\ u.pc \in {"commit", "finish"} => base = n
     /\ u.pc \in {"start", "pre", "hash"} => u.part = 1 /\ u.try = 0
     /\ u.pc = "hash" => u.left = n

\* aliyundrive, aliyundrive_open: the parts before this one are there, or there is no session.
AliAt(d, u, s) ==
  u.pc = "part" =>
    \/ Base(u.f, u.left, u.size) = Size[u.f] /\ 1..(u.part - 1) \subseteq DOMAIN s.sess[u.f].parts
    \/ d = "ali" /\ u.left = 0 /\ ~s.sess[u.f].open

\* cloudreve: the reader goes on where the last chunk ended.
CloudAt(d, u, s, r, un) ==
  /\ u.pc \in {"session", "conflict", "again", "reader"} => u.saved <= Size[u.f]
  /\ u.pc \in {"next", "put", "after"} => r.total = Size[u.f] /\ r.chunk = u.size
  /\ u.pc = "next" => r.pos = r.uploaded /\ ~r.finish
  /\ u.pc = "put" => Reading(u.body, r, u.left) /\ (r.finish => r.uploaded = r.total)
  /\ u.pc = "after" /\ d = "cloudreve" => s.file[u.f] = Whole(u.f) \/ u.f \in un

At(d, u, s, r, un) ==
  /\ d = "quark" => QuarkAt(u, s, r)
  /\ d \in {"ali", "ali_open"} => AliAt(d, u, s)
  /\ d \in Cloud => CloudAt(d, u, s, r, un)

Types(d, u, s, r, c) ==
  /\ s \in Server /\ r \in Reader /\ u \in Ongoing
  /\ r.uploaded <= r.total
  /\ u.pc \in Places(d)
  /\ u.pc # "idle" => u.f \in Files /\ u.ret = "none"
  /\ DOMAIN c = Files /\ \A f \in Files : c[f] \in Keys(f)

Inv(d, u, s, r, c, un) ==
  /\ Types(d, u, s, r, c)
  /\ WholeOrNone(s) /\ InPlace(d, u, s) /\ OneSession(d, u, s)
  /\ u.pc # "idle" => At(d, u, s, r, un)

IInv ==
  /\ drv \in UploadDrivers /\ odd \in 0..MaxOdd /\ local \subseteq Files /\ unseen \subseteq Files
  /\ unseen # {} => drv \in Cloud
  /\ Inv(drv, up, srv, rd, cc, unseen)

------------------------------------------------------------------------------
(* What the steps do to the server. *)

\* A closed session holds nothing.
LEMMA ClosedIs == Closed \in Session /\ Closed.open = FALSE /\ DOMAIN Closed.parts = {}
<1>1. <<>> \in [{} -> Data] /\ DOMAIN <<>> = {} /\ {} \in SUBSET (Nat \ {0})
  OBVIOUS
<1>2. <<>> \in PartMaps
  BY <1>1 DEF PartMaps
<1> QED BY <1>1, <1>2 DEF Closed, Session

\* A part arrives: the other parts, the other sessions and all files stay.
LEMMA TookIs ==
  ASSUME srv \in Server, NEW f \in Files, NEW i \in Nat \ {0}, NEW data \in Data
  PROVE  LET s == Took(f, i, data)
         IN /\ s \in Server /\ s.file = srv.file /\ \A g \in Files : g # f => s.sess[g] = srv.sess[g]
            /\ s.sess[f].open = srv.sess[f].open
            /\ DOMAIN s.sess[f].parts = {i} \cup DOMAIN srv.sess[f].parts
            /\ s.sess[f].parts[i] = data
            /\ \A j \in DOMAIN srv.sess[f].parts : j # i => s.sess[f].parts[j] = srv.sess[f].parts[j]
<1> DEFINE old == srv.sess[f].parts
           new == [j \in {i} \cup DOMAIN old |-> IF j = i THEN data ELSE old[j]]
           x == [srv.sess[f] EXCEPT !.parts = new]
           t == [srv.sess EXCEPT ![f] = x]
<1>1. srv.sess[f] \in Session /\ old \in PartMaps
  BY DEF Server, Session
<1>2. PICK D \in SUBSET (Nat \ {0}) : old \in [D -> Data]
  BY <1>1 DEF PartMaps
<1>3. new \in [{i} \cup D -> Data] /\ {i} \cup D \in SUBSET (Nat \ {0})
  BY <1>2
<1>4. new \in PartMaps
  <2> HIDE DEF new
  <2> QED BY <1>3 DEF PartMaps
<1>5. /\ DOMAIN new = {i} \cup DOMAIN old /\ new[i] = data
      /\ \A j \in DOMAIN old : j # i => new[j] = old[j]
  OBVIOUS
<1>6. Took(f, i, data) = [srv EXCEPT !.sess = t]
  BY DEF Took
<1> HIDE DEF new
<1>7. x \in Session /\ x.parts = new /\ x.open = srv.sess[f].open
  BY <1>1, <1>4 DEF Session
<1> HIDE DEF x
<1>8. t \in [Files -> Session] /\ t[f] = x /\ \A g \in Files : g # f => t[g] = srv.sess[g]
  BY <1>7 DEF Server
<1> HIDE DEF t
<1>9. [srv EXCEPT !.sess = t] \in Server /\ [srv EXCEPT !.sess = t].file = srv.file
      /\ [srv EXCEPT !.sess = t].sess = t
  BY <1>8 DEF Server
<1> QED BY <1>5, <1>6, <1>7, <1>8, <1>9

\* A session opens empty; the others and all files stay.
LEMMA OpenedIs ==
  ASSUME srv \in Server, NEW f \in Files
  PROVE  LET s == Opened(f)
         IN /\ s \in Server /\ s.file = srv.file /\ \A g \in Files : g # f => s.sess[g] = srv.sess[g]
            /\ s.sess[f].open = TRUE /\ s.sess[f].parts = <<>> /\ DOMAIN s.sess[f].parts = {}
<1>1. [open |-> TRUE, parts |-> <<>>] \in Session /\ DOMAIN <<>> = {}
  BY ClosedIs DEF Closed, Session
<1> QED BY <1>1 DEF Opened, Server

\* A file appears and its session closes; the others stay.
LEMMA PublishedIs ==
  ASSUME srv \in Server, NEW f \in Files, NEW data \in Data
  PROVE  LET s == Published(f, data)
         IN /\ s \in Server /\ s.file = [srv.file EXCEPT ![f] = data]
            /\ \A g \in Files : g # f => s.sess[g] = srv.sess[g]
            /\ s.sess[f] = Closed
BY ClosedIs DEF Published, Server

\* A session closes; the others and all files stay.
LEMMA ClosingIs ==
  ASSUME NEW s \in Server, NEW f \in Files
  PROVE  LET t == [s EXCEPT !.sess[f] = Closed]
         IN /\ t \in Server /\ t.file = s.file /\ \A g \in Files : g # f => t.sess[g] = s.sess[g]
            /\ t.sess[f] = Closed
BY ClosedIs DEF Server

\* Sessions end at the server; no file changes.
LEMMA EndsIs ==
  ASSUME srv \in Server, NEW fs
  PROVE  /\ Ends(fs) \in Server /\ Ends(fs).file = srv.file
         /\ \A g \in Files : Ends(fs).sess[g] \in {srv.sess[g], Closed}
<1> DEFINE t == [f \in Files |-> IF f \in fs THEN Closed ELSE srv.sess[f]]
<1>1. t \in [Files -> Session] /\ \A g \in Files : t[g] \in {srv.sess[g], Closed}
  BY ClosedIs DEF Server
<1>2. Ends(fs) = [srv EXCEPT !.sess = t]
  BY DEF Ends
<1> HIDE DEF t
<1> QED BY <1>1, <1>2 DEF Server

------------------------------------------------------------------------------
(* What becomes of a call. *)

\* A server that differs from this one by the file in flight alone.
Serves(s) ==
  /\ s \in Server
  /\ s.file = srv.file \/ s.file = [srv.file EXCEPT ![up.f] = Whole(up.f)]
  /\ drv \notin Cloud => \A g \in Files : g # up.f => s.sess[g] = srv.sess[g]

Moved ==
  /\ up.pc # "idle" /\ up'.pc # "idle" /\ up'.f = up.f /\ up'.ret = up.ret /\ UNCHANGED local
  /\ \/ Serves(srv') /\ UNCHANGED unseen
     \/ UNCHANGED srv /\ unseen' = unseen \cup {up.f}

Failed ==
  /\ up.pc # "idle" /\ up'.pc = "idle" /\ up'.f = up.f /\ up'.ret = "error"
  /\ \A f \in Files : srv'.file[f] = srv.file[f] \/ (f = up.f /\ srv'.file[f] = Whole(f))
  /\ UNCHANGED <<local, unseen>>

Succeeded ==
  /\ up.pc # "idle" /\ up'.pc = "idle" /\ up'.f = up.f /\ up'.ret = "ok"
  /\ \A f \in Files : srv'.file[f] = srv.file[f] \/ (f = up.f /\ srv'.file[f] = Whole(f))
  /\ unseen' \in {unseen, unseen \cup {up.f}} /\ local' \in {local, local \ {up.f}}
  /\ srv'.file[up.f] = Whole(up.f) \/ up.f \in unseen'

Outcome == Moved \/ Failed \/ Succeeded

Shown == IInv' /\ Outcome /\ UNCHANGED <<drv, rapid, known>>

\* A step within the call: what is to be shown of the next state.
LEMMA Moves ==
  ASSUME IInv, up.pc # "idle", NEW u \in Ongoing, NEW s, NEW r \in Reader, Step(u, s, r),
         odd' \in 0..MaxOdd, Serves(s), r.uploaded <= r.total,
         u.f = up.f, u.ret = up.ret, u.pc # "idle", u.pc \in Places(drv),
         InPlace(drv, u, s), OneSession(drv, u, s), At(drv, u, s, r, unseen)
  PROVE  Shown
<1>1. /\ up' = u /\ srv' = s /\ rd' = r
      /\ UNCHANGED <<drv, rapid, known, local, unseen, cc>>
  BY DEF Step, conf
<1>2. WholeOrNone(s)
  BY DEF Serves, WholeOrNone, IInv, Inv, Types, Server
<1>3. Inv(drv, u, s, r, cc, unseen)
  BY <1>2 DEF IInv, Inv, Types, Serves
<1>4. IInv'
  BY <1>1, <1>3 DEF IInv
<1> QED BY <1>1, <1>4 DEF Shown, Outcome, Moved

\* No upload is under way.
LEMMA NoUpIs ==
  /\ NoUp \in Ongoing /\ NoUp.pc = "idle" /\ NoUp.size = 1 /\ NoUp.part = 1 /\ NoUp.try = 0
  /\ NoUp.ret = "none" /\ NoUp.body = <<>> /\ NoUp.saved = 0
<1>1. 0 \in 0..(MaxTries - 1)
  BY UploadOpsParameters
<1>2. <<>> \in Data
  BY DEF Data
<1> QED BY <1>1, <1>2 DEF NoUp, Ongoing, PCs

\* The call returns: what is to be shown of what it leaves behind.
LEMMA EndedShown ==
  ASSUME IInv, up.pc # "idle", NEW res \in {"ok", "error"}, NEW s, Serves(s), InPlace(drv, up, s),
         up' = [NoUp EXCEPT !.f = up.f, !.ret = res], srv' = Ended(s), rd' = NoReader,
         odd' \in 0..MaxOdd, UNCHANGED <<drv, rapid, known>>,
         local' \in {local, local \ {up.f}}, unseen' \in {unseen, unseen \cup {up.f}},
         unseen' = unseen \/ drv \in Cloud,
         DOMAIN cc' = Files, \A f \in Files : cc'[f] \in Keys(f),
         IF res = "error" THEN UNCHANGED <<local, unseen>>
         ELSE s.file[up.f] = Whole(up.f) \/ up.f \in unseen'
  PROVE  Shown
<1>1. up.f \in Files /\ srv \in Server /\ s \in Server
  BY DEF IInv, Inv, Types, Serves
<1>2. /\ up' \in Ongoing /\ up'.pc = "idle" /\ up'.f = up.f /\ up'.ret = res /\ up'.size = 1
  BY <1>1, NoUpIs, ZenonT(60) DEF Ongoing, PCs
<1>3. rd' \in Reader /\ rd'.uploaded <= rd'.total
  BY DEF NoReader, NewProcessReader, Reader
<1>4. /\ srv' \in Server /\ srv'.file = s.file
      /\ drv \in Cloud => srv' = s
      /\ drv \notin Cloud => \A f \in Files : srv'.sess[f] = Closed
  <2>1. CASE drv \in Cloud
    BY <1>1, <2>1 DEF Ended, Cloud
  <2>2. CASE drv \notin Cloud
    BY <1>1, <2>2, ClosingIs, SMTT(60) DEF Ended, Cloud, Serves, IInv, Inv, OneSession
  <2> QED BY <2>1, <2>2
<1>5. /\ WholeOrNone(s)
      /\ \A f \in Files : s.file[f] = srv.file[f] \/ (f = up.f /\ s.file[f] = Whole(f))
  BY <1>1 DEF Serves, WholeOrNone, IInv, Inv, Server
<1>6. Inv(drv, up', srv', rd', cc', unseen')
  <2>1. Types(drv, up', srv', rd', cc')
    BY <1>2, <1>3, <1>4 DEF Types, Places
  <2>2. WholeOrNone(srv')
    BY <1>4, <1>5 DEF WholeOrNone
  <2>3. InPlace(drv, up', srv')
    BY <1>4, ClosedIs DEF InPlace
  <2>4. OneSession(drv, up', srv')
    BY <1>4 DEF OneSession
  <2> QED BY <1>2, <2>1, <2>2, <2>3, <2>4 DEF Inv
<1>7. IInv'
  BY <1>1, <1>6 DEF IInv
<1> QED BY <1>1, <1>2, <1>4, <1>5, <1>7 DEF Shown, Outcome, Failed, Succeeded

\* A step that leaves the server alone leaves its parts in place.
LEMMA SameParts ==
  ASSUME IInv, NEW u, u.size = up.size, u.f = up.f, u.pc \notin {"idle", "start"},
         drv = "ali" /\ u.pc = "create" => up.pc \in {"start", "create"}
  PROVE  InPlace(drv, u, srv) /\ OneSession(drv, u, srv)
BY DEF IInv, Inv, InPlace, OneSession, Cloud

\* UploadFile returns an error, whatever it has done to the server until then.
LEMMA FailsShown ==
  ASSUME IInv, up.pc # "idle", NEW s, Serves(s), InPlace(drv, up, s), Fails(s), odd' \in 0..MaxOdd
  PROVE  Shown
BY EndedShown DEF Fails, End, conf, IInv, Inv, Types

\* UploadFile returns nil when the file is there.
LEMMA SucceedsShown ==
  ASSUME IInv, up.pc # "idle", NEW s, Serves(s), InPlace(drv, up, s), Succeeds(s),
         s.file[up.f] = Whole(up.f)
  PROVE  Shown
<1>1. odd' \in 0..MaxOdd /\ local' \in {local, local \ {up.f}} /\ UNCHANGED cc /\ End("ok", s)
  BY UploadOpsParameters DEF Succeeds, RemoveLocal, RemoveLocalFails, Fine, Costs, IInv
<1> QED BY <1>1, EndedShown DEF End, conf, IInv, Inv, Types

\* The server that has got the whole file.
LEMMA WholePublished ==
  ASSUME IInv, up.pc # "idle"
  PROVE  LET s == Published(up.f, Whole(up.f))
         IN Serves(s) /\ InPlace(drv, up, s) /\ s.file[up.f] = Whole(up.f)
<1>1. up.f \in Files /\ srv \in Server
  BY DEF IInv, Inv, Types
<1>2. Whole(up.f) \in Data
  BY <1>1, WholeIs
<1> DEFINE s == Published(up.f, Whole(up.f))
<1>3. /\ s \in Server /\ s.file = [srv.file EXCEPT ![up.f] = Whole(up.f)]
      /\ \A g \in Files : g # up.f => s.sess[g] = srv.sess[g]
      /\ s.sess[up.f] = Closed
  BY <1>1, <1>2, PublishedIs
<1> HIDE DEF s
<1>4. Serves(s)
  BY <1>3 DEF Serves
<1>5. InPlace(drv, up, s)
  BY <1>3, ClosedIs DEF InPlace, IInv, Inv
<1>6. s.file[up.f] = Whole(up.f)
  BY <1>1, <1>3 DEF Server
<1> QED BY <1>4, <1>5, <1>6 DEF s

\* The server as it is.
LEMMA SameServer ==
  ASSUME IInv
  PROVE  Serves(srv) /\ InPlace(drv, up, srv)
BY DEF IInv, Inv, Types, Serves

\* A step costs at most one of the oddities left.
LEMMA OddIs ==
  ASSUME IInv, Fine \/ Costs
  PROVE  odd' \in 0..MaxOdd
BY UploadOpsParameters DEF IInv, Fine, Costs

Rest == {"f", "ret", "del", "resumable", "fast", "cancelled", "size", "part", "try", "left", "todo",
         "saved", "body", "urls"}

\* To changes the place and nothing else.
LEMMA ToIs ==
  ASSUME IInv, NEW w \in PCs
  PROVE  /\ To(w) \in Ongoing /\ To(w).pc = w
         /\ \A x \in Rest : To(w)[x] = up[x]
BY DEF To, IInv, Inv, Types, Ongoing, Rest

\* A step to another place, nothing else changed.
LEMMA Goes ==
  ASSUME IInv, up.pc # "idle", NEW w \in PCs \cap Places(drv), w \notin {"idle", "start"},
         drv = "ali" /\ w = "create" => up.pc = "start",
         NEW r \in Reader, r.uploaded <= r.total,
         Step(To(w), srv, r), odd' \in 0..MaxOdd, At(drv, To(w), srv, r, unseen)
  PROVE  Shown
<1> DEFINE u == To(w)
<1>1. u \in Ongoing /\ u.pc = w /\ \A x \in Rest : u[x] = up[x]
  BY ToIs
<1> HIDE DEF u
<1>2. u.f = up.f /\ u.ret = up.ret /\ u.size = up.size
  BY <1>1 DEF Rest
<1>3. InPlace(drv, u, srv) /\ OneSession(drv, u, srv)
  BY <1>1, <1>2, SameParts
<1> QED BY <1>1, <1>2, <1>3, Moves, SameServer DEF u

\* The beginning, if a listing or the directory does not make it fail.
LEMMA StartShown ==
  ASSUME IInv, NEW w \in PCs \cap Places(drv), w \notin {"idle", "start"}, NEW checks,
         Start(w, checks), At(drv, To(w), srv, rd, unseen)
  PROVE  Shown
<1>1. up.pc = "start" /\ odd' \in 0..MaxOdd /\ rd \in Reader /\ rd.uploaded <= rd.total
  BY OddIs DEF Start, IInv, Inv, Types
<1>2. Fails(srv) \/ Step(To(w), srv, rd)
  BY DEF Start
<1>3. CASE Fails(srv)
  BY <1>1, <1>3, SameServer, FailsShown
<1>4. CASE Step(To(w), srv, rd)
  BY <1>1, <1>4, Goes
<1> QED BY <1>2, <1>3, <1>4

\* The next attempt.
LEMMA AgainShown ==
  ASSUME IInv, up.pc \in {"part", "put"}, drv \notin Cloud, NEW s, Again(s, rd), odd' \in 0..MaxOdd,
         Serves(s), InPlace(drv, up, s), "part" \in Places(drv),
         \A u \in Ongoing : /\ u.pc = "part" /\ u.try = up.try + 1 /\ u.body = <<>>
                            /\ \A x \in Rest \ {"try", "body"} : u[x] = up[x]
                            => At(drv, u, s, rd, unseen)
  PROVE  Shown
<1>1. CASE up.try + 1 < MaxTries
  <2> DEFINE u == [up EXCEPT !.try = @ + 1, !.pc = "part", !.body = <<>>]
  <2>1. up \in Ongoing /\ up.try + 1 \in 0..(MaxTries - 1)
    BY <1>1, UploadOpsParameters, SMTT(60) DEF IInv, Inv, Types, Ongoing
  <2>2. u \in Ongoing /\ u.pc = "part" /\ u.try = up.try + 1 /\ u.body = <<>>
        /\ \A x \in Rest \ {"try", "body"} : u[x] = up[x]
    <3> DEFINE n == up.try + 1
    <3>1. <<>> \in Data
      BY DEF Data
    <3>2. u = [up EXCEPT !.try = n, !.pc = "part", !.body = <<>>]
      OBVIOUS
    <3> HIDE DEF n
    <3>3. u \in Ongoing /\ u.pc = "part" /\ u.try = n /\ u.body = <<>>
      BY <2>1, <3>1, <3>2, ZenonT(60) DEF n, Ongoing, PCs
    <3>4. \A x \in Rest \ {"try", "body"} : u[x] = up[x]
      BY <2>1, <3>2 DEF Ongoing, Rest
    <3> QED BY <3>3, <3>4 DEF n
  <2>3. Step(u, s, rd)
    BY <1>1 DEF Again
  <2> HIDE DEF u
  <2>4. u.f = up.f /\ u.ret = up.ret /\ u.size = up.size
    BY <2>2 DEF Rest
  <2>5. InPlace(drv, u, s)
    BY <2>4 DEF InPlace
  <2>6. OneSession(drv, u, s)
    BY <2>2, <2>4 DEF OneSession, Serves, IInv, Inv
  <2>7. At(drv, u, s, rd, unseen)
    BY <2>2
  <2> QED BY <2>2, <2>3, <2>4, <2>5, <2>6, <2>7, Moves DEF IInv, Inv, Types
<1>2. CASE ~ (up.try + 1 < MaxTries)
  BY <1>2, FailsShown DEF Again
<1> QED BY <1>1, <1>2

\* A new session of the file in flight is empty.
LEMMA OpenedShown ==
  ASSUME IInv, up.pc \notin {"idle"}, NEW u, u.f = up.f, u.pc # "idle"
  PROVE  /\ Serves(Opened(up.f)) /\ InPlace(drv, u, Opened(up.f))
         /\ u.pc # "start" /\ ~ (drv = "ali" /\ u.pc = "create") => OneSession(drv, u, Opened(up.f))
<1> DEFINE s == Opened(up.f)
<1>1. /\ up.f \in Files /\ s \in Server /\ s.file = srv.file
      /\ \A g \in Files : g # up.f => s.sess[g] = srv.sess[g]
      /\ DOMAIN s.sess[up.f].parts = {}
  BY OpenedIs DEF IInv, Inv, Types
<1> HIDE DEF s
<1>2. Serves(s)
  BY <1>1 DEF Serves
<1>3. InPlace(drv, u, s)
  BY <1>1, ClosedIs DEF InPlace, IInv, Inv, OneSession
<1>4. u.pc # "start" /\ ~ (drv = "ali" /\ u.pc = "create") => OneSession(drv, u, s)
  BY <1>1, SMTT(60) DEF OneSession, IInv, Inv
<1> QED BY <1>2, <1>3, <1>4 DEF s

\* A part that arrives keeps the others.
LEMMA TookShown ==
  ASSUME IInv, up.pc # "idle", drv \notin Cloud, NEW i \in Nat \ {0}, NEW data,
         data = Slice(up.f, i, up.size)
  PROVE  LET s == Took(up.f, i, data)
         IN /\ Serves(s) /\ InPlace(drv, up, s)
            /\ DOMAIN s.sess[up.f].parts = {i} \cup DOMAIN srv.sess[up.f].parts
            /\ s.sess[up.f].open = srv.sess[up.f].open
<1> DEFINE s == Took(up.f, i, data)  f == up.f
<1>1. f \in Files /\ srv \in Server /\ up.size \in Nat \ {0}
  BY DEF IInv, Inv, Types, Ongoing
<1>2. data = Seg(Base(f, i - 1, up.size), Base(f, i, up.size)) /\ data \in Data
  BY <1>1, SliceIs, PartIs, SMTT(60)
<1>3. /\ s \in Server /\ s.file = srv.file /\ \A g \in Files : g # f => s.sess[g] = srv.sess[g]
      /\ s.sess[f].open = srv.sess[f].open
      /\ DOMAIN s.sess[f].parts = {i} \cup DOMAIN srv.sess[f].parts
      /\ s.sess[f].parts[i] = data
      /\ \A j \in DOMAIN srv.sess[f].parts : j # i => s.sess[f].parts[j] = srv.sess[f].parts[j]
  BY <1>1, <1>2, TookIs
<1> HIDE DEF s
<1>4. Serves(s)
  BY <1>3, SMTT(60) DEF Serves
<1>5. InPlace(drv, up, s)
  BY <1>2, <1>3 DEF InPlace, IInv, Inv
<1> QED BY <1>3, <1>4, <1>5 DEF s

\* Parts that are in place and reach the end of the file are the file.
LEMMA JoinedWhole ==
  ASSUME IInv, up.pc # "idle", drv \notin Cloud, NEW n \in Nat,
         1..n \subseteq DOMAIN srv.sess[up.f].parts, Base(up.f, n, up.size) = Size[up.f]
  PROVE  Joined(up.f, n) = Whole(up.f)
<1>1. up.f \in Files /\ up.size \in Nat \ {0}
  BY DEF IInv, Inv, Types, Ongoing
<1>2. \A i \in 1..n : srv.sess[up.f].parts[i] = Seg(Base(up.f, i - 1, up.size), Base(up.f, i, up.size))
  BY <1>1 DEF IInv, Inv, InPlace
<1> QED BY <1>1, <1>2, JoinedIs, WholeIs

------------------------------------------------------------------------------
(* The reader. *)

\* NextChunk begins a chunk where the last one ended.
LEMMA NextChunkReads ==
  ASSUME NEW r \in Reader, r.pos = r.uploaded, r.uploaded <= r.total
  PROVE  /\ NextChunk(r) \in Reader /\ Reading(<<>>, NextChunk(r), r.uploaded)
         /\ \A x \in {"total", "chunk", "uploaded", "finish"} : NextChunk(r)[x] = r[x]
<1> DEFINE t == NextChunk(r)  size == MinOf(r.total, r.uploaded + r.chunk) - r.uploaded
<1>1. size \in Nat
  BY DEF MinOf, Reader
<1>2. t = [r EXCEPT !.limit = r.chunk, !.size = size, !.current = 0]
  BY DEF NextChunk
<1> HIDE DEF size
<1> HIDE DEF t
<1>3. /\ t \in Reader /\ t.limit = r.chunk /\ t.size = size /\ t.current = 0
      /\ \A x \in {"total", "chunk", "pos", "uploaded", "finish"} : t[x] = r[x]
  <2>1. t \in Reader
    BY <1>1, <1>2 DEF Reader
  <2>2. t.limit = r.chunk /\ t.size = size /\ t.current = 0
    BY <1>2 DEF Reader
  <2>3. \A x \in {"total", "chunk", "pos", "uploaded", "finish"} : t[x] = r[x]
    BY <1>2 DEF Reader
  <2> QED BY <2>1, <2>2, <2>3
<1>4. Reading(<<>>, t, r.uploaded)
  BY <1>1, <1>3, SMTT(60) DEF Reading, size, Reader, Seg
<1> QED BY <1>3, <1>4 DEF t

\* Where a read of n bytes leads within a chunk.
LEMMA ReadLeads ==
  ASSUME NEW r \in Reader, NEW base \in Nat, NEW body, Reading(body, r, base), NEW n \in 1..Readable(r)
  PROVE  LET new == IF r.current + n = r.size THEN r.uploaded + r.size ELSE r.uploaded
         IN /\ n \in Nat /\ r.pos + n \in Nat /\ r.limit - n \in Nat /\ r.current + n \in Nat
            /\ r.pos \in Nat /\ r.pos <= r.pos + n /\ r.pos + n <= r.total
            /\ base <= r.pos /\ base <= r.pos + n /\ base <= r.total
            /\ r.pos + n = base + (r.current + n) /\ (r.pos + n) - base = r.current + n
            /\ r.limit - n = r.chunk - (r.current + n) /\ r.current + n <= r.size
            /\ new \in Nat /\ new <= r.total /\ (r.uploaded = r.total => new = r.total)
            /\ new = IF r.current + n = r.size THEN base + r.size ELSE base
<1> DEFINE pos == r.pos  total == r.total  current == r.current  size == r.size  limit == r.limit
           chunk == r.chunk  uploaded == r.uploaded
<1>1. /\ pos \in Nat /\ total \in Nat /\ current \in Nat /\ size \in Nat
      /\ limit \in Nat /\ chunk \in Nat /\ uploaded \in Nat
  BY DEF Reader
<1>2. /\ pos = base + current /\ limit = chunk - current /\ base <= total
      /\ size = MinOf(total, base + chunk) - base /\ current <= size
      /\ uploaded = IF current = size THEN base + size ELSE base
  BY DEF Reading
<1>3. n \in 1..MinOf(limit, total - pos)
  BY DEF Readable
<1> HIDE DEF pos, total, current, size, limit, chunk, uploaded
<1>4. n \in Nat /\ n > 0 /\ n <= limit /\ n <= total - pos
  BY <1>1, <1>2, <1>3 DEF MinOf
<1>5. size = (IF total < base + chunk THEN total - base ELSE chunk)
  BY <1>1, <1>2 DEF MinOf
<1>6. current + n <= size /\ base + size <= total /\ uploaded = base
  BY <1>1, <1>2, <1>4, <1>5
<1>7. LET new == IF current + n = size THEN uploaded + size ELSE uploaded
      IN /\ n \in Nat /\ pos + n \in Nat /\ limit - n \in Nat /\ current + n \in Nat
         /\ pos \in Nat /\ pos <= pos + n /\ pos + n <= total
         /\ base <= pos /\ base <= pos + n /\ base <= total
         /\ pos + n = base + (current + n) /\ (pos + n) - base = current + n
         /\ limit - n = chunk - (current + n) /\ current + n <= size
         /\ new \in Nat /\ new <= total /\ (uploaded = total => new = total)
         /\ new = IF current + n = size THEN base + size ELSE base
  BY <1>1, <1>2, <1>4, <1>6
<1> QED BY <1>7 DEF pos, total, current, size, limit, chunk, uploaded

\* A read goes on with the file where the chunk stands: what is read is the section from its base.
LEMMA ReadReads ==
  ASSUME NEW r \in Reader, NEW f \in Files, r.total = Size[f], NEW base \in Nat, NEW old,
         Reading(old, r, base), NEW n \in 1..Readable(r)
  PROVE  LET body == old \o SubSeq(Whole(f), r.pos + 1, r.pos + n)
             t == Read(r, n)
         IN /\ t \in Reader /\ Reading(body, t, base) /\ body \in Data
            /\ t.total = r.total /\ t.chunk = r.chunk /\ t.uploaded <= t.total
            /\ (r.finish => r.uploaded = r.total) => (t.finish => t.uploaded = t.total)
<1> DEFINE new == IF r.current + n = r.size THEN r.uploaded + r.size ELSE r.uploaded
           body == old \o SubSeq(Whole(f), r.pos + 1, r.pos + n)
           t == Read(r, n)
           pos == r.pos + n  limit == r.limit - n  current == r.current + n
           finish == (r.finish \/ new = r.total)
<1>0. /\ r.pos \in Nat /\ r.total \in Nat /\ r.current \in Nat /\ r.size \in Nat
      /\ r.limit \in Nat /\ r.chunk \in Nat /\ r.uploaded \in Nat /\ r.finish \in BOOLEAN
  BY DEF Reader
<1>1. /\ r.current = Len(old) /\ old = Seg(base, r.pos)
      /\ r.pos = base + r.current /\ r.limit = r.chunk - r.current
      /\ r.size = MinOf(r.total, base + r.chunk) - base /\ r.current <= r.size
      /\ r.uploaded = IF r.current = r.size THEN base + r.size ELSE base
  BY DEF Reading
<1>3. /\ n \in Nat /\ pos \in Nat /\ limit \in Nat /\ current \in Nat
      /\ r.pos <= pos /\ pos <= r.total /\ base <= r.pos /\ base <= pos /\ base <= r.total
      /\ pos = base + current /\ pos - base = current
      /\ limit = r.chunk - current /\ current <= r.size
      /\ new \in Nat /\ new <= r.total /\ (r.uploaded = r.total => new = r.total)
      /\ new = IF current = r.size THEN base + r.size ELSE base
  BY ReadLeads, ZenonT(60)
<1>5. finish \in BOOLEAN /\ (finish <=> r.finish \/ new = r.total)
  BY <1>0
<1>6. t = [r EXCEPT !.pos = pos, !.limit = limit, !.current = current, !.uploaded = new,
                    !.finish = finish]
  BY DEF Read
<1>7. body = Seg(base, r.pos) \o SubSeq(Whole(f), r.pos + 1, pos)
  BY <1>1
<1> HIDE DEF new, pos, limit, current, finish, t, body
<1>8. t \in Reader
  BY <1>3, <1>5, <1>6, ZenonT(60) DEF Reader
<1>9. /\ t.pos = pos /\ t.limit = limit /\ t.current = current /\ t.uploaded = new /\ t.finish = finish
      /\ t.total = r.total /\ t.chunk = r.chunk /\ t.size = r.size
  BY <1>6 DEF Reader
<1>10. SubSeq(Whole(f), r.pos + 1, pos) = Seg(r.pos, pos)
  BY <1>0, <1>3, SubWhole, ZenonT(60)
<1>11. body = Seg(base, pos)
  <2>1. Seg(base, r.pos) \o Seg(r.pos, pos) = Seg(base, pos)
    BY <1>0, <1>3, SegsJoin, ZenonT(60)
  <2> QED BY <1>7, <1>10, <2>1
<1>12. body \in Data /\ Len(body) = current
  <2>1. Seg(base, pos) \in Data /\ Len(Seg(base, pos)) = pos - base
    BY <1>3, SegIs
  <2> QED BY <1>3, <1>11, <2>1
<1>13. Reading(body, t, base)
  BY <1>1, <1>3, <1>9, <1>11, <1>12 DEF Reading
<1>14. (r.finish => r.uploaded = r.total) => (t.finish => t.uploaded = t.total)
  BY <1>3, <1>5, <1>9
<1> QED BY <1>3, <1>8, <1>9, <1>12, <1>13, <1>14 DEF t, body
==============================================================================
