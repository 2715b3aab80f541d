---------------------------- MODULE UploadsProofs ----------------------------
(***************************************************************************)
(* Proofs about Uploads: types, that the parts on a server are in place,   *)
(* that UploadPath that returns nil has uploaded what it was to upload,    *)
(* and that every driver's UploadFile implements module Upload.            *)
(*                                                                         *)
(* First the calls: every step of every driver keeps the invariant of      *)
(* UploadLemmas and has one of its outcomes, one lemma per action, in the  *)
(* order of the driver modules.  A walk is many calls; WalkInv says what   *)
(* holds between them: a file that has gone was uploaded, one that the     *)
(* filters leave out is untouched, and without SkipFileErr a file that was *)
(* asked for is uploaded, or is the one in flight, or is still to come.    *)
(***************************************************************************)
EXTENDS UploadLemmas

------------------------------------------------------------------------------
(* Every call. *)

\* What is known of the call in every step.
LEMMA Known ==
  ASSUME IInv, up.pc # "idle"
  PROVE  /\ up \in Ongoing /\ srv \in Server /\ rd \in Reader /\ rd.uploaded <= rd.total
         /\ up.f \in Files /\ Size[up.f] \in Nat /\ up.ret = "none" /\ up.pc \in Places(drv)
         /\ At(drv, up, srv, rd, unseen)
         /\ up.size \in Nat \ {0} /\ up.part \in Nat \ {0} /\ up.left \in Nat /\ up.saved \in Nat
         /\ up.try \in 0..(MaxTries - 1) /\ up.body \in Data
<1>1. up \in Ongoing /\ up.f \in Files
  BY DEF IInv, Inv, Types
<1>2. Size[up.f] \in Nat
  BY <1>1, SizeIs
<1>3. /\ up.size \in Nat \ {0} /\ up.part \in Nat \ {0} /\ up.left \in Nat /\ up.saved \in Nat
      /\ up.try \in 0..(MaxTries - 1) /\ up.body \in Data
  BY <1>1 DEF Ongoing
<1> QED BY <1>1, <1>2, <1>3 DEF IInv, Inv, Types

------------------------------------------------------------------------------
(* quark *)

\* These places are those of quark, whose invariant holds there.
LEMMA OnlyQuark ==
  ASSUME IInv, up.pc \in {"pre", "commit", "finish"} \/ (drv = "quark" /\ up.pc # "idle")
  PROVE  drv = "quark" /\ QuarkAt(up, srv, rd)
<1>1. drv \in UploadDrivers /\ up.pc # "idle" /\ up.pc \in Places(drv)
  BY DEF IInv, Inv, Types
<1>2. drv = "quark"
  BY <1>1 DEF Places, UploadDrivers
<1> QED BY <1>1, <1>2 DEF IInv, Inv, At

\* UploadFile of quark begins.
LEMMA QuarkStarts ==
  ASSUME IInv, QuarkUploadFile
  PROVE  Shown
<1>1. drv = "quark" /\ Start("pre", TRUE) /\ up.pc = "start"
  BY DEF QuarkUploadFile, Start
<1>2. QuarkAt(up, srv, rd)
  BY <1>1, OnlyQuark
<1>3. To("pre").pc = "pre" /\ \A x \in Rest : To("pre")[x] = up[x]
  BY ToIs DEF PCs
<1> DEFINE u == To("pre")
<1> HIDE DEF u
<1>4. u.pc = "pre" /\ u.body = up.body /\ u.part = up.part /\ u.try = up.try
  BY <1>3 DEF u, Rest
<1>5. At(drv, u, srv, rd, unseen)
  BY <1>1, <1>2, <1>4 DEF At, QuarkAt, Cloud
<1>6. "pre" \in PCs \cap Places(drv)
  BY <1>1 DEF PCs, Places
<1> QED BY <1>1, <1>5, <1>6, StartShown DEF u

\* FileUploadPre: the server has the file, or a part size is chosen.
LEMMA PreShown ==
  ASSUME IInv, FileUploadPre
  PROVE  Shown
<1>1. drv = "quark" /\ QuarkAt(up, srv, rd) /\ up.pc = "pre"
  BY OnlyQuark DEF FileUploadPre
<1>2. PICK n \in PartSizes :
        Step([To("hash") EXCEPT !.size = MinOf(n, Chunk), !.left = Size[up.f]], Opened(up.f), rd)
  BY DEF FileUploadPre
<1> DEFINE size == MinOf(n, Chunk)  u == [To("hash") EXCEPT !.size = size, !.left = Size[up.f]]
<1>3. size \in Nat \ {0} /\ odd' \in 0..MaxOdd
  BY UploadOpsParameters, OddIs DEF MinOf, FileUploadPre
<1> HIDE DEF size
<1>4. /\ To("hash") \in Ongoing /\ To("hash").pc = "hash"
      /\ \A x \in Rest : To("hash")[x] = up[x]
  BY ToIs DEF PCs
<1>5. /\ u \in Ongoing /\ u.pc = "hash" /\ u.left = Size[up.f] /\ u.f = up.f /\ u.ret = up.ret
      /\ u.body = up.body /\ u.part = up.part /\ u.try = up.try
  BY <1>1, <1>3, <1>4, Known DEF Ongoing, Rest
<1> HIDE DEF u
<1>6. At(drv, u, Opened(up.f), rd, unseen)
  BY <1>1, <1>5 DEF At, QuarkAt, Cloud
<1>7. /\ Serves(Opened(up.f)) /\ InPlace(drv, u, Opened(up.f)) /\ OneSession(drv, u, Opened(up.f))
  BY <1>1, <1>5, OpenedShown
<1>8. "hash" \in Places(drv)
  BY <1>1 DEF Places
<1>9. Step(u, Opened(up.f), rd)
  BY <1>2 DEF u, size
<1> QED BY <1>1, <1>3, <1>5, <1>6, <1>7, <1>8, <1>9, Known, Moves

\* FileUploadHash: the server has the file, or the first part is next.
LEMMA HashShown ==
  ASSUME IInv, FileUploadHash
  PROVE  Shown
<1>1. drv = "quark" /\ QuarkAt(up, srv, rd) /\ up.pc = "hash"
  BY OnlyQuark DEF FileUploadHash
<1>2. CASE Succeeds(Published(up.f, Whole(up.f)))
  BY <1>1, <1>2, WholePublished, SucceedsShown
<1>3. CASE Fails(srv) /\ Fine
  BY <1>1, <1>3, SameServer, FailsShown, OddIs
<1>4. CASE Step(To("part"), srv, NewProcessReader(Size[up.f], up.size, 0)) /\ Fine
  <2> DEFINE r == NewProcessReader(Size[up.f], up.size, 0)  u == To("part")
  <2>1. /\ r \in Reader /\ r.uploaded = 0 /\ r.pos = 0 /\ r.total = Size[up.f] /\ r.chunk = up.size
        /\ r.uploaded <= r.total
    BY <1>1, Known DEF NewProcessReader, Reader
  <2>2. u.pc = "part" /\ \A x \in Rest : u[x] = up[x]
    BY ToIs DEF PCs
  <2> HIDE DEF r, u
  <2>3. /\ u.body = up.body /\ u.part = 1 /\ u.try = 0 /\ u.size = up.size /\ u.f = up.f
        /\ u.left = Size[up.f]
    BY <1>1, <2>2 DEF QuarkAt, Rest
  <2>4. Base(up.f, 0, up.size) = 0
    BY <1>1, Known, BaseIs
  <2>5. 1..(1 - 1) = {} /\ 1 - 1 = 0 /\ Size[up.f] - 0 = Size[up.f]
    BY <1>1, Known
  <2>6. At(drv, u, srv, r, unseen)
    BY <1>1, <2>1, <2>2, <2>3, <2>4, <2>5 DEF At, QuarkAt, Cloud
  <2>7. "part" \in PCs \cap Places(drv)
    BY <1>1 DEF PCs, Places
  <2> QED BY <1>1, <1>4, <2>1, <2>6, <2>7, OddIs, Goes DEF u, r
<1> QED BY <1>2, <1>3, <1>4 DEF FileUploadHash

\* The reader at the head of an attempt: it begins where the part begins.
LEMMA PartReader ==
  ASSUME NEW r \in Reader, NEW n \in Nat, NEW saved \in Nat, saved <= n, r.total = n
  PROVE  LET t == ResetChunk(r, saved)
         IN t \in Reader /\ t.pos = saved /\ t.uploaded = saved /\ t.total = n /\ t.chunk = r.chunk
<1> DEFINE t == [r EXCEPT !.uploaded = saved, !.current = 0, !.pos = saved]
<1>1. t \in Reader
  BY DEF Reader
<1>2. t.pos = saved /\ t.uploaded = saved /\ t.total = n /\ t.chunk = r.chunk
  BY DEF Reader
<1>3. ResetChunk(r, saved) = t
  BY DEF ResetChunk
<1> QED BY <1>1, <1>2, <1>3

\* The next part, or the next attempt of the same one: the reader stands at its base.
LEMMA NextPartShown ==
  ASSUME IInv, NextPart
  PROVE  Shown
<1> DEFINE n == Size[up.f]
           base == Base(up.f, up.part - 1, up.size)
           next == Base(up.f, up.part, up.size)
<1>1. drv = "quark" /\ QuarkAt(up, srv, rd) /\ up.pc = "part" /\ odd' \in 0..MaxOdd
  BY OnlyQuark, OddIs DEF NextPart
<1>2. /\ n \in Nat /\ base \in Nat /\ next \in Nat /\ next = MinOf(base + up.size, n) /\ base <= n
      /\ next <= n
  <2>1. up.f \in Files /\ up.size \in Nat \ {0} /\ up.part \in Nat \ {0} /\ n \in Nat
    BY <1>1, Known
  <2> QED BY <2>1, PartIs, SMTT(60)
<1>3. /\ up.body = <<>> /\ 1..(up.part - 1) \subseteq DOMAIN srv.sess[up.f].parts
      /\ rd.total = n /\ rd.chunk = up.size
      /\ up.try = 0 => rd.uploaded = base /\ rd.pos = base /\ up.left = n - base
      /\ up.try > 0 => up.saved = base /\ base < n /\ up.left = n - next
  BY <1>1 DEF QuarkAt
<1> HIDE DEF n, base, next
<1>4. CASE up.try = 0 /\ up.left <= 0
  <2> DEFINE u == To("commit")
  <2>1. u.pc = "commit" /\ \A x \in Rest : u[x] = up[x]
    BY ToIs DEF PCs
  <2> HIDE DEF u
  <2>2. u.body = <<>> /\ u.part = up.part /\ u.f = up.f /\ u.size = up.size
    BY <1>3, <2>1 DEF Rest
  <2>3. base = n
    BY <1>1, <1>2, <1>3, <1>4, Known
  <2>4. At(drv, u, srv, rd, unseen)
    BY <1>1, <1>3, <2>1, <2>2, <2>3 DEF At, QuarkAt, Cloud, base, n
  <2>5. "commit" \in PCs \cap Places(drv)
    BY <1>1 DEF PCs, Places
  <2>6. Step(u, srv, rd)
    BY <1>4 DEF NextPart, u
  <2> QED BY <1>1, <2>4, <2>5, <2>6, Known, Goes DEF u
<1>5. CASE ~ (up.try = 0 /\ up.left <= 0)
  <2> DEFINE saved == IF up.try = 0 THEN rd.uploaded ELSE up.saved
             r0 == IF up.try = 0 THEN rd ELSE ResetChunk(rd, saved)
             r == NextChunk(r0)
             left == IF up.try = 0 THEN up.left - r.size ELSE up.left
             u == [To("put") EXCEPT !.saved = saved, !.left = left]
  <2>1. To("put") \in Ongoing /\ To("put").pc = "put" /\ \A x \in Rest : To("put")[x] = up[x]
    BY ToIs DEF PCs
  <2>2. u = [To("put") EXCEPT !.saved = saved, !.left = IF up.try = 0 THEN @ - r.size ELSE @]
    BY <2>1 DEF Rest, Ongoing
  <2>3. Step(u, srv, r)
    BY <1>5, <2>2 DEF NextPart
  <2>4. saved = base /\ base < n
    <3>1. up.try \in Nat /\ up.left \in Nat
      BY <1>1, UploadOpsParameters, Known
    <3> QED BY <1>2, <1>3, <1>5, <3>1
  <2>5. r0 \in Reader /\ r0.pos = base /\ r0.uploaded = base /\ r0.total = n /\ r0.chunk = up.size
    <3>1. rd \in Reader
      BY <1>1, Known
    <3>2. CASE up.try = 0
      BY <1>3, <3>1, <3>2
    <3>3. CASE up.try # 0
      BY <1>2, <1>3, <2>4, <3>1, <3>3, PartReader
    <3> QED BY <3>2, <3>3
  <2> HIDE DEF saved, r0
  <2>6. /\ r \in Reader /\ Reading(<<>>, r, base) /\ r.total = n /\ r.chunk = up.size
        /\ r.uploaded = base
    BY <1>2, <2>4, <2>5, NextChunkReads
  <2>7. r.size = next - base
    <3>2. r.size = MinOf(r.total, base + r.chunk) - base /\ r.total = n /\ r.chunk = up.size
      BY <2>6 DEF Reading
    <3> QED BY <1>1, <1>2, <3>2, Known DEF MinOf
  <2> HIDE DEF r
  <2>8. left \in Nat /\ left = n - next
    BY <1>1, <1>2, <1>3, <2>7, Known, SMTT(60)
  <2> HIDE DEF left
  <2>9. /\ u \in Ongoing /\ u.pc = "put" /\ u.saved = base /\ u.left = n - next
        /\ u.f = up.f /\ u.ret = up.ret /\ u.size = up.size /\ u.part = up.part /\ u.body = <<>>
    BY <1>2, <1>3, <2>1, <2>4, <2>8, ZenonT(60) DEF Ongoing, Rest
  <2> HIDE DEF u
  <2>10. /\ r \in Reader /\ r.total = n /\ r.chunk = up.size /\ r.uploaded <= r.total
         /\ Reading(u.body, r, base)
    BY <1>2, <2>6, <2>9
  <2>11. At(drv, u, srv, r, unseen)
    BY <1>1, <1>3, <2>4, <2>9, <2>10 DEF At, QuarkAt, Cloud, base, n, next
  <2>12. "put" \in Places(drv)
    BY <1>1 DEF Places
  <2>13. InPlace(drv, u, srv) /\ OneSession(drv, u, srv)
    BY <1>1, <2>9, SameParts
  <2> QED BY <1>1, <2>3, <2>9, <2>10, <2>11, <2>12, <2>13, SameServer, Moves
<1> QED BY <1>4, <1>5

\* A chunk that has been read to its end.
LEMMA SentIs ==
  ASSUME NEW r \in Reader, NEW base \in Nat, NEW body, Reading(body, r, base), Readable(r) = 0
  PROVE  LET next == MinOf(base + r.chunk, r.total)
         IN r.pos = next /\ r.uploaded = next /\ body = Seg(base, next) /\ r.current = r.size
<1> DEFINE next == MinOf(base + r.chunk, r.total)
<1>1. /\ r.pos \in Nat /\ r.total \in Nat /\ r.current \in Nat /\ r.size \in Nat
      /\ r.limit \in Nat /\ r.chunk \in Nat /\ r.uploaded \in Nat
  BY DEF Reader
<1>2. /\ body = Seg(base, r.pos) /\ base <= r.total
      /\ r.pos = base + r.current /\ r.limit = r.chunk - r.current
      /\ r.size = MinOf(r.total, base + r.chunk) - base /\ r.current <= r.size
      /\ r.uploaded = IF r.current = r.size THEN base + r.size ELSE base
  BY DEF Reading
<1>3. r.limit = 0 \/ r.total - r.pos = 0
  BY <1>1, <1>2 DEF Readable, MinOf
<1>4. base + r.size = next /\ r.size <= r.chunk /\ base + r.size <= r.total
  BY <1>1, <1>2 DEF MinOf
<1>5. r.current = r.size
  BY <1>1, <1>2, <1>3, <1>4
<1> QED BY <1>1, <1>2, <1>4, <1>5

\* FileUpPart: the part that was read arrives, fails, or is tried again.
LEMMA PutShown ==
  ASSUME IInv, FileUpPart
  PROVE  Shown
<1> DEFINE n == Size[up.f]
           base == Base(up.f, up.part - 1, up.size)
           next == Base(up.f, up.part, up.size)
           s == Took(up.f, up.part, up.body)
<1>1. drv = "quark" /\ QuarkAt(up, srv, rd) /\ up.pc = "put" /\ odd' \in 0..MaxOdd
  BY OnlyQuark, OddIs DEF FileUpPart
<1>2. /\ n \in Nat /\ base \in Nat /\ next \in Nat /\ next = MinOf(base + up.size, n) /\ base <= n
      /\ next <= n
  <2>1. up.f \in Files /\ up.size \in Nat \ {0} /\ up.part \in Nat \ {0} /\ n \in Nat
    BY <1>1, Known
  <2> QED BY <2>1, PartIs
<1>3. /\ 1..(up.part - 1) \subseteq DOMAIN srv.sess[up.f].parts
      /\ rd.total = n /\ rd.chunk = up.size /\ Reading(up.body, rd, base)
      /\ up.saved = base /\ base < n /\ up.left = n - next
  BY <1>1 DEF QuarkAt
<1>4. "part" \in Places(drv) /\ drv \notin Cloud
  BY <1>1 DEF Places, Cloud
<1> HIDE DEF n, base, next, s
\* An attempt that is made again begins where this one began.
<1>5. ASSUME NEW t, Again(t, rd), Serves(t), InPlace(drv, up, t),
             1..(up.part - 1) \subseteq DOMAIN t.sess[up.f].parts
      PROVE  Shown
  <2>1. ASSUME NEW u \in Ongoing, u.pc = "part", u.try = up.try + 1, u.body = <<>>,
               \A x \in Rest \ {"try", "body"} : u[x] = up[x]
        PROVE  At(drv, u, t, rd, unseen)
    <3>1. /\ u.f = up.f /\ u.part = up.part /\ u.size = up.size /\ u.saved = up.saved
          /\ u.left = up.left
      BY <2>1 DEF Rest
    <3>2. u.try # 0
      BY <1>1, <2>1, Known, UploadOpsParameters
    <3> QED BY <1>1, <1>3, <1>5, <2>1, <3>1, <3>2 DEF At, QuarkAt, Cloud, base, n, next
  <2> QED BY <1>1, <1>4, <1>5, <2>1, AgainShown
<1>6. Again(srv, rd) => Shown
  BY <1>3, <1>5, SameServer
<1>7. ASSUME Sent
      PROVE  /\ rd.pos = next /\ rd.uploaded = next /\ Serves(s) /\ InPlace(drv, up, s)
             /\ DOMAIN s.sess[up.f].parts = {up.part} \cup DOMAIN srv.sess[up.f].parts
  <2>1. rd.pos = next /\ rd.uploaded = next /\ up.body = Seg(base, next)
    BY <1>1, <1>2, <1>3, <1>7, Known, SentIs DEF Sent
  <2>2. up.body = Slice(up.f, up.part, up.size)
    BY <1>1, <2>1, Known, SliceIs DEF base, next
  <2> QED BY <1>1, <1>4, <2>1, <2>2, Known, TookShown DEF s
<1>8. Sent /\ Again(s, rd) => Shown
  BY <1>3, <1>5, <1>7
<1>9. ASSUME Sent, Step([To("part") EXCEPT !.part = @ + 1, !.try = 0, !.body = <<>>], s, rd)
      PROVE  Shown
  <2> DEFINE part == up.part + 1  u == [To("part") EXCEPT !.part = part, !.try = 0, !.body = <<>>]
  <2>1. To("part") \in Ongoing /\ To("part").pc = "part" /\ \A x \in Rest : To("part")[x] = up[x]
    BY ToIs DEF PCs
  <2>2. u = [To("part") EXCEPT !.part = @ + 1, !.try = 0, !.body = <<>>]
    BY <2>1 DEF Ongoing, Rest
  <2>3. /\ part \in Nat \ {0} /\ part - 1 = up.part /\ 0 \in 0..(MaxTries - 1) /\ <<>> \in Data
        /\ 1..up.part = {up.part} \cup 1..(up.part - 1)
    BY <1>1, Known, NoUpIs, UploadOpsParameters, SMTT(60) DEF Data
  <2> HIDE DEF part
  <2>4. /\ u \in Ongoing /\ u.pc = "part" /\ u.part = part /\ u.try = 0 /\ u.body = <<>>
        /\ u.f = up.f /\ u.ret = up.ret /\ u.size = up.size /\ u.left = up.left
    BY <2>1, <2>3 DEF Ongoing, Rest
  <2>5. Step(u, s, rd)
    BY <1>9, <2>2
  <2> HIDE DEF u
  <2>6. At(drv, u, s, rd, unseen)
    BY <1>1, <1>3, <1>7, <1>9, <2>3, <2>4 DEF At, QuarkAt, Cloud, n, next
  <2>7. InPlace(drv, u, s)
    BY <1>7, <1>9, <2>4 DEF InPlace
  <2>8. OneSession(drv, u, s)
    BY <1>1, <1>4, <1>7, <1>9, <2>4 DEF OneSession, Serves, IInv, Inv
  <2> QED BY <1>1, <1>4, <1>7, <1>9, <2>4, <2>5, <2>6, <2>7, <2>8, Known, Moves
<1> QED BY <1>6, <1>8, <1>9 DEF FileUpPart, s

\* FileUpCommit joins the parts: they are all there.
LEMMA CommitShown ==
  ASSUME IInv, FileUpCommit
  PROVE  Shown
<1>1. drv = "quark" /\ QuarkAt(up, srv, rd) /\ up.pc = "commit" /\ odd' \in 0..MaxOdd
  BY OnlyQuark, OddIs DEF FileUpCommit
<1>2. CASE Fails(srv)
  BY <1>1, <1>2, SameServer, FailsShown
<1>3. CASE Step(To("finish"), srv, rd)
  <2> DEFINE u == To("finish")
  <2>1. u.pc = "finish" /\ \A x \in Rest : u[x] = up[x]
    BY ToIs DEF PCs
  <2> HIDE DEF u
  <2>2. u.body = up.body /\ u.part = up.part /\ u.f = up.f /\ u.size = up.size
    BY <2>1 DEF Rest
  <2>3. At(drv, u, srv, rd, unseen)
    BY <1>1, <2>1, <2>2 DEF At, QuarkAt, Cloud
  <2>4. "finish" \in PCs \cap Places(drv)
    BY <1>1 DEF PCs, Places
  <2> QED BY <1>1, <1>3, <2>3, <2>4, Known, Goes DEF u
<1> QED BY <1>2, <1>3 DEF FileUpCommit

\* FileUpFinish publishes the file.
LEMMA FinishShown ==
  ASSUME IInv, FileUpFinish
  PROVE  Shown
<1>1. drv = "quark" /\ QuarkAt(up, srv, rd) /\ up.pc = "finish"
  BY OnlyQuark DEF FileUpFinish
<1>2. Joined(up.f, up.part - 1) = Whole(up.f)
  <2>1. up.part - 1 \in Nat /\ drv \notin Cloud
    BY <1>1, Known DEF Cloud
  <2> QED BY <1>1, <2>1, JoinedWhole DEF QuarkAt
<1> QED BY <1>1, <1>2, WholePublished, SucceedsShown, FailsShown, OddIs DEF FileUpFinish

\* Every step of quark.
LEMMA QuarkShown ==
  ASSUME IInv, QuarkUploadNext
  PROVE  Shown
BY QuarkStarts, PreShown, HashShown, NextPartShown, PutShown, CommitShown, FinishShown
DEF QuarkUploadNext

------------------------------------------------------------------------------
(* baidu, ali, ali_open: parts that are sections of the file *)

\* Places tell the driver.
LEMMA PlaceIs ==
  ASSUME IInv
  PROVE  /\ up.pc \in {"precreate", "locate"} => drv = "baidu"
         /\ up.pc = "prehash" => drv = "ali_open"
         /\ up.pc \in {"task", "s3"} => drv = "thunder"
         /\ up.pc \in {"offset", "session", "conflict", "again", "reader", "next", "after"}
              => drv \in Cloud
BY DEF IInv, Inv, Types, Places, UploadDrivers, Cloud

\* A part that is a section of the file is put: it arrives, fails, or is tried again.
LEMMA SectionShown ==
  ASSUME IInv, up.pc = "part", drv \notin Cloud, "part" \in Places(drv), NEW i \in Nat \ {0},
         NEW done \in Ongoing, done.pc = "part", done.f = up.f, done.ret = up.ret,
         done.size = up.size,
         \A s : s \in {srv, Took(up.f, i, Slice(up.f, i, up.size))} =>
           \A u \in Ongoing : /\ u.pc = "part" /\ u.try = up.try + 1 /\ u.body = <<>>
                              /\ \A x \in Rest \ {"try", "body"} : u[x] = up[x]
                              => At(drv, u, s, rd, unseen),
         At(drv, done, Took(up.f, i, Slice(up.f, i, up.size)), rd, unseen),
         PutSection(i, done)
  PROVE  Shown
<1> DEFINE s == Took(up.f, i, Slice(up.f, i, up.size))
<1>1. Serves(s) /\ InPlace(drv, up, s)
  BY TookShown
<1>2. odd' \in 0..MaxOdd
  BY OddIs DEF PutSection
<1>3. Step(done, s, rd) \/ Again(s, rd) \/ Again(srv, rd)
  BY DEF PutSection
<1>4. ASSUME NEW t \in {srv, s}, Again(t, rd) PROVE Shown
  <2>1. \A u \in Ongoing : /\ u.pc = "part" /\ u.try = up.try + 1 /\ u.body = <<>>
                           /\ \A x \in Rest \ {"try", "body"} : u[x] = up[x]
                           => At(drv, u, t, rd, unseen)
    OBVIOUS
  <2> HIDE DEF s
  <2> QED BY <1>1, <1>2, <1>4, <2>1, SameServer, AgainShown
<1>5. At(drv, done, s, rd, unseen)
  OBVIOUS
<1> HIDE DEF s
<1>6. CASE Step(done, s, rd)
  <2>1. InPlace(drv, done, s)
    BY <1>1 DEF InPlace
  <2>2. OneSession(drv, done, s)
    BY <1>1 DEF OneSession, Serves, IInv, Inv
  <2> QED BY <1>1, <1>2, <1>5, <1>6, <2>1, <2>2, Known, Moves
<1> QED BY <1>3, <1>4, <1>6

\* UploadFile of baidu_netdisk begins.
LEMMA BaiduStarts ==
  ASSUME IInv, BaiduUploadFile
  PROVE  Shown
<1>1. drv = "baidu" /\ up.pc = "start"
  BY DEF BaiduUploadFile, Start
<1>2. At(drv, To("precreate"), srv, rd, unseen)
  BY <1>1 DEF At, Cloud
<1>3. "precreate" \in PCs \cap Places(drv)
  BY <1>1 DEF PCs, Places
<1>4. Fails(srv) /\ Fine => Shown
  BY <1>1, SameServer, FailsShown, OddIs
<1>5. Start("precreate", FALSE) => Shown
  BY <1>2, <1>3, StartShown
<1> QED BY <1>4, <1>5 DEF BaiduUploadFile

\* precreate: the server has the file, or names the parts it has not.
LEMMA PrecreateShown ==
  ASSUME IInv, precreate
  PROVE  Shown
<1> DEFINE f == up.f  size == Chunk  all == 1..Count(f, size)
<1>1. drv = "baidu" /\ up.pc = "precreate"
  BY PlaceIs DEF precreate
<1>2. CASE Succeeds(Published(f, Whole(f)))
  BY <1>1, <1>2, WholePublished, SucceedsShown
<1>3. ASSUME NEW need \in SUBSET all \ {{}},
             Step([To("locate") EXCEPT !.size = size, !.todo = need],
                  [srv EXCEPT !.sess[f] =
                     [open |-> TRUE, parts |-> [i \in all \ need |-> Slice(f, i, size)]]], rd),
             Fine
      PROVE  Shown
  <2> DEFINE parts == [i \in all \ need |-> Slice(f, i, size)]
             x == [open |-> TRUE, parts |-> parts]
             s == [srv EXCEPT !.sess[f] = x]
             u == [To("locate") EXCEPT !.size = size, !.todo = need]
  <2>1. f \in Files /\ size \in Nat \ {0} /\ srv \in Server
    BY <1>1, Known, UploadOpsParameters
  <2>2. Count(f, size) \in Nat /\ all \subseteq Nat \ {0}
    BY <2>1, CountIs
  <2>3. \A i \in all \ need : Slice(f, i, size) \in Data
                              /\ Slice(f, i, size) = Seg(Base(f, i - 1, size), Base(f, i, size))
    <3> HIDE DEF f, size, all
    <3> QED BY <2>1, <2>2, PartIs, SliceIs
  <2>4. x \in Session
    <3>1. all \ need \in SUBSET (Nat \ {0}) /\ parts \in [all \ need -> Data]
      BY <2>2, <2>3
    <3>2. parts \in PartMaps
      <4> HIDE DEF parts
      <4> QED BY <3>1 DEF PartMaps
    <3> QED BY <3>2 DEF Session
  <2>5. /\ x.parts = parts /\ DOMAIN parts = all \ need
        /\ \A i \in all \ need : parts[i] = Slice(f, i, size)
    OBVIOUS
  <2> HIDE DEF x, parts
  <2>6. /\ s \in Server /\ s.file = srv.file /\ \A g \in Files : g # f => s.sess[g] = srv.sess[g]
        /\ s.sess[f] = x
    BY <2>1, <2>4 DEF Server
  <2>7. /\ To("locate") \in Ongoing /\ To("locate").pc = "locate"
        /\ \A y \in Rest : To("locate")[y] = up[y]
    BY ToIs DEF PCs
  <2>8. /\ u \in Ongoing /\ u.pc = "locate" /\ u.size = size /\ u.f = f /\ u.ret = up.ret
    <3>1. need \in SUBSET (Nat \ {0})
      BY <2>2
    <3> QED BY <2>1, <2>7, <3>1 DEF Ongoing, Rest
  <2>9. Step(u, s, rd)
    BY <1>3 DEF x, parts
  <2> HIDE DEF u, s
  <2>10. Serves(s)
    BY <2>6 DEF Serves
  <2>11. \A g \in Files : g # f => s.sess[g] = Closed
    BY <1>1, <2>6 DEF OneSession, IInv, Inv, Cloud
  <2>12. InPlace(drv, u, s) /\ OneSession(drv, u, s)
    BY <1>1, <2>3, <2>5, <2>6, <2>8, <2>11, ClosedIs DEF InPlace, OneSession, Cloud
  <2>13. At(drv, u, s, rd, unseen) /\ "locate" \in Places(drv)
    BY <1>1 DEF At, Cloud, Places
  <2> QED BY <1>1, <1>3, <2>8, <2>9, <2>10, <2>12, <2>13, Known, OddIs, Moves
<1> QED BY <1>2, <1>3 DEF precreate, getSliceSize

\* getUploadUrl changes nothing but the place.
LEMMA LocateShown ==
  ASSUME IInv, getUploadUrl
  PROVE  Shown
<1>1. drv = "baidu" /\ up.pc = "locate"
  BY PlaceIs DEF getUploadUrl
<1>2. At(drv, To("part"), srv, rd, unseen) /\ "part" \in PCs \cap Places(drv)
  BY <1>1 DEF At, Cloud, PCs, Places
<1> QED BY <1>1, <1>2, Known, OddIs, Goes DEF getUploadUrl

\* uploadSlice: each part the server has not is sent until none is left.
LEMMA SliceShown ==
  ASSUME IInv, uploadSlice
  PROVE  Shown
<1>1. drv = "baidu" /\ up.pc = "part" /\ odd' \in 0..MaxOdd
  BY OddIs DEF uploadSlice, PutSection
<1>2. \A u, s : At(drv, u, s, rd, unseen)
  BY <1>1 DEF At, Cloud
<1>3. CASE up.todo = {}
  <2>1. "create" \in PCs \cap Places(drv) /\ Step(To("create"), srv, rd)
    BY <1>1, <1>3 DEF PCs, Places, uploadSlice
  <2> QED BY <1>1, <1>2, <2>1, Known, Goes
<1>4. CASE up.todo # {}
  <2> DEFINE i == CHOOSE k \in up.todo : \A l \in up.todo : k <= l
             done == [up EXCEPT !.todo = @ \ {i}, !.try = 0]
  <2>1. PutSection(i, done) \/ Step(done, srv, rd)
    BY <1>4 DEF uploadSlice
  <2>2. up \in Ongoing /\ up.todo \in SUBSET (Nat \ {0})
    BY <1>1, Known DEF Ongoing
  <2>3. i \in Nat \ {0}
    <3>1. \E k \in up.todo : \A l \in up.todo : k <= l
      BY <1>4, <2>2, Least
    <3>2. i \in up.todo
      BY <3>1
    <3> QED BY <2>2, <3>2
  <2> HIDE DEF i
  <2>4. /\ done \in Ongoing /\ done.pc = "part" /\ done.f = up.f /\ done.ret = up.ret
        /\ done.size = up.size
    <3>1. up.todo \ {i} \in SUBSET (Nat \ {0}) /\ 0 \in 0..(MaxTries - 1)
      BY <2>2, UploadOpsParameters
    <3> QED BY <1>1, <2>2, <3>1 DEF Ongoing
  <2> HIDE DEF done
  <2>5. drv \notin Cloud /\ "part" \in Places(drv)
    BY <1>1 DEF Cloud, Places
  <2>6. CASE PutSection(i, done)
    BY <1>1, <1>2, <2>3, <2>4, <2>5, <2>6, SectionShown
  <2>7. CASE Step(done, srv, rd)
    BY <1>1, <1>2, <2>4, <2>5, <2>7, Known, SameServer, SameParts, Moves
  <2> QED BY <2>1, <2>6, <2>7
<1> QED BY <1>3, <1>4

\* create joins the parts: no part is missing.
LEMMA BaiduCreates ==
  ASSUME IInv, create
  PROVE  Shown
<1>1. drv = "baidu" /\ up.pc = "create" /\ drv \notin Cloud
  BY DEF create, Cloud
<1>2. CASE DOMAIN srv.sess[up.f].parts = 1..Count(up.f, up.size)
  <2>1. Joined(up.f, Count(up.f, up.size)) = Whole(up.f)
    BY <1>1, <1>2, Known, CountIs, JoinedWhole
  <2>2. Succeeds(Published(up.f, Whole(up.f))) \/ (Fails(Published(up.f, Whole(up.f))) /\ Costs)
    BY <1>2, <2>1 DEF create
  <2> QED BY <1>1, <2>2, WholePublished, SucceedsShown, FailsShown, OddIs
<1>3. CASE DOMAIN srv.sess[up.f].parts # 1..Count(up.f, up.size)
  BY <1>1, <1>3, SameServer, FailsShown, OddIs DEF create
<1> QED BY <1>2, <1>3

\* Every step of baidu_netdisk.
LEMMA BaiduShown ==
  ASSUME IInv, BaiduUploadNext
  PROVE  Shown
BY BaiduStarts, PrecreateShown, LocateShown, SliceShown, BaiduCreates DEF BaiduUploadNext

------------------------------------------------------------------------------
(* aliyundrive, aliyundrive_open *)

\* Other drivers' invariants say nothing of these.
LEMMA AliOnly ==
  ASSUME drv \in {"ali", "ali_open"}
  PROVE  /\ drv \notin Cloud /\ "part" \in PCs \cap Places(drv)
         /\ \A u, s, r : At(drv, u, s, r, unseen) <=> AliAt(drv, u, s)
         /\ \A u, s : u.pc # "part" => AliAt(drv, u, s)
BY DEF At, Cloud, PCs, Places, AliAt

\* A session has just been opened: no part is there, and Count of them are to be sent.
LEMMA PartsIs ==
  ASSUME IInv, up.pc # "idle", NEW n \in Nat
  PROVE  LET u == Parts(up, n)
         IN /\ u \in Ongoing /\ u.pc = "part" /\ u.f = up.f /\ u.ret = up.ret
            /\ u.left = n /\ u.part = 1 /\ u.size = Chunk
<1> DEFINE size == calPartSize(up.f)
           u == [up EXCEPT !.pc = "part", !.size = size, !.left = n, !.part = 1]
<1>1. up \in Ongoing /\ size = Chunk /\ size \in Nat \ {0}
  BY Known, UploadOpsParameters DEF calPartSize
<1>2. Parts(up, n) = u
  BY DEF Parts
<1> HIDE DEF size
<1>3. u \in Ongoing
  <2>1. "part" \in PCs /\ 1 \in Nat \ {0}
    BY DEF PCs
  <2> QED BY <1>1, <2>1 DEF Ongoing
<1>4. /\ u.pc = "part" /\ u.f = up.f /\ u.ret = up.ret /\ u.left = n /\ u.part = 1 /\ u.size = size
  BY <1>1 DEF Ongoing
<1> QED BY <1>1, <1>2, <1>3, <1>4

\* A session has been opened: the first part is next.
LEMMA PartsShown ==
  ASSUME IInv, up.pc # "idle", drv \in {"ali", "ali_open"}, odd' \in 0..MaxOdd,
         NEW n \in Nat, Base(up.f, n, Chunk) = Size[up.f],
         Step(Parts(up, n), Opened(up.f), rd)
  PROVE  Shown
<1> DEFINE u == Parts(up, n)  s == Opened(up.f)
<1>2. /\ u \in Ongoing /\ u.pc = "part" /\ u.f = up.f /\ u.ret = up.ret
      /\ u.left = n /\ u.part = 1 /\ u.size = Chunk
  BY PartsIs
<1>3. Step(u, s, rd)
  OBVIOUS
<1> HIDE DEF u
<1>4. Serves(s) /\ InPlace(drv, u, s) /\ OneSession(drv, u, s)
  BY <1>2, OpenedShown
<1>5. AliAt(drv, u, s)
  BY <1>2 DEF AliAt
<1> QED BY <1>2, <1>3, <1>4, <1>5, AliOnly, Known, Moves

\* The parts of the file in flight.
LEMMA CountKnown ==
  ASSUME IInv, up.pc # "idle"
  PROVE  /\ Count(up.f, Chunk) \in Nat /\ Base(up.f, Count(up.f, Chunk), Chunk) = Size[up.f]
         /\ Count(up.f, Chunk) = 0 => Base(up.f, 1, Chunk) = Size[up.f]
<1>1. up.f \in Files /\ Chunk \in Nat \ {0} /\ Size[up.f] \in Nat
  BY Known, UploadOpsParameters
<1>2. Count(up.f, Chunk) \in Nat /\ Base(up.f, Count(up.f, Chunk), Chunk) = Size[up.f]
  BY <1>1, CountIs
<1>3. ASSUME Count(up.f, Chunk) = 0 PROVE Base(up.f, 1, Chunk) = Size[up.f]
  <2>1. Size[up.f] = 0
    BY <1>1, <1>2, <1>3 DEF Base, MinOf
  <2> QED BY <1>1, <2>1 DEF Base, MinOf
<1> QED BY <1>2, <1>3

\* A part after which more are to come: what was there before is still there.
LEMMA NextPartIs ==
  ASSUME IInv, up.pc = "part", drv \in {"ali", "ali_open"}, up.part <= up.left,
         PutSection(up.part, [up EXCEPT !.part = @ + 1, !.try = 0])
  PROVE  Shown
<1> DEFINE i == up.part  next == up.part + 1
           s == Took(up.f, i, Slice(up.f, i, up.size))
           done == [up EXCEPT !.part = next, !.try = 0]
<1>1. up \in Ongoing /\ i \in Nat \ {0} /\ up.left \in Nat
  BY Known
<1>2. Base(up.f, up.left, up.size) = Size[up.f] /\ 1..(i - 1) \subseteq DOMAIN srv.sess[up.f].parts
  BY <1>1, AliOnly DEF AliAt, IInv, Inv
<1>3. DOMAIN s.sess[up.f].parts = {i} \cup DOMAIN srv.sess[up.f].parts
  BY <1>1, AliOnly, TookShown
<1>4. next \in Nat \ {0} /\ next - 1 = i /\ 0 \in 0..(MaxTries - 1) /\ 1..i = {i} \cup 1..(i - 1)
  BY <1>1, UploadOpsParameters
<1>5. PutSection(i, done)
  BY <1>1 DEF Ongoing
<1> HIDE DEF next
<1>6. /\ done \in Ongoing /\ done.pc = "part" /\ done.f = up.f /\ done.ret = up.ret
      /\ done.size = up.size /\ done.part = next /\ done.left = up.left
  BY <1>1, <1>4 DEF Ongoing
<1> HIDE DEF done
<1>7. AliAt(drv, done, s)
  BY <1>2, <1>3, <1>4, <1>6 DEF AliAt
<1>8. ASSUME NEW t \in {srv, s}, NEW u \in Ongoing, \A x \in Rest \ {"try", "body"} : u[x] = up[x]
      PROVE  AliAt(drv, u, t)
  <2>1. u.f = up.f /\ u.part = up.part /\ u.size = up.size /\ u.left = up.left
    BY <1>8 DEF Rest
  <2>2. DOMAIN srv.sess[up.f].parts \subseteq DOMAIN t.sess[up.f].parts
    BY <1>3
  <2> HIDE DEF s
  <2> QED BY <1>2, <2>1, <2>2 DEF AliAt
<1> HIDE DEF s
<1>9. \A t : t \in {srv, s} =>
        \A u \in Ongoing : /\ u.pc = "part" /\ u.try = up.try + 1 /\ u.body = <<>>
                           /\ \A x \in Rest \ {"try", "body"} : u[x] = up[x]
                           => At(drv, u, t, rd, unseen)
  BY <1>8, AliOnly
<1>10. At(drv, done, s, rd, unseen)
  BY <1>7, AliOnly
<1> HIDE DEF i
<1> QED BY <1>1, <1>5, <1>6, <1>9, <1>10, AliOnly, SectionShown DEF s

\* After the last part.
LEMMA AllParts ==
  ASSUME IInv, up.pc = "part", drv \in {"ali", "ali_open"}, up.part > up.left,
         drv = "ali" => srv.sess[up.f].open
  PROVE  Joined(up.f, up.left) = Whole(up.f)
<1>1. /\ up.part \in Nat \ {0} /\ up.left \in Nat /\ up.size \in Nat \ {0} /\ up.f \in Files
  BY Known
<1>4. Base(up.f, up.left, up.size) = Size[up.f] /\ 1..(up.part - 1) \subseteq DOMAIN srv.sess[up.f].parts
  BY AliOnly DEF AliAt, IInv, Inv
<1>3. 1..up.left \subseteq 1..(up.part - 1)
  BY <1>1
<1>5. 1..up.left \subseteq DOMAIN srv.sess[up.f].parts
  BY <1>3, <1>4
<1> QED BY <1>1, <1>4, <1>5, AliOnly, JoinedWhole

\* The last request of an upload: the file is there, whether the answer arrives or not.
LEMMA AliEnds ==
  ASSUME IInv, up.pc # "idle", NEW data, data = Whole(up.f),
         Succeeds(Published(up.f, data)) \/ (Fails(Published(up.f, data)) /\ Costs)
  PROVE  Shown
BY WholePublished, SucceedsShown, FailsShown, OddIs

\* preHashCreate: the server asks for the whole hash, or a session is opened.
LEMMA PreHashShown ==
  ASSUME IInv, preHashCreate
  PROVE  Shown
<1>1. drv = "ali_open" /\ up.pc = "prehash" /\ odd' \in 0..MaxOdd
  BY PlaceIs, OddIs DEF preHashCreate
<1>2. "hash" \in PCs \cap Places(drv) /\ "create" \in PCs \cap Places(drv)
  BY <1>1 DEF PCs, Places
<1>3. /\ To("hash").pc = "hash" /\ To("create").pc = "create" /\ To("create") \in Ongoing
      /\ To("create").f = up.f /\ To("create").ret = up.ret
  BY <1>2, ToIs DEF Rest
<1>4. Step(To("hash"), srv, rd) => Shown
  BY <1>1, <1>2, <1>3, AliOnly, Known, Goes
<1>5. Step(To("create"), srv, rd) => Shown
  BY <1>1, <1>2, <1>3, AliOnly, Known, Goes
<1>6. ASSUME Step(To("create"), Opened(up.f), rd) PROVE Shown
  <2> DEFINE u == To("create")  s == Opened(up.f)
  <2>1. u \in Ongoing /\ u.pc = "create" /\ u.f = up.f /\ u.ret = up.ret /\ Step(u, s, rd)
    BY <1>3, <1>6
  <2> HIDE DEF u
  <2>2. Serves(s) /\ InPlace(drv, u, s) /\ OneSession(drv, u, s)
    BY <1>1, <2>1, OpenedShown
  <2> HIDE DEF s
  <2> QED BY <1>1, <1>2, <2>1, <2>2, AliOnly, Known, Moves
<1> QED BY <1>4, <1>5, <1>6 DEF preHashCreate

\* The upload urls age, or are renewed.
LEMMA AgedShown ==
  ASSUME IInv, up.pc = "part", drv = "ali_open", NEW age \in {"fresh", "old", "expired"},
         Step([up EXCEPT !.urls = age], srv, rd), odd' \in 0..MaxOdd
  PROVE  Shown
<1> DEFINE u == [up EXCEPT !.urls = age]
<1>1. /\ u \in Ongoing /\ u.pc = "part" /\ u.f = up.f /\ u.ret = up.ret /\ u.size = up.size
      /\ u.part = up.part /\ u.left = up.left
  BY Known DEF Ongoing
<1>2. Step(u, srv, rd)
  OBVIOUS
<1> HIDE DEF u
<1>3. AliAt(drv, u, srv)
  BY <1>1, AliOnly DEF AliAt, IInv, Inv
<1>4. InPlace(drv, u, srv) /\ OneSession(drv, u, srv)
  BY <1>1, SameParts
<1> QED BY <1>1, <1>2, <1>3, <1>4, AliOnly, Known, SameServer, Moves

\* uploadPart: a part is sent, unless the urls are to be renewed or none is left.
LEMMA UploadPartShown ==
  ASSUME IInv, uploadPart
  PROVE  Shown
<1>1. drv = "ali_open" /\ up.pc = "part" /\ up.part <= up.left
  BY DEF uploadPart
<1>2. CASE PutSection(up.part, [up EXCEPT !.part = @ + 1, !.try = 0])
  BY <1>1, <1>2, NextPartIs
<1>3. CASE Again(srv, rd) /\ Fine
  <2>1. ASSUME NEW u \in Ongoing, \A x \in Rest \ {"try", "body"} : u[x] = up[x], u.pc = "part"
        PROVE  AliAt(drv, u, srv)
    <3>1. u.f = up.f /\ u.part = up.part /\ u.size = up.size /\ u.left = up.left
      BY <2>1 DEF Rest
    <3> QED BY <1>1, <3>1, AliOnly DEF AliAt, IInv, Inv
  <2> QED BY <1>1, <1>3, <2>1, AliOnly, SameServer, OddIs, AgainShown
<1> QED BY <1>2, <1>3 DEF uploadPart

\* Every step of aliyundrive_open.
LEMMA AliOpenShown ==
  ASSUME IInv, AliOpenUploadNext
  PROVE  Shown
<1>1. ASSUME AliOpenUploadFile PROVE Shown
  <2>1. drv = "ali_open" /\ \E w \in {"prehash", "create"} : Start(w, FALSE)
    BY <1>1 DEF AliOpenUploadFile
  <2>2. PICK w \in {"prehash", "create"} : Start(w, FALSE)
    BY <2>1
  <2>3. w \in PCs \cap Places(drv) /\ w \notin {"idle", "start", "part"}
    BY <2>1 DEF PCs, Places
  <2>4. To(w).pc = w
    BY <2>3, ToIs
  <2> QED BY <2>1, <2>2, <2>3, <2>4, AliOnly, StartShown
<1>2. ASSUME hashCreate PROVE Shown
  <2>1. up.pc = "hash" /\ drv = "ali_open" /\ (Fine => odd' \in 0..MaxOdd)
    BY <1>2, OddIs DEF hashCreate
  <2>2. Count(up.f, Chunk) \in Nat /\ Base(up.f, Count(up.f, Chunk), Chunk) = Size[up.f]
    BY <2>1, CountKnown
  <2> QED BY <1>2, <2>1, <2>2, AliEnds, PartsShown DEF hashCreate, calPartCount
<1>3. ASSUME createFile PROVE Shown
  <2>1. Count(up.f, Chunk) \in Nat /\ Base(up.f, Count(up.f, Chunk), Chunk) = Size[up.f]
    BY <1>3, CountKnown DEF createFile
  <2> QED BY <1>3, <2>1, OddIs, PartsShown DEF createFile, calPartCount
<1>4. ASSUME UrlsAge PROVE Shown
  BY <1>4, OddIs, AgedShown DEF UrlsAge
<1>5. ASSUME renewUrls PROVE Shown
  BY <1>5, OddIs, AgedShown DEF renewUrls
<1>6. ASSUME completeUpload PROVE Shown
  BY <1>6, AllParts, AliEnds DEF completeUpload
<1> QED BY <1>1, <1>2, <1>3, <1>4, <1>5, <1>6, PreHashShown, UploadPartShown DEF AliOpenUploadNext

\* createWithFolders: a session is opened, or there is none and no part is sent.
LEMMA WithFoldersShown ==
  ASSUME IInv, createWithFolders
  PROVE  Shown
<1>1. drv = "ali" /\ up.pc = "create" /\ odd' \in 0..MaxOdd
  BY OddIs DEF createWithFolders
<1> DEFINE n == Count(up.f, Chunk)  m == IF n = 0 THEN 1 ELSE n
<1>4. m \in Nat /\ Base(up.f, m, Chunk) = Size[up.f]
  BY <1>1, CountKnown
<1>5. createWithFolders => \/ Step(Parts(up, m), Opened(up.f), rd)
                            \/ Step(Parts(up, 0), srv, rd)
  BY DEF createWithFolders
<1> HIDE DEF m
<1>2. Step(Parts(up, m), Opened(up.f), rd) => Shown
  BY <1>1, <1>4, PartsShown
<1>3. ASSUME Step(Parts(up, 0), srv, rd) PROVE Shown
  <2> DEFINE u == Parts(up, 0)
  <2>1. /\ u \in Ongoing /\ u.pc = "part" /\ u.f = up.f /\ u.ret = up.ret /\ u.left = 0
    BY <1>1, PartsIs
  <2>2. Step(u, srv, rd)
    BY <1>3
  <2> HIDE DEF u
  <2>3. up.f \in Files /\ \A f \in Files : srv.sess[f] = Closed
    BY <1>1 DEF IInv, Inv, Types, OneSession, Cloud
  <2>4. AliAt(drv, u, srv)
    BY <1>1, <2>1, <2>3, ClosedIs DEF AliAt
  <2>5. InPlace(drv, u, srv) /\ OneSession(drv, u, srv)
    BY <2>3, ClosedIs DEF InPlace, OneSession
  <2> QED BY <1>1, <2>1, <2>2, <2>4, <2>5, AliOnly, Known, SameServer, Moves
<1> QED BY <1>2, <1>3, <1>5

\* Every step of aliyundrive.
LEMMA AliShown ==
  ASSUME IInv, AliUploadNext
  PROVE  Shown
<1>1. ASSUME AliUploadFile PROVE Shown
  <2>1. drv = "ali" /\ Start("create", FALSE)
    BY <1>1 DEF AliUploadFile
  <2>2. "create" \in PCs \cap Places(drv) /\ To("create").pc = "create"
    BY <2>1, ToIs DEF PCs, Places
  <2> QED BY <2>1, <2>2, AliOnly, StartShown
<1>2. ASSUME putPart PROVE Shown
  BY <1>2, NextPartIs DEF putPart
<1>3. ASSUME complete PROVE Shown
  BY <1>3, AllParts, AliEnds, SameServer, FailsShown, OddIs DEF complete
<1> QED BY <1>1, <1>2, <1>3, WithFoldersShown DEF AliUploadNext

------------------------------------------------------------------------------
(* thunder, and the steps of every driver *)

\* Other drivers' invariants say nothing of thunder_browser.
LEMMA ThunderOnly ==
  ASSUME drv = "thunder"
  PROVE  /\ drv \notin Cloud /\ {"task", "s3"} \subseteq PCs \cap Places(drv)
         /\ \A u, s, r : At(drv, u, s, r, unseen)
BY DEF At, Cloud, PCs, Places

\* uploadTask: the server has the file, or wants it.
LEMMA ThunderTaskShown ==
  ASSUME IInv, uploadTask
  PROVE  Shown
<1>1. drv = "thunder" /\ up.pc = "task" /\ odd' \in 0..MaxOdd
  BY PlaceIs, OddIs DEF uploadTask
<1>2. CASE Step(To("s3"), srv, rd)
  BY <1>1, <1>2, ThunderOnly, Known, Goes
<1>3. CASE End("ok", Published(up.f, Whole(up.f))) /\ UNCHANGED <<local, cc>>
  BY <1>1, <1>3, WholePublished, EndedShown DEF End, conf, IInv, Inv, Types
<1> QED BY <1>2, <1>3 DEF uploadTask

\* s3Upload sends the whole file or fails.
LEMMA S3Shown ==
  ASSUME IInv, s3Upload
  PROVE  Shown
<1> DEFINE s == Published(up.f, Whole(up.f))
<1>1. drv = "thunder" /\ up.pc = "s3" /\ odd' \in 0..MaxOdd
  BY PlaceIs, OddIs DEF s3Upload, RemoveLocal, RemoveLocalFails
<1>2. Serves(s) /\ InPlace(drv, up, s) /\ s.file[up.f] = Whole(up.f)
  BY <1>1, WholePublished
<1>3. \/ End("ok", s) /\ RemoveLocal /\ UNCHANGED cc
      \/ Fails(s) \/ Fails(srv)
  BY DEF s3Upload, RemoveLocalFails, Fails
<1> HIDE DEF s
<1>4. CASE Fails(s) \/ Fails(srv)
  BY <1>1, <1>2, <1>4, SameServer, FailsShown
<1>5. CASE End("ok", s) /\ RemoveLocal /\ UNCHANGED cc
  BY <1>1, <1>2, <1>5, EndedShown DEF End, RemoveLocal, conf, IInv, Inv, Types
<1> QED BY <1>3, <1>4, <1>5

\* Every step of thunder_browser.
LEMMA ThunderShown ==
  ASSUME IInv, ThunderUploadNext
  PROVE  Shown
<1>1. ASSUME ThunderUploadFile PROVE Shown
  <2>1. drv = "thunder" /\ up.pc = "start" /\ ((Fails(srv) /\ Fine) \/ Start("task", TRUE))
    BY <1>1 DEF ThunderUploadFile
  <2>2. "task" \in PCs \cap Places(drv)
    BY <2>1, ThunderOnly
  <2> QED BY <2>1, <2>2, ThunderOnly, StartShown, SameServer, FailsShown, OddIs
<1> QED BY <1>1, ThunderTaskShown, S3Shown DEF ThunderUploadNext

\* A request fails, and with it the call.
LEMMA RequestFailsShown ==
  ASSUME IInv, up.pc # "idle", RequestFails
  PROVE  Shown
BY SameServer, FailsShown, OddIs DEF RequestFails

\* The caller cancels; the call itself notices later.
LEMMA CancelShown ==
  ASSUME IInv, Cancel
  PROVE  Shown
<1> DEFINE u == [up EXCEPT !.cancelled = TRUE]
<1>1. up.pc # "idle" /\ odd' \in 0..MaxOdd /\ Step(u, srv, rd)
  BY OddIs DEF Cancel, Idle
<1>2. up \in Ongoing /\ At(drv, up, srv, rd, unseen)
  BY <1>1, Known
<1>3. u \in Ongoing /\ u.pc = up.pc /\ \A x \in Rest \ {"cancelled"} : u[x] = up[x]
  BY <1>2 DEF Ongoing, Rest
<1> HIDE DEF u
<1>4. /\ u.f = up.f /\ u.ret = up.ret /\ u.size = up.size /\ u.part = up.part /\ u.try = up.try
      /\ u.left = up.left /\ u.saved = up.saved /\ u.body = up.body
  BY <1>3 DEF Rest
<1>5. At(drv, u, srv, rd, unseen)
  <2>2. drv = "quark" => QuarkAt(u, srv, rd)
    BY <1>2, <1>3, <1>4 DEF At, QuarkAt
  <2>3. drv \in {"ali", "ali_open"} => AliAt(drv, u, srv)
    BY <1>2, <1>3, <1>4 DEF At, AliAt
  <2>4. drv \in Cloud => CloudAt(drv, u, srv, rd, unseen)
    BY <1>2, <1>3, <1>4 DEF At, CloudAt
  <2> QED BY <2>2, <2>3, <2>4 DEF At
<1>6. InPlace(drv, u, srv) /\ OneSession(drv, u, srv)
  BY <1>3, <1>4 DEF InPlace, OneSession, IInv, Inv
<1> QED BY <1>1, <1>3, <1>4, <1>5, <1>6, Known, SameServer, Moves

\* The body of a part is read, a piece at a time.
LEMMA ReadShown ==
  ASSUME IInv, ReadBody
  PROVE  Shown
<1>1. up.pc = "put" /\ odd' \in 0..MaxOdd
  BY OddIs DEF ReadBody
<1>2. PICK n \in 1..Readable(rd) :
        Step([up EXCEPT !.body = @ \o SubSeq(Whole(up.f), rd.pos + 1, rd.pos + n)], srv, Read(rd, n))
  BY DEF ReadBody
<1> DEFINE body == up.body \o SubSeq(Whole(up.f), rd.pos + 1, rd.pos + n)
           u == [up EXCEPT !.body = body]
           r == Read(rd, n)
           base == IF drv = "quark" THEN Base(up.f, up.part - 1, up.size) ELSE up.left
<1>3. drv = "quark" \/ drv \in Cloud
  BY <1>1 DEF IInv, Inv, Types, Places, UploadDrivers, Cloud
<1>4. /\ up \in Ongoing /\ up.f \in Files /\ rd \in Reader /\ up.left \in Nat
      /\ up.size \in Nat \ {0} /\ up.part \in Nat \ {0} /\ up.ret = "none" /\ up.pc \in Places(drv)
  BY <1>1, Known
<1>5. base \in Nat
  <2>1. Base(up.f, up.part - 1, up.size) \in Nat
    BY <1>4, PartIs
  <2> QED BY <1>4, <2>1
<1>6. Reading(up.body, rd, base) /\ rd.total = Size[up.f]
  BY <1>1, <1>3 DEF IInv, Inv, At, QuarkAt, CloudAt, Cloud
<1>7. Step(u, srv, r)
  BY <1>2, <1>4 DEF Ongoing
<1> HIDE DEF base
<1>8. /\ r \in Reader /\ Reading(body, r, base) /\ body \in Data
      /\ r.total = rd.total /\ r.chunk = rd.chunk /\ r.uploaded <= r.total
      /\ (rd.finish => rd.uploaded = rd.total) => (r.finish => r.uploaded = r.total)
  BY <1>4, <1>5, <1>6, ReadReads
<1> HIDE DEF r, body
<1>11. /\ u \in Ongoing /\ u.pc = up.pc /\ u.body = body
       /\ \A x \in Rest \ {"body"} : u[x] = up[x]
  BY <1>4, <1>8 DEF Ongoing, Rest
<1> HIDE DEF u
<1>12. /\ u.f = up.f /\ u.ret = up.ret /\ u.size = up.size /\ u.part = up.part /\ u.try = up.try
       /\ u.left = up.left /\ u.saved = up.saved
  BY <1>11 DEF Rest
<1>13. Reading(u.body, r, base)
  BY <1>8, <1>11
<1>14. At(drv, u, srv, r, unseen)
  <2>1. CASE drv = "quark"
    <3>1. QuarkAt(up, srv, rd) /\ base = Base(u.f, u.part - 1, u.size)
      BY <1>1, <1>12, <2>1, OnlyQuark DEF base
    <3>2. QuarkAt(u, srv, r)
      BY <1>1, <1>8, <1>11, <1>12, <1>13, <3>1 DEF QuarkAt
    <3> QED BY <2>1, <3>2 DEF At, Cloud
  <2>2. CASE drv \in Cloud
    <3>1. CloudAt(drv, up, srv, rd, unseen) /\ base = u.left
      BY <1>1, <1>12, <2>2 DEF IInv, Inv, At, Cloud, base
    <3>2. CloudAt(drv, u, srv, r, unseen)
      BY <1>1, <1>8, <1>11, <1>12, <1>13, <3>1 DEF CloudAt
    <3> QED BY <2>2, <3>2 DEF At, Cloud
  <2> QED BY <1>3, <2>1, <2>2
<1>15. InPlace(drv, u, srv) /\ OneSession(drv, u, srv)
  BY <1>1, <1>11, <1>12, SameParts
<1> QED BY <1>1, <1>4, <1>7, <1>8, <1>11, <1>12, <1>14, <1>15, SameServer, Moves

------------------------------------------------------------------------------
(* cloudreve, onedrive *)

\* The invariant, of cloudreve and onedrive.
LEMMA CloudOnly ==
  ASSUME drv \in Cloud
  PROVE  /\ \A u, s, r, un : At(drv, u, s, r, un) <=> CloudAt(drv, u, s, r, un)
         /\ \A u, s : OneSession(drv, u, s)
         /\ \A u, v, s : InPlace(drv, u, s) => InPlace(drv, v, s)
         /\ {"offset", "session", "conflict", "again", "reader", "next", "put", "after"}
              \subseteq PCs \cap Places(drv)
BY DEF At, Cloud, OneSession, InPlace, PCs, Places

\* Steps that change the cached keys or leave a refusal unseen.
LEMMA CloudMoves ==
  ASSUME IInv, up.pc # "idle", drv \in Cloud, NEW u \in Ongoing, NEW s, NEW r \in Reader,
         up' = u, srv' = s, rd' = r, UNCHANGED <<conf, local>>,
         DOMAIN cc' = Files, \A f \in Files : cc'[f] \in Keys(f), odd' \in 0..MaxOdd,
         Serves(s), r.uploaded <= r.total, u.f = up.f, u.ret = up.ret, u.pc # "idle",
         u.pc \in Places(drv), InPlace(drv, u, s), CloudAt(drv, u, s, r, unseen'),
         unseen' = unseen \/ (unseen' = unseen \cup {up.f} /\ s = srv)
  PROVE  Shown
<1>1. WholeOrNone(s) /\ s \in Server
  BY DEF Serves, WholeOrNone, IInv, Inv, Types, Server
<1>2. unseen' \subseteq Files /\ u.f \in Files /\ u.ret = "none"
  BY Known DEF IInv
<1>3. Types(drv, u, s, r, cc')
  BY <1>1, <1>2 DEF Types
<1>4. Inv(drv, u, s, r, cc', unseen')
  BY <1>1, <1>3, CloudOnly DEF Inv
<1>5. IInv'
  BY <1>2, <1>4 DEF IInv, conf
<1>6. Moved
  BY DEF Moved
<1> QED BY <1>5, <1>6 DEF Shown, Outcome, conf

\* The cached keys have the types of Keys.
LEMMA KeysAre ==
  ASSUME IInv, NEW f \in Files
  PROVE  /\ cc[f] \in Keys(f) /\ DOMAIN cc = Files /\ NoKeys \in Keys(f) /\ NoKeys.errs = 0
         /\ cc[f].errs \in 0..MaxErrs /\ cc[f].chunk \in {NoChunk} \cup 0..Size[f]
<1>1. cc[f] \in Keys(f) /\ DOMAIN cc = Files
  BY DEF IInv, Inv, Types
<1>2. NoKeys \in Keys(f) /\ NoKeys.errs = 0
  BY DEF NoKeys, Keys, MaxErrs
<1> QED BY <1>1, <1>2 DEF Keys

\* A step to another place between the beginning and the first chunk.
LEMMA CloudGoes ==
  ASSUME IInv, drv \in Cloud, up.pc \in {"session", "conflict", "again"}, odd' \in 0..MaxOdd,
         NEW w \in {"conflict", "again", "reader"}, NEW s, Serves(s), InPlace(drv, up, s),
         up' = To(w), srv' = s, UNCHANGED <<conf, local, unseen, rd>>,
         DOMAIN cc' = Files, \A f \in Files : cc'[f] \in Keys(f)
  PROVE  Shown
<1> DEFINE u == To(w)
<1>1. w \in PCs /\ w \in Places(drv)
  BY CloudOnly
<1>2. u \in Ongoing /\ u.pc = w /\ u.f = up.f /\ u.ret = up.ret /\ u.saved = up.saved
  BY <1>1, ToIs DEF Rest
<1>3. up' = u
  OBVIOUS
<1> HIDE DEF u
<1>4. up.saved <= Size[up.f]
  BY CloudOnly, Known DEF CloudAt
<1>5. CloudAt(drv, u, s, rd, unseen)
  BY <1>2, <1>4 DEF CloudAt
<1>6. InPlace(drv, u, s)
  BY CloudOnly
<1> QED BY <1>1, <1>2, <1>3, <1>5, <1>6, CloudMoves, Known

\* UploadFile of cloudreve begins.
LEMMA CloudStarts ==
  ASSUME IInv, CloudreveUploadFile
  PROVE  Shown
<1>1. drv \in Cloud /\ up.pc = "start" /\ odd' \in 0..MaxOdd
  BY OddIs DEF CloudreveUploadFile, IsCloudreve, Cloud
<1>2. CASE Fails(srv)
  BY <1>1, <1>2, SameServer, FailsShown
<1>3. CASE /\ up' = To("offset") /\ cc' = IF up.resumable THEN cc ELSE [cc EXCEPT ![up.f] = NoKeys]
           /\ UNCHANGED <<srv, rd>> /\ Keeps
  <2> DEFINE u == To("offset")
  <2>1. "offset" \in PCs /\ "offset" \in Places(drv)
    BY <1>1, CloudOnly
  <2>2. u \in Ongoing /\ u.pc = "offset" /\ u.f = up.f /\ u.ret = up.ret
    BY <2>1, ToIs DEF Rest
  <2> HIDE DEF u
  <2>3. DOMAIN cc' = Files /\ \A f \in Files : cc'[f] \in Keys(f)
    BY <1>1, <1>3, KeysAre, Known
  <2>4. CloudAt(drv, u, srv, rd, unseen) /\ InPlace(drv, u, srv)
    BY <1>1, <2>2, CloudOnly, SameServer DEF CloudAt
  <2> QED BY <1>1, <1>3, <2>1, <2>2, <2>3, <2>4, CloudMoves, Known, SameServer DEF Keeps, u
<1> QED BY <1>2, <1>3 DEF CloudreveUploadFile

\* uploadedSize: the cached offset, if there is one.
LEMMA OffsetShown ==
  ASSUME IInv, uploadedSize
  PROVE  Shown
<1> DEFINE saved == IF cc[up.f].chunk = NoChunk THEN 0 ELSE cc[up.f].chunk
           u == [To("session") EXCEPT !.saved = saved]
<1>1. drv \in Cloud /\ up.pc = "offset" /\ odd' \in 0..MaxOdd /\ Step(u, srv, rd)
  BY PlaceIs, OddIs DEF uploadedSize
<1>2. saved \in Nat /\ saved <= Size[up.f]
  <2>1. cc[up.f].chunk \in {NoChunk} \cup 0..Size[up.f] /\ Size[up.f] \in Nat
    BY <1>1, KeysAre, Known
  <2> QED BY <2>1
<1> HIDE DEF saved
<1>3. "session" \in PCs /\ "session" \in Places(drv)
  BY <1>1, CloudOnly
<1>4. /\ To("session") \in Ongoing /\ To("session").pc = "session"
      /\ \A x \in Rest : To("session")[x] = up[x]
  BY <1>3, ToIs
<1>5. u \in Ongoing /\ u.pc = "session" /\ u.f = up.f /\ u.ret = up.ret /\ u.saved = saved
  BY <1>2, <1>4 DEF Ongoing, Rest
<1> HIDE DEF u
<1>6. At(drv, u, srv, rd, unseen)
  BY <1>1, <1>2, <1>5, CloudOnly DEF CloudAt
<1> QED BY <1>1, <1>3, <1>5, <1>6, CloudOnly, Known, SameServer, Moves

\* A session is opened and its key cached.
LEMMA OpenShown ==
  ASSUME IInv, drv \in Cloud, up.pc \in {"session", "again"}, Open(up.f), Fine
  PROVE  Shown
<1>1. Serves(Opened(up.f)) /\ InPlace(drv, up, Opened(up.f))
  BY OpenedShown
<1>2. DOMAIN cc' = Files /\ \A f \in Files : cc'[f] \in Keys(f)
  <2>1. cc' = [cc EXCEPT ![up.f].session = "kept"]
    BY DEF Open
  <2>2. ASSUME NEW f \in Files PROVE cc'[f] \in Keys(f)
    BY <2>1, KeysAre DEF Keys
  <2> QED BY <2>1, <2>2, KeysAre, Known
<1> QED BY <1>1, <1>2, OddIs, CloudGoes DEF Open, Keeps

\* fileUploadGetUploadSession: the cached session, a new one, or a conflict.
LEMMA SessionShown ==
  ASSUME IInv, fileUploadGetUploadSession
  PROVE  Shown
<1>1. drv \in Cloud /\ up.pc = "session" /\ odd' \in 0..MaxOdd
  BY PlaceIs, OddIs DEF fileUploadGetUploadSession
<1>2. ASSUME NEW w \in {"conflict", "reader"}, Step(To(w), srv, rd) PROVE Shown
  <2>1. DOMAIN cc' = Files /\ \A f \in Files : cc'[f] \in Keys(f)
    BY <1>2 DEF Step, IInv, Inv, Types
  <2>2. up' = To(w) /\ srv' = srv /\ UNCHANGED <<conf, local, unseen, rd>>
    BY <1>2 DEF Step
  <2> QED BY <1>1, <2>1, <2>2, SameServer, CloudGoes
<1>3. Fails(srv) => Shown
  BY <1>1, SameServer, FailsShown
<1>4. Fails(Opened(up.f)) => Shown
  BY <1>1, OpenedShown, FailsShown
<1>5. Open(up.f) /\ Fine => Shown
  BY <1>1, OpenShown
<1> QED BY <1>2, <1>3, <1>4, <1>5 DEF fileUploadGetUploadSession

\* Sessions that end leave every part in place.
LEMMA EndsShown ==
  ASSUME IInv, drv \in Cloud, NEW fs
  PROVE  Serves(Ends(fs)) /\ InPlace(drv, up, Ends(fs))
<1>1. /\ Ends(fs) \in Server /\ Ends(fs).file = srv.file
      /\ \A g \in Files : Ends(fs).sess[g] \in {srv.sess[g], Closed}
  BY EndsIs DEF IInv, Inv, Types
<1>2. Serves(Ends(fs))
  BY <1>1 DEF Serves
<1>3. InPlace(drv, up, Ends(fs))
  BY <1>1, ClosedIs DEF InPlace, IInv, Inv
<1> QED BY <1>2, <1>3

\* fileUploadDeleteAllUploadSession ends all sessions.
LEMMA ConflictShown ==
  ASSUME IInv, fileUploadDeleteAllUploadSession
  PROVE  Shown
<1>1. drv \in Cloud /\ up.pc = "conflict" /\ odd' \in 0..MaxOdd
  BY PlaceIs, OddIs DEF fileUploadDeleteAllUploadSession
<1>2. PICK s \in {srv, Ends(Files)} : Step(To("again"), s, rd)
  BY DEF fileUploadDeleteAllUploadSession
<1>3. Serves(s) /\ InPlace(drv, up, s)
  BY <1>1, <1>2, SameServer, EndsShown
<1>4. DOMAIN cc' = Files /\ \A f \in Files : cc'[f] \in Keys(f)
  BY <1>2 DEF Step, IInv, Inv, Types
<1>5. up' = To("again") /\ srv' = s /\ UNCHANGED <<conf, local, unseen, rd>>
  BY <1>2 DEF Step
<1> QED BY <1>1, <1>3, <1>4, <1>5, CloudGoes

\* The session is asked for a second time.
LEMMA SecondShown ==
  ASSUME IInv, sessionAgain
  PROVE  Shown
<1>1. drv \in Cloud /\ up.pc = "again" /\ odd' \in 0..MaxOdd
  BY PlaceIs, OddIs DEF sessionAgain
<1> QED BY <1>1, SameServer, FailsShown, OpenShown DEF sessionAgain

\* The reader is made, at the cached offset.
LEMMA ChunkSizeShown ==
  ASSUME IInv, chunkSize
  PROVE  Shown
<1>1. drv \in Cloud /\ up.pc = "reader" /\ odd' \in 0..MaxOdd
  BY PlaceIs, OddIs DEF chunkSize
<1>2. PICK n \in PartSizes :
       LET size == IF drv = "onedrive" THEN MinOf(n, Chunk) ELSE n
       IN Step([To("next") EXCEPT !.size = size], srv, NewProcessReader(Size[up.f], size, up.saved))
  BY DEF chunkSize
<1> DEFINE size == IF drv = "onedrive" THEN MinOf(n, Chunk) ELSE n
           u == [To("next") EXCEPT !.size = size]
           r == NewProcessReader(Size[up.f], size, up.saved)
<1>3. Step(u, srv, r)
  BY <1>2
<1>4. size \in Nat \ {0}
  BY UploadOpsParameters DEF MinOf
<1> HIDE DEF size
<1>5. "next" \in PCs /\ "next" \in Places(drv)
  BY <1>1, CloudOnly
<1>6. To("next") \in Ongoing /\ To("next").pc = "next" /\ \A x \in Rest : To("next")[x] = up[x]
  BY <1>5, ToIs
<1>7. u \in Ongoing /\ u.pc = "next" /\ u.f = up.f /\ u.ret = up.ret /\ u.size = size
  BY <1>4, <1>6 DEF Ongoing, Rest
<1> HIDE DEF u
<1>8. up.saved <= Size[up.f] /\ up.saved \in Nat /\ Size[up.f] \in Nat
  BY <1>1, CloudOnly, Known DEF CloudAt
<1>9. /\ r \in Reader /\ r.uploaded = up.saved /\ r.pos = up.saved /\ r.total = Size[up.f]
      /\ r.chunk = size /\ r.finish = FALSE
  BY <1>4, <1>8 DEF NewProcessReader, Reader
<1> HIDE DEF r
<1>10. At(drv, u, srv, r, unseen)
  BY <1>1, <1>7, <1>9, CloudOnly DEF CloudAt
<1> QED BY <1>1, <1>3, <1>5, <1>7, <1>8, <1>9, <1>10, CloudOnly, Known, SameServer, Moves

\* The next chunk, or the end of the file.
LEMMA NextChunkShown ==
  ASSUME IInv, nextChunk
  PROVE  Shown
<1> DEFINE u == [To("put") EXCEPT !.body = <<>>, !.left = rd.uploaded]
           r == NextChunk(rd)
<1>1. drv \in Cloud /\ up.pc = "next" /\ odd' \in 0..MaxOdd /\ Step(u, srv, r)
  BY PlaceIs, OddIs DEF nextChunk
<1>2. "put" \in PCs /\ "put" \in Places(drv)
  BY <1>1, CloudOnly
<1>3. To("put") \in Ongoing /\ To("put").pc = "put" /\ \A x \in Rest : To("put")[x] = up[x]
  BY <1>2, ToIs
<1>4. /\ rd \in Reader /\ rd.uploaded \in Nat /\ rd.uploaded <= rd.total
      /\ rd.pos = rd.uploaded /\ ~rd.finish /\ rd.total = Size[up.f] /\ rd.chunk = up.size
  BY <1>1, CloudOnly, Known DEF CloudAt, Reader
<1>5. /\ u \in Ongoing /\ u.pc = "put" /\ u.f = up.f /\ u.ret = up.ret /\ u.size = up.size
      /\ u.body = <<>> /\ u.left = rd.uploaded
  <2>1. <<>> \in Data
    BY NoUpIs DEF Ongoing
  <2> QED BY <1>3, <1>4, <2>1 DEF Ongoing, Rest
<1> HIDE DEF u
<1>6. /\ r \in Reader /\ Reading(<<>>, r, rd.uploaded) /\ r.total = rd.total /\ r.chunk = rd.chunk
      /\ r.uploaded = rd.uploaded /\ r.finish = rd.finish
  BY <1>4, NextChunkReads
<1> HIDE DEF r
<1>7. At(drv, u, srv, r, unseen)
  BY <1>1, <1>4, <1>5, <1>6, CloudOnly DEF CloudAt
<1> QED BY <1>1, <1>2, <1>4, <1>5, <1>6, <1>7, CloudOnly, Known, SameServer, Moves

\* What a session holds is a beginning of the file.
LEMMA GotIs ==
  ASSUME IInv, drv \in Cloud, NEW f \in Files
  PROVE  LET m == Len(Got(f)) IN m \in Nat /\ m <= Size[f] /\ Got(f) = Seg(0, m)
<1> DEFINE p == srv.sess[f].parts
<1>1. Size[f] \in Nat
  BY SizeIs
<1>2. CASE p = <<>>
  <2>1. Got(f) = <<>> /\ Seg(0, 0) = <<>>
    BY <1>2 DEF Got, Seg
  <2> QED BY <1>1, <2>1
<1>3. CASE p # <<>>
  <2>1. \A i \in DOMAIN p : i = 1 /\ Len(p[i]) <= Size[f] /\ p[i] = Seg(0, Len(p[i]))
    BY DEF IInv, Inv, InPlace
  <2>2. p \in PartMaps
    BY DEF IInv, Inv, Types, Server, Session
  <2> HIDE DEF p
  <2>3. PICK D \in SUBSET (Nat \ {0}) : p \in [D -> Data]
    BY <2>2 DEF PartMaps
  <2>4. D # {}
    <3>1. D = {} => p = <<>>
      BY <2>3
    <3> QED BY <1>3, <3>1
  <2>5. 1 \in DOMAIN p /\ p[1] \in Data
    BY <2>1, <2>3, <2>4
  <2>6. Got(f) = p[1]
    BY <1>3 DEF Got, p
  <2>7. Len(p[1]) \in Nat
    BY <2>5 DEF Data
  <2> QED BY <2>1, <2>5, <2>6, <2>7
<1> QED BY <1>2, <1>3

\* What a chunk adds to it is the beginning up to where the reader stands.
LEMMA AcceptedIs ==
  ASSUME IInv, drv \in Cloud, up.pc = "put", Acceptable
  PROVE  /\ Serves(Accepted) /\ InPlace(drv, up, Accepted)
         /\ Accepted.sess[up.f].parts[1] = Seg(0, rd.pos)
         /\ rd.pos \in Nat /\ rd.pos <= Size[up.f]
<1> DEFINE f == up.f  m == Len(Got(f))  left == up.left  pos == rd.pos
           data == SubSeq(Got(f), 1, left) \o up.body
           s == Took(f, 1, data)
<1>1. /\ f \in Files /\ left \in Nat /\ rd \in Reader /\ srv \in Server /\ Size[f] \in Nat
      /\ rd.total = Size[f] /\ Reading(up.body, rd, left)
  BY CloudOnly, Known DEF CloudAt
<1>2. pos \in Nat /\ left <= pos /\ pos <= Size[f] /\ up.body = Seg(left, pos)
  <2>1. /\ rd.pos \in Nat /\ rd.current \in Nat /\ rd.size \in Nat /\ rd.chunk \in Nat
        /\ rd.total \in Nat
    BY <1>1 DEF Reader
  <2>2. /\ rd.pos = left + rd.current /\ rd.current <= rd.size /\ left <= rd.total
        /\ rd.size = MinOf(rd.total, left + rd.chunk) - left /\ up.body = Seg(left, rd.pos)
    BY <1>1 DEF Reading
  <2>3. left + rd.size <= rd.total
    BY <1>1, <2>1, <2>2 DEF MinOf
  <2> QED BY <1>1, <2>1, <2>2, <2>3
<1>3. m \in Nat /\ m <= Size[f] /\ Got(f) = Seg(0, m)
  BY <1>1, GotIs
<1>4. left <= m
  BY <1>1, <1>3 DEF Acceptable
<1>5. Accepted = s
  BY DEF Accepted
<1> HIDE DEF m
<1>6. data = Seg(0, left) \o Seg(left, pos)
  <2>1. SubSeq(Seg(0, m), 1, left) = Seg(0, left)
    BY <1>1, <1>3, <1>4, SubSeg
  <2> QED BY <1>2, <1>3, <2>1
<1> HIDE DEF data, f, left, pos
<1>7. data = Seg(0, pos) /\ Len(data) = pos /\ data \in Data
  <2>1. Seg(0, left) \o Seg(left, pos) = Seg(0, pos)
    <3>1. 0 \in Nat /\ 0 <= left
      BY <1>1
    <3> QED BY <1>1, <1>2, <3>1, SegsJoin
  <2>2. Seg(0, pos) \in Data /\ Len(Seg(0, pos)) = pos - 0
    <3>1. 0 \in Nat /\ 0 <= pos
      BY <1>2
    <3> QED BY <1>2, <3>1, SegIs
  <2>3. data = Seg(0, pos)
    BY <1>6, <2>1, Zenon
  <2>4. pos - 0 = pos
    BY <1>2
  <2> QED BY <2>2, <2>3, <2>4, Zenon
<1>8. /\ s \in Server /\ s.file = srv.file /\ \A g \in Files : g # f => s.sess[g] = srv.sess[g]
      /\ DOMAIN s.sess[f].parts = {1} \cup DOMAIN srv.sess[f].parts
      /\ s.sess[f].parts[1] = data
  <2>1. 1 \in Nat \ {0}
    OBVIOUS
  <2> QED BY <1>1, <1>7, <2>1, TookIs
<1> HIDE DEF s
<1>9. Serves(s)
  BY <1>8 DEF Serves
<1>10. InPlace(drv, up, s)
  <2>1. ASSUME NEW g \in Files, NEW i \in DOMAIN s.sess[g].parts
        PROVE  /\ i = 1 /\ Len(s.sess[g].parts[i]) <= Size[g]
               /\ s.sess[g].parts[i] = Seg(0, Len(s.sess[g].parts[i]))
    <3>1. CASE g # f
      BY <1>8, <2>1, <3>1 DEF IInv, Inv, InPlace
    <3>2. CASE g = f
      <4>1. i = 1
        BY <1>1, <1>8, <2>1, <3>2 DEF IInv, Inv, InPlace
      <4> QED BY <1>2, <1>7, <1>8, <3>2, <4>1
    <3> QED BY <3>1, <3>2
  <2> QED BY <2>1 DEF InPlace
<1> QED BY <1>2, <1>5, <1>7, <1>8, <1>9, <1>10 DEF f, pos

\* uploadErrAfter caches the offset, or gives the session up.
LEMMA ErrShown ==
  ASSUME IInv, drv \in Cloud, up.pc # "idle", NEW s, Serves(s), InPlace(drv, up, s),
         NEW saved \in Nat, saved <= Size[up.f], uploadErrAfter(s, saved), odd' \in 0..MaxOdd
  PROVE  Shown
<1> DEFINE f == up.f
<1>1. f \in Files /\ Size[f] \in Nat /\ s \in Server
  BY Known DEF Serves
<1>2. /\ cc[f] \in Keys(f) /\ DOMAIN cc = Files /\ NoKeys \in Keys(f) /\ cc[f].errs \in 0..MaxErrs
      /\ \A g \in Files : cc[g] \in Keys(g)
  BY <1>1, KeysAre
<1>3. CASE cc[f].errs > 3
  <2> DEFINE t == [s EXCEPT !.sess[f] = Closed]
             errs == MinOf(cc[f].errs + 1, MaxErrs)
             x == [NoKeys EXCEPT !.errs = errs]
  <2>0. Serves(s) /\ InPlace(drv, up, s)
    OBVIOUS
  <2>1. /\ t \in Server /\ t.file = s.file /\ \A g \in Files : g # f => t.sess[g] = s.sess[g]
        /\ t.sess[f] = Closed
    BY <1>1, ClosingIs
  <2>2. (End("error", t) \/ End("error", s)) /\ cc' = [cc EXCEPT ![f] = x] /\ UNCHANGED local
    BY <1>3 DEF uploadErrAfter
  <2>3. errs \in 0..MaxErrs
    BY <1>2 DEF MinOf, MaxErrs
  <2> HIDE DEF t, errs
  <2>4. x \in Keys(f)
    BY <1>2, <2>3 DEF Keys
  <2> HIDE DEF x
  <2>5. Serves(t) /\ InPlace(drv, up, t)
    <3>1. Serves(t)
      BY <2>1 DEF Serves
    <3>2. InPlace(drv, up, t)
      BY <2>1, ClosedIs DEF InPlace
    <3> QED BY <3>1, <3>2
  <2>6. DOMAIN cc' = Files /\ \A g \in Files : cc'[g] \in Keys(g)
    BY <1>2, <2>2, <2>4
  <2>7. End("error", t) => Shown
    BY <2>2, <2>5, <2>6, EndedShown DEF End, conf
  <2>8. End("error", s) => Shown
    BY <2>0, <2>2, <2>6, EndedShown DEF End, conf
  <2> QED BY <2>2, <2>7, <2>8
<1>4. CASE ~ (cc[f].errs > 3)
  <2> DEFINE errs == cc[f].errs + 1
             x == [cc[f] EXCEPT !.chunk = saved, !.errs = errs]
  <2>1. End("error", s) /\ cc' = [cc EXCEPT ![f].chunk = saved, ![f].errs = @ + 1] /\ UNCHANGED local
    BY <1>4 DEF uploadErrAfter
  <2>2. errs \in 0..MaxErrs
    BY <1>2, <1>4 DEF MaxErrs
  <2>3. cc' = [cc EXCEPT ![f] = x]
    BY <1>1, <1>2, <2>1 DEF Keys
  <2> HIDE DEF errs
  <2>4. x \in Keys(f)
    <3>1. saved \in {NoChunk} \cup 0..Size[f]
      BY <1>1
    <3>2. cc[f] \in Keys(f)
      BY <1>2
    <3> QED BY <2>2, <3>1, <3>2 DEF Keys
  <2> HIDE DEF x
  <2>5. DOMAIN cc' = Files /\ \A g \in Files : cc'[g] \in Keys(g)
    BY <1>2, <2>3, <2>4
  <2> QED BY <2>1, <2>5, EndedShown DEF End, conf
<1> QED BY <1>3, <1>4

\* What is known while a chunk is sent.
LEMMA SendingIs ==
  ASSUME IInv, drv \in Cloud, up.pc = "put"
  PROVE  /\ rd.uploaded \in Nat /\ rd.uploaded <= Size[up.f] /\ rd.total = Size[up.f]
         /\ rd.chunk = up.size /\ (rd.finish => rd.uploaded = rd.total)
         /\ Sent => rd.pos = rd.uploaded
         /\ rd.finish \in BOOLEAN
<1>1. /\ rd \in Reader /\ rd.uploaded <= rd.total /\ up.left \in Nat /\ rd.total = Size[up.f]
      /\ rd.chunk = up.size /\ Reading(up.body, rd, up.left) /\ (rd.finish => rd.uploaded = rd.total)
  BY CloudOnly, Known DEF CloudAt
<1>2. Sent => rd.pos = rd.uploaded
  BY <1>1, SentIs DEF Sent
<1> QED BY <1>1, <1>2 DEF Reader

\* A chunk that failed.
LEMMA PutFailsShown ==
  ASSUME IInv, drv \in Cloud, up.pc = "put", NEW s, Serves(s), InPlace(drv, up, s), PutFails(s),
         odd' \in 0..MaxOdd
  PROVE  Shown
BY SendingIs, ErrShown DEF PutFails

\* A chunk that was taken, or seemed to be: on to the next, or to the end.
LEMMA SentShown ==
  ASSUME IInv, drv \in Cloud, up.pc = "put", Sent, odd' \in 0..MaxOdd,
         NEW s, Serves(s), InPlace(drv, up, s),
         up' = To(AfterPut), srv' = s, UNCHANGED <<conf, local, cc, rd>>,
         unseen' = unseen \/ (unseen' = unseen \cup {up.f} /\ s = srv),
         drv = "cloudreve" /\ rd.finish => s.file[up.f] = Whole(up.f) \/ up.f \in unseen'
  PROVE  Shown
<1> DEFINE u == To(AfterPut)
<1>1. AfterPut \in {"after", "next"} /\ (AfterPut = "after" <=> rd.finish)
  BY SendingIs DEF AfterPut
<1>2. AfterPut \in PCs /\ AfterPut \in Places(drv)
  BY <1>1, CloudOnly
<1>3. /\ u \in Ongoing /\ u.pc = AfterPut /\ u.f = up.f /\ u.ret = up.ret /\ u.size = up.size
  BY <1>2, ToIs DEF Rest
<1>4. up' = u
  OBVIOUS
<1> HIDE DEF u
<1>5. CloudAt(drv, u, s, rd, unseen')
  BY <1>1, <1>3, SendingIs DEF CloudAt
<1>6. DOMAIN cc' = Files /\ \A f \in Files : cc'[f] \in Keys(f)
  BY DEF IInv, Inv, Types
<1> QED BY <1>1, <1>2, <1>3, <1>4, <1>5, <1>6, CloudMoves, CloudOnly, Known

\* oneDriveUpload puts a chunk.
LEMMA OneDriveShown ==
  ASSUME IInv, oneDriveUpload
  PROVE  Shown
<1>1. drv \in Cloud /\ drv = "onedrive" /\ up.pc = "put" /\ odd' \in 0..MaxOdd
  BY OddIs DEF oneDriveUpload, Cloud
<1>2. Serves(srv) /\ InPlace(drv, up, srv)
  BY SameServer
<1>3. Acceptable => Serves(Accepted) /\ InPlace(drv, up, Accepted)
  BY <1>1, AcceptedIs
<1>4. CASE PutFails(srv)
  BY <1>1, <1>2, <1>4, PutFailsShown
<1>5. CASE Acceptable /\ PutFails(Accepted)
  BY <1>1, <1>3, <1>5, PutFailsShown
<1>6. CASE Sent /\ Acceptable /\ Step(To(AfterPut), Accepted, rd)
  BY <1>1, <1>3, <1>6, SentShown DEF Step
<1> QED BY <1>4, <1>5, <1>6 DEF oneDriveUpload

\* notKnowUpload puts a chunk.
LEMMA NotKnowShown ==
  ASSUME IInv, notKnowUpload
  PROVE  Shown
<1> DEFINE s == IF Len(Accepted.sess[up.f].parts[1]) = Size[up.f]
                THEN Published(up.f, Accepted.sess[up.f].parts[1]) ELSE Accepted
<1>1. drv \in Cloud /\ drv = "cloudreve" /\ up.pc = "put" /\ odd' \in 0..MaxOdd
  BY OddIs, SMTT(60) DEF notKnowUpload, Cloud
<1>2. Serves(srv) /\ InPlace(drv, up, srv)
  BY SameServer
<1>3. ASSUME Acceptable
      PROVE  /\ Serves(s) /\ InPlace(drv, up, s)
             /\ rd.pos = Size[up.f] => s.file[up.f] = Whole(up.f)
  <2>1. /\ Serves(Accepted) /\ InPlace(drv, up, Accepted)
        /\ Accepted.sess[up.f].parts[1] = Seg(0, rd.pos)
        /\ rd.pos \in Nat /\ rd.pos <= Size[up.f]
    BY <1>1, <1>3, AcceptedIs
  <2>2. Len(Seg(0, rd.pos)) = rd.pos
    <3>1. 0 \in Nat /\ 0 <= rd.pos /\ rd.pos - 0 = rd.pos
      BY <2>1
    <3> QED BY <2>1, <3>1, SegIs
  <2>3. CASE rd.pos = Size[up.f]
    <3>1. s = Published(up.f, Whole(up.f))
      <4>1. Whole(up.f) = Seg(0, rd.pos)
        BY <1>1, <2>3, Known, WholeIs
      <4> QED BY <2>1, <2>2, <2>3, <4>1
    <3> HIDE DEF s
    <3> QED BY <1>1, <3>1, WholePublished
  <2>4. CASE rd.pos # Size[up.f]
    <3>1. s = Accepted
      BY <2>1, <2>2, <2>4
    <3> HIDE DEF s
    <3> QED BY <2>1, <2>4, <3>1
  <2> QED BY <2>3, <2>4
<1>4. \/ PutFails(srv)
      \/ Acceptable /\ PutFails(s)
      \/ Sent /\ Acceptable /\ Step(To(AfterPut), s, rd)
  BY DEF notKnowUpload
<1> HIDE DEF s
<1>5. CASE PutFails(srv)
  BY <1>1, <1>2, <1>5, PutFailsShown
<1>6. CASE Acceptable /\ PutFails(s)
  BY <1>1, <1>3, <1>6, PutFailsShown
<1>7. CASE Sent /\ Acceptable /\ Step(To(AfterPut), s, rd)
  <2>1. rd.finish => s.file[up.f] = Whole(up.f)
    BY <1>1, <1>3, <1>7, SendingIs
  <2> QED BY <1>1, <1>3, <1>7, <2>1, SentShown DEF Step
<1> QED BY <1>4, <1>5, <1>6, <1>7

\* A refusal that the client does not look at.
LEMMA UnseenShown ==
  ASSUME IInv, refusalUnseen
  PROVE  Shown
<1>1. /\ drv \in Cloud /\ up.pc = "put" /\ odd' \in 0..MaxOdd /\ Sent
      /\ up' = To(AfterPut) /\ srv' = srv /\ UNCHANGED <<conf, local, cc, rd>>
      /\ unseen' = unseen \cup {up.f}
  BY OddIs DEF refusalUnseen, Cloud
<1> QED BY <1>1, SameServer, SentShown

\* UploadFile returns nil, and the keys go if the request was resumable.
LEMMA StoredShown ==
  ASSUME IInv, up.pc # "idle", drv \in Cloud, NEW s, Serves(s), InPlace(drv, up, s),
         s.file[up.f] = Whole(up.f) \/ up.f \in unseen', Stored(s)
  PROVE  Shown
<1>1. odd' \in 0..MaxOdd /\ local' \in {local, local \ {up.f}} /\ End("ok", s)
  BY UploadOpsParameters DEF Stored, RemoveLocal, RemoveLocalFails, Fine, Costs, IInv
<1>2. DOMAIN cc' = Files /\ \A f \in Files : cc'[f] \in Keys(f)
  <2>1. cc' = [cc EXCEPT ![up.f] = NoKeys] \/ cc' = cc
    BY DEF Stored
  <2>2. DOMAIN cc = Files /\ \A f \in Files : cc[f] \in Keys(f)
    BY DEF IInv, Inv, Types
  <2> QED BY <2>1, <2>2, KeysAre
<1> QED BY <1>1, <1>2, EndedShown DEF End, conf

\* oneDriveCallback: the server makes the file if OneDrive has all of it.
LEMMA CallbackShown ==
  ASSUME IInv, oneDriveCallback
  PROVE  Shown
<1> DEFINE s == Published(up.f, Got(up.f))  whole == Len(Got(up.f)) = Size[up.f]
<1>1. drv \in Cloud /\ up.pc = "after"
  BY DEF oneDriveCallback, Cloud
<1>2. rd.uploaded \in Nat /\ rd.uploaded <= Size[up.f]
  BY <1>1, CloudOnly, Known DEF CloudAt, Reader
<1>3. whole => Serves(s) /\ InPlace(drv, up, s) /\ s.file[up.f] = Whole(up.f)
  <2>1. whole => Got(up.f) = Whole(up.f)
    BY <1>1, Known, GotIs, WholeIs
  <2> QED BY <1>1, <2>1, WholePublished
<1>4. \/ whole /\ Stored(s)
      \/ whole /\ uploadErrAfter(s, rd.uploaded) /\ Costs
      \/ uploadErrAfter(srv, rd.uploaded) /\ (Fine \/ Costs)
  BY DEF oneDriveCallback
<1> HIDE DEF s, whole
<1>5. CASE whole /\ Stored(s)
  BY <1>1, <1>3, <1>5, StoredShown
<1>6. CASE whole /\ uploadErrAfter(s, rd.uploaded) /\ Costs
  BY <1>1, <1>2, <1>3, <1>6, ErrShown, OddIs
<1>7. CASE uploadErrAfter(srv, rd.uploaded) /\ (Fine \/ Costs)
  BY <1>1, <1>2, <1>7, ErrShown, OddIs, SameServer
<1> QED BY <1>4, <1>5, <1>6, <1>7

\* A callback whose refusal is not seen.
LEMMA CallbackUnseenShown ==
  ASSUME IInv, callbackUnseen
  PROVE  Shown
<1>1. /\ drv \in Cloud /\ up.pc = "after" /\ odd' \in 0..MaxOdd /\ unseen' = unseen \cup {up.f}
      /\ up' = [NoUp EXCEPT !.f = up.f, !.ret = "ok"] /\ rd' = NoReader
      /\ local' \in {local, local \ {up.f}} /\ srv' = srv /\ UNCHANGED <<drv, rapid, known>>
  BY OddIs DEF callbackUnseen, Cloud, conf
<1>2. Ended(srv) = srv
  BY <1>1 DEF Ended, Cloud
<1>3. DOMAIN cc' = Files /\ \A f \in Files : cc'[f] \in Keys(f)
  <2>1. cc' = [cc EXCEPT ![up.f] = NoKeys] \/ cc' = cc
    BY DEF callbackUnseen
  <2>2. DOMAIN cc = Files /\ \A f \in Files : cc[f] \in Keys(f)
    BY DEF IInv, Inv, Types
  <2> QED BY <2>1, <2>2, KeysAre
<1> QED BY <1>1, <1>2, <1>3, SameServer, EndedShown

\* Every step of cloudreve and onedrive.
LEMMA CloudShown ==
  ASSUME IInv, CloudreveUploadNext
  PROVE  Shown
<1>1. ASSUME notKnowDone PROVE Shown
  <2>1. drv \in Cloud /\ up.pc = "after" /\ drv = "cloudreve" /\ Stored(srv)
    BY <1>1 DEF notKnowDone, Cloud
  <2>2. srv.file[up.f] = Whole(up.f) \/ up.f \in unseen
    BY <2>1, CloudOnly, Known DEF CloudAt
  <2>3. unseen' = unseen
    BY <2>1 DEF Stored, End
  <2> QED BY <2>1, <2>2, <2>3, SameServer, StoredShown
<1> QED BY <1>1, CloudStarts, OffsetShown, SessionShown, ConflictShown, SecondShown, ChunkSizeShown,
           NextChunkShown, OneDriveShown, NotKnowShown, UnseenShown, CallbackShown, CallbackUnseenShown
        DEF CloudreveUploadNext


------------------------------------------------------------------------------
(* All steps. *)

\* A call begins.
Began ==
  /\ up.pc = "idle" /\ up'.pc # "idle" /\ up'.f \in Files /\ up'.ret = "none"
  /\ UNCHANGED <<local, unseen, srv>>

\* Nothing that the promise or a walk is about.
Kept == UNCHANGED <<up, local, unseen>> /\ srv'.file = srv.file

\* UploadFile is called: the invariant holds at its beginning.
LEMMA CallShown ==
  ASSUME IInv, NEW f \in Files, NEW res \in BOOLEAN, NEW del \in BOOLEAN, NEW fast \in BOOLEAN,
         up.pc = "idle", Call(f, res, del, fast), odd' \in 0..MaxOdd,
         UNCHANGED <<conf, srv, local, unseen, rd, cc>>
  PROVE  IInv' /\ Began /\ up'.f = f
<1> DEFINE u == [NoUp EXCEPT !.pc = "start", !.f = f, !.resumable = res, !.del = del, !.fast = fast]
<1>1. up' = u
  BY DEF Call
<1>2. NoUp \in Ongoing /\ "start" \in PCs
  BY NoUpIs DEF PCs
<1>3. u \in Ongoing
  BY <1>2 DEF Ongoing
<1>4. /\ u.pc = "start" /\ u.f = f /\ u.ret = "none" /\ u.size = 1 /\ u.part = 1 /\ u.try = 0
      /\ u.body = <<>>
  BY NoUpIs DEF Ongoing
<1> HIDE DEF u
<1>5. drv \notin Cloud => \A g \in Files : srv.sess[g] = Closed
  BY DEF IInv, Inv, OneSession
<1>6. InPlace(drv, u, srv) /\ OneSession(drv, u, srv)
  BY <1>5, ClosedIs DEF InPlace, OneSession, IInv, Inv
<1>7. At(drv, u, srv, rd, unseen)
  BY <1>4 DEF At, QuarkAt, AliAt, CloudAt
<1>8. Types(drv, u, srv, rd, cc)
  BY <1>3, <1>4 DEF Types, Places, IInv, Inv
<1>9. Inv(drv, u, srv, rd, cc, unseen)
  BY <1>6, <1>7, <1>8 DEF IInv, Inv
<1>10. IInv'
  BY <1>1, <1>9 DEF IInv, conf
<1> QED BY <1>1, <1>4, <1>10 DEF Began

\* A session of the server ends, or an entry of the cache, at any time.
LEMMA ExpiresShown ==
  ASSUME IInv, SessionExpires \/ EntryExpires
  PROVE  IInv' /\ Kept
<1>1. odd' \in 0..MaxOdd
  BY OddIs DEF SessionExpires, EntryExpires
<1>2. CASE SessionExpires
  <2>1. PICK f \in Files : IsCloudreve /\ srv' = Ends({f})
    BY <1>2 DEF SessionExpires
  <2> DEFINE s == Ends({f})
  <2>2. drv \in Cloud
    BY <2>1 DEF IsCloudreve, Cloud
  <2>3. s \in Server /\ s.file = srv.file
    BY EndsIs DEF IInv, Inv, Types
  <2>4. InPlace(drv, up, s)
    BY <2>2, EndsShown
  <2>5. srv' = s
    BY <2>1
  <2> HIDE DEF s
  <2>6. up.pc # "idle" => At(drv, up, s, rd, unseen)
    BY <2>2, <2>3, CloudOnly DEF CloudAt, IInv, Inv
  <2>7. Inv(drv, up, s, rd, cc, unseen)
    BY <2>2, <2>3, <2>4, <2>6, CloudOnly DEF IInv, Inv, Types, WholeOrNone
  <2>8. UNCHANGED <<conf, local, unseen, up, rd, cc>>
    BY <1>2 DEF SessionExpires
  <2> QED BY <1>1, <2>3, <2>5, <2>7, <2>8 DEF IInv, Kept, conf
<1>3. CASE EntryExpires
  <2>1. PICK f \in Files, k \in {"session", "chunk", "errs"} :
          cc' = [cc EXCEPT ![f] = [@ EXCEPT ![k] = NoKeys[k]]]
    BY <1>3 DEF EntryExpires
  <2>2. DOMAIN cc = Files /\ \A g \in Files : cc[g] \in Keys(g)
    BY DEF IInv, Inv, Types
  <2>3. [cc[f] EXCEPT ![k] = NoKeys[k]] \in Keys(f)
    <3>1. cc[f] \in Keys(f) /\ NoKeys \in Keys(f)
      BY <2>2, KeysAre
    <3> QED BY <3>1 DEF Keys
  <2>4. DOMAIN cc' = Files /\ \A g \in Files : cc'[g] \in Keys(g)
    BY <2>1, <2>2, <2>3
  <2>5. UNCHANGED <<conf, srv, local, unseen, up, rd>>
    BY <1>3 DEF EntryExpires
  <2> QED BY <1>1, <2>4, <2>5 DEF IInv, Inv, Types, Kept, conf
<1> QED BY <1>2, <1>3

\* Every step of every driver.
LEMMA StepsShown ==
  ASSUME IInv, Steps
  PROVE  Shown /\ UNCHANGED <<walk, dirs>>
<1>1. ASSUME Asking PROVE up.pc # "idle"
  <2>1. up.urls # "fresh" /\ up.part <= up.left /\ up.try = 0 /\ up.pc = "part" => up.pc # "idle"
    OBVIOUS
  <2> QED BY <1>1 DEF Asking
<1> QED BY <1>1, RequestFailsShown, ReadShown, QuarkShown, BaiduShown, AliOpenShown, AliShown,
           CloudShown, ThunderShown
        DEF Steps

\* A step of a walk that calls nothing.
LEMMA StaysShown ==
  ASSUME IInv, UNCHANGED ovars
  PROVE  IInv' /\ Kept
BY DEF IInv, Inv, Kept, ovars

\* The head and the tail of a list hold all of it.
LEMMA HeadIs ==
  ASSUME NEW s \in Seq(Files), s # <<>>
  PROVE  /\ Head(s) \in Files /\ Tail(s) \in Seq(Files)
         /\ \A f \in Range(s) : f = Head(s) \/ f \in Range(Tail(s))
<1>1. Len(s) \in Nat /\ Len(s) >= 1 /\ DOMAIN s = 1..Len(s)
  OBVIOUS
<1>2. Head(s) = s[1] /\ Tail(s) \in Seq(Files) /\ DOMAIN Tail(s) = 1..(Len(s) - 1)
      /\ \A i \in 1..(Len(s) - 1) : Tail(s)[i] = s[i + 1]
  BY <1>1
<1>3. ASSUME NEW f \in Range(s) PROVE f = Head(s) \/ f \in Range(Tail(s))
  <2>1. PICK i \in 1..Len(s) : f = s[i]
    BY <1>1 DEF Range
  <2>2. CASE i = 1
    BY <1>2, <2>1, <2>2
  <2>3. CASE i # 1
    <3>1. i - 1 \in 1..(Len(s) - 1) /\ (i - 1) + 1 = i
      BY <1>1, <2>3
    <3>2. Tail(s)[i - 1] = f
      BY <1>2, <2>1, <3>1
    <3> QED BY <1>2, <3>1, <3>2 DEF Range
  <2> QED BY <2>2, <2>3
<1>4. Head(s) \in Files
  BY <1>1, <1>2
<1> QED BY <1>2, <1>3, <1>4

------------------------------------------------------------------------------
(* Walks. *)

Walks ==
  [on : BOOLEAN, ret : {"none", "ok", "error"}, req : Requests, skip : BOOLEAN, del : BOOLEAN,
   resumable : BOOLEAN, fast : BOOLEAN, left : Seq(Files), cur : Files \cup {NoFile},
   begin : (SUBSET Files) \X ([Files -> Data] \cup {<<>>})]

\* A file of which the caller was told that it is there.
Now(f) == srv.file[f] = Whole(f) \/ f \in unseen

WalkInv ==
  /\ walk \in Walks
  /\ \A f \in local : Dir[f] \in dirs
  /\ walk.on /\ walk.cur = NoFile => up.pc = "idle"
  /\ walk.on /\ walk.cur # NoFile =>
       /\ up.f = walk.cur /\ Wanted(walk.cur, walk.req)
       /\ up.pc = "idle" /\ up.ret = "ok" => Now(walk.cur)
  /\ walk.on => \A f \in walk.begin[1] :
       /\ f \notin local => Now(f)
       /\ ~Wanted(f, walk.req) => f \in local /\ srv.file[f] = walk.begin[2][f]
       /\ ~walk.skip /\ Wanted(f, walk.req) => Now(f) \/ f = walk.cur \/ f \in Range(walk.left)

\* What a step of a call does to files.
Progress ==
  /\ up'.f = up.f /\ local' \subseteq local
  /\ \A f \in Files : f # up.f => srv'.file[f] = srv.file[f] /\ (f \in local => f \in local')
  /\ \A f \in Files : Now(f) => Now(f)'
  /\ up.f \in local => up.f \in local' \/ Now(up.f)'
  /\ up'.pc = "idle" /\ up'.ret = "ok" => Now(up.f)'

\* A step of a call makes progress.
LEMMA Progresses ==
  ASSUME IInv, Outcome
  PROVE  Progress /\ up.pc # "idle"
<1>1. up.f \in Files /\ up.pc # "idle" /\ srv \in Server
  BY DEF Outcome, Moved, Failed, Succeeded, IInv, Inv, Types
<1>2. \A f \in Files : srv'.file[f] = srv.file[f] \/ (f = up.f /\ srv'.file[f] = Whole(f))
  BY <1>1 DEF Outcome, Moved, Failed, Succeeded, Serves, Server
<1>3. unseen \subseteq unseen'
  BY DEF Outcome, Moved, Failed, Succeeded
<1>4. \A f \in Files : Now(f) => Now(f)'
  BY <1>2, <1>3 DEF Now, Whole
<1>5. CASE Moved
  BY <1>1, <1>2, <1>4, <1>5 DEF Moved, Progress
<1>6. CASE Failed
  BY <1>1, <1>2, <1>4, <1>6 DEF Failed, Progress
<1>7. CASE Succeeded
  <2>1. Now(up.f)'
    BY <1>1, <1>7 DEF Succeeded, Now, Whole
  <2>2. local' \subseteq local /\ \A f \in Files : f # up.f => (f \in local => f \in local')
    BY <1>7 DEF Succeeded
  <2> QED BY <1>1, <1>2, <1>4, <1>7, <2>1, <2>2 DEF Succeeded, Progress
<1> QED BY <1>1, <1>5, <1>6, <1>7 DEF Outcome

\* No walk is under way.
LEMMA WalkInit ==
  ASSUME Init
  PROVE  WalkInv
<1>1. walk \in Walks
  BY UploadsParameters DEF Init, NoWalk, Walks
<1>2. \A f \in local : Dir[f] \in dirs
  BY UploadsParameters DEF Init, Range
<1> QED BY <1>1, <1>2 DEF WalkInv, Init, NoWalk

\* A step that changes nothing of the walk.
LEMMA WalkSame ==
  ASSUME IInv, WalkInv, Progress \/ Kept, up.pc # "idle" \/ Kept, UNCHANGED <<walk, dirs>>
  PROVE  WalkInv'
<1>1. CASE Kept
  <2>1. \A f : Now(f)' <=> Now(f)
    BY <1>1 DEF Kept, Now, Whole
  <2> QED BY <1>1, <2>1 DEF WalkInv, Kept, Wanted
<1>2. CASE Progress /\ up.pc # "idle"
  <2>1. walk.on => walk.cur \in Files /\ up.f = walk.cur /\ Wanted(walk.cur, walk.req)
    BY <1>2 DEF WalkInv, Walks
  <2>2. walk.on => /\ up'.f = walk.cur /\ Wanted(walk.cur, walk.req)
                   /\ up'.pc = "idle" /\ up'.ret = "ok" => Now(up.f)'
    BY <1>2, <2>1 DEF Progress
  <2>3. ASSUME walk.on, NEW f \in walk.begin[1]
        PROVE  /\ f \notin local' => Now(f)'
               /\ ~Wanted(f, walk.req) => f \in local' /\ srv'.file[f] = walk.begin[2][f]
               /\ ~walk.skip /\ Wanted(f, walk.req) => Now(f)' \/ f = walk.cur \/ f \in Range(walk.left)
    <3>1. f \in Files
      BY <2>3 DEF WalkInv, Walks
    <3>2. /\ f \notin local => Now(f)
          /\ ~Wanted(f, walk.req) => f \in local /\ srv.file[f] = walk.begin[2][f]
          /\ ~walk.skip /\ Wanted(f, walk.req) => Now(f) \/ f = walk.cur \/ f \in Range(walk.left)
      BY <2>3 DEF WalkInv
    <3>3. ~Wanted(f, walk.req) => f # up.f
      BY <1>2, <2>1, <2>3 DEF WalkInv
    <3> QED BY <1>2, <3>1, <3>2, <3>3 DEF Progress
  <2>4. \A f \in local' : Dir[f] \in dirs'
    BY <1>2 DEF Progress, WalkInv
  <2>5. walk'.on /\ walk'.cur = NoFile => up'.pc = "idle"
    BY <1>2 DEF WalkInv
  <2>6. walk' \in Walks
    BY DEF WalkInv
  <2>7. walk' = walk /\ \A f, w : Wanted(f, w)' <=> Wanted(f, w)
    BY DEF Wanted
  <2>8. walk'.on /\ walk'.cur # NoFile =>
          /\ up'.f = walk'.cur /\ Wanted(walk'.cur, walk'.req)
          /\ up'.pc = "idle" /\ up'.ret = "ok" => Now(walk.cur)'
    BY <2>2, <2>7 DEF Now, Whole
  <2>9. walk'.on => \A f \in walk'.begin[1] :
          /\ f \notin local' => Now(f)'
          /\ ~Wanted(f, walk'.req) => f \in local' /\ srv'.file[f] = walk'.begin[2][f]
          /\ ~walk'.skip /\ Wanted(f, walk'.req) => Now(f)' \/ f = walk'.cur \/ f \in Range(walk'.left)
    BY <2>3, <2>7
  <2> QED BY <2>4, <2>5, <2>6, <2>7, <2>8, <2>9 DEF WalkInv
<1> QED BY <1>1, <1>2

\* UploadPath begins.
LEMMA WalkBegins ==
  ASSUME IInv, WalkInv, NEW w \in Requests, NEW skip \in BOOLEAN, NEW del \in BOOLEAN,
         NEW resumable \in BOOLEAN, NEW fast \in BOOLEAN, BeginWalk(w, skip, del, resumable, fast)
  PROVE  WalkInv'
<1> DEFINE begin == <<local, srv.file>>
           x == [NoWalk EXCEPT !.on = TRUE, !.req = w, !.skip = skip, !.del = del,
                               !.resumable = resumable, !.fast = fast, !.left = Entries, !.begin = begin]
<1>1. walk' = x /\ UNCHANGED <<conf, srv, local, unseen, rd, up, cc, dirs>> /\ up.pc = "idle"
  BY DEF BeginWalk, Idle
<1>2. /\ begin \in (SUBSET Files) \X ([Files -> Data] \cup {<<>>})
      /\ begin[1] = local /\ begin[2] = srv.file
  BY DEF IInv, Inv, Types, Server
<1> HIDE DEF begin
<1>3. /\ x \in Walks /\ x.on = TRUE /\ x.cur = NoFile /\ x.req = w /\ x.left = Entries
      /\ x.begin = begin
  BY <1>2, UploadsParameters DEF NoWalk, Walks
<1> HIDE DEF x
<1>4. \A f \in Files : f \in Range(Entries)
  BY UploadsParameters
<1>5. local \subseteq Files
  BY DEF IInv
<1> QED BY <1>1, <1>2, <1>3, <1>4, <1>5 DEF WalkInv, Now, Whole

\* The next file, or the end.
LEMMA WalkGoesOn ==
  ASSUME IInv, WalkInv, WalkNext
  PROVE  WalkInv' /\ IInv' /\ (Kept \/ Began)
<1>1. /\ walk.on /\ walk.cur = NoFile /\ up.pc = "idle" /\ walk \in Walks
      /\ UNCHANGED <<conf, srv, local, unseen, rd, cc, odd, dirs>>
  BY DEF WalkNext, WalkInv, Idle
<1>2. NoFile \notin Files
  BY UploadOpsParameters
<1>3. \A f : Now(f)' <=> Now(f)
  BY <1>1 DEF Now, Whole
<1>4. CASE walk.left = <<>>
  <2> DEFINE x == [walk EXCEPT !.on = FALSE, !.ret = "ok"]
  <2>1. walk' = x /\ UNCHANGED up
    BY <1>4 DEF WalkNext
  <2>2. x \in Walks /\ x.on = FALSE
    BY <1>1 DEF Walks
  <2> HIDE DEF x
  <2>3. IInv' /\ Kept
    BY <1>1, <2>1, StaysShown DEF ovars, conf
  <2> QED BY <1>1, <2>1, <2>2, <2>3 DEF WalkInv
<1>5. CASE walk.left # <<>> /\ ~ (Head(walk.left) \in local /\ Wanted(Head(walk.left), walk.req))
  <2> DEFINE left == Tail(walk.left)
             x == [walk EXCEPT !.left = left]
  <2>1. walk' = x /\ UNCHANGED up
    BY <1>1, <1>5 DEF WalkNext, Walks
  <2>2. left \in Seq(Files) /\ \A f \in Range(walk.left) : f = Head(walk.left) \/ f \in Range(left)
    BY <1>1, <1>5, HeadIs DEF Walks
  <2> HIDE DEF left
  <2>3. /\ x \in Walks /\ x.on = walk.on /\ x.cur = walk.cur /\ x.req = walk.req /\ x.left = left
        /\ x.begin = walk.begin /\ x.skip = walk.skip
    BY <1>1, <2>2 DEF Walks
  <2> HIDE DEF x
  <2>4. ASSUME NEW f \in walk.begin[1]
        PROVE  /\ f \notin local => Now(f)
               /\ ~Wanted(f, walk.req) => f \in local /\ srv.file[f] = walk.begin[2][f]
               /\ ~walk.skip /\ Wanted(f, walk.req) => Now(f) \/ f = walk.cur \/ f \in Range(left)
    BY <1>1, <1>5, <2>2, <2>4 DEF WalkInv
  <2>5. IInv' /\ Kept
    BY <1>1, <2>1, StaysShown DEF ovars, conf
  <2>6. WalkInv'
    BY <1>1, <1>3, <2>1, <2>3, <2>4 DEF WalkInv
  <2> QED BY <2>5, <2>6
<1>6. CASE walk.left # <<>> /\ Head(walk.left) \in local /\ Wanted(Head(walk.left), walk.req)
  <2> DEFINE f0 == Head(walk.left)
             left == Tail(walk.left)
             x == [walk EXCEPT !.left = left, !.cur = f0]
  <2>1. walk' = x /\ Call(f0, walk.resumable, walk.del, walk.fast)
    BY <1>1, <1>6 DEF WalkNext, Walks
  <2>2. /\ left \in Seq(Files) /\ f0 \in Files
        /\ \A f \in Range(walk.left) : f = f0 \/ f \in Range(left)
    BY <1>1, <1>6, HeadIs DEF Walks
  <2>3. Wanted(f0, walk.req)
    BY <1>6
  <2> HIDE DEF left, f0
  <2>4. /\ x \in Walks /\ x.on = walk.on /\ x.cur = f0 /\ x.req = walk.req /\ x.left = left
        /\ x.begin = walk.begin /\ x.skip = walk.skip
    BY <1>1, <2>2 DEF Walks
  <2> HIDE DEF x
  <2>5. ASSUME NEW f \in walk.begin[1]
        PROVE  /\ f \notin local => Now(f)
               /\ ~Wanted(f, walk.req) => f \in local /\ srv.file[f] = walk.begin[2][f]
               /\ ~walk.skip /\ Wanted(f, walk.req) => Now(f) \/ f = f0 \/ f \in Range(left)
    <3>1. f # NoFile
      BY <1>1, <1>2, <2>5 DEF Walks
    <3> QED BY <1>1, <2>2, <2>5, <3>1 DEF WalkInv
  <2>6. IInv' /\ Began /\ up'.f = f0
    <3>1. walk.del \in BOOLEAN /\ walk.resumable \in BOOLEAN /\ walk.fast \in BOOLEAN /\ odd' \in 0..MaxOdd
      BY <1>1 DEF Walks, IInv
    <3> QED BY <1>1, <2>1, <2>2, <3>1, CallShown
  <2>7. WalkInv'
    BY <1>1, <1>2, <1>3, <2>1, <2>2, <2>3, <2>4, <2>5, <2>6 DEF WalkInv, Began
  <2> QED BY <2>6, <2>7
<1> QED BY <1>4, <1>5, <1>6

\* UploadFile has returned to the walk, which goes on or ends.
LEMMA WalkReturns ==
  ASSUME IInv, WalkInv, WalkUploaded
  PROVE  WalkInv' /\ IInv' /\ Kept
<1>1. IInv' /\ Kept
  BY StaysShown DEF WalkUploaded
<1>2. walk.on /\ walk.cur # NoFile /\ up.pc = "idle" /\ walk \in Walks
  BY DEF WalkUploaded, Idle, WalkInv
<1>3. \A f : Now(f)' <=> Now(f)
  BY <1>1 DEF Kept, Now, Whole
<1>4. \A f \in local' : Dir[f] \in dirs'
  BY <1>1 DEF WalkUploaded, WalkInv, Kept
<1>5. CASE up.ret = "ok" \/ walk.skip
  <2> DEFINE x == [walk EXCEPT !.cur = NoFile]
  <2>1. walk' = x
    BY <1>5 DEF WalkUploaded
  <2>2. /\ x \in Walks /\ x.on = walk.on /\ x.cur = NoFile /\ x.req = walk.req /\ x.left = walk.left
        /\ x.begin = walk.begin /\ x.skip = walk.skip
    BY <1>2 DEF Walks
  <2> HIDE DEF x
  <2>3. up.ret = "ok" => Now(walk.cur)
    BY <1>2 DEF WalkInv
  <2>4. ASSUME NEW f \in walk.begin[1]
        PROVE  /\ f \notin local => Now(f)
               /\ ~Wanted(f, walk.req) => f \in local /\ srv.file[f] = walk.begin[2][f]
               /\ ~walk.skip /\ Wanted(f, walk.req) => Now(f) \/ f \in Range(walk.left)
    BY <1>2, <1>5, <2>3, <2>4 DEF WalkInv
  <2>5. WalkInv'
    BY <1>1, <1>2, <1>3, <1>4, <2>1, <2>2, <2>4 DEF WalkInv, Kept
  <2> QED BY <1>1, <2>5
<1>6. CASE ~ (up.ret = "ok" \/ walk.skip)
  <2> DEFINE x == [walk EXCEPT !.cur = NoFile, !.on = FALSE, !.ret = "error"]
  <2>1. walk' = x
    BY <1>6 DEF WalkUploaded
  <2>2. x \in Walks /\ x.on = FALSE
    BY <1>2 DEF Walks
  <2> HIDE DEF x
  <2> QED BY <1>1, <1>4, <2>1, <2>2 DEF WalkInv
<1> QED BY <1>5, <1>6

------------------------------------------------------------------------------
(* The theorems. *)

\* The invariant holds at the beginning.
LEMMA InitShown == Init => IInv
<1> SUFFICES ASSUME Init PROVE IInv
  OBVIOUS
<1>1. \A f \in Files : Whole(f) \in Data /\ NoData \in Data
  BY WholeIs DEF NoData, Data
<1>2. srv \in Server /\ srv.file = [f \in Files |-> NoData] /\ \A f \in Files : srv.sess[f] = Closed
  BY <1>1, ClosedIs DEF Init, Server
<1>3. rd \in Reader /\ rd.uploaded <= rd.total
  BY DEF Init, NoReader, NewProcessReader, Reader
<1>4. up \in Ongoing /\ up.pc = "idle"
  BY NoUpIs DEF Init
<1>5. DOMAIN cc = Files /\ \A f \in Files : cc[f] \in Keys(f)
  <2>1. \A f \in Files : NoKeys \in Keys(f)
    BY DEF NoKeys, Keys, MaxErrs
  <2> QED BY <2>1 DEF Init
<1>6. Types(drv, up, srv, rd, cc)
  BY <1>2, <1>3, <1>4, <1>5 DEF Types, Places
<1>7. WholeOrNone(srv) /\ InPlace(drv, up, srv) /\ OneSession(drv, up, srv)
  BY <1>2, ClosedIs DEF WholeOrNone, InPlace, OneSession
<1>8. drv \in UploadDrivers /\ odd \in 0..MaxOdd /\ local \subseteq Files /\ unseen = {}
  BY UploadOpsParameters DEF Init
<1> QED BY <1>4, <1>6, <1>7, <1>8 DEF IInv, Inv

\* Every step keeps it, and is the beginning, a step or the end of a call, or none of these.
LEMMA NextShown ==
  ASSUME IInv, WalkInv, Next
  PROVE  IInv' /\ WalkInv' /\ (Outcome \/ Began \/ Kept)
<1>1. ASSUME UploadFile PROVE IInv' /\ WalkInv' /\ Began
  <2>1. PICK f \in Files, res \in BOOLEAN, del \in BOOLEAN, fast \in BOOLEAN : Call(f, res, del, fast)
    BY <1>1 DEF UploadFile
  <2>2. /\ up.pc = "idle" /\ ~walk.on /\ odd' \in 0..MaxOdd
        /\ UNCHANGED <<conf, srv, local, unseen, rd, cc, walk, dirs>>
    BY <1>1, OddIs DEF UploadFile, Idle
  <2>3. IInv' /\ Began
    BY <2>1, <2>2, CallShown
  <2>4. WalkInv'
    BY <2>2 DEF WalkInv
  <2> QED BY <2>3, <2>4
<1>2. ASSUME NEW w \in Requests, NEW skip \in BOOLEAN, NEW del \in BOOLEAN,
             NEW resumable \in BOOLEAN, NEW fast \in BOOLEAN, BeginWalk(w, skip, del, resumable, fast),
             Fine \/ Costs
      PROVE  IInv' /\ WalkInv' /\ Kept
  <2>1. WalkInv'
    BY <1>2, WalkBegins
  <2>2. UNCHANGED <<conf, srv, local, unseen, rd, up, cc>> /\ odd' \in 0..MaxOdd
    BY <1>2, OddIs DEF BeginWalk
  <2>3. IInv' /\ Kept
    BY <2>2 DEF IInv, Inv, Kept, conf
  <2> QED BY <2>1, <2>3
<1>3. ASSUME UploadPath PROVE IInv' /\ WalkInv' /\ Kept
  BY <1>2, <1>3, UploadsParameters DEF UploadPath
<1>7. ASSUME UploadPathRefused PROVE IInv' /\ WalkInv' /\ Kept
  <2>1. UNCHANGED <<conf, srv, local, unseen, rd, up, cc>> /\ odd' \in 0..MaxOdd
    BY <1>7, OddIs DEF UploadPathRefused
  <2>2. walk' \in Walks /\ walk'.on = FALSE
    <3>1. NoWalk \in Walks /\ NoWalk.on = FALSE
      BY UploadsParameters DEF NoWalk, Walks
    <3>2. walk' = [NoWalk EXCEPT !.ret = "error"]
      BY <1>7 DEF UploadPathRefused
    <3> QED BY <3>1, <3>2 DEF Walks
  <2>3. IInv' /\ Kept
    BY <2>1 DEF IInv, Inv, Kept, conf
  <2>4. UNCHANGED <<local, dirs>>
    BY <1>7 DEF UploadPathRefused
  <2> QED BY <2>2, <2>3, <2>4 DEF WalkInv
<1>4. ASSUME UploadPathOther PROVE IInv' /\ WalkInv' /\ Kept
  BY <1>2, <1>4 DEF UploadPathOther
<1>5. ASSUME Shown, UNCHANGED <<walk, dirs>> PROVE IInv' /\ WalkInv' /\ Outcome
  BY <1>5, Progresses, WalkSame DEF Shown
<1>6. ASSUME Others PROVE IInv' /\ WalkInv' /\ (Outcome \/ Kept)
  <2>1. UNCHANGED <<walk, dirs>> /\ (Cancel \/ SessionExpires \/ EntryExpires)
    BY <1>6 DEF Others
  <2>2. CASE Cancel
    BY <1>5, <2>1, <2>2, CancelShown
  <2>3. CASE SessionExpires \/ EntryExpires
    BY <2>1, <2>3, ExpiresShown, WalkSame
  <2> QED BY <2>1, <2>2, <2>3
<1> QED BY <1>1, <1>3, <1>4, <1>5, <1>6, <1>7, StepsShown, WalkGoesOn, WalkReturns DEF Next

\* A stuttering step keeps it.
LEMMA StutterShown ==
  ASSUME IInv, WalkInv, UNCHANGED vars
  PROVE  IInv' /\ WalkInv' /\ Kept
<1>1. UNCHANGED ovars /\ UNCHANGED <<walk, dirs>>
  BY DEF vars
<1> QED BY <1>1, StaysShown, WalkSame

(* The two invariants, of calls and of walks: IInv and WalkInv. *)
THEOREM Invariance == Spec => [](IInv /\ WalkInv)
<1>1. Init => IInv /\ WalkInv
  BY InitShown, WalkInit
<1>2. IInv /\ WalkInv /\ [Next]_vars => IInv' /\ WalkInv'
  BY NextShown, StutterShown
<1> QED BY <1>1, <1>2, PTL DEF Spec

(* Type correctness. *)
THEOREM TypeCorrect == Spec => []TypeOK
<1>1. ASSUME IInv PROVE TypeOK
  <2>1. unseen # {} => IsCloudreve
    BY <1>1 DEF IInv, IsCloudreve, Cloud
  <2>2. /\ up.f \in Files \cup {NoFile} /\ up.ret \in {"none", "ok", "error"}
        /\ up.try \in 0..(MaxTries - 1)
    BY <1>1 DEF IInv, Inv, Types, Ongoing
  <2>3. rd.uploaded \in 0..rd.total /\ rd.limit >= 0
    BY <1>1 DEF IInv, Inv, Types, Reader
  <2>4. \A f \in Files : cc[f].chunk \in {NoChunk} \cup 0..Size[f] /\ cc[f].errs \in 0..MaxErrs
    BY <1>1, KeysAre
  <2> QED BY <1>1, <2>1, <2>2, <2>3, <2>4 DEF TypeOK, IInv
<1> QED BY <1>1, Invariance, PTL

(* Every part a server holds is the part of the file it stands for, however
   often it was tried again and wherever an attempt broke off; what a cloudreve
   session holds is a beginning of the file: PartsInPlace. *)
THEOREM PartsStayInPlace == Spec => []PartsInPlace
<1>1. ASSUME IInv PROVE PartsInPlace
  <2> SUFFICES ASSUME NEW f \in Files, NEW i \in DOMAIN srv.sess[f].parts
               PROVE  srv.sess[f].parts[i] =
                        IF IsCloudreve THEN SubSeq(Whole(f), 1, Len(srv.sess[f].parts[i]))
                        ELSE Slice(f, i, up.size)
    BY DEF PartsInPlace
  <2> DEFINE p == srv.sess[f].parts
  <2>1. p \in PartMaps /\ InPlace(drv, up, srv) /\ up.size \in Nat \ {0}
    BY <1>1 DEF IInv, Inv, Types, Server, Session, Ongoing
  <2>2. i \in Nat \ {0} /\ p[i] \in Data
    BY <2>1 DEF PartMaps
  <2>3. CASE IsCloudreve
    <3>1. Len(p[i]) <= Size[f] /\ p[i] = Seg(0, Len(p[i]))
      BY <2>1, <2>3 DEF InPlace, IsCloudreve, Cloud
    <3>2. 0 \in Nat /\ Len(p[i]) \in Nat /\ 0 <= Len(p[i]) /\ 0 + 1 = 1
      BY <2>2 DEF Data
    <3> DEFINE n == Len(p[i])
    <3> HIDE DEF n
    <3>3. SubSeq(Whole(f), 0 + 1, n) = Seg(0, n)
      BY <3>1, <3>2, SubWhole DEF n
    <3>4. SubSeq(Whole(f), 1, n) = Seg(0, n)
      BY <3>2, <3>3
    <3> QED BY <2>3, <3>1, <3>4 DEF n
  <2>4. CASE ~IsCloudreve
    <3>1. p[i] = Seg(Base(f, i - 1, up.size), Base(f, i, up.size))
      BY <2>1, <2>4 DEF InPlace, IsCloudreve, Cloud
    <3> QED BY <2>1, <2>2, <2>4, <3>1, SliceIs
  <2> QED BY <2>3, <2>4
<1> QED BY <1>1, Invariance, PTL

(* UploadPath that returns nil has uploaded what it was to upload, and nothing
   else: PathComplete. *)
THEOREM PathsComplete == Spec => PathComplete
<1> DEFINE P == walk.on /\ ~walk'.on /\ walk'.ret = "ok" =>
                  LET begin == walk.begin[1]
                  IN /\ ~walk.skip => \A f \in begin : Wanted(f, walk.req) => Done(f)
                     /\ \A f \in begin : ~Wanted(f, walk.req) =>
                          f \in local' /\ srv'.file[f] = walk.begin[2][f]
                     /\ \A f \in local' : Dir[f] \in dirs'
<1>1. ASSUME IInv, WalkInv, [Next]_vars, walk.on, ~walk'.on, walk'.ret = "ok"
      PROVE  P
  <2>1. WalkNext \/ WalkUploaded
    BY <1>1 DEF Next, vars, UploadFile, UploadPath, UploadPathOther, UploadPathRefused, BeginWalk, Steps, Others
  <2>2. walk \in Walks
    BY <1>1 DEF WalkInv
  <2>3. ~WalkUploaded
    BY <1>1, <2>2 DEF WalkUploaded, Walks
  <2>4. /\ walk.left = <<>> /\ walk.cur = NoFile /\ UNCHANGED <<srv, local, unseen, dirs>>
    BY <1>1, <2>1, <2>2, <2>3 DEF WalkNext, Walks
  <2>5. \A f \in walk.begin[1] : f # NoFile /\ f \notin Range(walk.left)
    BY <2>2, <2>4, UploadOpsParameters DEF Walks, Range
  <2>6. \A f : Now(f) => Done(f)
    BY <2>4 DEF Now, Done
  <2> QED BY <1>1, <2>4, <2>5, <2>6 DEF WalkInv
<1>2. IInv /\ WalkInv /\ [Next]_vars => [P]_vars
  BY <1>1
<1> QED BY <1>2, Invariance, PTL DEF Spec, PathComplete

(* Every driver's UploadFile keeps what UploadFile promises, module Upload: a
   file appears whole or not at all, none but that of the call in flight
   changes, and nil is returned only with the file there (or with a refusal that
   cloudreve overlooks): ImplementsUpload. *)
THEOREM Refinement == Spec => ImplementsUpload
<1> DEFINE stored == [f \in Files |-> Stage(f)]
           doing == IF Idle THEN NoFile ELSE up.f
<1>1. ASSUME Init PROVE Promise!Init
  <2>1. \A f \in Files : Stage(f) = "none"
    BY <1>1 DEF Init, Stage
  <2>2. Idle /\ up.ret = "none"
    BY <1>1, NoUpIs DEF Init, Idle
  <2> QED BY <1>1, <2>1, <2>2 DEF Promise!Init, Init
<1>2. ASSUME IInv, WalkInv, [Next]_vars
      PROVE  Promise!Next \/ UNCHANGED <<local, stored, unseen, doing, up.ret>>
  <2>1. IInv' /\ (Outcome \/ Began \/ Kept)
    BY <1>2, NextShown, StutterShown
  <2>2. \A f \in Files : /\ Stage(f) \in {"none", "whole"} /\ Stage(f)' \in {"none", "whole"}
                         /\ srv'.file[f] = srv.file[f] => Stage(f)' = Stage(f)
                         /\ srv'.file[f] = Whole(f) => Stage(f)' = "whole"
    BY <1>2, <2>1, WholeIs DEF IInv, Inv, WholeOrNone, Stage, Whole
  <2>3. /\ stored' \in [Files -> {"none", "whole"}]
        /\ \A f \in Files : stored'[f] = Stage(f)' /\ stored[f] = Stage(f)
    BY <2>2
  <2>4. CASE Kept
    BY <2>2, <2>4 DEF Kept, Idle
  <2>5. CASE Began
    <3>1. /\ UNCHANGED <<local, unseen, stored>> /\ up'.f \in Files
          /\ doing = NoFile /\ doing' = up'.f /\ up'.ret = "none"
      BY <2>2, <2>5 DEF Began, Idle
    <3> QED BY <3>1 DEF Promise!Next, Promise!Call
  <2>6. CASE Outcome
    <3>1. up.f \in Files /\ up.pc # "idle" /\ up.f # NoFile /\ up.ret = "none"
      BY <1>2, <2>6, UploadOpsParameters DEF Outcome, Moved, Failed, Succeeded, IInv, Inv, Types
    <3>2. doing = up.f /\ doing # NoFile
      BY <3>1 DEF Idle
    <3>3. \A f \in Files : srv'.file[f] = srv.file[f] \/ (f = up.f /\ srv'.file[f] = Whole(f))
      BY <1>2, <2>6, <3>1 DEF Outcome, Moved, Failed, Succeeded, Serves, IInv, Inv, Types, Server
    <3>4. Promise!Store(stored')
      BY <2>2, <2>3, <3>2, <3>3 DEF Promise!Store
    <3>5. CASE Moved
      <4>1. doing' = doing /\ up'.ret = up.ret /\ UNCHANGED local
        BY <3>2, <3>5 DEF Moved, Idle
      <4>2. CASE UNCHANGED unseen
        <5>1. Promise!Work
          BY <2>3, <3>2, <3>4, <4>1, <4>2 DEF Promise!Work
        <5> QED BY <5>1 DEF Promise!Next
      <4>3. CASE UNCHANGED srv /\ unseen' = unseen \cup {up.f}
        <5>1. UNCHANGED stored
          BY <2>2, <4>3
        <5>2. Promise!Overlook
          BY <3>2, <4>1, <4>3, <5>1 DEF Promise!Overlook
        <5> QED BY <5>2 DEF Promise!Next
      <4> QED BY <3>5, <4>2, <4>3 DEF Moved
    <3>6. CASE Failed
      <4>1. doing' = NoFile /\ up'.ret = "error" /\ UNCHANGED <<local, unseen>>
        BY <3>6 DEF Failed, Idle
      <4>2. Promise!Fail
        BY <2>3, <3>2, <3>4, <4>1 DEF Promise!Fail
      <4> QED BY <4>2 DEF Promise!Next
    <3>7. CASE Succeeded
      <4>1. /\ doing' = NoFile /\ up'.ret = "ok" /\ unseen' \in {unseen, unseen \cup {up.f}}
            /\ local' \in {local, local \ {up.f}}
        BY <3>7 DEF Succeeded, Idle
      <4>2. stored'[up.f] = "whole" \/ up.f \in unseen'
        BY <2>2, <2>3, <3>1, <3>7 DEF Succeeded
      <4>3. Promise!Succeed
        BY <2>3, <3>2, <3>4, <4>1, <4>2 DEF Promise!Succeed
      <4> QED BY <4>3 DEF Promise!Next
    <3> QED BY <2>6, <3>5, <3>6, <3>7 DEF Outcome
  <2> QED BY <2>1, <2>4, <2>5, <2>6
<1>3. IInv /\ WalkInv /\ [Next]_vars => [Promise!Next]_(Promise!uvars)
  BY <1>2 DEF Promise!uvars
<1> QED BY <1>1, <1>3, Invariance, PTL DEF Spec, ImplementsUpload, Promise!Spec
==============================================================================
