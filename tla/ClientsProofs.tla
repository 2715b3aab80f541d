---------------------------- MODULE ClientsProofs ----------------------------
(***************************************************************************)
(* Proofs about Clients: types, and that no refresh token gets lost,       *)
(* however the refreshes of a client meet; and that a call that meets none *)
(* and no fault is served.                                                 *)
(*                                                                         *)
(* The invariant says who has the refresh token that the server takes: the *)
(* client in use, or the one call that has just got it (Hands, Kept,       *)
(* Saved).  LoneInv says what a call that is left alone relies on: that    *)
(* its fellows do not refresh, and that its own token is good (Own).       *)
(***************************************************************************)
EXTENDS Clients, TLAPS

Calls == Procs \cup Clients

PCs == {"idle", "send", "answer", "device", "refresh", "refreshing", "assign1", "assign2",
        "notify", "login", "captcha", "session", "direct", "done", "fail"}

Call == [pc : PCs, c : Clients \cup {"none"}, kind : {"none", "init", "me", "req", "cron"},
         try : 0..2, tok : Nat, got : Nat,
         next : {"none", "first", "fresh", "send", "session", "direct"}, lone : BOOLEAN]

Client == [st : {"none", "init", "open", "closed", "failed"}, acc : Nat, ref : Nat,
           cron : BOOLEAN, done : BOOLEAN]

\* The variables have the types the code gives them; tokens are no newer than the last.
Types ==
  /\ drv \in AllDrivers /\ pw \in BOOLEAN /\ (pw => drv = "thunder")
  /\ srv \in [n : Nat \ {0}, dead : Nat, live : SUBSET Nat]
  /\ srv.dead <= srv.n /\ \A t \in srv.live : 0 < t /\ t <= srv.n
  /\ cl \in [Clients -> Client]
  /\ \A c \in Clients : cl[c].acc <= srv.n /\ cl[c].ref <= srv.n /\ (cl[c].cron => drv = "ali")
  /\ saved \in [acc : Nat, ref : Nat] /\ saved.acc <= srv.n /\ saved.ref <= srv.n
  /\ call \in [Calls -> Call]
  /\ \A p \in Calls : call[p].tok <= srv.n /\ call[p].got <= srv.n
  /\ lost \in BOOLEAN /\ odd \in 0..MaxOdd /\ reqs \in 0..MaxReqs
  /\ idMap \in Clients \cup {NoClient}

Refreshing == {"refresh", "refreshing", "assign1", "assign2", "notify"}
LoggingIn == {"login", "captcha", "session", "direct"}
Telling == {"assign1", "assign2", "notify"}

\* What a call may be at which place.
Shape(x) ==
  /\ x.pc = "idle" <=> x.c = "none"
  /\ x.pc = "idle" <=> x.kind = "none"
  /\ x.pc = "device" => drv = "ali"
  /\ x.pc \in Refreshing => HasTokens
  /\ x.pc \in LoggingIn => drv = "thunder"
  /\ x.pc = "captcha" => x.next \in {"send", "session", "direct"}
  /\ x.pc \in Refreshing \cup {"device"} /\ drv \in {"ali", "ali_open"} => x.try = 0
  /\ x.kind = "me" => drv = "thunder"

Shapes == \A p \in Calls : Shape(call[p])

Making(x) == x.kind \in {"init", "me"}

\* A client somebody still works for.
InUse(c) == Active(c) \/ cl[c].st \in {"init", "open"} \/ cl[c].cron

\* There is one client in use at a time, and nobody else uses it during its Init.
One ==
  /\ \A c, d \in Clients : InUse(c) /\ InUse(d) => c = d
  /\ \A c \in Clients : cl[c].st = "init" <=> \E p \in Calls : call[p].c = c /\ Making(call[p])
  /\ \A p, q \in Calls : Making(call[p]) /\ q # p => call[q].c # call[p].c
  /\ \A c \in Clients : cl[c].st \in {"none", "init"} => ~cl[c].cron
  /\ idMap # NoClient => cl[idMap].st \in {"open", "closed"}

\* A new refresh token has been got and is not assigned yet.
Pending(x) == x.pc = "assign1" \/ (x.pc = "assign2" /\ drv # "ali")

\* Whoever is about to assign a refresh token is the only one that has it.
Hands == \A p \in Calls : Pending(call[p]) =>
  /\ call[p].got \in srv.live
  /\ \A c \in Clients : cl[c].ref # call[p].got
  /\ \A q \in Calls : call[q].pc = "refreshing" => call[q].tok # call[p].got
  /\ \A q \in Calls : q # p /\ Pending(call[q]) => call[q].got # call[p].got

\* A client in use has a good refresh token, or a call of it is about to assign one.
Kept == ~lost /\ HasTokens =>
  \A c \in Clients : InUse(c) =>
    Usable(cl[c].ref) \/ \E p \in Calls : call[p].c = c /\ Pending(call[p])

\* So has the caller, or he is about to be told.
Saved == ~lost /\ HasTokens =>
  Usable(saved.ref) \/ \E p \in Calls : call[p].pc \in Telling

IInv == Types /\ Shapes /\ One /\ Hands /\ Kept /\ Saved

\* What a call that is left alone may meet in another one of its client.
Apart(x) ==
  \/ x.pc \in {"idle", "send", "answer", "device", "refresh", "done", "fail"}
  \/ x.pc = "captcha" /\ x.next = "send"

\* The token of the request has been renewed already: there is no other attempt.
Renewed(x) == (drv \in {"ali", "ali_open"} /\ x.try > 0) \/ (drv = "baidu" /\ x.try = 2)

\* A call that is left alone succeeds.
Own(x) ==
  /\ x.pc # "device"
  /\ x.pc = "refreshing" /\ ~lost => Usable(x.tok)
  /\ x.pc \in Refreshing /\ drv = "baidu" => x.try <= 1
  /\ x.pc \in Telling => x.got > srv.dead
  /\ x.pc = "notify" \/ (x.pc = "assign2" /\ drv # "ali") => cl[x.c].acc = x.got
  /\ x.pc \in LoggingIn => lost \/ pw
  /\ pw => x.pc # "direct" /\ (x.pc = "captcha" => x.next = "session")
  /\ Renewed(x) => /\ x.pc = "send" => Valid(cl[x.c].acc)
                   /\ x.pc = "answer" => Valid(x.tok)

\* A call that is left alone is not disturbed, and goes well.
LoneOK(p) == call[p].lone /\ call[p].pc # "idle" =>
  /\ \A q \in Calls : q # p /\ call[q].c = call[p].c => Apart(call[q])
  /\ Own(call[p])

LoneInv == HasTokens => \A p \in Calls : LoneOK(p)

------------------------------------------------------------------------------
\* Nothing changes in the calls, that of p set apart, but whether they are left alone.
OnlyOf(p) ==
  /\ call' \in [Calls -> Call]
  /\ \A q \in Calls \ {p} : \A f \in {"pc", "c", "kind", "try", "tok", "got", "next"} :
       call'[q][f] = call[q][f]

\* x may follow on what the goroutine p does, in the same call.
Follows(p, x) ==
  /\ x \in Call /\ Shape(x)
  /\ x.c = call[p].c /\ (Making(x) <=> Making(call[p])) /\ x.pc # "idle"

InRange(x) == x.tok <= srv.n /\ x.got <= srv.n

\* A step of a call that changes no token and no client keeps the invariant.
LEMMA QuietKeeps ==
  ASSUME IInv, NEW p \in Calls, OnlyOf(p), Follows(p, call'[p]), InRange(call[p])',
         call[p].pc \notin {"idle", "assign1", "assign2"},
         call'[p].pc \notin Telling,
         call'[p].pc = "refreshing" => call'[p].tok = cl[call[p].c].ref,
         saved' = Props(call[p].c) \/ (saved' = saved /\ call[p].pc # "notify"),
         UNCHANGED <<drv, pw, srv, cl, lost, reqs, idMap>>, odd' \in 0..MaxOdd
  PROVE  IInv'
<1> DEFINE x == call'[p]  c == call[p].c
<1>0. c \in Clients /\ x.pc # "idle" /\ x.c = c
  BY DEF IInv, Types, Shapes, Shape, Call, Follows
<1>1. Types'
  <2>1. saved' \in [acc : Nat, ref : Nat] /\ saved'.acc <= srv.n /\ saved'.ref <= srv.n
    BY <1>0 DEF IInv, Types, Props, Client
  <2>2. call' \in [Calls -> Call] /\ \A q \in Calls : call'[q].got <= srv.n /\ call'[q].tok <= srv.n
    BY DEF IInv, Types, OnlyOf, Follows, InRange
  <2> QED BY <2>1, <2>2 DEF IInv, Types
<1>2. Shapes'
  BY DEF IInv, Types, Shapes, Shape, OnlyOf, Follows, HasTokens
<1>3. \A q \in Calls : call'[q].c = call[q].c /\ (Making(call[q])' <=> Making(call[q]))
  BY DEF OnlyOf, Follows, Making
<1>4. \A d \in Clients : InUse(d)' <=> InUse(d)
  BY <1>3 DEF InUse, Active, IInv, Types, OnlyOf
<1>5. One'
  BY <1>3, <1>4 DEF IInv, One
<1>6. \A q \in Calls : Pending(call[q])' => q # p
  BY DEF Pending, Telling
<1>7. \A q \in Calls \ {p} : /\ Pending(call[q])' <=> Pending(call[q])
                            /\ call'[q].got = call[q].got /\ call'[q].tok = call[q].tok
                            /\ call'[q].pc = call[q].pc
  BY DEF OnlyOf, Pending
<1>8. Hands'
  BY <1>0, <1>6, <1>7 DEF IInv, Hands
<1>9. ~Pending(call[p])
  BY DEF Pending
<1>10. Kept'
  BY <1>3, <1>4, <1>7, <1>9 DEF IInv, Kept, Usable, HasTokens
<1>11. Saved'
  <2>1. CASE saved' = saved /\ call[p].pc # "notify"
    BY <2>1, <1>7 DEF IInv, Saved, Usable, HasTokens, Telling
  <2>2. CASE saved' = Props(c)
    <3>1. InUse(c)
      BY <1>0 DEF InUse, Active, IInv, Types
    <3>2. saved'.ref = cl[c].ref
      BY <2>2 DEF Props
    <3>3. \A q \in Calls : Pending(call[q]) => call'[q].pc \in Telling
      BY <1>7, <1>9 DEF Pending, Telling
    <3> QED BY <3>1, <3>2, <3>3, <1>0 DEF IInv, Kept, Saved, Usable, HasTokens
  <2> QED BY <2>1, <2>2
<1> QED BY <1>1, <1>2, <1>5, <1>8, <1>10, <1>11 DEF IInv

\* So does one in which the server gives new tokens, to the call or to nobody.
LEMMA TokensKeep ==
  ASSUME IInv, NEW p \in Calls, OnlyOf(p), Follows(p, call'[p]), InRange(call[p])',
         call[p].pc \notin {"idle", "assign1", "assign2", "notify"}, HasTokens,
         NEW used, used = {} \/ (used = {call[p].tok} /\ call[p].pc = "refreshing"),
         srv' = Newer(used), lost' \in BOOLEAN, used # {} /\ lost => lost',
         \/ call'[p].pc = "assign1" /\ call'[p].got = srv.n + 1
         \/ lost' /\ call'[p].pc \notin Telling \cup {"refreshing"},
         UNCHANGED <<drv, pw, cl, saved, reqs, idMap>>, odd' \in 0..MaxOdd
  PROVE  IInv'
<1> DEFINE x == call'[p]  c == call[p].c  n == srv.n + 1
<1>0. c \in Clients /\ x.pc # "idle" /\ x.c = c
  BY DEF IInv, Types, Shapes, Shape, Call, Follows
<1>1. /\ srv' \in [n : Nat \ {0}, dead : Nat, live : SUBSET Nat]
      /\ srv'.n = n /\ srv'.dead = srv.dead /\ srv'.live = (srv.live \ used) \cup {n}
  <2>1. srv \in [n : Nat \ {0}, dead : Nat, live : SUBSET Nat]
    BY DEF IInv, Types
  <2>2. srv' = [srv EXCEPT !.n = n, !.live = (srv.live \ used) \cup {n}]
    BY DEF Newer
  <2>3. n \in Nat \ {0} /\ (srv.live \ used) \cup {n} \in SUBSET Nat
    BY <2>1
  <2> HIDE DEF n
  <2> QED BY <2>1, <2>2, <2>3
<1>2. Types'
  <2>1. call' \in [Calls -> Call] /\ \A q \in Calls : call'[q].tok <= n /\ call'[q].got <= n
    BY <1>1 DEF IInv, Types, OnlyOf, Call, InRange
  <2>2. srv'.dead <= srv'.n /\ \A t \in srv'.live : 0 < t /\ t <= srv'.n
    BY <1>1 DEF IInv, Types
  <2>3. \A d \in Clients : cl[d].acc <= n /\ cl[d].ref <= n /\ (cl[d].cron => drv = "ali")
    BY DEF IInv, Types, Client
  <2>4. saved.acc <= n /\ saved.ref <= n
    BY DEF IInv, Types
  <2> QED BY <1>1, <2>1, <2>2, <2>3, <2>4 DEF IInv, Types
<1>3. Shapes'
  BY DEF IInv, Types, Shapes, Shape, OnlyOf, Follows, HasTokens
<1>4. \A q \in Calls : call'[q].c = call[q].c /\ (Making(call[q])' <=> Making(call[q]))
  BY DEF OnlyOf, Follows, Making
<1>5. \A d \in Clients : InUse(d)' <=> InUse(d)
  BY <1>4 DEF InUse, Active, IInv, Types, OnlyOf
<1>6. One'
  BY <1>4, <1>5 DEF IInv, One
<1>7. \A q \in Calls \ {p} : /\ Pending(call[q])' <=> Pending(call[q])
                            /\ call'[q].got = call[q].got /\ call'[q].tok = call[q].tok
                            /\ call'[q].pc = call[q].pc
  BY DEF OnlyOf, Pending
<1>8. call'[p].pc # "refreshing" /\ (Pending(call[p])' => call'[p].got = n)
  BY DEF Pending, Telling
<1>9. \A q \in Calls : call[q].tok < n /\ call[q].got < n
  BY DEF IInv, Types, Call
<1>10. Hands'
  <2>1. \A d \in Clients : cl[d].ref < n
    BY DEF IInv, Types, Client
  <2>2. \A q \in Calls \ {p} : Pending(call[q]) => call[q].got \in srv'.live
    BY <1>1 DEF IInv, Hands
  <2>3. ASSUME NEW q \in Calls, Pending(call[q])', q # p
        PROVE  /\ call'[q].got \in srv'.live
               /\ \A d \in Clients : cl[d].ref # call'[q].got
               /\ \A r \in Calls : call'[r].pc = "refreshing" => call'[r].tok # call'[q].got
               /\ \A r \in Calls : r # q /\ Pending(call[r])' => call'[r].got # call'[q].got
    <3>1. Pending(call[q]) /\ call'[q].got = call[q].got /\ call[q].got < n
      BY <1>7, <1>9, <2>3
    <3>2. call'[q].got \in srv'.live /\ \A d \in Clients : cl[d].ref # call'[q].got
      BY <2>2, <2>3, <3>1 DEF IInv, Hands
    <3>3. \A r \in Calls : call'[r].pc = "refreshing" => call'[r].tok # call'[q].got
      BY <1>7, <1>8, <3>1 DEF IInv, Hands
    <3>4. \A r \in Calls : r # q /\ Pending(call[r])' => call'[r].got # call'[q].got
      <4>1. n # call[q].got
        BY <3>1, <2>3 DEF IInv, Types, Call
      <4> QED BY <1>7, <1>8, <3>1, <4>1 DEF IInv, Hands
    <3> QED BY <3>2, <3>3, <3>4
  <2>4. ASSUME Pending(call[p])'
        PROVE  /\ call'[p].got \in srv'.live
               /\ \A d \in Clients : cl[d].ref # call'[p].got
               /\ \A r \in Calls : call'[r].pc = "refreshing" => call'[r].tok # call'[p].got
               /\ \A r \in Calls : r # p /\ Pending(call[r])' => call'[r].got # call'[p].got
    BY <1>1, <1>7, <1>8, <1>9, <2>1, <2>4
  <2> QED BY <2>3, <2>4 DEF Hands
<1>11. \A d \in Clients : InUse(d) => d = c
  BY <1>0 DEF InUse, Active, IInv, One, Types
<1>12. Kept'
  BY <1>0, <1>5, <1>11 DEF Kept, Pending
<1>13. Saved'
  BY DEF Saved, Telling
<1> QED BY <1>2, <1>3, <1>6, <1>10, <1>12, <1>13 DEF IInv

\* The new tokens are assigned, one after the other.
LEMMA AssignKeeps ==
  ASSUME IInv, NEW p \in Calls, assign(p), UNCHANGED idMap
  PROVE  IInv'
<1> DEFINE x == call[p]  c == x.c  w == IF x.pc = "assign1" THEN "assign2" ELSE "notify"
           field == IF (x.pc = "assign1") = (First = "acc") THEN "acc" ELSE "ref"
<1>0. c \in Clients /\ x \in Call /\ x.pc \in {"assign1", "assign2"} /\ HasTokens
  BY DEF IInv, Types, Shapes, Shape, Call, assign, Refreshing
<1>1. /\ cl' = [cl EXCEPT ![c] = [@ EXCEPT ![field] = x.got]]
      /\ call' = [call EXCEPT ![p] = [x EXCEPT !.pc = w]]
      /\ UNCHANGED <<drv, pw, reqs, srv, saved, lost, idMap, odd>>
  BY DEF assign, Set, At, conf, Fine
<1>2. field = IF Pending(x) /\ (x.pc = "assign2" \/ drv = "ali") THEN "ref" ELSE "acc"
  BY <1>0 DEF First, Pending
<1> HIDE DEF field
<1>3. field \in {"acc", "ref"}
  BY <1>2
<1>4. OnlyOf(p) /\ call'[p] \in Call /\ call'[p].pc = w
      /\ \A f \in {"c", "kind", "try", "tok", "got", "next"} : call'[p][f] = x[f]
  BY <1>0, <1>1, SMTT(60) DEF OnlyOf, IInv, Types, Call, PCs
<1>5. cl' \in [Clients -> Client]
  <2>1. CASE field = "acc"
    BY <1>0, <1>1, <2>1, SMTT(60) DEF IInv, Types, Client, Call
  <2>2. CASE field = "ref"
    BY <1>0, <1>1, <2>2, SMTT(60) DEF IInv, Types, Client, Call
  <2> QED BY <1>3, <2>1, <2>2
<1>6. \A d \in Clients : /\ cl'[d].st = cl[d].st /\ cl'[d].cron = cl[d].cron
                         /\ d # c => cl'[d].acc = cl[d].acc /\ cl'[d].ref = cl[d].ref
  BY <1>0, <1>1, <1>3 DEF IInv, Types, Client
<1>7. /\ cl'[c].acc = IF field = "acc" THEN x.got ELSE cl[c].acc
      /\ cl'[c].ref = IF field = "ref" THEN x.got ELSE cl[c].ref
  BY <1>0, <1>1, <1>3, SMTT(60) DEF IInv, Types, Client
<1>8. Types'
  BY <1>0, <1>1, <1>4, <1>5, <1>6, <1>7 DEF IInv, Types, OnlyOf
<1>9. Shapes'
  BY <1>0, <1>1, <1>4 DEF IInv, Types, Shapes, Shape, OnlyOf, HasTokens, Refreshing, LoggingIn
<1>10. \A q \in Calls : call'[q].c = call[q].c /\ (Making(call[q])' <=> Making(call[q]))
  BY <1>4 DEF OnlyOf, Making
<1>11. \A d \in Clients : InUse(d)' <=> InUse(d)
  BY <1>4, <1>6, <1>10 DEF InUse, Active, IInv, Types, OnlyOf
<1>12. One'
  BY <1>1, <1>6, <1>10, <1>11, SMTT(60) DEF IInv, One, Types
<1>13. \A q \in Calls \ {p} : /\ Pending(call[q])' <=> Pending(call[q])
                             /\ call'[q].got = call[q].got /\ call'[q].tok = call[q].tok
                             /\ call'[q].pc = call[q].pc
  BY <1>1, <1>4 DEF OnlyOf, Pending
<1>14. ASSUME field = "ref" PROVE Hands' /\ Kept'
  <2>1. Pending(x) /\ ~Pending(call[p])'
    BY <1>0, <1>1, <1>2, <1>4, <1>14 DEF Pending
  <2>2. Hands'
    BY <1>1, <1>4, <1>6, <1>7, <1>13, <1>14, <2>1 DEF IInv, Hands
  <2>3. Kept'
    <3>1. Usable(cl[c].ref)'
      BY <1>1, <1>7, <1>14, <2>1 DEF IInv, Hands, Usable
    <3>2. \A d \in Clients : InUse(d) => d = c
      BY <1>0 DEF InUse, Active, IInv, One, Types
    <3> QED BY <1>4, <1>11, <3>1, <3>2 DEF Kept
  <2> QED BY <2>2, <2>3
<1>15. ASSUME field = "acc" PROVE Hands' /\ Kept'
  <2>1. (Pending(call[p])' <=> Pending(x)) /\ call'[p].got = x.got
    BY <1>0, <1>1, <1>2, <1>4, <1>15 DEF Pending
  <2>2. \A d \in Clients : cl'[d].ref = cl[d].ref
    BY <1>6, <1>7, <1>15
  <2>3. Hands'
    BY <1>0, <1>1, <1>4, <1>13, <2>1, <2>2 DEF IInv, Hands
  <2>4. Kept'
    BY <1>1, <1>10, <1>11, <1>13, <2>1, <2>2 DEF IInv, Kept, Usable, HasTokens
  <2> QED BY <2>3, <2>4
<1>16. Saved'
  BY <1>4 DEF Saved, Telling
<1> QED BY <1>3, <1>8, <1>9, <1>12, <1>14, <1>15, <1>16 DEF IInv

\* Disturbed touches nothing but whether calls are left alone.
LEMMA DisturbedIs ==
  ASSUME NEW calls \in [Calls -> Call], NEW ps
  PROVE  /\ Disturbed(calls, ps) \in [Calls -> Call]
         /\ \A q \in Calls :
              /\ \A f \in {"pc", "c", "kind", "try", "tok", "got", "next"} :
                   Disturbed(calls, ps)[q][f] = calls[q][f]
              /\ Disturbed(calls, ps)[q].lone <=> calls[q].lone /\ q \notin ps
<1> DEFINE hurt(q) == [calls[q] EXCEPT !.lone = FALSE]
<1>1. ASSUME NEW q \in Calls
      PROVE  /\ hurt(q) \in Call /\ hurt(q).lone = FALSE
             /\ \A f \in {"pc", "c", "kind", "try", "tok", "got", "next"} : hurt(q)[f] = calls[q][f]
  BY ZenonT(60) DEF Call
<1>2. Disturbed(calls, ps) = [q \in Calls |-> IF q \in ps THEN hurt(q) ELSE calls[q]]
  BY DEF Disturbed
<1>3. ASSUME NEW q \in Calls
      PROVE  Disturbed(calls, ps)[q] = IF q \in ps THEN hurt(q) ELSE calls[q]
  BY <1>2
<1> HIDE DEF hurt
<1>4. Disturbed(calls, ps) \in [Calls -> Call]
  BY <1>1, <1>2
<1> QED BY <1>1, <1>3, <1>4, ZenonT(60)

\* Access tokens end.
LEMMA ExpireKeeps ==
  ASSUME IInv, Expire, UNCHANGED idMap
  PROVE  IInv'
<1>1. /\ srv' = [srv EXCEPT !.dead = srv.n] /\ odd' \in 0..MaxOdd
      /\ UNCHANGED <<drv, pw, reqs, cl, saved, lost, idMap>>
  BY TokensParameters DEF Expire, conf, Costs, IInv, Types
<1>2. srv' \in [n : Nat \ {0}, dead : Nat, live : SUBSET Nat] /\ srv'.n = srv.n /\ srv'.dead = srv.n
      /\ srv'.live = srv.live
  BY <1>1 DEF IInv, Types
<1>3. /\ call' \in [Calls -> Call]
      /\ \A q \in Calls : \A f \in {"pc", "c", "kind", "try", "tok", "got", "next"} :
           call'[q][f] = call[q][f]
  <2>1. \E ps : call' = Disturbed(call, ps)
    BY DEF Expire
  <2> QED BY <2>1, DisturbedIs DEF IInv, Types
<1>4. Types'
  BY <1>1, <1>2, <1>3 DEF IInv, Types
<1>5. Shapes'
  BY <1>1, <1>3 DEF IInv, Shapes, Shape, HasTokens
<1>6. \A q \in Calls : (Making(call[q])' <=> Making(call[q])) /\ (Pending(call[q])' <=> Pending(call[q]))
  BY <1>1, <1>3 DEF Making, Pending
<1>7. \A d \in Clients : InUse(d)' <=> InUse(d)
  BY <1>1, <1>3 DEF InUse, Active, IInv, Types
<1>8. One'
  BY <1>1, <1>3, <1>6, <1>7 DEF IInv, One
<1>9. Hands'
  BY <1>1, <1>2, <1>3, <1>6 DEF IInv, Hands
<1>10. Kept' /\ Saved'
  BY <1>1, <1>2, <1>3, <1>6, <1>7 DEF IInv, Kept, Saved, Usable, HasTokens
<1> QED BY <1>4, <1>5, <1>8, <1>9, <1>10 DEF IInv

------------------------------------------------------------------------------
\* A step of the call of p.
StepOK(p) ==
  /\ call[p].pc # "idle" /\ OnlyOf(p) /\ Follows(p, call'[p]) /\ UNCHANGED <<drv, pw>>
  /\ \A q \in Calls : call'[q].lone => call[q].lone
  /\ Apart(call[p]) =>
       /\ UNCHANGED <<srv, cl, lost>>
       /\ \/ Apart(call[p])' \/ Making(call[p])
          \/ \A q \in Calls \ {p} : call[q].c = call[p].c => ~call'[q].lone
  /\ HasTokens /\ LoneOK(p) /\ call'[p].lone =>
       Own(call[p])' /\ (~lost /\ call[p].pc # "fail" => call'[p].pc # "fail")

\* A step of one call leaves to the others of its client what they rely on.
LEMMA StepsKeepLone ==
  ASSUME IInv, LoneInv, NEW p \in Calls, StepOK(p)
  PROVE  LoneInv'
<1> SUFFICES ASSUME HasTokens, NEW q \in Calls, call'[q].lone, call'[q].pc # "idle"
             PROVE  /\ \A r \in Calls : r # q /\ call'[r].c = call'[q].c => Apart(call[r])'
                    /\ Own(call[q])'
  BY DEF LoneInv, LoneOK, StepOK, HasTokens
<1> DEFINE c == call[p].c
<1>1. \A r \in Calls : call'[r].c = call[r].c
  BY DEF StepOK, OnlyOf, Follows
<1>2. c \in Clients /\ call[p].c = c
  BY DEF IInv, Types, Shapes, Shape, Call, StepOK
<1>3. \A r \in Calls \ {p} : Apart(call[r])' <=> Apart(call[r])
  BY DEF StepOK, OnlyOf, Apart
<1>4. call[q].lone /\ call[q].pc # "idle"
  BY DEF StepOK, OnlyOf
<1>5. LoneOK(q) /\ LoneOK(p)
  BY DEF LoneInv
<1>6. CASE q = p
  BY <1>1, <1>3, <1>4, <1>5, <1>6 DEF StepOK, LoneOK
<1>7. CASE q # p
  <2>1. call[q].c = c
    BY <1>2, <1>4 DEF IInv, Types, Shapes, Shape, Call, One, InUse, Active
  <2>2. Apart(call[p]) /\ Own(call[q]) /\ \A r \in Calls : r # q /\ call[r].c = c => Apart(call[r])
    BY <1>4, <1>5, <1>7, <2>1 DEF LoneOK
  <2>3. UNCHANGED <<srv, cl, lost, drv, pw>> /\ Apart(call[p])'
    BY <1>7, <2>1, <2>2 DEF StepOK, IInv, One
  <2>4. \A r \in Calls : r # q /\ call'[r].c = call'[q].c => Apart(call[r])'
    BY <1>1, <1>3, <2>1, <2>2, <2>3
  <2>5. Own(call[q])'
    BY <1>7, <2>2, <2>3 DEF Own, StepOK, OnlyOf, Usable, Valid, Renewed
  <2> QED BY <2>4, <2>5
<1> QED BY <1>6, <1>7

LoneMove(p, x) ==
  /\ Apart(call[p]) => Apart(x) \/ Making(x)
  /\ HasTokens /\ x.lone =>
       call[p].lone /\ (Own(call[p]) => Own(x) /\ (~lost => x.pc # "fail"))

\* QuietKeeps and StepOK together.
LEMMA QuietSteps ==
  ASSUME IInv, NEW p \in Calls, NEW x, call' = [call EXCEPT ![p] = x],
         Follows(p, x), InRange(x), LoneMove(p, x),
         call[p].pc \notin {"idle", "assign1", "assign2"}, x.pc \notin Telling \cup {"refreshing"},
         saved' = Props(call[p].c) \/ (saved' = saved /\ call[p].pc # "notify"),
         UNCHANGED <<drv, pw, srv, cl, lost, reqs, idMap>>, odd' \in 0..MaxOdd
  PROVE  IInv' /\ (HasTokens => StepOK(p))
<1>1. call'[p] = x /\ \A q \in Calls \ {p} : call'[q] = call[q]
  BY DEF IInv, Types
<1>2. OnlyOf(p)
  BY <1>1 DEF IInv, Types, OnlyOf, Follows
<1>3. IInv'
  BY <1>1, <1>2, QuietKeeps DEF InRange
<1>4. ASSUME HasTokens PROVE StepOK(p)
  <2>1. \A q \in Calls : call'[q].lone => call[q].lone
    BY <1>1, <1>4 DEF LoneMove
  <2>2. Apart(call[p]) => Apart(call[p])' \/ Making(call[p])
    BY <1>1 DEF LoneMove, Apart, Follows
  <2>3. LoneOK(p) /\ call'[p].lone => Own(x) /\ (~lost /\ call[p].pc # "fail" => call'[p].pc # "fail")
    BY <1>1, <1>4 DEF LoneMove, LoneOK
  <2>4. Own(x) => Own(call[p])'
    BY <1>1 DEF Own, Usable, Valid, Renewed
  <2> QED BY <1>1, <1>2, <2>1, <2>2, <2>3, <2>4 DEF StepOK
<1> QED BY <1>3, <1>4

------------------------------------------------------------------------------
(* What calls come to. *)

Rest == {"c", "kind", "try", "tok", "got", "next", "lone"}

LEMMA AtIs ==
  ASSUME Types, NEW p \in Calls, NEW w \in PCs
  PROVE  /\ At(p, w) \in Call /\ At(p, w).pc = w
         /\ \A f \in Rest : At(p, w)[f] = call[p][f]
BY DEF Types, Call, At, Rest

LEMMA HurtIs ==
  ASSUME NEW x \in Call, NEW p
  PROVE  /\ Hurt(p, x) \in Call /\ Hurt(p, x).lone = FALSE
         /\ \A f \in {"pc", "c", "kind", "try", "tok", "got", "next"} : Hurt(p, x)[f] = x[f]
BY DEF Call, Hurt

\* A call that is hurt need not care.
LEMMA HurtMoves ==
  ASSUME NEW p \in Calls, NEW x, Follows(p, x), InRange(x), Apart(x) \/ Making(x)
  PROVE  Follows(p, Hurt(p, x)) /\ InRange(Hurt(p, x)) /\ LoneMove(p, Hurt(p, x))
         /\ Hurt(p, x).pc = x.pc
BY HurtIs, ZenonT(60) DEF Follows, Shape, InRange, Making, Apart, LoneMove

\* What the operators return.
LEMMA ErrIs ==
  ASSUME Types, NEW p \in Calls
  PROVE  /\ Err(p) \in Call
         /\ \A f \in {"c", "try", "tok", "got", "next", "lone"} : Err(p)[f] = call[p][f]
         /\ \/ drv = "thunder" /\ call[p].kind = "me" /\ Err(p).kind = "init"
               /\ Err(p).pc \in {"login", "refresh"}
            \/ Err(p).kind = call[p].kind /\ Err(p).pc = "fail"
<1> DEFINE x == call[p]  w == IF cl[x.c].ref = 0 THEN "login" ELSE "refresh"
<1>1. CASE drv = "thunder" /\ x.kind = "me"
  <2>1. Err(p) = [x EXCEPT !.pc = w, !.kind = "init"]
    BY <1>1 DEF Err
  <2>2. w \in {"login", "refresh"}
    OBVIOUS
  <2> HIDE DEF w
  <2>3. x \in Call
    BY DEF Types
  <2>4. /\ Err(p) \in Call /\ Err(p).pc = w /\ Err(p).kind = "init"
        /\ \A f \in {"c", "try", "tok", "got", "next", "lone"} : Err(p)[f] = x[f]
    BY <2>1, <2>2, <2>3, ZenonT(60) DEF Call, PCs
  <2> QED BY <1>1, <2>2, <2>4
<1>2. CASE ~ (drv = "thunder" /\ x.kind = "me")
  <2>1. Err(p) = [x EXCEPT !.pc = "fail"]
    BY <1>2 DEF Err
  <2> QED BY <2>1 DEF Types, Call, PCs
<1> QED BY <1>1, <1>2

\* An error leaves a call that is left alone only in the cases that it does not meet.
LEMMA ErrMoves ==
  ASSUME Types, Shapes, NEW p \in Calls, call[p].pc # "idle"
  PROVE  /\ Follows(p, Err(p)) /\ InRange(Err(p)) /\ (Apart(Err(p)) \/ Making(Err(p)))
         /\ Err(p).pc \notin Telling \cup {"refreshing"}
BY ErrIs DEF Types, Shapes, Shape, Follows, InRange, Making, Apart, HasTokens, Refreshing,
     LoggingIn, Telling

\* Sent again, or not, or never again.
LEMMA ResendIs ==
  ASSUME Types, Shapes, NEW p \in Calls, call[p].pc \in {"device", "notify"}
  PROVE  \/ drv = "baidu" /\ call[p].try = 2 /\ Resend(p) = Err(p)
         \/ /\ Resend(p) \in Call /\ Resend(p).got = 0
            /\ \A f \in {"c", "kind", "tok", "lone"} : Resend(p)[f] = call[p][f]
            /\ \/ Resend(p).pc = "done" /\ Resend(p).try = call[p].try
               \/ Resend(p).pc = "send" /\ Resend(p).try = call[p].try
                  /\ call[p].kind = "init" /\ call[p].next = "first"
               \/ Resend(p).pc = "send" /\ drv = "thunder" /\ Resend(p).try = 1
               \/ Resend(p).pc = "send" /\ drv # "thunder" /\ Resend(p).try = call[p].try + 1
<1> DEFINE x == call[p]  y == [x EXCEPT !.got = 0]
           again == IF drv = "thunder" THEN 1 ELSE x.try + 1
<1>1. x \in Call /\ Shape(x)
  BY DEF Types, Shapes
<1>2. y \in Call /\ y.got = 0 /\ \A f \in {"pc", "c", "kind", "try", "tok", "next", "lone"} : y[f] = x[f]
  BY <1>1 DEF Call
<1>3. \/ Resend(p) = [y EXCEPT !.pc = "done"]
      \/ y.kind = "init" /\ y.next = "first" /\ Resend(p) = [y EXCEPT !.pc = "send", !.next = "none"]
      \/ drv = "baidu" /\ y.try = 2 /\ Resend(p) = Err(p)
      \/ ~ (drv = "baidu" /\ y.try = 2)
         /\ Resend(p) = [y EXCEPT !.pc = "send", !.try = IF drv = "thunder" THEN 1 ELSE y.try + 1, !.next = "none"]
  BY DEF Resend
<1> HIDE DEF y
<1>4. CASE Resend(p) = [y EXCEPT !.pc = "done"]
  BY <1>2, <1>4 DEF Call, PCs
<1>5. CASE y.kind = "init" /\ y.next = "first" /\ Resend(p) = [y EXCEPT !.pc = "send", !.next = "none"]
  <2>1. /\ Resend(p) \in Call /\ Resend(p).pc = "send"
        /\ \A f \in {"c", "kind", "try", "tok", "got", "lone"} : Resend(p)[f] = y[f]
    BY <1>2, <1>5, ZenonT(60) DEF Call, PCs
  <2> QED BY <1>2, <1>5, <2>1
<1>6. CASE ~ (drv = "baidu" /\ y.try = 2)
           /\ Resend(p) = [y EXCEPT !.pc = "send", !.try = IF drv = "thunder" THEN 1 ELSE y.try + 1, !.next = "none"]
  <2>1. Resend(p) = [y EXCEPT !.pc = "send", !.try = again, !.next = "none"]
    BY <1>2, <1>6
  <2>2. again \in 0..2
    BY <1>1, <1>2, <1>6 DEF Types, AllDrivers, Shape, Refreshing, Call, HasTokens
  <2>3. again = IF drv = "thunder" THEN 1 ELSE x.try + 1
    OBVIOUS
  <2> HIDE DEF again
  <2>4. /\ Resend(p) \in Call /\ Resend(p).pc = "send" /\ Resend(p).try = again
        /\ \A f \in {"c", "kind", "tok", "got", "lone"} : Resend(p)[f] = y[f]
    BY <1>2, <2>1, <2>2, ZenonT(60) DEF Call, PCs
  <2> QED BY <1>2, <2>3, <2>4
<1> QED BY <1>2, <1>3, <1>4, <1>5, <1>6

\* A request that is sent again.
LEMMA ResendMoves ==
  ASSUME Types, Shapes, NEW p \in Calls, call[p].pc \in {"device", "notify"}
  PROVE  /\ Follows(p, Resend(p)) /\ InRange(Resend(p)) /\ LoneMove(p, Resend(p))
         /\ Resend(p).pc \notin Telling \cup {"refreshing"}
<1> DEFINE r == Resend(p)
<1>1. CASE drv = "baidu" /\ call[p].try = 2 /\ r = Err(p)
  <2>1. call[p].pc = "notify"
    BY <1>1 DEF Shapes, Shape
  <2>2. ~ Apart(call[p]) /\ ~ Own(call[p]) /\ r.lone = call[p].lone
    BY <1>1, <2>1, ErrIs DEF Apart, Own, Refreshing
  <2> QED BY <1>1, <2>1, <2>2, ErrMoves DEF LoneMove
<1>2. CASE ~ (drv = "baidu" /\ call[p].try = 2 /\ r = Err(p))
  <2> HIDE DEF r
  <2>1. r \in Call /\ r.got = 0 /\ (\A f \in {"c", "kind", "tok", "lone"} : r[f] = call[p][f])
        /\ r.pc \in {"done", "send"}
    BY <1>2, ResendIs DEF r
  <2>2. Follows(p, r) /\ InRange(r) /\ Apart(r) /\ r.pc \notin Telling \cup {"refreshing"}
    BY <2>1 DEF Follows, InRange, Apart, Types, Shapes, Shape, Making, Telling, Refreshing,
         LoggingIn
  <2>3. ASSUME HasTokens, Own(call[p]) PROVE Own(r)
    <3>1. call[p].pc = "notify" /\ drv # "thunder" /\ r.pc = "send" => Valid(cl[r.c].acc)
      BY <2>1, <2>3 DEF Own, Valid, Telling
    <3>2. call[p].pc # "device"
      BY <2>3 DEF Own
    <3> QED BY <2>1, <3>1, <3>2 DEF Own, Renewed, Refreshing, LoggingIn, Telling
  <2> QED BY <2>1, <2>2, <2>3 DEF LoneMove, r
<1> QED BY <1>1, <1>2

------------------------------------------------------------------------------
(* The steps of a call. *)

\* A goroutine moves on without a change of any token.
Goes(p, x) ==
  /\ call' = [call EXCEPT ![p] = x] /\ Follows(p, x) /\ InRange(x) /\ LoneMove(p, x)
  /\ x.pc \notin Telling \cup {"refreshing"}

\* Requests and the calls they make, but for those that change tokens.
LEMMA RequestGoes ==
  ASSUME IInv, NEW p \in Calls,
         \/ send(p) \/ aliRequest(p) \/ doCreateSession(p) \/ aliOpenRequest(p) \/ baiduRequest(p)
         \/ thunderRequest(p) \/ cookieRequest(p) \/ coreLogin(p)
  PROVE  /\ \E x : Goes(p, x)
         /\ call[p].pc \notin {"idle", "assign1", "assign2", "notify"}
         /\ UNCHANGED <<drv, pw, srv, cl, saved, lost, reqs>> /\ odd' \in 0..MaxOdd
<1> USE DEF IInv
<1> DEFINE c == call[p]
<1>0. c \in Call /\ Shape(c) /\ InRange(c)
  BY DEF Types, Shapes, InRange
<1>1. odd' \in 0..MaxOdd /\ UNCHANGED <<drv, pw, srv, cl, saved, lost, reqs>>
  BY TokensParameters DEF send, aliRequest, doCreateSession, aliOpenRequest, baiduRequest,
       thunderRequest, cookieRequest, coreLogin, conf, Costs, Fine, Types
<1>2. call[p].pc \in {"send", "answer", "device", "login"}
  BY DEF send, aliRequest, doCreateSession, aliOpenRequest, baiduRequest, thunderRequest,
       cookieRequest, coreLogin, Served
\* What answers have in common.
<1>3. ASSUME NEW x, Follows(p, x), InRange(x), Apart(x) \/ Making(x),
             x.pc \notin Telling \cup {"refreshing"}, Set(p, Hurt(p, x))
      PROVE  \E y : Goes(p, y)
  <2>1. Goes(p, Hurt(p, x))
    BY <1>3, HurtMoves DEF Set, Goes
  <2> QED BY <2>1
<1>3a. ASSUME Set(p, Hurt(p, Err(p))) PROVE \E x : Goes(p, x)
  BY <1>2, <1>3, <1>3a, ErrMoves
<1>4. ASSUME Served(p) PROVE \E x : Goes(p, x)
  <2> DEFINE x == At(p, "done")
  <2>1. x \in Call /\ x.pc = "done" /\ \A f \in Rest : x[f] = c[f]
    BY AtIs DEF PCs
  <2>2. call' = [call EXCEPT ![p] = x] /\ c.pc = "answer"
    BY <1>4 DEF Served, Set
  <2> HIDE DEF x
  <2>3. Follows(p, x) /\ InRange(x) /\ LoneMove(p, x)
    BY <1>0, <2>1, <2>2 DEF Follows, Shape, InRange, LoneMove, Own, Making, Apart, Rest,
         Refreshing, LoggingIn, Telling, Renewed
  <2> QED BY <2>1, <2>2, <2>3 DEF Goes, Telling
<1>5. ASSUME HasTokens, c.pc = "answer", ~Valid(c.tok), Set(p, At(p, "refresh")),
             drv \in {"ali", "ali_open"} => c.try = 0
      PROVE  \E x : Goes(p, x)
  <2> DEFINE x == At(p, "refresh")
  <2>1. x \in Call /\ x.pc = "refresh" /\ \A f \in Rest : x[f] = c[f]
    BY AtIs DEF PCs
  <2>2. call' = [call EXCEPT ![p] = x]
    BY <1>5 DEF Set
  <2> HIDE DEF x
  <2>3. Follows(p, x) /\ InRange(x) /\ Apart(x)
    BY <1>0, <1>5, <2>1 DEF Follows, Shape, InRange, Making, Apart, Rest, Refreshing, LoggingIn
  <2>4. Own(c) => Own(x)
    BY <1>0, <1>5, <2>1 DEF Own, Rest, Refreshing, LoggingIn, Telling, Renewed, Call
  <2> QED BY <2>1, <2>2, <2>3, <2>4 DEF Goes, Telling, LoneMove, Rest
<1>6. ASSUME send(p) PROVE \E x : Goes(p, x)
  <2> DEFINE x == [At(p, "answer") EXCEPT !.tok = cl[call[p].c].acc]
  <2>1. At(p, "answer") \in Call /\ At(p, "answer").pc = "answer" /\ \A f \in Rest : At(p, "answer")[f] = c[f]
    BY AtIs DEF PCs
  <2>2. call' = [call EXCEPT ![p] = x] /\ c.pc = "send"
    BY <1>6 DEF send, Set
  <2>3. c.c \in Clients /\ cl[c.c].acc \in Nat /\ cl[c.c].acc <= srv.n
    BY <1>0, <2>2 DEF Shape, Call, Types, Client
  <2>4. x \in Call /\ x.pc = "answer" /\ x.tok = cl[c.c].acc /\ \A f \in Rest \ {"tok"} : x[f] = c[f]
    BY <2>1, <2>3 DEF Call, Rest
  <2> HIDE DEF x
  <2>5. Follows(p, x) /\ InRange(x) /\ Apart(x)
    BY <1>0, <2>2, <2>3, <2>4 DEF Follows, Shape, InRange, Making, Apart, Rest, Refreshing,
         LoggingIn
  <2>6. Own(c) => Own(x)
    BY <2>2, <2>4 DEF Own, Rest, Refreshing, LoggingIn, Telling, Renewed
  <2> QED BY <2>2, <2>4, <2>5, <2>6 DEF Goes, Telling, LoneMove, Rest
\* An expired token that is not refreshed: never that of a call that is left alone.
<1>7. ASSUME \/ drv \in {"quark", "cloudreve"}
             \/ drv \in {"ali", "ali_open"} /\ c.pc = "answer" /\ ~Valid(c.tok) /\ c.try > 0,
             Set(p, Err(p))
      PROVE  \E x : Goes(p, x)
  <2>1. ~ (HasTokens /\ Own(c))
    BY <1>7 DEF HasTokens, Own, Renewed
  <2>2. Err(p).lone = c.lone
    BY ErrIs
  <2>3. LoneMove(p, Err(p))
    BY <1>2, <2>1, <2>2, ErrMoves DEF LoneMove
  <2> QED BY <1>2, <1>7, <2>3, ErrMoves DEF Goes, Set
<1>8. ASSUME aliRequest(p) PROVE \E x : Goes(p, x)
  <2>1. ASSUME Set(p, Hurt(p, At(p, "device"))), c.try = 0, drv = "ali", c.pc = "answer" PROVE \E x : Goes(p, x)
    <3> DEFINE x == At(p, "device")
    <3>1. x \in Call /\ x.pc = "device" /\ \A f \in Rest : x[f] = c[f]
      BY AtIs DEF PCs
    <3> HIDE DEF x
    <3>2. Follows(p, x) /\ InRange(x) /\ Apart(x)
      BY <1>0, <2>1, <3>1 DEF Follows, Shape, InRange, Making, Apart, Rest, Refreshing, LoggingIn
    <3> QED BY <1>3, <2>1, <3>1, <3>2 DEF x, Telling
  <2>2. ASSUME c.pc = "answer", ~Valid(c.tok), drv = "ali",
               Set(p, IF call[p].try = 0 THEN At(p, "refresh") ELSE Err(p))
        PROVE  \E x : Goes(p, x)
    <3>1. CASE c.try = 0
      <4>1. Set(p, At(p, "refresh"))
        BY <2>2, <3>1
      <4> QED BY <1>5, <2>2, <3>1, <4>1 DEF HasTokens
    <3>2. CASE c.try # 0
      BY <1>0, <1>7, <2>2, <3>2 DEF Call
    <3> QED BY <3>1, <3>2
  <2> QED BY <1>8, <1>3a, <1>4, <2>1, <2>2 DEF aliRequest
<1>9. ASSUME aliOpenRequest(p) PROVE \E x : Goes(p, x)
  <2>1. ASSUME c.pc = "answer", ~Valid(c.tok), drv = "ali_open",
               Set(p, IF call[p].try = 0 THEN At(p, "refresh") ELSE Err(p))
        PROVE  \E x : Goes(p, x)
    <3>1. CASE c.try = 0
      <4>1. Set(p, At(p, "refresh"))
        BY <2>1, <3>1
      <4> QED BY <1>5, <2>1, <3>1, <4>1 DEF HasTokens
    <3>2. CASE c.try # 0
      BY <1>0, <1>7, <2>1, <3>2 DEF Call
    <3> QED BY <3>1, <3>2
  <2> QED BY <1>9, <1>3a, <1>4, <2>1 DEF aliOpenRequest
<1>10. ASSUME cookieRequest(p) PROVE \E x : Goes(p, x)
  BY <1>10, <1>3a, <1>4, <1>7 DEF cookieRequest
<1>11. ASSUME doCreateSession(p) PROVE \E x : Goes(p, x)
  <2>1. CASE Set(p, Resend(p))
    BY <1>11, <2>1, ResendMoves DEF doCreateSession, Set, Goes
  <2>2. ASSUME Set(p, Err(p)), c.pc = "device" PROVE \E x : Goes(p, x)
    BY <2>2, ErrMoves, ErrIs, ZenonT(60) DEF Goes, Set, LoneMove, Own
  <2> QED BY <1>11, <2>1, <2>2 DEF doCreateSession
\* Sent again at once, after a network error.
<1>12. ASSUME NEW n \in 1..2, drv = "baidu", c.pc = "answer",
              LET x == [At(p, "send") EXCEPT !.try = n]
              IN (Set(p, x) /\ n = 1) \/ Set(p, Hurt(p, x))
       PROVE  \E x : Goes(p, x)
  <2> DEFINE x == [At(p, "send") EXCEPT !.try = n]
  <2>1. At(p, "send") \in Call /\ At(p, "send").pc = "send" /\ \A f \in Rest : At(p, "send")[f] = c[f]
    BY AtIs DEF PCs
  <2>2. x \in Call /\ x.pc = "send" /\ x.try = n /\ \A f \in Rest \ {"try"} : x[f] = c[f]
    BY <2>1 DEF Call, Rest
  <2>3. (Set(p, x) /\ n = 1) \/ Set(p, Hurt(p, x))
    BY <1>12
  <2> HIDE DEF x
  <2>4. Follows(p, x) /\ InRange(x) /\ Apart(x)
    BY <1>0, <1>12, <2>2 DEF Follows, Shape, InRange, Making, Apart, Rest, Refreshing, LoggingIn
  <2>5. n = 1 /\ Own(c) => Own(x)
    BY <1>12, <2>2 DEF Own, Rest, Refreshing, LoggingIn, Telling, Renewed
  <2>6. CASE Set(p, x) /\ n = 1
    BY <2>2, <2>4, <2>5, <2>6 DEF Goes, Set, LoneMove, Rest, Telling
  <2> QED BY <1>3, <2>2, <2>3, <2>4, <2>6 DEF Telling
<1>13. ASSUME baiduRequest(p) PROVE \E x : Goes(p, x)
  <2>1. ASSUME CASE call[p].try = 0 -> Set(p, [At(p, "send") EXCEPT !.try = 1])
               [] call[p].try = 1 -> Set(p, Hurt(p, [At(p, "send") EXCEPT !.try = 2]))
               [] OTHER -> Set(p, Hurt(p, Err(p))), drv = "baidu", c.pc = "answer"
        PROVE  \E x : Goes(p, x)
    BY <1>12, <1>3a, <2>1
  <2> QED BY <1>13, <1>3a, <1>4, <1>5, <2>1 DEF baiduRequest, HasTokens
<1>14. ASSUME thunderRequest(p) PROVE \E x : Goes(p, x)
  <2>1. ASSUME Set(p, Hurt(p, [At(p, "captcha") EXCEPT !.next = "send"])), drv = "thunder"
        PROVE  \E x : Goes(p, x)
    <3> DEFINE x == [At(p, "captcha") EXCEPT !.next = "send"]
    <3>1. At(p, "captcha") \in Call /\ At(p, "captcha").pc = "captcha" /\ \A f \in Rest : At(p, "captcha")[f] = c[f]
      BY AtIs DEF PCs
    <3>2. x \in Call /\ x.pc = "captcha" /\ x.next = "send" /\ \A f \in Rest \ {"next"} : x[f] = c[f]
      BY <3>1 DEF Call, Rest
    <3>3. Set(p, Hurt(p, x))
      BY <2>1
    <3> HIDE DEF x
    <3>4. Follows(p, x) /\ InRange(x) /\ Apart(x)
      BY <1>0, <1>2, <2>1, <3>2 DEF Follows, Shape, InRange, Making, Apart, Rest, Refreshing,
           LoggingIn
    <3> QED BY <1>3, <3>2, <3>3, <3>4 DEF Telling
  <2> QED BY <1>14, <1>3a, <1>4, <1>5, <2>1 DEF thunderRequest, HasTokens
<1>15. ASSUME coreLogin(p) PROVE \E x : Goes(p, x)
  <2>1. PICK w \in {"session", "direct"} :
          LET x == [At(p, "captcha") EXCEPT !.next = w]
          IN (Set(p, x) /\ (w = "session" <=> pw)) \/ Set(p, Hurt(p, x))
    BY <1>15 DEF coreLogin
  <2> DEFINE x == [At(p, "captcha") EXCEPT !.next = w]
  <2>2. At(p, "captcha") \in Call /\ At(p, "captcha").pc = "captcha" /\ \A f \in Rest : At(p, "captcha")[f] = c[f]
    BY AtIs DEF PCs
  <2>3. x \in Call /\ x.pc = "captcha" /\ x.next = w /\ \A f \in Rest \ {"next"} : x[f] = c[f]
    BY <2>2 DEF Call, Rest
  <2>4. (Set(p, x) /\ (w = "session" <=> pw)) \/ Set(p, Hurt(p, x))
    BY <2>1
  <2>5. c.pc = "login"
    BY <1>15 DEF coreLogin
  <2> HIDE DEF x
  <2>6. Follows(p, x) /\ InRange(x) /\ ~Apart(c)
    BY <1>0, <2>3, <2>5 DEF Follows, Shape, InRange, Making, Apart, Rest, Refreshing, LoggingIn
  <2>7. (w = "session" <=> pw) /\ Own(c) => Own(x)
    BY <2>3, <2>5 DEF Own, Rest, Refreshing, LoggingIn, Telling, Renewed
  <2>8. CASE Set(p, x) /\ (w = "session" <=> pw)
    BY <2>3, <2>6, <2>7, <2>8 DEF Goes, Set, LoneMove, Rest, Telling
  <2>9. CASE Set(p, Hurt(p, x))
    <3>1. Goes(p, Hurt(p, x))
      BY <2>3, <2>6, <2>9, HurtIs, ZenonT(60) DEF Goes, Set, LoneMove, Telling, Follows, Shape, InRange,
           Making
    <3> QED BY <3>1
  <2> QED BY <2>4, <2>8, <2>9
<1> QED BY <1>1, <1>2, <1>6, <1>8, <1>9, <1>10, <1>11, <1>13, <1>14, <1>15

LEMMA RequestStep ==
  ASSUME IInv, NEW p \in Calls, UNCHANGED idMap,
         \/ send(p) \/ aliRequest(p) \/ doCreateSession(p) \/ aliOpenRequest(p) \/ baiduRequest(p)
         \/ thunderRequest(p) \/ cookieRequest(p) \/ coreLogin(p)
  PROVE  IInv' /\ (HasTokens => StepOK(p))
<1>1. /\ \E x : Goes(p, x)
      /\ call[p].pc \notin {"idle", "assign1", "assign2", "notify"}
      /\ UNCHANGED <<drv, pw, srv, cl, saved, lost, reqs>> /\ odd' \in 0..MaxOdd
  BY RequestGoes
<1>2. PICK x : Goes(p, x)
  BY <1>1
<1> QED BY <1>1, <1>2, QuietSteps DEF Goes

\* OnChange is called, the request sent again.
LEMMA NotifyStep ==
  ASSUME IInv, NEW p \in Calls, UNCHANGED idMap, NotifyChange(p)
  PROVE  IInv' /\ (HasTokens => StepOK(p))
<1>1. /\ call' = [call EXCEPT ![p] = Resend(p)] /\ call[p].pc = "notify"
      /\ saved' = Props(call[p].c) /\ odd' \in 0..MaxOdd
      /\ UNCHANGED <<drv, pw, srv, cl, lost, reqs>>
  BY DEF NotifyChange, Set, conf, Fine, IInv, Types
<1>2. /\ Follows(p, Resend(p)) /\ InRange(Resend(p)) /\ LoneMove(p, Resend(p))
      /\ Resend(p).pc \notin Telling \cup {"refreshing"}
  BY <1>1, ResendMoves DEF IInv
<1> QED BY <1>1, <1>2, QuietSteps

\* The captcha token is told, or refused.
LEMMA CaptchaStep ==
  ASSUME IInv, NEW p \in Calls, UNCHANGED idMap, refreshCaptchaToken(p)
  PROVE  IInv' /\ (HasTokens => StepOK(p))
<1> DEFINE c == call[p]
<1>0. c \in Call /\ Shape(c) /\ InRange(c) /\ c.pc = "captcha"
  BY DEF IInv, Types, Shapes, InRange, refreshCaptchaToken
<1>1. odd' \in 0..MaxOdd /\ UNCHANGED <<drv, pw, srv, cl, lost, reqs>>
  BY TokensParameters DEF refreshCaptchaToken, conf, Costs, Fine, IInv, Types
<1>2. CASE saved' = Props(c.c) /\ Set(p, At(p, c.next))
  <2> DEFINE x == At(p, c.next)
  <2>1. c.next \in {"send", "session", "direct"}
    BY <1>0 DEF Shape
  <2>2. x \in Call /\ x.pc = c.next /\ \A f \in Rest : x[f] = c[f]
    BY <2>1, AtIs DEF PCs, IInv
  <2>3. call' = [call EXCEPT ![p] = x]
    BY <1>2 DEF Set
  <2> HIDE DEF x
  <2>4. Follows(p, x) /\ InRange(x) /\ x.pc \notin Telling \cup {"refreshing"}
    BY <1>0, <2>1, <2>2 DEF Follows, Shape, InRange, Making, Rest, Refreshing, LoggingIn, Telling
  <2>5. LoneMove(p, x)
    BY <1>0, <2>1, <2>2 DEF LoneMove, Own, Apart, Shape, Rest, Refreshing, LoggingIn, Telling,
         Renewed
  <2> QED BY <1>0, <1>1, <1>2, <2>3, <2>4, <2>5, QuietSteps
<1>3. CASE Set(p, Hurt(p, Err(p))) /\ saved' = saved
  <2>1. call' = [call EXCEPT ![p] = Hurt(p, Err(p))]
    BY <1>3 DEF Set
  <2>2. /\ Follows(p, Hurt(p, Err(p))) /\ InRange(Hurt(p, Err(p))) /\ LoneMove(p, Hurt(p, Err(p)))
        /\ Hurt(p, Err(p)).pc \notin Telling \cup {"refreshing"}
    BY <1>0, ErrMoves, HurtMoves DEF IInv
  <2> QED BY <1>0, <1>1, <1>3, <2>1, <2>2, QuietSteps
<1> QED BY <1>2, <1>3 DEF refreshCaptchaToken

\* The refresh token is read.
LEMMA RefreshStep ==
  ASSUME IInv, NEW p \in Calls, UNCHANGED idMap, refreshToken(p)
  PROVE  IInv' /\ (HasTokens => StepOK(p))
<1> DEFINE c == call[p]  y == At(p, "refreshing")  x == [y EXCEPT !.tok = cl[c.c].ref]
           calls == [call EXCEPT ![p] = x]
<1>0. c \in Call /\ Shape(c) /\ InRange(c) /\ c.pc = "refresh" /\ c.c \in Clients /\ HasTokens
  BY DEF IInv, Types, Shapes, Shape, Call, InRange, refreshToken, Refreshing
<1>1. odd' \in 0..MaxOdd /\ UNCHANGED <<drv, pw, srv, cl, saved, lost, reqs>>
  BY DEF refreshToken, conf, Fine, IInv, Types
<1>2. cl[c.c].ref \in Nat /\ cl[c.c].ref <= srv.n
  BY <1>0 DEF IInv, Types, Client
<1>3. y \in Call /\ y.pc = "refreshing" /\ \A f \in Rest : y[f] = c[f]
  BY AtIs DEF PCs, IInv
<1>4. x \in Call /\ x.pc = "refreshing" /\ x.tok = cl[c.c].ref /\ \A f \in Rest \ {"tok"} : x[f] = c[f]
  BY <1>2, <1>3 DEF Call, Rest
<1>5. call' = Disturbed(calls, Fellows(p))
  BY DEF refreshToken
<1> HIDE DEF x
<1>6. calls \in [Calls -> Call] /\ calls[p] = x /\ \A q \in Calls \ {p} : calls[q] = call[q]
  BY <1>4 DEF IInv, Types
<1> HIDE DEF calls
<1>7. /\ call' \in [Calls -> Call]
      /\ \A q \in Calls :
           /\ \A f \in {"pc", "c", "kind", "try", "tok", "got", "next"} : call'[q][f] = calls[q][f]
           /\ call'[q].lone <=> calls[q].lone /\ q \notin Fellows(p)
  BY <1>5, <1>6, DisturbedIs
<1>8. OnlyOf(p)
  BY <1>6, <1>7 DEF OnlyOf
<1>9. Follows(p, call'[p]) /\ InRange(call[p])' /\ call'[p].pc = "refreshing" /\ call'[p].tok = cl[c.c].ref
  BY <1>0, <1>1, <1>2, <1>4, <1>6, <1>7 DEF Follows, Shape, InRange, Making, Rest, Refreshing,
       LoggingIn
<1>10. IInv'
  BY <1>0, <1>1, <1>8, <1>9, QuietKeeps DEF Telling
<1>11. StepOK(p)
  <2>1. \A q \in Calls : call'[q].lone => call[q].lone
    BY <1>4, <1>6, <1>7 DEF Rest
  <2>2. \A q \in Calls \ {p} : call[q].c = call[p].c => ~call'[q].lone
    BY <1>7 DEF Fellows, IInv, Types
  <2>3. ASSUME LoneOK(p), call'[p].lone PROVE Own(call[p])'
    <3>1. /\ \A q \in Calls : q # p /\ call[q].c = c.c => Apart(call[q])
          /\ Own(c)
      BY <1>0, <2>1, <2>3 DEF LoneOK
    <3>2. ~lost => Usable(cl[c.c].ref)
      BY <1>0, <3>1 DEF IInv, Types, Kept, InUse, Active, Pending, Apart
    <3> QED BY <1>0, <1>1, <1>4, <1>6, <1>7, <1>9, <3>1, <3>2
            DEF Own, Usable, Rest, Refreshing, LoggingIn, Telling, Renewed
  <2> QED BY <1>0, <1>1, <1>8, <1>9, <2>1, <2>2, <2>3 DEF StepOK
<1> QED BY <1>10, <1>11

\* A call that goes on without tokens.
LEMMA FailMoves ==
  ASSUME Types, Shapes, NEW p \in Calls, call[p].pc = "refreshing"
  PROVE  /\ Follows(p, RefreshFails(p)) /\ InRange(RefreshFails(p))
         /\ RefreshFails(p).pc \in {"login", "refresh", "fail"}
         /\ RefreshFails(p).lone = call[p].lone
         /\ drv = "thunder" /\ pw => RefreshFails(p).pc = "login"
         /\ RefreshFails(p).pc # "fail" => drv = "thunder"
<1> DEFINE c == call[p]
<1>1. c \in Call /\ Shape(c) /\ InRange(c)
  BY DEF Types, Shapes, InRange
<1>2. CASE drv = "thunder" /\ (pw \/ c.kind = "init")
  <2> DEFINE x == At(p, "login")
  <2>1. x \in Call /\ x.pc = "login" /\ \A f \in Rest : x[f] = c[f]
    BY AtIs DEF PCs
  <2>2. RefreshFails(p) = x
    BY <1>2 DEF RefreshFails
  <2> HIDE DEF x
  <2> QED BY <1>1, <1>2, <2>1, <2>2 DEF Follows, Shape, InRange, Making, Rest, Refreshing,
       LoggingIn
<1>3. CASE ~ (drv = "thunder" /\ (pw \/ c.kind = "init"))
  <2>1. RefreshFails(p) = Err(p)
    BY <1>3 DEF RefreshFails
  <2> QED BY <1>3, <2>1, ErrIs, ErrMoves
<1> QED BY <1>2, <1>3

\* The server gives new tokens, and the call has them or loses them.
LEMMA TokensStep ==
  ASSUME IInv, NEW p \in Calls, NEW x, call' = [call EXCEPT ![p] = x], HasTokens,
         NEW used, used = {} \/ (used = {call[p].tok} /\ call[p].pc = "refreshing"),
         call[p].pc \in {"refreshing", "session", "direct"},
         srv' = Newer(used), lost' \in BOOLEAN, used # {} /\ lost => lost',
         UNCHANGED <<drv, pw, cl, saved, reqs, idMap>>, odd' \in 0..MaxOdd,
         \/ x = [At(p, "assign1") EXCEPT !.got = srv.n + 1]
         \/ lost' /\ x.pc \in {"login", "refresh", "fail"} /\ Follows(p, x) /\ InRange(x) /\ ~x.lone
  PROVE  IInv' /\ StepOK(p)
<1> DEFINE c == call[p]  n == srv.n + 1
<1>0. c \in Call /\ Shape(c) /\ InRange(c)
  BY DEF IInv, Types, Shapes, InRange
<1>1. srv'.n = n /\ srv'.dead = srv.dead /\ srv.dead < n /\ n \in Nat
  BY DEF Newer, IInv, Types
<1>2. ASSUME x = [At(p, "assign1") EXCEPT !.got = srv.n + 1]
      PROVE  /\ x \in Call /\ x.pc = "assign1" /\ x.got = n
             /\ \A f \in Rest \ {"got"} : x[f] = c[f]
  <2>1. At(p, "assign1") \in Call /\ At(p, "assign1").pc = "assign1" /\ \A f \in Rest : At(p, "assign1")[f] = c[f]
    BY AtIs DEF PCs, IInv
  <2> QED BY <1>1, <1>2, <2>1 DEF Call, Rest
<1>3. Follows(p, x) /\ x.tok <= n /\ x.got <= n
  <2>1. CASE x = [At(p, "assign1") EXCEPT !.got = srv.n + 1]
    BY <1>0, <1>1, <1>2, <2>1 DEF Follows, Shape, InRange, Making, Rest, Refreshing, LoggingIn,
         IInv, Types, Call
  <2>2. CASE Follows(p, x) /\ InRange(x)
    BY <1>1, <2>2 DEF Follows, InRange, IInv, Types, Call
  <2> QED BY <2>1, <2>2
<1>4. call'[p] = x /\ (\A q \in Calls \ {p} : call'[q] = call[q]) /\ OnlyOf(p)
  BY <1>3 DEF OnlyOf, IInv, Types, Follows
<1>5. IInv'
  <2>1. InRange(call[p])'
    BY <1>1, <1>3, <1>4 DEF InRange
  <2>2. \/ x.pc = "assign1" /\ x.got = n
        \/ lost' /\ x.pc \notin Telling \cup {"refreshing"}
    BY <1>2 DEF Telling
  <2> QED BY <1>3, <1>4, <2>1, <2>2, TokensKeep
<1>6. \A q \in Calls : call'[q].lone => call[q].lone
  BY <1>2, <1>4 DEF Rest
<1>7. ASSUME LoneOK(p), call'[p].lone PROVE Own(call[p])' /\ call'[p].pc # "fail"
  <2>1. x.pc = "assign1" /\ x.got = n /\ (\A f \in Rest \ {"got"} : x[f] = c[f]) /\ Own(c)
    BY <1>2, <1>4, <1>7 DEF LoneOK, Rest
  <2> QED BY <1>0, <1>1, <1>4, <2>1 DEF Own, Rest, Refreshing, LoggingIn, Telling, Renewed,
       Shape, HasTokens
<1> QED BY <1>3, <1>4, <1>5, <1>6, <1>7 DEF StepOK, Apart

\* The server takes it, or not.
LEMMA ExchangeStep ==
  ASSUME IInv, NEW p \in Calls, UNCHANGED idMap, exchange(p)
  PROVE  IInv' /\ StepOK(p)
<1> DEFINE c == call[p]  r == RefreshFails(p)
<1>0. c.pc = "refreshing" /\ HasTokens
  BY DEF exchange, IInv, Shapes, Shape, Refreshing
<1>1. odd' \in 0..MaxOdd /\ UNCHANGED <<drv, pw, cl, saved, reqs>>
  BY TokensParameters DEF exchange, conf, Costs, Fine, IInv, Types
<1>2. /\ Follows(p, r) /\ InRange(r) /\ r.pc \in {"login", "refresh", "fail"} /\ r.lone = c.lone
      /\ drv = "thunder" /\ pw => r.pc = "login"
      /\ r.pc # "fail" => drv = "thunder"
  BY <1>0, FailMoves DEF IInv
<1>3. /\ Follows(p, Hurt(p, r)) /\ InRange(Hurt(p, r)) /\ Hurt(p, r).lone = FALSE
      /\ Hurt(p, r).pc = r.pc
  BY <1>2, HurtIs, ZenonT(60) DEF Follows, Shape, InRange, Making
<1> HIDE DEF r
<1>4. ASSUME srv' = Newer({c.tok}), Set(p, [At(p, "assign1") EXCEPT !.got = srv.n + 1]), lost' = lost
      PROVE  IInv' /\ StepOK(p)
  <2>1. lost' \in BOOLEAN
    BY <1>4 DEF IInv, Types
  <2> QED BY <1>0, <1>1, <1>4, <2>1, TokensStep DEF Set
<1>5. ASSUME srv' = Newer({c.tok}), Set(p, Hurt(p, r)), lost' = TRUE
      PROVE  IInv' /\ StepOK(p)
  BY <1>0, <1>1, <1>2, <1>3, <1>5, TokensStep DEF Set
<1>6. ASSUME NEW x \in {r, Hurt(p, r)}, Set(p, x), UNCHANGED <<srv, lost>>,
             x.lone => x = r /\ c.tok \notin srv.live
      PROVE  IInv' /\ StepOK(p)
  <2>1. Follows(p, x) /\ InRange(x) /\ x.pc = r.pc
    BY <1>2, <1>3, <1>6
  <2>2. LoneMove(p, x)
    <3>1. ASSUME x.lone, Own(c) PROVE Own(x) /\ (~lost => x.pc # "fail")
      BY <1>0, <1>2, <1>6, <3>1 DEF Own, Usable, Renewed, Refreshing, LoggingIn, Telling, IInv,
           Types
    <3> QED BY <1>0, <1>2, <1>3, <1>6, <3>1 DEF LoneMove, Apart
  <2> QED BY <1>0, <1>1, <1>2, <1>6, <2>1, <2>2, QuietSteps DEF Set, Telling
<1>7. CASE Set(p, r) /\ UNCHANGED <<srv, lost>> /\ c.tok \notin srv.live
  BY <1>6, <1>7
<1>8. CASE Set(p, Hurt(p, r)) /\ UNCHANGED <<srv, lost>>
  BY <1>3, <1>6, <1>8
<1> QED BY <1>4, <1>5, <1>7, <1>8 DEF exchange, r

\* The two ways of logging in with a password.
LEMMA SignInStep ==
  ASSUME IInv, NEW p \in Calls, UNCHANGED idMap, call[p].pc \in {"session", "direct"}, SignIn(p)
  PROVE  IInv' /\ StepOK(p)
<1> DEFINE c == call[p]
<1>0. HasTokens
  BY DEF IInv, Shapes, Shape, LoggingIn, HasTokens
<1>1. odd' \in 0..MaxOdd /\ UNCHANGED <<drv, pw, cl, saved, reqs>>
  BY TokensParameters DEF SignIn, conf, Costs, Fine, IInv, Types
<1>2. CASE srv' = Newer({}) /\ lost' = FALSE /\ Set(p, [At(p, "assign1") EXCEPT !.got = srv.n + 1])
  BY <1>0, <1>1, <1>2, TokensStep DEF Set
<1>3. ASSUME NEW x \in {Err(p), Hurt(p, Err(p))}, Set(p, x), UNCHANGED <<srv, lost>>,
             x.lone => x = Err(p) /\ ~pw
      PROVE  IInv' /\ StepOK(p)
  <2>1. Follows(p, x) /\ InRange(x) /\ x.pc \notin Telling \cup {"refreshing"}
    BY <1>3, ErrMoves, HurtMoves DEF IInv
  <2>2. LoneMove(p, x)
    <3>1. ASSUME x.lone, Own(c) PROVE Own(x)
      BY <1>3, <3>1, ErrIs DEF Own, Renewed, Refreshing, LoggingIn, Telling, IInv
    <3>2. Own(c) /\ x.lone => lost
      BY <1>3 DEF Own, LoggingIn
    <3>3. x.lone => c.lone
      BY <1>3, ErrIs DEF IInv
    <3> QED BY <3>1, <3>2, <3>3 DEF LoneMove, Apart
  <2> QED BY <1>0, <1>1, <1>3, <2>1, <2>2, QuietSteps DEF Set
<1>4. CASE Set(p, Err(p)) /\ UNCHANGED <<srv, lost>> /\ ~pw
  BY <1>3, <1>4
<1>5. CASE Set(p, Hurt(p, Err(p))) /\ UNCHANGED <<srv, lost>>
  <2>1. Hurt(p, Err(p)).lone = FALSE
    BY ErrIs, HurtIs, ZenonT(60) DEF IInv
  <2> QED BY <1>3, <1>5, <2>1
<1> QED BY <1>2, <1>4, <1>5 DEF SignIn

\* Assigned: whoever is left alone has the access token before it goes on.
LEMMA AssignStep ==
  ASSUME IInv, NEW p \in Calls, UNCHANGED idMap, assign(p)
  PROVE  IInv' /\ StepOK(p)
<1> DEFINE x == call[p]  c == x.c  w == IF x.pc = "assign1" THEN "assign2" ELSE "notify"
           field == IF (x.pc = "assign1") = (First = "acc") THEN "acc" ELSE "ref"
<1>0. c \in Clients /\ x \in Call /\ x.pc \in {"assign1", "assign2"} /\ HasTokens /\ Shape(x)
  BY DEF IInv, Types, Shapes, Shape, Call, assign, Refreshing
<1>1. /\ cl' = [cl EXCEPT ![c] = [@ EXCEPT ![field] = x.got]]
      /\ call' = [call EXCEPT ![p] = At(p, w)]
      /\ UNCHANGED <<drv, pw, srv, lost>>
  BY DEF assign, Set, conf, Fine
<1>2. At(p, w) \in Call /\ At(p, w).pc = w /\ \A f \in Rest : At(p, w)[f] = x[f]
  BY AtIs DEF IInv, PCs
<1>3. call'[p] = At(p, w) /\ (\A q \in Calls \ {p} : call'[q] = call[q]) /\ OnlyOf(p)
  BY <1>1, <1>2 DEF OnlyOf, IInv, Types
<1>4. Follows(p, call'[p])
  BY <1>0, <1>2, <1>3 DEF Follows, Shape, Making, Rest, Refreshing, LoggingIn
<1>5. ASSUME LoneOK(p), x.lone PROVE Own(call[p])'
  <2>1. Own(x)
    BY <1>0, <1>5 DEF LoneOK
  <2>2. (drv # "ali" /\ w = "assign2") \/ w = "notify" => cl'[c].acc = x.got
    <3>1. CASE field = "acc"
      BY <1>0, <1>1, <3>1 DEF IInv, Types, Client
    <3>2. CASE field = "ref"
      <4>1. cl'[c].acc = cl[c].acc
        BY <1>0, <1>1, <3>2 DEF IInv, Types, Client
      <4>2. x.pc = "assign1" <=> drv = "ali"
        BY <1>0, <3>2 DEF First
      <4> QED BY <1>0, <2>1, <4>1, <4>2 DEF Own
    <3> QED BY <3>1, <3>2
  <2> HIDE DEF w
  <2>3. w \in {"assign2", "notify"}
    BY DEF w
  <2> QED BY <1>0, <1>1, <1>2, <1>3, <2>1, <2>2, <2>3 DEF Own, Renewed, Rest, Refreshing,
       LoggingIn, Telling
<1>6. IInv'
  BY AssignKeeps
<1> QED BY <1>0, <1>1, <1>2, <1>3, <1>4, <1>5, <1>6 DEF StepOK, Apart, Rest

\* Every step of a call.
LEMMA CallStepKeeps ==
  ASSUME IInv, NEW p \in Calls, UNCHANGED idMap, CallStep(p)
  PROVE  IInv' /\ (HasTokens => StepOK(p))
<1>1. CASE exchange(p) \/ assign(p) \/ loginWithSession(p) \/ loginDirect(p)
  BY <1>1, ExchangeStep, AssignStep, SignInStep DEF loginWithSession, loginDirect
<1>2. CASE NotifyChange(p) \/ refreshCaptchaToken(p) \/ refreshToken(p)
  BY <1>2, NotifyStep, CaptchaStep, RefreshStep
<1>3. CASE ~ (exchange(p) \/ assign(p) \/ loginWithSession(p) \/ loginDirect(p)
              \/ NotifyChange(p) \/ refreshCaptchaToken(p) \/ refreshToken(p))
  BY <1>3, RequestStep, SMTT(60) DEF CallStep
<1> QED BY <1>1, <1>2, <1>3

\* The end of the access tokens hurts the calls that are past their first answer.
LEMMA ExpireKeepsLone ==
  ASSUME IInv, LoneInv, Expire
  PROVE  LoneInv' /\ \A p \in Calls : call'[p].pc = call[p].pc
<1> DEFINE hurt == {p \in DOMAIN call : call[p].try > 0 \/ call[p].pc \notin {"idle", "send", "answer"}}
<1>1. call' = Disturbed(call, hurt) /\ UNCHANGED <<drv, cl, pw, lost>>
  BY SMTT(60) DEF Expire, conf
<1>2. /\ call' \in [Calls -> Call]
      /\ \A q \in Calls :
           /\ \A f \in {"pc", "c", "kind", "try", "tok", "got", "next"} : call'[q][f] = call[q][f]
           /\ call'[q].lone <=> call[q].lone /\ q \notin hurt
  BY <1>1, DisturbedIs DEF IInv, Types
<1>3. ASSUME NEW p \in Calls, HasTokens, call'[p].lone, call'[p].pc # "idle"
      PROVE  /\ \A q \in Calls : q # p /\ call'[q].c = call'[p].c => Apart(call[q])'
             /\ Own(call[p])'
  <2>1. call[p].lone /\ p \notin hurt /\ call[p].pc = call'[p].pc /\ call[p].try = call'[p].try
    BY <1>2, <1>3
  <2>2. call'[p].pc \in {"send", "answer"} /\ ~ (call'[p].try > 0) /\ call'[p].try # 2
    BY <1>3, <2>1 DEF IInv, Types
  <2>3. \A q \in Calls : q # p /\ call[q].c = call[p].c => Apart(call[q])
    BY <1>3, <2>1, SMTT(60) DEF LoneInv, LoneOK
  <2>4. Own(call[p])'
    <3>1. ~ Renewed(call[p])'
      BY <2>2 DEF Renewed
    <3>2. call'[p].pc \notin Refreshing \cup LoggingIn \cup Telling \cup {"device"}
      BY <2>2 DEF Refreshing, LoggingIn, Telling
    <3> HIDE DEF hurt
    <3> QED BY <2>2, <3>1, <3>2, ZenonT(60) DEF Own, Refreshing, LoggingIn, Telling
  <2> QED BY <1>2, <1>3, <2>3, <2>4 DEF Apart
<1> QED BY <1>1, <1>2, <1>3 DEF LoneInv, LoneOK, HasTokens

------------------------------------------------------------------------------
(* Calls begin and end. *)

\* A request or a tick of the timer.
LEMMA BeginKeeps ==
  ASSUME IInv, NEW p \in Calls, call[p].pc = "idle",
         NEW x \in Call, call' = [call EXCEPT ![p] = x], Shape(x), ~Making(x), InRange(x),
         x.c \in Clients, cl[x.c].st = "open" \/ cl[x.c].cron, x.pc \in {"send", "refresh"}, x.try = 0,
         x.lone = Lone(x.c), UNCHANGED <<drv, pw, srv, cl, saved, lost, idMap>>,
         odd' \in 0..MaxOdd, reqs' \in 0..MaxReqs
  PROVE  IInv' /\ (LoneInv => LoneInv')
<1> DEFINE c == x.c
<1>1. call' \in [Calls -> Call] /\ call'[p] = x /\ \A q \in Calls \ {p} : call'[q] = call[q]
  BY DEF IInv, Types
<1>2. Types' /\ Shapes'
  BY <1>1 DEF IInv, Types, Shapes, Shape, HasTokens, InRange
<1>3. \A q \in Calls : Making(call[q]) => call[q].c # c
  BY DEF IInv, One, Types
<1>4. ~Making(call[p]) /\ call[p].c = "none" /\ ~Pending(call[p]) /\ call[p].pc \notin Telling
  BY DEF IInv, Shapes, Shape, Making, Pending, Telling
<1>5. ~Pending(x) /\ x.pc \notin Telling \cup {"refreshing"}
  BY DEF Pending, Telling
<1>6. InUse(c) /\ \A d \in Clients : InUse(d)' => InUse(d)
  BY <1>1, <1>4 DEF InUse, Active, IInv, Types
<1>7. One'
  <2>1. \A a, b \in Clients : InUse(a)' /\ InUse(b)' => a = b
    BY <1>6 DEF IInv, One
  <2>2. \A d \in Clients : cl[d].st = "init" <=> \E q \in Calls : call'[q].c = d /\ Making(call[q])'
    BY <1>1, <1>4 DEF IInv, One, Making
  <2>3. \A q, r \in Calls : Making(call[q])' /\ r # q => call'[r].c # call'[q].c
    BY <1>1, <1>3 DEF IInv, One, Making
  <2> QED BY <2>1, <2>2, <2>3 DEF IInv, One
<1>8. \A q \in Calls : (Pending(call[q])' <=> Pending(call[q]) /\ q # p)
                       /\ (Pending(call[q]) => q # p)
  BY <1>1, <1>4, <1>5 DEF Pending
<1>9. Hands'
  BY <1>1, <1>5, <1>8 DEF IInv, Hands
<1>10. Kept' /\ Saved'
  BY <1>1, <1>4, <1>5, <1>6, <1>8 DEF IInv, Kept, Saved, Usable, HasTokens
<1>11. ASSUME LoneInv, HasTokens, NEW q \in Calls, call'[q].lone, call'[q].pc # "idle"
       PROVE  /\ \A r \in Calls : r # q /\ call'[r].c = call'[q].c => Apart(call[r])'
              /\ Own(call[q])'
  <2>1. Apart(x)
    BY DEF Apart
  <2>2. CASE q = p
    <3>1. \A r \in Calls : call[r].c = c => call[r].pc \in {"send", "answer"}
      BY <1>1, <1>11, <2>2 DEF Lone, IInv, Types
    <3>2. Own(x)'
      BY DEF Own, Renewed, Refreshing, LoggingIn, Telling
    <3> QED BY <1>1, <2>2, <3>1, <3>2 DEF Apart, Own, Renewed
  <2>3. CASE q # p
    <3>1. LoneOK(q) /\ call'[q] = call[q]
      BY <1>1, <1>11, <2>3 DEF LoneInv
    <3>2. \A r \in Calls : r # q /\ call'[r].c = call'[q].c => Apart(call[r])'
      BY <1>1, <1>11, <2>1, <3>1 DEF LoneOK, Apart
    <3>3. Own(call[q])'
      BY <1>11, <3>1 DEF LoneOK, Own, Usable, Valid, Renewed
    <3> QED BY <3>2, <3>3
  <2> QED BY <2>2, <2>3
<1> QED BY <1>2, <1>7, <1>9, <1>10, <1>11 DEF IInv, LoneInv, LoneOK, HasTokens

\* A call returns; that of Init makes its client open or failed.
LEMMA EndKeeps ==
  ASSUME IInv, NEW p \in Calls, call[p].pc \in {"done", "fail"}, call' = [call EXCEPT ![p] = Idle],
         cl' \in [Clients -> Client],
         \A d \in Clients :
           /\ cl'[d].acc = cl[d].acc /\ cl'[d].ref = cl[d].ref
           /\ IF d = call[p].c /\ Making(call[p])
              THEN \/ cl'[d].st = "open" /\ (cl'[d].cron => drv = "ali")
                   \/ cl'[d].st = "failed" /\ ~cl'[d].cron
              ELSE cl'[d].st = cl[d].st /\ cl'[d].cron = cl[d].cron,
         idMap' = idMap \/ (idMap' = call[p].c /\ cl'[idMap'].st = "open"),
         saved' = saved \/ saved' = Props(call[p].c),
         UNCHANGED <<drv, pw, srv, lost, odd, reqs>>
  PROVE  IInv' /\ (LoneInv => LoneInv')
<1> DEFINE c == call[p].c
<1>0. c \in Clients /\ InUse(c)
  BY DEF IInv, Types, Shapes, Shape, Call, InUse, Active
<1>1. Idle \in Call /\ Idle.pc = "idle" /\ Shape(Idle) /\ InRange(Idle) /\ ~Making(Idle)
  BY DEF Idle, Call, PCs, Shape, InRange, IInv, Types, Refreshing, LoggingIn, Making
<1>2. call' \in [Calls -> Call] /\ call'[p] = Idle /\ \A q \in Calls \ {p} : call'[q] = call[q]
  BY <1>1 DEF IInv, Types
<1>3. Types'
  <2>1. saved' \in [acc : Nat, ref : Nat] /\ saved'.acc <= srv.n /\ saved'.ref <= srv.n
    BY <1>0 DEF IInv, Types, Props, Client
  <2>2. \A d \in Clients : cl'[d].acc <= srv.n /\ cl'[d].ref <= srv.n /\ (cl'[d].cron => drv = "ali")
    BY DEF IInv, Types
  <2> QED BY <1>0, <1>1, <1>2, <2>1, <2>2 DEF IInv, Types, InRange
<1>4. Shapes'
  BY <1>1, <1>2 DEF IInv, Types, Shapes, Shape, HasTokens
<1>5. ~Pending(call[p]) /\ ~Pending(call[p])' /\ call[p].pc \notin Telling
  BY <1>1, <1>2 DEF Pending, Telling
<1>6. \A q \in Calls : Pending(call[q])' <=> Pending(call[q])
  BY <1>2, <1>5 DEF Pending
<1>7. \A d \in Clients : InUse(d)' => InUse(d)
  <2>1. \A d \in Clients : Active(d)' => Active(d)
    BY <1>2, TokensParameters DEF Active, IInv, Types, Idle
  <2> QED BY <1>0, <2>1 DEF InUse
<1>8. One'
  <2>1. \A a, b \in Clients : InUse(a)' /\ InUse(b)' => a = b
    BY <1>7 DEF IInv, One
  <2>2. \A d \in Clients : cl'[d].st = "init" <=> \E q \in Calls : call'[q].c = d /\ Making(call[q])'
    BY <1>1, <1>2 DEF IInv, One, Making
  <2>3. \A q, r \in Calls : Making(call[q])' /\ r # q => call'[r].c # call'[q].c
    BY <1>1, <1>2 DEF IInv, One, Making, Idle, Types, Shapes, Shape, Call
  <2>4. \A d \in Clients : cl'[d].st \in {"none", "init"} => ~cl'[d].cron
    BY DEF IInv, One
  <2>5. (idMap # NoClient => cl[idMap].st \in {"open", "closed"})'
    <3>1. Making(call[p]) => cl[c].st = "init"
      BY <1>0 DEF IInv, One
    <3> QED BY <3>1 DEF IInv, One, Types
  <2> QED BY <2>1, <2>2, <2>3, <2>4, <2>5 DEF One
<1>9. Hands'
  BY <1>1, <1>2, <1>6, <1>5 DEF IInv, Hands
<1>10. Kept'
  BY <1>2, <1>5, <1>6, <1>7 DEF IInv, Kept, Usable, HasTokens
<1>11. Saved'
  <2>1. CASE saved' = saved
    BY <1>2, <1>5, <2>1 DEF IInv, Saved, Usable, HasTokens
  <2>2. CASE saved' = Props(c)
    <3>1. \A q \in Calls : Pending(call[q]) => call'[q].pc \in Telling
      BY <1>2, <1>5 DEF Pending, Telling
    <3>2. saved'.ref = cl[c].ref
      BY <2>2 DEF Props
    <3> QED BY <1>0, <3>1, <3>2 DEF IInv, Kept, Saved, Usable, HasTokens
  <2> QED BY <2>1, <2>2
<1>12. ASSUME LoneInv PROVE LoneInv'
  BY <1>1, <1>2, <1>12 DEF LoneInv, LoneOK, Own, Usable, Valid, Renewed, Apart, HasTokens, IInv,
       Shapes, Shape, Types, Call
<1> QED BY <1>3, <1>4, <1>8, <1>9, <1>10, <1>11, <1>12 DEF IInv

\* What calls start as.
LEMMA StartIs ==
  ASSUME NEW c \in Clients, NEW k \in {"init", "me", "req", "cron"}
  PROVE  /\ Start(c, k) \in Call /\ Start(c, k).c = c /\ Start(c, k).kind = k
         /\ Start(c, k).pc = "send" /\ Start(c, k).try = 0
         /\ Start(c, k).tok = 0 /\ Start(c, k).got = 0 /\ Start(c, k).lone = Lone(c)
<1> DEFINE i == Idle
           x == [i EXCEPT !.c = c, !.kind = k, !.lone = Lone(c), !.pc = "send"]
<1>1. i \in Call /\ i.try = 0 /\ i.tok = 0 /\ i.got = 0
  BY DEF Idle, Call, PCs
<1>2. Lone(c) \in BOOLEAN
  BY DEF Lone
<1>3. Start(c, k) = x
  BY DEF Start
<1> HIDE DEF i
<1>4. x \in Call
  BY <1>1, <1>2, ZenonT(60) DEF Call, PCs
<1>5. x.c = c /\ x.kind = k /\ x.pc = "send" /\ x.try = i.try /\ x.tok = i.tok /\ x.got = i.got
  BY <1>1 DEF Call
<1>6. x.lone = Lone(c)
  BY <1>1 DEF Call
<1> QED BY <1>1, <1>3, <1>4, <1>5, <1>6

LEMMA InitsAre ==
  ASSUME Types, NEW c \in Clients, NEW x \in Inits(c)
  PROVE  /\ x \in Call /\ Shape(x) /\ Making(x) /\ x.c = c /\ x.pc \in {"send", "refresh", "done"}
         /\ x.try = 0 /\ InRange(x)
<1> DEFINE i == Start(c, "init")  m == Start(c, "me")
<1>1. /\ i \in Call /\ i.c = c /\ i.kind = "init" /\ i.pc = "send" /\ i.try = 0 /\ i.tok = 0 /\ i.got = 0
      /\ m \in Call /\ m.c = c /\ m.kind = "me" /\ m.pc = "send" /\ m.try = 0 /\ m.tok = 0 /\ m.got = 0
  BY StartIs
<1> HIDE DEF i, m
<1>2. \/ x = i
      \/ x = m /\ drv = "thunder"
      \/ x = [i EXCEPT !.pc = "refresh", !.next = "first"] /\ drv \in {"ali", "ali_open", "baidu"}
      \/ x = [i EXCEPT !.pc = "done", !.next = "fresh"]
  BY DEF Inits, aliInit, aliOpenInit, baiduInit, thunderInit, quarkInit, cloudreveInit, i, m,
       Types, AllDrivers
<1>3. 0 <= srv.n
  BY DEF Types
<1>4. CASE x = i \/ (x = m /\ drv = "thunder")
  BY <1>1, <1>3, <1>4, TokensParameters DEF Shape, Making, InRange, Refreshing, LoggingIn
<1>5. CASE x = [i EXCEPT !.pc = "refresh", !.next = "first"] /\ drv \in {"ali", "ali_open", "baidu"}
  <2>1. x \in Call /\ x.pc = "refresh" /\ \A f \in {"c", "kind", "try", "tok", "got"} : x[f] = i[f]
    BY <1>1, <1>5 DEF Call, PCs
  <2> QED BY <1>1, <1>3, <1>5, <2>1, TokensParameters DEF Shape, Making, InRange, Refreshing,
       LoggingIn, HasTokens
<1>6. CASE x = [i EXCEPT !.pc = "done", !.next = "fresh"]
  <2>1. x \in Call /\ x.pc = "done" /\ \A f \in {"c", "kind", "try", "tok", "got"} : x[f] = i[f]
    BY <1>1, <1>6 DEF Call, PCs
  <2> QED BY <1>1, <1>3, <2>1, TokensParameters DEF Shape, Making, InRange, Refreshing, LoggingIn
<1> QED BY <1>2, <1>4, <1>5, <1>6

\* A client is made after the one before it is done.
LEMMA NewClientKeeps ==
  ASSUME IInv, NEW p \in Procs, NewClient(p)
  PROVE  IInv' /\ (LoneInv => LoneInv')
<1>1. PICK c \in Clients :
        /\ cl[c].st = "none" /\ call[p].pc = "idle"
        /\ \A d \in Clients : ~Active(d) /\ ~Open(d) /\ ~cl[d].cron
        /\ cl' = [cl EXCEPT ![c] = [@ EXCEPT !.st = "init", !.acc = saved.acc, !.ref = saved.ref]]
        /\ \E x \in Inits(c) : call' = [call EXCEPT ![p] = x]
  <2> DEFINE next == {d \in Clients : cl[d].st = "none"}
  <2>1. next # {} /\ (CHOOSE d \in next : TRUE) \in next
    BY DEF NewClient
  <2>2. call[p].pc = "idle"
    BY DEF NewClient, Starts, Free
  <2> QED BY <2>1, <2>2 DEF NewClient, Set
<1>1a. PICK x \in Inits(c) : call' = [call EXCEPT ![p] = x]
  BY <1>1
<1>2. UNCHANGED <<drv, pw, reqs, srv, saved, lost, idMap, odd>>
  BY DEF NewClient, conf, Fine
<1>3. /\ x \in Call /\ Shape(x) /\ Making(x) /\ x.c = c /\ x.pc \in {"send", "refresh", "done"}
      /\ x.try = 0 /\ InRange(x)
  BY InitsAre DEF IInv
<1>4. \A q \in Calls : call[q].pc = "idle" /\ call[q].c = "none" /\ ~Making(call[q])
  BY <1>1 DEF Active, IInv, Types, Shapes, Shape, Call, Making
<1>5. call' \in [Calls -> Call] /\ p \in Calls /\ call'[p] = x /\ \A q \in Calls \ {p} : call'[q] = call[q]
  BY <1>1, <1>1a, <1>3 DEF IInv, Types, Calls
<1>6. /\ cl' \in [Clients -> Client]
      /\ cl'[c].st = "init" /\ cl'[c].acc = saved.acc /\ cl'[c].ref = saved.ref /\ cl'[c].cron = cl[c].cron
      /\ \A d \in Clients : d # c => cl'[d] = cl[d]
  <2>1. cl[c] \in Client /\ saved.acc \in Nat /\ saved.ref \in Nat
    BY DEF IInv, Types
  <2> DEFINE y == [cl[c] EXCEPT !.st = "init", !.acc = saved.acc, !.ref = saved.ref]
  <2>2. y \in Client /\ y.st = "init" /\ y.acc = saved.acc /\ y.ref = saved.ref /\ y.cron = cl[c].cron
    BY <2>1 DEF Client
  <2>3. cl' = [cl EXCEPT ![c] = y]
    BY <1>1
  <2> HIDE DEF y
  <2> QED BY <2>2, <2>3 DEF IInv, Types
<1>7. Types' /\ Shapes'
  <2>1. \A d \in Clients : cl'[d].acc <= srv.n /\ cl'[d].ref <= srv.n /\ (cl'[d].cron => drv = "ali")
    BY <1>1, <1>6 DEF IInv, Types
  <2> QED BY <1>2, <1>3, <1>5, <1>6, <2>1 DEF IInv, Types, Shapes, Shape, HasTokens, InRange
<1>8. \A d \in Clients : cl[d].st # "init"
  BY <1>4 DEF IInv, One
<1>9. \A d \in Clients : InUse(d)' => d = c
  BY <1>1, <1>3, <1>4, <1>5, <1>6, <1>8, TokensParameters DEF InUse, Active, IInv, Types, Open
<1>10. One'
  <2>1. \A d \in Clients : cl'[d].st = "init" <=> \E q \in Calls : call'[q].c = d /\ Making(call[q])'
    BY <1>3, <1>4, <1>5, <1>6, <1>8, TokensParameters DEF Making
  <2>2. \A q, r \in Calls : Making(call[q])' /\ r # q => call'[r].c # call'[q].c
    BY <1>3, <1>4, <1>5, TokensParameters DEF Making
  <2>3. \A d \in Clients : cl'[d].st \in {"none", "init"} => ~cl'[d].cron
    BY <1>1, <1>6
  <2>4. (idMap # NoClient => cl[idMap].st \in {"open", "closed"})'
    BY <1>1, <1>2, <1>6 DEF IInv, One, Types
  <2> QED BY <1>9, <2>1, <2>2, <2>3, <2>4 DEF One
<1>11. Hands'
  BY <1>3, <1>4, <1>5 DEF Hands, Pending
<1>12. Kept' /\ Saved'
  <2>1. ~lost /\ HasTokens => Usable(saved.ref)
    BY <1>4 DEF IInv, Saved, Telling
  <2> QED BY <1>2, <1>6, <1>9, <2>1 DEF Kept, Saved, Usable, HasTokens
<1>13. LoneInv'
  <2>1. Own(x)'
    BY <1>2, <1>3 DEF Own, Renewed, Refreshing, LoggingIn, Telling
  <2>2. \A q \in Calls : q # p => call'[q].pc = "idle" /\ Apart(call[q])'
    BY <1>4, <1>5 DEF Apart
  <2>3. Own(call[p])'
    BY <1>5, <2>1 DEF Own, Renewed, Usable, Valid
  <2>4. \A q \in Calls : LoneOK(q)'
    BY <2>2, <2>3 DEF LoneOK
  <2> QED BY <2>4 DEF LoneInv
<1> QED BY <1>7, <1>10, <1>11, <1>12, <1>13 DEF IInv

LEMMA RequestKeeps ==
  ASSUME IInv, NEW p \in Procs, Request(p)
  PROVE  IInv' /\ (LoneInv => LoneInv')
<1>1. PICK c \in Clients : Open(c) /\ call' = [call EXCEPT ![p] = Start(c, "req")]
  BY DEF Request, Set
<1> DEFINE x == Start(c, "req")
<1>2. /\ x \in Call /\ x.c = c /\ x.kind = "req" /\ x.pc = "send" /\ x.try = 0
      /\ x.tok = 0 /\ x.got = 0 /\ x.lone = Lone(c)
  BY StartIs
<1> HIDE DEF x
<1>3. Shape(x) /\ ~Making(x) /\ InRange(x)
  BY <1>2, TokensParameters DEF Shape, Making, InRange, Refreshing, LoggingIn, IInv, Types
<1>4. /\ call[p].pc = "idle" /\ p \in Calls /\ odd' \in 0..MaxOdd /\ reqs' \in 0..MaxReqs
      /\ UNCHANGED <<drv, pw, srv, cl, saved, lost, idMap>>
  BY TokensParameters DEF Request, Starts, Free, Calls, Fine, IInv, Types
<1> QED BY <1>1, <1>2, <1>3, <1>4, BeginKeeps DEF Open, x

LEMMA TickKeeps ==
  ASSUME IInv, NEW c \in Clients, tokenRefreshTick(c)
  PROVE  IInv' /\ (LoneInv => LoneInv')
<1> DEFINE i == Start(c, "cron")  x == [i EXCEPT !.pc = "refresh"]
<1>1. /\ i \in Call /\ i.c = c /\ i.kind = "cron" /\ i.pc = "send" /\ i.try = 0
      /\ i.tok = 0 /\ i.got = 0 /\ i.lone = Lone(c)
  BY StartIs
<1>2. /\ call[c].pc = "idle" /\ c \in Calls /\ cl[c].cron /\ call' = [call EXCEPT ![c] = x]
      /\ UNCHANGED <<drv, pw, srv, cl, saved, lost, reqs, idMap>> /\ odd' \in 0..MaxOdd
  BY TokensParameters DEF tokenRefreshTick, Set, conf, Costs, Calls, IInv, Types
<1> HIDE DEF i
<1>3. x \in Call /\ x.pc = "refresh" /\ \A f \in Rest : x[f] = i[f]
  BY <1>1 DEF Call, PCs, Rest
<1> HIDE DEF x
<1>4. Shape(x) /\ ~Making(x) /\ InRange(x)
  BY <1>1, <1>2, <1>3, TokensParameters
  DEF Shape, Making, InRange, Refreshing, LoggingIn, HasTokens, Rest, IInv, Types
<1>5. x.c = c /\ x.try = 0 /\ x.lone = Lone(x.c)
  BY <1>1, <1>3 DEF Rest
<1>6. reqs' \in 0..MaxReqs
  BY <1>2 DEF IInv, Types
<1> QED BY <1>2, <1>3, <1>4, <1>5, <1>6, BeginKeeps

LEMMA CallEndKeeps ==
  ASSUME IInv, NEW p \in Calls, InitDone(p) \/ InitFails(p) \/ Returns(p)
  PROVE  IInv' /\ (LoneInv => LoneInv')
<1> DEFINE c == call[p].c
<1>1. c \in Clients /\ call[p].pc \in {"done", "fail"} /\ call' = [call EXCEPT ![p] = Idle]
      /\ UNCHANGED <<drv, pw, srv, lost, odd, reqs>>
  BY DEF InitDone, InitFails, Returns, Set, conf, Fine, IInv, Types, Shapes, Shape, Call
<1>2. cl[c] \in Client /\ cl \in [Clients -> Client]
  BY <1>1 DEF IInv, Types
<1>3. CASE InitDone(p)
  <2> DEFINE y == [cl[c] EXCEPT !.st = "open", !.cron = (drv = "ali")]
  <2>1. y \in Client /\ y.st = "open" /\ (y.cron => drv = "ali") /\ y.acc = cl[c].acc /\ y.ref = cl[c].ref
    BY <1>2 DEF Client
  <2>2. cl' = [cl EXCEPT ![c] = y] /\ (saved' = saved \/ saved' = Props(c)) /\ idMap' = c /\ Making(call[p])
    BY <1>3 DEF InitDone, Making
  <2> HIDE DEF y
  <2>3. cl' \in [Clients -> Client] /\ cl'[c] = y /\ \A d \in Clients : d # c => cl'[d] = cl[d]
    BY <1>1, <1>2, <2>1, <2>2
  <2> QED BY <1>1, <2>1, <2>2, <2>3, EndKeeps
<1>4. CASE InitFails(p)
  <2> DEFINE y == [cl[c] EXCEPT !.st = "failed", !.done = TRUE]
  <2>1. y \in Client /\ y.st = "failed" /\ y.cron = cl[c].cron /\ y.acc = cl[c].acc /\ y.ref = cl[c].ref
    BY <1>2 DEF Client
  <2>2. cl' = [cl EXCEPT ![c] = y] /\ saved' = saved /\ idMap' = idMap /\ Making(call[p])
    BY <1>4 DEF InitFails, Making
  <2> HIDE DEF y
  <2>3. cl' \in [Clients -> Client] /\ cl'[c] = y /\ \A d \in Clients : d # c => cl'[d] = cl[d]
    BY <1>1, <1>2, <2>1, <2>2
  <2>4. ~cl[c].cron
    BY <1>1, <2>2 DEF IInv, One
  <2> QED BY <1>1, <2>1, <2>2, <2>3, <2>4, EndKeeps
<1>5. CASE Returns(p)
  <2>1. cl' = cl /\ saved' = saved /\ idMap' = idMap /\ ~Making(call[p])
    BY <1>5 DEF Returns, Making
  <2> QED BY <1>1, <1>2, <2>1, EndKeeps
<1> QED BY <1>3, <1>4, <1>5

\* The end of a client.
LEMMA CloseKeeps ==
  ASSUME IInv, NEW c \in Clients, NEW y \in Client, cl' = [cl EXCEPT ![c] = y],
         y.acc = cl[c].acc /\ y.ref = cl[c].ref /\ (y.cron => cl[c].cron),
         y.st = cl[c].st \/ (cl[c].st \in {"open", "closed"} /\ y.st = "closed"),
         idMap' = idMap \/ idMap' = NoClient,
         UNCHANGED <<drv, pw, srv, saved, call, lost, odd, reqs>>
  PROVE  IInv' /\ (LoneInv => LoneInv')
<1>1. /\ cl' \in [Clients -> Client] /\ cl'[c] = y /\ \A d \in Clients : d # c => cl'[d] = cl[d]
  BY DEF IInv, Types
<1>2. Types' /\ Shapes'
  BY <1>1 DEF IInv, Types, Shapes, Shape, HasTokens
<1>3. \A d \in Clients : InUse(d)' => InUse(d)
  BY <1>1 DEF InUse, Active
<1>4. One'
  BY <1>1, <1>3 DEF IInv, One, Making, Types
<1>5. Hands' /\ Saved'
  BY <1>1 DEF IInv, Hands, Pending, Saved, Usable, HasTokens
<1>6. Kept'
  BY <1>1, <1>3 DEF IInv, Kept, Pending, Usable, HasTokens
<1>7. LoneInv => LoneInv'
  BY <1>1 DEF LoneInv, LoneOK, Own, Usable, Valid, Renewed, Apart, HasTokens
<1> QED BY <1>2, <1>4, <1>5, <1>6, <1>7 DEF IInv

LEMMA CloseStepsKeep ==
  ASSUME IInv, \/ \E c \in Clients : tokenRefreshEnds(c) \/ Close(c)
               \/ RemoveDriver
  PROVE  IInv' /\ (LoneInv => LoneInv')
<1>1. ASSUME NEW c \in Clients, tokenRefreshEnds(c) PROVE IInv' /\ (LoneInv => LoneInv')
  <2> DEFINE y == [cl[c] EXCEPT !.cron = FALSE]
  <2>1. y \in Client /\ y.acc = cl[c].acc /\ y.ref = cl[c].ref /\ ~y.cron /\ y.st = cl[c].st
    BY ZenonT(60) DEF IInv, Types, Client
  <2>2. cl' = [cl EXCEPT ![c] = y] /\ UNCHANGED <<drv, pw, srv, saved, call, lost, odd, reqs, idMap>>
    BY <1>1 DEF tokenRefreshEnds, conf, Fine
  <2> HIDE DEF y
  <2> QED BY <2>1, <2>2, CloseKeeps
<1>2. ASSUME NEW c \in Clients, cl' = Closed(c), cl[c].st \in {"open", "closed"},
             idMap' = idMap \/ idMap' = NoClient,
             UNCHANGED <<drv, pw, srv, saved, call, lost, odd, reqs>>
      PROVE  IInv' /\ (LoneInv => LoneInv')
  <2> DEFINE y == [cl[c] EXCEPT !.st = "closed", !.done = TRUE]
  <2>1. y \in Client /\ y.acc = cl[c].acc /\ y.ref = cl[c].ref /\ y.cron = cl[c].cron /\ y.st = "closed"
    BY ZenonT(60) DEF IInv, Types, Client
  <2>2. cl' = [cl EXCEPT ![c] = y]
    BY <1>2 DEF Closed
  <2> HIDE DEF y
  <2> QED BY <1>2, <2>1, <2>2, CloseKeeps
<1>3. ASSUME NEW c \in Clients, Close(c) PROVE IInv' /\ (LoneInv => LoneInv')
  BY <1>2, <1>3 DEF Close, Open, conf, Fine
<1>4. CASE RemoveDriver
  <2>1. idMap \in Clients /\ cl[idMap].st \in {"open", "closed"}
    BY <1>4 DEF RemoveDriver, IInv, Types, One
  <2> QED BY <1>2, <1>4, <2>1 DEF RemoveDriver, conf, Fine
<1> QED BY <1>1, <1>3, <1>4

------------------------------------------------------------------------------
(* The theorems. *)

LEMMA InitEstablishes == Init => IInv /\ LoneInv
<1> SUFFICES ASSUME Init PROVE IInv /\ LoneInv
  OBVIOUS
<1>1. PICK dead \in {0, 1} : srv = [n |-> 1, dead |-> dead, live |-> {1}]
  BY DEF Init
<1>2. /\ call \in [Calls -> Call] /\ \A p \in Calls : call[p] = Idle
      /\ Idle \in Call /\ Shape(Idle) /\ ~Making(Idle) /\ ~Pending(Idle) /\ InRange(Idle)
  BY <1>1 DEF Init, Calls, Idle, Call, PCs, Shape, Making, Pending, InRange, Refreshing, LoggingIn
<1>3. /\ cl \in [Clients -> Client]
      /\ \A c \in Clients : cl[c].st = "none" /\ cl[c].acc = 0 /\ cl[c].ref = 0 /\ ~cl[c].cron
  BY DEF Init, Client
<1>4. /\ saved \in [acc : {0, 1}, ref : {0, 1}] /\ (saved.ref = 1 \/ (saved.ref = 0 /\ pw))
  BY DEF Init
<1>5. Types
  <2>1. drv \in AllDrivers /\ pw \in BOOLEAN /\ (pw => drv = "thunder")
    BY TokensParameters DEF Init
  <2>2. odd \in 0..MaxOdd /\ reqs \in 0..MaxReqs /\ lost \in BOOLEAN /\ idMap \in Clients \cup {NoClient}
    <3>1. odd = 0 /\ reqs = 0 /\ lost = FALSE /\ idMap = NoClient
      BY DEF Init
    <3>2. MaxOdd \in Nat /\ MaxReqs \in Nat
      BY TokensParameters
    <3>3. 0 \in 0..MaxOdd /\ 0 \in 0..MaxReqs
      BY <3>2
    <3> QED BY <3>1, <3>3
  <2> QED BY <1>1, <1>2, <1>3, <1>4, <2>1, <2>2 DEF Types, InRange
<1>6. Shapes
  BY <1>2 DEF Shapes
<1>7. \A c \in Clients : ~InUse(c)
  BY <1>2, <1>3, TokensParameters DEF InUse, Active, Types, Idle
<1>8. One
  BY <1>2, <1>3, <1>7, ClientsParameters DEF One, Init
<1>9. Hands /\ Kept
  BY <1>2, <1>7 DEF Hands, Kept
<1>10. Saved
  BY <1>1, <1>4 DEF Saved, Usable
<1>11. LoneInv
  BY <1>2 DEF LoneInv, LoneOK, Idle
<1> QED BY <1>5, <1>6, <1>8, <1>9, <1>10, <1>11 DEF IInv

LEMMA NextKeeps == IInv /\ LoneInv /\ [Next]_vars => IInv' /\ LoneInv'
<1> SUFFICES ASSUME IInv, LoneInv, [Next]_vars PROVE IInv' /\ LoneInv'
  OBVIOUS
<1>1. ASSUME NEW p \in Procs, NewClient(p) \/ Request(p) PROVE IInv' /\ LoneInv'
  BY <1>1, NewClientKeeps, RequestKeeps
<1>2. ASSUME NEW p \in Calls, CallNext(p) PROVE IInv' /\ LoneInv'
  <2>1. CASE InitDone(p) \/ InitFails(p) \/ Returns(p)
    BY <2>1, CallEndKeeps
  <2>2. CASE CallStep(p) /\ UNCHANGED idMap
    <3>1. IInv' /\ (HasTokens => StepOK(p))
      BY <2>2, CallStepKeeps
    <3>2. (HasTokens' => HasTokens) /\ (HasTokens => LoneInv')
      <4>1. drv' = drv
        BY <2>2 DEF CallStep, conf, send, aliRequest, aliOpenRequest, baiduRequest,
             thunderRequest,
          cookieRequest, doCreateSession, refreshToken, exchange, assign, NotifyChange, coreLogin,
          refreshCaptchaToken, loginWithSession, loginDirect, SignIn
      <4> QED BY <1>2, <3>1, <4>1, StepsKeepLone DEF HasTokens
    <3> QED BY <3>1, <3>2 DEF LoneInv
  <2> QED BY <1>2, <2>1, <2>2 DEF CallNext
<1>3. ASSUME NEW c \in Clients, tokenRefreshTick(c) PROVE IInv' /\ LoneInv'
  BY <1>3, TickKeeps
<1>4. CASE (\E c \in Clients : tokenRefreshEnds(c) \/ Close(c)) \/ RemoveDriver
  BY <1>4, CloseStepsKeep
<1>5. CASE Expire /\ UNCHANGED idMap
  BY <1>5, ExpireKeeps, ExpireKeepsLone, SMTT(60)
<1>6. CASE UNCHANGED vars
  BY <1>6 DEF vars, tvars, conf, IInv, Types, Shapes, Shape, One, InUse, Active, Making, Hands,
       Pending,
    Kept, Saved, Usable, HasTokens, LoneInv, LoneOK, Own, Apart, Renewed, Valid
<1> QED BY <1>1, <1>2, <1>3, <1>4, <1>5, <1>6 DEF Next, IInv, Types

\* The step does not make a call fail that is left alone, and no step of another call does.
FailsNot(p) == ~lost /\ HasTokens /\ call[p].lone /\ call'[p].lone /\ call[p].pc # "fail"
                 => call'[p].pc # "fail"

LEMMA SetFailsNot ==
  ASSUME IInv, NEW q \in Calls, NEW x, call' = [call EXCEPT ![q] = x], x.pc # "fail"
  PROVE  \A p \in Calls : FailsNot(p)
BY DEF IInv, Types, FailsNot

LEMMA NextServes ==
  ASSUME IInv, LoneInv, [Next]_vars
  PROVE  \A p \in Calls : FailsNot(p)
<1>1. ASSUME NEW q \in Procs, NewClient(q) PROVE \A p \in Calls : FailsNot(p)
  <2> DEFINE next == {c \in Clients : cl[c].st = "none"}
             d == CHOOSE c \in next : TRUE
  <2>1. d \in Clients
    BY <1>1 DEF NewClient
  <2>2. \E x \in Inits(d) : call' = [call EXCEPT ![q] = x]
    BY <1>1 DEF NewClient, Set
  <2> HIDE DEF d
  <2>3. PICK x \in Inits(d) : call' = [call EXCEPT ![q] = x]
    BY <2>2
  <2>4. x.pc \in {"send", "refresh", "done"}
    BY <2>1, InitsAre DEF IInv
  <2> QED BY <2>3, <2>4, SetFailsNot DEF Calls
<1>2. ASSUME NEW q \in Procs, Request(q) PROVE \A p \in Calls : FailsNot(p)
  <2>1. PICK c \in Clients : call' = [call EXCEPT ![q] = Start(c, "req")]
    BY <1>2 DEF Request, Set
  <2>2. Start(c, "req").pc = "send"
    BY StartIs
  <2> QED BY <2>1, <2>2, SetFailsNot DEF Calls
<1>3. ASSUME NEW c \in Clients, tokenRefreshTick(c) PROVE \A p \in Calls : FailsNot(p)
  <2> DEFINE i == Start(c, "cron")  x == [i EXCEPT !.pc = "refresh"]
  <2>1. i \in Call
    BY StartIs
  <2>2. call' = [call EXCEPT ![c] = x]
    BY <1>3 DEF tokenRefreshTick, Set
  <2> HIDE DEF i
  <2>3. x.pc = "refresh"
    BY <2>1 DEF Call
  <2> HIDE DEF x
  <2> QED BY <2>2, <2>3, SetFailsNot DEF Calls
<1>4. ASSUME NEW q \in Calls, InitDone(q) \/ InitFails(q) \/ Returns(q)
      PROVE  \A p \in Calls : FailsNot(p)
  <2>1. call' = [call EXCEPT ![q] = Idle]
    BY <1>4 DEF InitDone, InitFails, Returns, Set
  <2>2. Idle.pc # "fail"
    BY DEF Idle
  <2> QED BY <2>1, <2>2, SetFailsNot
<1>5. ASSUME NEW q \in Calls, CallStep(q) /\ UNCHANGED idMap
      PROVE  \A p \in Calls : FailsNot(p)
  <2>1. HasTokens => StepOK(q)
    BY <1>5, CallStepKeeps
  <2>2. FailsNot(q)
    BY <2>1 DEF StepOK, FailsNot, LoneInv
  <2>3. \A p \in Calls \ {q} : FailsNot(p)
    BY <2>1 DEF StepOK, OnlyOf, FailsNot
  <2> QED BY <2>2, <2>3
<1>6. CASE (\E c \in Clients : tokenRefreshEnds(c) \/ Close(c)) \/ RemoveDriver
  BY <1>6 DEF tokenRefreshEnds, Close, RemoveDriver, FailsNot
<1>7. CASE Expire
  BY <1>7, ExpireKeepsLone DEF FailsNot
<1>8. CASE UNCHANGED vars
  BY <1>8 DEF vars, tvars, FailsNot
<1> QED BY <1>1, <1>2, <1>3, <1>4, <1>5, <1>6, <1>7, <1>8 DEF Next, CallNext, IInv, Types

(* The inductive invariant: types, shapes, one client in use at a time, who has
   which token, and what a call that is left alone may rely on. *)
THEOREM Invariance == Spec => [](IInv /\ LoneInv)
BY InitEstablishes, NextKeeps, PTL DEF Spec

(* For any goroutines and clients, any number of faults, the variables keep their
   types; no request is sent more than three times. *)
THEOREM TypeCorrect == Spec => []TypeOK
<1>1. IInv => TypeOK
  BY DEF IInv, Types, TypeOK, Client, Call
<1> QED BY <1>1, Invariance, PTL

(* However refreshes, logins and the timer of a client meet (refreshToken and its
   callers): an answer apart that got lost, the client has a refresh token that
   the server takes, or a call is about to assign one. *)
THEOREM SessionsAreKept == Spec => []SessionKept
<1>1. IInv => SessionKept
  <2> SUFFICES ASSUME IInv, ~lost, HasTokens, NEW c \in Clients, cl[c].st \in {"init", "open"},
                      ~Usable(cl[c].ref)
               PROVE  \E p \in Renewing(c) : call[p].got \in srv.live
    BY DEF SessionKept
  <2>1. PICK p \in Calls : call[p].c = c /\ Pending(call[p])
    BY DEF IInv, Kept, InUse
  <2>2. p \in Renewing(c)
    BY <2>1 DEF Renewing, Pending, IInv, Types
  <2> QED BY <2>1, <2>2 DEF IInv, Hands
<1> QED BY <1>1, Invariance, PTL

(* What OnChange was last called with logs the next client in, while nobody has a
   newer token still to tell. *)
THEOREM SavedIsAlwaysCurrent == Spec => []SavedIsCurrent
<1>1. IInv => SavedIsCurrent
  <2> SUFFICES ASSUME IInv, ~lost, HasTokens, NEW p \in Calls, call[p].pc \in Telling
               PROVE  \E c \in Clients : Renewing(c) # {}
    BY DEF SavedIsCurrent, IInv, Saved
  <2>1. call[p].c \in Clients
    BY DEF IInv, Types, Shapes, Shape, Call, Telling
  <2>2. p \in Renewing(call[p].c)
    BY DEF Renewing, Telling, IInv, Types
  <2> QED BY <2>1, <2>2
<1> QED BY <1>1, Invariance, PTL

(* No step makes a call fail that no fault has hit and that met no other refresh
   of its client: Init and requests succeed whatever has become of the tokens. *)
THEOREM LoneCallsAreServed == Spec => LoneCallServed
<1> DEFINE serves == \A p \in DOMAIN call :
             ~lost /\ HasTokens /\ call[p].lone /\ call'[p].lone /\ call[p].pc # "fail"
               => call'[p].pc # "fail"
<1>1. IInv /\ LoneInv /\ [Next]_vars => [serves]_vars
  BY NextServes DEF FailsNot, IInv, Types
<1> QED BY <1>1, Invariance, PTL DEF Spec, LoneCallServed
=============================================================================
