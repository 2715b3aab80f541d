------------------------------- MODULE Clients -------------------------------
(***************************************************************************)
(* Clients made one after another for one account: Init, the registry of   *)
(* open clients (op.go), requests (Tokens) by several goroutines, the      *)
(* timer that refreshes aliyundrive's tokens, and Close.                   *)
(*                                                                         *)
(* Each client is made with the Properties that OnChange was last called   *)
(* with, and after the one before it is closed and done: two clients at    *)
(* once would use up each other's refresh token.                           *)
(***************************************************************************)
EXTENDS Tokens

VARIABLE idMap  \* the client stored under the account's id, or NoClient

CONSTANT NoClient

ASSUME ClientsParameters ==
  NoClient \notin Clients \cup Procs

vars == <<tvars, idMap>>

(* The first client starts with an access token that has ended, later ones may
   have one that has not; a cookie may be good from the start. *)
Init ==
  /\ drv \in Drivers /\ pw \in (IF drv = "thunder" THEN BOOLEAN ELSE {FALSE})
  /\ \E dead \in (IF HasTokens THEN {1} ELSE {0, 1}) : srv = [n |-> 1, dead |-> dead, live |-> {1}]
  /\ saved \in {[acc |-> 1, ref |-> 1]}
          \cup (IF drv \in {"ali_open", "baidu"} THEN {[acc |-> 0, ref |-> 1]} ELSE {})
          \cup (IF pw THEN {[acc |-> 0, ref |-> 0]} ELSE {})
  /\ cl = [c \in Clients |-> [st |-> "none", acc |-> 0, ref |-> 0, cron |-> FALSE, done |-> FALSE]]
  /\ call = [p \in Procs \cup Clients |-> Idle]
  /\ lost = FALSE /\ odd = 0 /\ reqs = 0
  /\ idMap = NoClient

Open(c) == cl[c].st = "open"

(* Idle goroutines are alike: which of them starts a call makes no difference. *)
Free == {p \in Procs : call[p].pc = "idle"}
Starts(p) == Free # {} /\ p = CHOOSE q \in Free : TRUE
Active(c) == \E p \in DOMAIN call : call[p].c = c

(* No other call of the client is about to change its tokens. *)
Lone(c) == \A p \in DOMAIN call : call[p].c = c => call[p].pc \in {"send", "answer"}

Start(c, kind) == [Idle EXCEPT !.c = c, !.kind = kind, !.lone = Lone(c), !.pc = "send"]

------------------------------------------------------------------------------
(* Init *)

aliInit(c) == [Start(c, "init") EXCEPT !.pc = "refresh", !.next = "first"]
aliOpenInit(c) == IF saved.acc = 0 THEN aliInit(c) ELSE Start(c, "init")
baiduInit(c) == aliOpenInit(c)
thunderInit(c) == Start(c, "me")
(* The session is not renewed if that was done within the hour. *)
quarkInit(c) == {Start(c, "init"), [Start(c, "init") EXCEPT !.pc = "done", !.next = "fresh"]}
cloudreveInit(c) == quarkInit(c)

Inits(c) ==
  CASE drv = "ali" -> {aliInit(c)}
    [] drv = "ali_open" -> {aliOpenInit(c)}
    [] drv = "baidu" -> {baiduInit(c)}
    [] drv = "thunder" -> {thunderInit(c)}
    [] drv = "quark" -> quarkInit(c)
    [] drv = "cloudreve" -> cloudreveInit(c)

NewClient(p) ==
  /\ Starts(p)
  /\ LET next == {c \in Clients : cl[c].st = "none"}
         c == CHOOSE d \in next : TRUE
     IN /\ next # {} /\ \A d \in Clients : ~Active(d) /\ ~Open(d) /\ ~cl[d].cron
        /\ cl' = [cl EXCEPT ![c] = [@ EXCEPT !.st = "init", !.acc = saved.acc, !.ref = saved.ref]]
        /\ \E x \in Inits(c) : Set(p, x)
  /\ UNCHANGED <<conf, srv, saved, lost, idMap>> /\ Fine

(* thunder, quark and cloudreve tell the caller at the end of Init. *)
InitDone(p) ==
  /\ call[p].kind \in {"init", "me"} /\ call[p].pc = "done"
  /\ LET c == call[p].c
     IN /\ cl' = [cl EXCEPT ![c] = [@ EXCEPT !.st = "open", !.cron = (drv = "ali")]]
        /\ saved' = IF drv \in {"thunder", "quark", "cloudreve"} /\ call[p].next # "fresh" THEN Props(c) ELSE saved
        /\ idMap' = c  \* StoreDriver
  /\ Set(p, Idle)
  /\ UNCHANGED <<conf, srv, lost>> /\ Fine

InitFails(p) ==
  /\ call[p].kind \in {"init", "me"} /\ call[p].pc = "fail"
  /\ cl' = [cl EXCEPT ![call[p].c] = [@ EXCEPT !.st = "failed", !.done = TRUE]]
  /\ Set(p, Idle)
  /\ UNCHANGED <<conf, srv, saved, lost, idMap>> /\ Fine

------------------------------------------------------------------------------
(* Requests, the timer, the end. *)

Request(p) ==
  /\ Starts(p)
  /\ \E c \in Clients : Open(c) /\ Set(p, Start(c, "req"))
  /\ reqs < MaxReqs /\ reqs' = reqs + 1
  /\ UNCHANGED <<drv, pw, srv, cl, saved, lost, idMap>> /\ Fine

Returns(p) ==
  /\ call[p].kind \in {"req", "cron"} /\ call[p].pc \in {"done", "fail"}
  /\ Set(p, Idle)
  /\ UNCHANGED <<conf, srv, cl, saved, lost, idMap>> /\ Fine

(* select may take the tick although the client has been closed. *)
tokenRefreshTick(c) ==
  /\ cl[c].cron /\ call[c].pc = "idle"
  /\ Set(c, [Start(c, "cron") EXCEPT !.pc = "refresh"])
  /\ UNCHANGED <<conf, srv, cl, saved, lost, idMap>> /\ Costs

tokenRefreshEnds(c) ==
  /\ cl[c].cron /\ call[c].pc = "idle" /\ cl[c].done
  /\ cl' = [cl EXCEPT ![c].cron = FALSE]
  /\ UNCHANGED <<conf, srv, saved, call, lost, idMap>> /\ Fine

(* Deviation: Close stops the cache only. *)
ClosedNotCancelled(c) == [cl EXCEPT ![c].st = "closed"]

(* Close cancels the context; the calls under way go on. *)
Closed(c) == [cl EXCEPT ![c] = [@ EXCEPT !.st = "closed", !.done = TRUE]]

Close(c) ==
  /\ Open(c) /\ cl' = Closed(c)
  /\ UNCHANGED <<conf, srv, saved, call, lost, idMap>> /\ Fine

RemoveDriver ==
  /\ idMap # NoClient /\ cl' = Closed(idMap) /\ idMap' = NoClient
  /\ UNCHANGED <<conf, srv, saved, call, lost>> /\ Fine

CallNext(p) ==
  \/ InitDone(p) \/ InitFails(p) \/ Returns(p)
  \/ CallStep(p) /\ UNCHANGED idMap

Next ==
  \/ \E p \in Procs : NewClient(p) \/ Request(p)
  \/ \E p \in DOMAIN call : CallNext(p)
  \/ \E c \in Clients : tokenRefreshTick(c) \/ tokenRefreshEnds(c) \/ Close(c)
  \/ RemoveDriver
  \/ Expire /\ UNCHANGED idMap

(* The program runs on, goroutine by goroutine. *)
Fairness ==
  /\ WF_vars(\E p \in DOMAIN call : CallNext(p))
  /\ WF_vars(\E c \in Clients : tokenRefreshEnds(c))

Spec == Init /\ [][Next]_vars /\ Fairness

------------------------------------------------------------------------------
(* Properties. *)

(* Type correctness; no request is sent more than three times. *)
TypeOK ==
  /\ srv.n \in Nat \ {0} /\ srv.live \subseteq 1..srv.n /\ srv.dead \in 0..srv.n
  /\ odd \in 0..MaxOdd /\ idMap \in Clients \cup {NoClient}
  /\ saved.acc \in 0..srv.n /\ saved.ref \in 0..srv.n
  /\ \A c \in Clients :
       /\ cl[c].st \in {"none", "init", "open", "closed", "failed"}
       /\ cl[c].acc \in 0..srv.n /\ cl[c].ref \in 0..srv.n
       /\ cl[c].cron => drv = "ali"
  /\ \A p \in DOMAIN call : call[p].try \in 0..2 /\ call[p].got \in 0..srv.n

Usable(tok) == tok \in srv.live \/ (tok = 0 /\ pw)

(* Nobody has just got a new token that is not assigned and told yet. *)
Renewing(c) == {p \in DOMAIN call : call[p].c = c /\ call[p].pc \in {"assign1", "assign2", "notify"}}

(* However the refreshes of requests, timer and login of one client meet, the
   client holds a refresh token the server takes, or one of its calls is about
   to assign one: no older token overwrites a newer one for good. *)
SessionKept ==
  ~lost /\ HasTokens =>
    \A c \in Clients : cl[c].st \in {"init", "open"} =>
      \/ Usable(cl[c].ref)
      \/ \E p \in Renewing(c) : call[p].got \in srv.live

(* What OnChange was last called with logs the next client in, unless a call is
   just about to tell a newer token: through concurrent refreshes, failed ones
   and several clients, one after the other. *)
SavedIsCurrent ==
  ~lost /\ HasTokens /\ (\A c \in Clients : Renewing(c) = {}) => Usable(saved.ref)

(* A call that no fault hits and that meets no other refresh of its client does
   not fail, in whatever state earlier calls, expiries and clients have left the
   tokens; Init neither. *)
LoneCallServed ==
  [][\A p \in DOMAIN call :
       ~lost /\ HasTokens /\ call[p].lone /\ call'[p].lone /\ call[p].pc # "fail"
         => call'[p].pc # "fail"]_vars

(* Every call returns, the refresh and login it may need included. *)
CallsReturn == []<>(\A p \in DOMAIN call : call[p].pc = "idle")

(* A client that has been closed, or taken out of the registry, stops
   refreshing its tokens: the next one for the account has them for itself. *)
TimerStops == []<>(\A c \in Clients : cl[c].st = "closed" => ~cl[c].cron)
==============================================================================
