-------------------------------- MODULE Tokens -------------------------------
(***************************************************************************)
(* How the drivers stay logged in.  A request carries the access token; if *)
(* the server calls it expired, the goroutine that sent it refreshes the   *)
(* tokens and sends it again.  A refresh token can be used once: the       *)
(* answer carries the next one, which must reach the client's Properties   *)
(* and, through OnChange, the caller's store, or the session is lost.      *)
(*                                                                         *)
(* Nothing serialises the goroutines of a client: two requests and, for    *)
(* aliyundrive, a timer may refresh at the same time.                      *)
(***************************************************************************)
EXTENDS Integers

CONSTANTS
  Drivers,  \* the drivers to be checked, a subset of AllDrivers
  Clients,  \* client objects, made one after another for one account
  Procs,    \* goroutines that call the clients
  MaxOdd,   \* bound: faults, expiries, ticks of the timer
  MaxReqs   \* bound: requests

AllDrivers == {"ali", "ali_open", "baidu", "thunder", "quark", "cloudreve"}

ASSUME TokensParameters ==
  /\ Drivers \subseteq AllDrivers /\ MaxOdd \in Nat /\ MaxReqs \in Nat
  /\ Clients \cap Procs = {} /\ "none" \notin Clients

VARIABLES
  drv,    \* the driver
  pw,     \* thunder_browser: the caller gave user name and password
  srv,    \* server: the last token pair it gave, the access tokens that ended,
          \* the refresh tokens it still takes
  cl,     \* the client objects
  saved,  \* what OnChange was last called with
  call,   \* what each goroutine does; a client's own is its refresh timer
  lost,   \* an answer with a new refresh token has got lost
  odd,
  reqs    \* requests made: a bound

conf == <<drv, pw, reqs>>
tvars == <<drv, pw, srv, cl, saved, call, lost, odd, reqs>>

HasTokens == drv \in {"ali", "ali_open", "baidu", "thunder"}

Idle == [pc |-> "idle", c |-> "none", kind |-> "none", try |-> 0, tok |-> 0, got |-> 0,
         next |-> "none", lone |-> TRUE]

Valid(acc) == acc > srv.dead

Costs == odd < MaxOdd /\ odd' = odd + 1
Fine == UNCHANGED odd

(* Calls that are not left alone: hurt, or another one of the client's refreshes. *)
Disturbed(calls, ps) == [p \in DOMAIN calls |-> IF p \in ps THEN [calls[p] EXCEPT !.lone = FALSE] ELSE calls[p]]
Fellows(p) == {q \in DOMAIN call : q # p /\ call[q].c = call[p].c}

Set(p, x) == call' = [call EXCEPT ![p] = x]
At(p, pc) == [call[p] EXCEPT !.pc = pc]
Hurt(p, x) == [x EXCEPT !.lone = FALSE]

(* An error comes out of a request: the call's own, but Init of thunder goes on. *)
Err(p) ==
  IF drv = "thunder" /\ call[p].kind = "me"
  THEN [call[p] EXCEPT !.pc = IF cl[call[p].c].ref = 0 THEN "login" ELSE "refresh", !.kind = "init"]
  ELSE [call[p] EXCEPT !.pc = "fail"]

(* Deviation: a refresh is always followed by another attempt. *)
ResendUncounted(p) ==
  IF call[p].kind = "cron" THEN At(p, "done") ELSE [At(p, "send") EXCEPT !.try = @ + 1]

(* The request is sent again, after what was done about its token. *)
Resend(p) ==
  LET c == [call[p] EXCEPT !.got = 0]
  IN IF c.kind = "cron" \/ (c.kind = "init" /\ drv = "thunder") THEN [c EXCEPT !.pc = "done"]
     ELSE IF c.kind = "init" /\ c.next = "first" THEN [c EXCEPT !.pc = "send", !.next = "none"]
     ELSE IF drv = "baidu" /\ c.try = 2 THEN Err(p)
     ELSE [c EXCEPT !.pc = "send", !.try = IF drv = "thunder" THEN 1 ELSE @ + 1, !.next = "none"]

------------------------------------------------------------------------------
(* Requests. *)

(* Deviation: the header is made once, before the first attempt. *)
sendSameToken(p) ==
  /\ call[p].pc = "send"
  /\ Set(p, [At(p, "answer") EXCEPT !.tok = IF call[p].try = 0 THEN cl[call[p].c].acc ELSE @])
  /\ UNCHANGED <<conf, srv, cl, saved, lost>> /\ Fine

send(p) ==
  /\ call[p].pc = "send"
  /\ Set(p, [At(p, "answer") EXCEPT !.tok = cl[call[p].c].acc])
  /\ UNCHANGED <<conf, srv, cl, saved, lost>> /\ Fine

(* After the answer: served. *)
Served(p) ==
  /\ call[p].pc = "answer" /\ Valid(call[p].tok)
  /\ Set(p, At(p, "done"))

(* The second attempt of aliyundrive and aliyundrive_open is their last. *)
aliRequest(p) ==
  /\ drv = "ali"
  /\ \/ Served(p) /\ Fine
     \/ /\ call[p].pc = "answer" /\ ~Valid(call[p].tok)
        /\ Set(p, IF call[p].try = 0 THEN At(p, "refresh") ELSE Err(p)) /\ Fine
     \/ call[p].pc = "answer" /\ Set(p, Hurt(p, Err(p))) /\ Costs
     \/ call[p].pc = "answer" /\ call[p].try = 0 /\ Set(p, Hurt(p, At(p, "device"))) /\ Costs
  /\ UNCHANGED <<conf, srv, cl, saved, lost>>

(* DeviceSessionSignatureInvalid: sign in the device, send again. *)
doCreateSession(p) ==
  /\ call[p].pc = "device"
  /\ \/ Set(p, Resend(p)) /\ Fine
     \/ Set(p, Err(p)) /\ Costs
  /\ UNCHANGED <<conf, srv, cl, saved, lost>>

aliOpenRequest(p) ==
  /\ drv = "ali_open"
  /\ \/ Served(p) /\ Fine
     \/ /\ call[p].pc = "answer" /\ ~Valid(call[p].tok)
        /\ Set(p, IF call[p].try = 0 THEN At(p, "refresh") ELSE Err(p)) /\ Fine
     \/ call[p].pc = "answer" /\ Set(p, Hurt(p, Err(p))) /\ Costs
  /\ UNCHANGED <<conf, srv, cl, saved, lost>>

(* Three attempts; a network error is one, too. *)
baiduRequest(p) ==
  /\ drv = "baidu"
  /\ \/ Served(p) /\ Fine
     \/ call[p].pc = "answer" /\ ~Valid(call[p].tok) /\ Set(p, At(p, "refresh")) /\ Fine
     \/ /\ call[p].pc = "answer"
        /\ CASE call[p].try = 0 -> Set(p, [At(p, "send") EXCEPT !.try = 1])
             [] call[p].try = 1 -> Set(p, Hurt(p, [At(p, "send") EXCEPT !.try = 2]))
             [] OTHER -> Set(p, Hurt(p, Err(p)))
        /\ Costs
     \/ call[p].pc = "answer" /\ Set(p, Hurt(p, Err(p))) /\ Costs
  /\ UNCHANGED <<conf, srv, cl, saved, lost>>

(* As often as it takes; a captcha token that has expired is renewed. *)
thunderRequest(p) ==
  /\ drv = "thunder"
  /\ \/ Served(p) /\ Fine
     \/ call[p].pc = "answer" /\ ~Valid(call[p].tok) /\ Set(p, At(p, "refresh")) /\ Fine
     \/ call[p].pc = "answer" /\ Set(p, Hurt(p, Err(p))) /\ Costs
     \/ call[p].pc = "answer" /\ Set(p, Hurt(p, [At(p, "captcha") EXCEPT !.next = "send"])) /\ Costs
  /\ UNCHANGED <<conf, srv, cl, saved, lost>>

(* quark and cloudreve have a cookie instead, and no way to renew it. *)
cookieRequest(p) ==
  /\ drv \in {"quark", "cloudreve"}
  /\ \/ Served(p) /\ Fine
     \/ call[p].pc = "answer" /\ ~Valid(call[p].tok) /\ Set(p, Err(p)) /\ Fine
     \/ call[p].pc = "answer" /\ Set(p, Hurt(p, Err(p))) /\ Costs
  /\ UNCHANGED <<conf, srv, cl, saved, lost>>

------------------------------------------------------------------------------
(* refreshToken *)

(* The refresh token is read; from now on other calls of the client may meet
   the one that it is exchanged for, or fail with this one. *)
refreshToken(p) ==
  /\ call[p].pc = "refresh"
  /\ call' = Disturbed([call EXCEPT ![p] = [At(p, "refreshing") EXCEPT !.tok = cl[call[p].c].ref]],
                       Fellows(p))
  /\ UNCHANGED <<conf, srv, cl, saved, lost>> /\ Fine

(* Deviation: a refresh that fails is tried again until it succeeds. *)
RefreshFailsNever(p) == At(p, "refresh")

(* thunder tries to log in, if a request or Init asked and it can. *)
RefreshFails(p) ==
  IF drv = "thunder" /\ (pw \/ call[p].kind = "init") THEN At(p, "login")
  ELSE Err(p)

(* The next token pair; a login starts a session of its own and leaves others alone. *)
Newer(used) == [srv EXCEPT !.n = @ + 1, !.live = (@ \ used) \cup {srv.n + 1}]

(* The server exchanges a refresh token once. *)
exchange(p) ==
  /\ call[p].pc = "refreshing"
  /\ \/ /\ call[p].tok \in srv.live /\ srv' = Newer({call[p].tok})
        /\ \/ Set(p, [At(p, "assign1") EXCEPT !.got = srv.n + 1]) /\ UNCHANGED lost /\ Fine
           \/ Set(p, Hurt(p, RefreshFails(p))) /\ lost' = TRUE /\ Costs
     \/ call[p].tok \notin srv.live /\ Set(p, RefreshFails(p)) /\ UNCHANGED <<srv, lost>> /\ Fine
     \/ Set(p, Hurt(p, RefreshFails(p))) /\ UNCHANGED <<srv, lost>> /\ Costs
  /\ UNCHANGED <<conf, cl, saved>>

(* aliyundrive assigns the refresh token first, the others the access token. *)
First == IF drv = "ali" THEN "ref" ELSE "acc"

(* Deviation: only the access token is assigned. *)
assignAccess(p) ==
  /\ call[p].pc \in {"assign1", "assign2"}
  /\ cl' = [cl EXCEPT ![call[p].c].acc = call[p].got]
  /\ Set(p, At(p, "notify"))
  /\ UNCHANGED <<conf, srv, saved, lost>> /\ Fine

assign(p) ==
  /\ call[p].pc \in {"assign1", "assign2"}
  /\ LET field == IF (call[p].pc = "assign1") = (First = "acc") THEN "acc" ELSE "ref"
     IN cl' = [cl EXCEPT ![call[p].c] = [@ EXCEPT ![field] = call[p].got]]
  /\ Set(p, At(p, IF call[p].pc = "assign1" THEN "assign2" ELSE "notify"))
  /\ UNCHANGED <<conf, srv, saved, lost>> /\ Fine

Props(c) == [acc |-> cl[c].acc, ref |-> cl[c].ref]

(* Deviation: a request's refresh tells the caller, the timer's does not. *)
NotifyChangeOfRequests(p) ==
  /\ call[p].pc = "notify"
  /\ saved' = IF call[p].kind = "cron" THEN saved ELSE Props(call[p].c)
  /\ Set(p, Resend(p))
  /\ UNCHANGED <<conf, srv, cl, lost>> /\ Fine

NotifyChange(p) ==
  /\ call[p].pc = "notify"
  /\ saved' = Props(call[p].c)
  /\ Set(p, Resend(p))
  /\ UNCHANGED <<conf, srv, cl, lost>> /\ Fine

------------------------------------------------------------------------------
(* thunder: log in with the password, or the captcha token. *)

(* The new way of logging in, or the old one if that fails. *)
coreLogin(p) ==
  /\ call[p].pc = "login"
  /\ \/ pw /\ Set(p, [At(p, "captcha") EXCEPT !.next = "session"]) /\ Fine
     \/ pw /\ Set(p, Hurt(p, [At(p, "captcha") EXCEPT !.next = "direct"])) /\ Costs
     \/ ~pw /\ Set(p, [At(p, "captcha") EXCEPT !.next = "direct"]) /\ Fine
  /\ UNCHANGED <<conf, srv, cl, saved, lost>>

refreshCaptchaToken(p) ==
  /\ call[p].pc = "captcha"
  /\ \/ saved' = Props(call[p].c) /\ Set(p, At(p, call[p].next)) /\ Fine
     \/ Set(p, Hurt(p, Err(p))) /\ UNCHANGED saved /\ Costs
  /\ UNCHANGED <<conf, srv, cl, lost>>

(* Whatever became of the last session. *)
SignIn(p) ==
  /\ \/ /\ pw /\ srv' = Newer({}) /\ lost' = FALSE /\ Fine
        /\ Set(p, [At(p, "assign1") EXCEPT !.got = srv.n + 1])
     \/ ~pw /\ Set(p, Err(p)) /\ UNCHANGED <<srv, lost>> /\ Fine
     \/ Set(p, Hurt(p, Err(p))) /\ UNCHANGED <<srv, lost>> /\ Costs
  /\ UNCHANGED <<conf, cl, saved>>

loginWithSession(p) == call[p].pc = "session" /\ SignIn(p)
loginDirect(p) == call[p].pc = "direct" /\ SignIn(p)

CallStep(p) ==
  \/ send(p)
  \/ aliRequest(p) \/ aliOpenRequest(p) \/ baiduRequest(p) \/ thunderRequest(p) \/ cookieRequest(p)
  \/ doCreateSession(p)
  \/ refreshToken(p) \/ exchange(p) \/ assign(p) \/ NotifyChange(p)
  \/ coreLogin(p) \/ refreshCaptchaToken(p) \/ loginWithSession(p) \/ loginDirect(p)

(* Access tokens end: all that have been given. *)
Expire ==
  /\ srv.dead < srv.n /\ srv' = [srv EXCEPT !.dead = srv.n]
  /\ call' = Disturbed(call, {p \in DOMAIN call : call[p].try > 0 \/ call[p].pc \notin {"idle", "send", "answer"}})
  /\ UNCHANGED <<conf, cl, saved, lost>> /\ Costs
==============================================================================
