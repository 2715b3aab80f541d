-------------------------------- MODULE Cache --------------------------------
(***************************************************************************)
(* The directory cache (pan/cache.go: sync.Map, singleflight, TTL, clean-  *)
(* up goroutine) as the drivers use it: List loads a directory through     *)
(* GetOrLoad, after a Del if it is a reload, and an operation that changes *)
(* the directory deletes its entry afterwards.                             *)
(*                                                                         *)
(* One key: entries of different directories never meet. A listing is      *)
(* known by the version of the remote directory it shows. Time is reduced  *)
(* to whether an entry has passed its expiresAt.                           *)
(***************************************************************************)
EXTENDS Integers, FiniteSets

CONSTANTS
    Clients,     \* goroutines that use one driver
    MaxVersion,  \* bound on changes of the remote directory
    MayFail,     \* a listing request may fail
    Nobody,      \* no flight
    None,        \* no entry, no result yet
    Failed       \* the result of a listing that failed

ASSUME CacheParameters ==
    /\ IsFiniteSet(Clients)
    /\ MaxVersion \in Nat
    /\ MayFail \in BOOLEAN
    /\ Nobody \notin Clients
    /\ None \notin Nat /\ Failed \notin Nat /\ None # Failed
    /\ None \notin [value : 0..MaxVersion, expired : BOOLEAN]

VARIABLES
    version,   \* of the remote directory
    entry,     \* Cache.data for the directory: None or [value, expired]
    flight,    \* Cache.group: who runs the loader
    pc,        \* of the clients
    seen,      \* the entry a client's Get loaded
    got,       \* what a client's listing or loader has come to
    cpc,       \* cleanupLoop: "select", "found" (an expired entry), "exit"
    stopped,   \* Cache.stopCh is closed
    \* what callers know, only for the properties:
    reload,    \* the client's listing is a reload
    settled,   \* version of the latest change whose operation has returned
    shown,     \* newest version a listing has returned
    overlap,   \* a listing and a change of the directory have overlapped
    due, floor \* by client: settled (a reload: version) and shown when its listing began
               \* (0 when no listing is under way)

vars == <<version, entry, flight, pc, seen, got, cpc, stopped, reload, settled, shown,
          overlap, due, floor>>
known == <<reload, settled, shown, overlap, due, floor>>
cleaner == <<cpc, stopped>>

Versions == 0..MaxVersion
Entries == [value : Versions, expired : BOOLEAN] \union {None}

Listing == {"del", "get", "check", "join", "again", "recheck", "load", "set", "end",
            "wait", "ret"}
Flying == {"again", "recheck", "load", "set", "end"}
Changing == {"change", "inval"}

Init ==
    /\ version = 0 /\ entry = None /\ flight = Nobody
    /\ pc = [p \in Clients |-> "idle"]
    /\ seen = [p \in Clients |-> None]
    /\ got = [p \in Clients |-> None]
    /\ cpc = "select" /\ stopped = FALSE
    /\ reload = [p \in Clients |-> FALSE]
    /\ settled = 0 /\ shown = 0 /\ overlap = FALSE
    /\ due = [p \in Clients |-> 0] /\ floor = [p \in Clients |-> 0]

Goto(p, where) == pc' = [pc EXCEPT ![p] = where]
Meets(states) == overlap' = (overlap \/ \E q \in Clients : pc[q] \in states)

-----------------------------------------------------------------------------
(* Deviations: slips a change of the code could make. Specifications never  *)
(* use them; each is put in place of the definition it is named after to    *)
(* see that a property notices.                                             *)

\* GetOrLoad calls the loader without going through the group.
JoinAlone(p) ==
    /\ pc[p] = "join"
    /\ flight' = p /\ Goto(p, "again")
    /\ UNCHANGED <<version, entry, seen, got, cleaner, known>>

\* The loader calls group.Forget, so that a reload need not join an old load.
LoadForgets(p) ==
    /\ pc[p] = "load"
    /\ flight' = Nobody
    /\ \/ got' = [got EXCEPT ![p] = version] /\ Goto(p, "set")
       \/ MayFail /\ got' = [got EXCEPT ![p] = Failed] /\ Goto(p, "end")
    /\ UNCHANGED <<version, entry, seen, cleaner, known>>

\* The result reaches only the client that loaded it.
EndAlone(p) ==
    /\ pc[p] = "end"
    /\ flight' = Nobody
    /\ pc' = [q \in Clients |-> IF q = p \/ pc[q] = "wait" THEN "ret" ELSE pc[q]]
    /\ UNCHANGED <<version, entry, seen, got, cleaner, known>>

\* A failed load is not taken out of the group.
EndStuck(p) ==
    /\ pc[p] = "end"
    /\ flight' = IF got[p] = Failed THEN flight ELSE Nobody
    /\ pc' = [q \in Clients |-> IF q = p \/ pc[q] = "wait" THEN "ret" ELSE pc[q]]
    /\ got' = [q \in Clients |-> IF pc[q] = "wait" THEN got[p] ELSE got[q]]
    /\ UNCHANGED <<version, entry, seen, cleaner, known>>

\* Get leaves expired entries to the clean-up goroutine.
GetHitExpired(p) ==
    /\ pc[p] \in {"check", "recheck"}
    /\ got' = [got EXCEPT ![p] = seen[p].value]
    /\ seen' = [seen EXCEPT ![p] = None]
    /\ Goto(p, IF pc[p] = "check" THEN "ret" ELSE "end")
    /\ UNCHANGED <<version, entry, flight, cleaner, known>>

\* An operation that changes the directory keeps its entry.
InvalidateNot(p) ==
    /\ pc[p] = "inval"
    /\ settled' = IF got[p] > settled THEN got[p] ELSE settled
    /\ got' = [got EXCEPT ![p] = None]
    /\ Goto(p, "idle")
    /\ UNCHANGED <<version, entry, flight, seen, cleaner, reload, shown, overlap, due, floor>>

-----------------------------------------------------------------------------
(* List (pan/driver/quark/driver.go; the other drivers' are the same) *)

Call(p, first, isReload, from) ==
    /\ pc[p] = "idle"
    /\ Goto(p, first)
    /\ Meets(Changing)
    /\ reload' = [reload EXCEPT ![p] = isReload]
    /\ due' = [due EXCEPT ![p] = from]
    /\ floor' = [floor EXCEPT ![p] = shown]
    /\ UNCHANGED <<version, entry, flight, seen, got, cleaner, settled, shown>>

List(p) == Call(p, "get", FALSE, settled)
Reload(p) == Call(p, "del", TRUE, version)

\* "if req.Reload": Del
ReloadDel(p) ==
    /\ pc[p] = "del"
    /\ entry' = None /\ Goto(p, "get")
    /\ UNCHANGED <<version, flight, seen, got, cleaner, known>>

Return(p) ==
    /\ pc[p] = "ret"
    /\ shown' = IF got[p] # Failed /\ got[p] > shown THEN got[p] ELSE shown
    /\ got' = [got EXCEPT ![p] = None]
    /\ reload' = [reload EXCEPT ![p] = FALSE]
    /\ due' = [due EXCEPT ![p] = 0]
    /\ floor' = [floor EXCEPT ![p] = 0]
    /\ Goto(p, "idle")
    /\ UNCHANGED <<version, entry, flight, seen, cleaner, settled, overlap>>

-----------------------------------------------------------------------------
(* Cache.Get, first outside the group and then, again, inside it *)

\* data.Load
GetLoad(p) ==
    /\ pc[p] \in {"get", "again"}
    /\ seen' = [seen EXCEPT ![p] = entry]
    /\ CASE entry # None /\ pc[p] = "get"   -> Goto(p, "check")
         [] entry # None /\ pc[p] = "again" -> Goto(p, "recheck")
         [] entry = None /\ pc[p] = "get"   -> Goto(p, "join")
         [] entry = None /\ pc[p] = "again" -> Goto(p, "load")
    /\ UNCHANGED <<version, entry, flight, got, cleaner, known>>

GetHit(p) ==
    /\ pc[p] \in {"check", "recheck"} /\ ~seen[p].expired
    /\ got' = [got EXCEPT ![p] = seen[p].value]
    /\ seen' = [seen EXCEPT ![p] = None]
    /\ Goto(p, IF pc[p] = "check" THEN "ret" ELSE "end")
    /\ UNCHANGED <<version, entry, flight, cleaner, known>>

\* The entry loaded had expired, or does so before time.Now is asked: data.Delete, which
\* removes whatever entry is there by now.
GetExpired(p) ==
    /\ pc[p] \in {"check", "recheck"}
    /\ entry' = None
    /\ seen' = [seen EXCEPT ![p] = None]
    /\ Goto(p, IF pc[p] = "check" THEN "join" ELSE "load")
    /\ UNCHANGED <<version, flight, got, cleaner, known>>

-----------------------------------------------------------------------------
(* GetOrLoad *)

\* group.Do: run the function, or wait for the one that runs.
Join(p) ==
    /\ pc[p] = "join"
    /\ \/ flight = Nobody /\ flight' = p /\ Goto(p, "again")
       \/ flight # Nobody /\ UNCHANGED flight /\ Goto(p, "wait")
    /\ UNCHANGED <<version, entry, seen, got, cleaner, known>>

\* The loader lists the remote directory.
Load(p) ==
    /\ pc[p] = "load"
    /\ \/ got' = [got EXCEPT ![p] = version] /\ Goto(p, "set")
       \/ MayFail /\ got' = [got EXCEPT ![p] = Failed] /\ Goto(p, "end")
    /\ UNCHANGED <<version, entry, flight, seen, cleaner, known>>

SetEntry(p) ==
    /\ pc[p] = "set"
    /\ entry' = [value |-> got[p], expired |-> FALSE]
    /\ Goto(p, "end")
    /\ UNCHANGED <<version, flight, seen, got, cleaner, known>>

\* The function has returned: the group forgets it and everybody gets its result.
End(p) ==
    /\ pc[p] = "end"
    /\ flight' = Nobody
    /\ pc' = [q \in Clients |-> IF q = p \/ pc[q] = "wait" THEN "ret" ELSE pc[q]]
    /\ got' = [q \in Clients |-> IF pc[q] = "wait" THEN got[p] ELSE got[q]]
    /\ UNCHANGED <<version, entry, seen, cleaner, known>>

-----------------------------------------------------------------------------
(* Mkdir, ObjRename, Delete ...: the request, then Del of the directory *)

BeginChange(p) ==
    /\ pc[p] = "idle"
    /\ Goto(p, "change")
    /\ Meets(Listing)
    /\ UNCHANGED <<version, entry, flight, seen, got, cleaner, reload, settled, shown, due, floor>>

\* The request succeeds; if it fails the operation returns without a Del.
Change(p) ==
    /\ pc[p] = "change"
    /\ \/ /\ version < MaxVersion
          /\ version' = version + 1
          /\ got' = [got EXCEPT ![p] = version + 1]
          /\ Goto(p, "inval")
       \/ UNCHANGED <<version, got>> /\ Goto(p, "idle")
    /\ UNCHANGED <<entry, flight, seen, cleaner, known>>

Invalidate(p) ==
    /\ pc[p] = "inval"
    /\ entry' = None
    /\ settled' = IF got[p] > settled THEN got[p] ELSE settled
    /\ got' = [got EXCEPT ![p] = None]
    /\ Goto(p, "idle")
    /\ UNCHANGED <<version, flight, seen, cleaner, reload, shown, overlap, due, floor>>

\* The directory is changed by another device: nobody deletes the entry.
ChangeElsewhere ==
    /\ version < MaxVersion
    /\ version' = version + 1
    /\ Meets(Listing)
    /\ UNCHANGED <<entry, flight, pc, seen, got, cleaner, reload, settled, shown, due, floor>>

-----------------------------------------------------------------------------
(* Time, cleanupLoop, Clear and Stop *)

Expire ==
    /\ entry # None /\ ~entry.expired
    /\ entry' = [entry EXCEPT !.expired = TRUE]
    /\ UNCHANGED <<version, flight, pc, seen, got, cleaner, known>>

\* data.Range comes to an entry that has expired ...
CleanSee ==
    /\ cpc = "select" /\ entry # None /\ entry.expired
    /\ cpc' = "found"
    /\ UNCHANGED <<version, entry, flight, pc, seen, got, stopped, known>>

\* ... and its key is deleted, whatever entry is there by now.
CleanDelete ==
    /\ cpc = "found"
    /\ cpc' = "select"
    /\ entry' = None
    /\ UNCHANGED <<version, flight, pc, seen, got, stopped, known>>

CleanExit ==
    /\ cpc = "select" /\ stopped
    /\ cpc' = "exit"
    /\ UNCHANGED <<version, entry, flight, pc, seen, got, stopped, known>>

Clear ==
    /\ entry' = None
    /\ UNCHANGED <<version, flight, pc, seen, got, cleaner, known>>

\* The client is closed; listings go on working.
Stop ==
    /\ stopped' = TRUE
    /\ UNCHANGED <<version, entry, flight, pc, seen, got, cpc, known>>

-----------------------------------------------------------------------------

ListStep(p) ==
    \/ ReloadDel(p) \/ GetLoad(p) \/ GetHit(p) \/ GetExpired(p) \/ Join(p) \/ Load(p)
    \/ SetEntry(p) \/ End(p) \/ Return(p)

ChangeStep(p) == Change(p) \/ Invalidate(p)

ClientStep(p) ==
    List(p) \/ Reload(p) \/ BeginChange(p) \/ ListStep(p) \/ ChangeStep(p)

CacheStep == Expire \/ CleanSee \/ CleanDelete \/ CleanExit \/ Clear \/ Stop

Next ==
    \/ \E p \in Clients : ClientStep(p)
    \/ CacheStep \/ ChangeElsewhere

Spec == Init /\ [][Next]_vars

\* A call that was made goes on, requests end, and time passes. Nobody has to make a
\* call, and the clean-up goroutine need not run.
Fairness ==
    /\ \A p \in Clients : WF_vars(ListStep(p)) /\ WF_vars(ChangeStep(p))
    /\ WF_vars(Expire)

FairSpec == Spec /\ Fairness

-----------------------------------------------------------------------------
(* What the cache guarantees *)

\* A listing that returns has a result, also one that waited for the load of another.
TypeOK ==
    /\ version \in Versions /\ settled \in Versions /\ shown \in Versions
    /\ entry \in Entries
    /\ flight \in Clients \union {Nobody}
    /\ pc \in [Clients -> Listing \union Changing \union {"idle"}]
    /\ seen \in [Clients -> Entries]
    /\ got \in [Clients -> Versions \union {None, Failed}]
    /\ \A p \in Clients :
        /\ pc[p] \in {"end", "ret"} => got[p] # None
        /\ pc[p] \in {"set", "inval"} => got[p] \in Versions
        /\ pc[p] \in {"check", "recheck"} => seen[p] # None
    /\ cpc \in {"select", "found", "exit"} /\ stopped \in BOOLEAN
    /\ reload \in [Clients -> BOOLEAN] /\ overlap \in BOOLEAN
    /\ due \in [Clients -> Versions] /\ floor \in [Clients -> Versions]

\* The comment of GetOrLoad: no two clients load the same directory at the same time.
OneLoad == Cardinality({p \in Clients : pc[p] \in {"load", "set"}}) <= 1

\* Listings never go back in time: whatever loads, changes, deletions and expiries came
\* in between, a listing does not show an older directory than one that had returned
\* before it began.
NeverBackwards ==
    \A p \in Clients : pc[p] = "ret" /\ got[p] # Failed => got[p] >= floor[p]

Result(p) == pc[p] = "ret" /\ got[p] # Failed

\* As long as changes and listings have not overlapped, a listing shows every change made
\* through this client, and a reload every change.
ListsAreFresh == \A p \in Clients : Result(p) /\ ~overlap => got[p] >= due[p]

\* No call hangs: a client that waits for the load of another gets its result or error.
CallsReturn == \A p \in Clients : pc[p] # "idle" ~> pc[p] = "idle"

\* Whatever overlapped, a stale listing does not outlive its TTL: once the directory no
\* longer changes, listings show it as it is, in the end, even if the cache was stopped.
EventuallyCurrent ==
    <>[][\A p \in Clients : Result(p) /\ pc'[p] = "idle" => got[p] = version]_vars

-----------------------------------------------------------------------------
(* What the repository says of it, and the code does not do *)

\* README: "Reload: true" refreshes the cache by force, so the listing is not older than
\* the call.
ReloadRefreshes == \A p \in Clients : Result(p) /\ reload[p] => got[p] >= due[p]
=============================================================================
