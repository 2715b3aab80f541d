----------------------------- MODULE CacheProofs -----------------------------
(***************************************************************************)
(* Proofs about Cache for any number of clients and changes: type          *)
(* correctness, that one client loads at a time, that listings never go    *)
(* back in time (see Ordered), and that they show what was changed through *)
(* the client as long as nothing overlaps (see Fresh).                     *)
(***************************************************************************)
EXTENDS Cache, TLAPS, FiniteSetTheorems

\* The group runs one function: that of the client in flight. Whoever waits, waits for it.
Flown ==
    /\ \A p \in Clients : pc[p] \in Flying <=> flight = p
    /\ \A p \in Clients : pc[p] = "wait" => flight # Nobody

\* Versions that a listing has returned or may still return without a look at the cache.
Out(v) ==
    \/ v = shown
    \/ entry # None /\ v = entry.value
    \/ \E q \in Clients :
        \/ pc[q] \in {"end", "ret"} /\ v = got[q]
        \/ pc[q] \in {"check", "recheck"} /\ v = seen[q].value

\* Versions that the cache holds or the client in flight will bring.
Source(v) ==
    \/ entry # None /\ v = entry.value
    \/ \E q \in Clients :
        \/ pc[q] \in {"set", "end"} /\ v = got[q]
        \/ pc[q] = "recheck" /\ v = seen[q].value

\* What listings have returned, or hold in their hands to return, is never newer than what
\* others can still obtain from the cache: only one client at a time stores an entry, and
\* it has read the directory after everything that was stored before.
Ordered ==
    /\ \A v, s \in Versions : Out(v) /\ Source(s) => v <= s
    /\ \A v \in Versions : Out(v) \/ Source(v) => v <= version

\* A listing that began when shown was floor[p] has nothing older in its hands.
Floors == \A p \in Clients :
    /\ floor[p] <= shown
    /\ pc[p] = "ret" /\ got[p] # Failed => floor[p] <= got[p]
    /\ pc[p] \in {"check", "recheck"} => floor[p] <= seen[p].value

\* The inductive invariant.
IInv == TypeOK /\ Flown /\ Ordered /\ Floors

-----------------------------------------------------------------------------

LEMMA InitEstablishes == Init => IInv
<1> SUFFICES ASSUME Init PROVE IInv
  OBVIOUS
<1> USE CacheParameters DEF Init
<1>1. TypeOK
  <2>1. 0 \in Versions
    BY DEF Versions
  <2> QED BY <2>1 DEF TypeOK, Entries, Listing, Changing
<1>2. Flown
  BY DEF Flown, Flying
<1>3. Ordered
  BY DEF Ordered, Out, Source, Versions
<1>4. Floors
  BY DEF Floors
<1> QED BY <1>1, <1>2, <1>3, <1>4 DEF IInv

\* A step that puts nothing new into hands or cache keeps the order.
NothingNew == \A v \in Versions : (Out(v)' => Out(v)) /\ (Source(v)' => Source(v))

LEMMA OrderKept ==
  ASSUME TypeOK, TypeOK', Ordered, NothingNew, version <= version'
  PROVE  Ordered'
BY DEF Ordered, NothingNew, TypeOK, Versions

\* Making a call, or returning from one.
LEMMA CallKeeps ==
  ASSUME IInv, NEW p \in Clients, List(p) \/ Reload(p) \/ Return(p)
  PROVE  IInv'
<1> USE CacheParameters DEF IInv, Versions, Goto, known, cleaner
<1>1. CASE List(p)
  <2>1. TypeOK'
    BY <1>1 DEF List, Call, Meets, TypeOK, Entries, Listing, Changing
  <2>2. Flown'
    BY <1>1 DEF List, Call, TypeOK, Flown, Flying
  <2>3. Ordered'
    <3>1. NothingNew /\ version <= version'
      BY <1>1 DEF List, Call, TypeOK, Out, Source, NothingNew
    <3> QED BY <2>1, <3>1, OrderKept
  <2>4. Floors'
    BY <1>1 DEF List, Call, TypeOK, Floors
  <2> QED BY <2>1, <2>2, <2>3, <2>4
<1>2. CASE Reload(p)
  <2>1. TypeOK'
    BY <1>2 DEF Reload, Call, Meets, TypeOK, Entries, Listing, Changing
  <2>2. Flown'
    BY <1>2 DEF Reload, Call, TypeOK, Flown, Flying
  <2>3. Ordered'
    <3>1. NothingNew /\ version <= version'
      BY <1>2 DEF Reload, Call, TypeOK, Out, Source, NothingNew
    <3> QED BY <2>1, <3>1, OrderKept
  <2>4. Floors'
    BY <1>2 DEF Reload, Call, TypeOK, Floors
  <2> QED BY <2>1, <2>2, <2>3, <2>4
<1>3. CASE Return(p)
  <2>1. TypeOK'
    BY <1>3 DEF Return, TypeOK, Entries, Listing, Changing
  <2>2. Flown'
    BY <1>3 DEF Return, TypeOK, Flown, Flying
  <2>3. Ordered'
    <3>0. shown' = shown \/ (shown' = got[p] /\ pc[p] = "ret")
      BY <1>3 DEF Return
    <3>1. NothingNew /\ version <= version'
      BY <1>3, <3>0 DEF Return, TypeOK, Out, Source, NothingNew
    <3> QED BY <2>1, <3>1, OrderKept
  <2>4. Floors'
    BY <1>3 DEF Return, TypeOK, Floors
  <2> QED BY <2>1, <2>2, <2>3, <2>4
<1> QED BY <1>1, <1>2, <1>3

\* Cache.Get and the Del of a reload.
LEMMA LookKeeps ==
  ASSUME IInv, NEW p \in Clients, ReloadDel(p) \/ GetLoad(p) \/ GetHit(p) \/ GetExpired(p)
  PROVE  IInv'
<1> USE CacheParameters DEF IInv, Versions, Goto, known, cleaner
<1>1. CASE ReloadDel(p)
  <2>1. TypeOK'
    BY <1>1 DEF ReloadDel, TypeOK, Entries, Listing, Changing
  <2>2. Flown'
    BY <1>1 DEF ReloadDel, TypeOK, Flown, Flying
  <2>3. Ordered'
    <3>1. NothingNew /\ version <= version'
      BY <1>1 DEF ReloadDel, TypeOK, Out, Source, NothingNew
    <3> QED BY <2>1, <3>1, OrderKept
  <2>4. Floors'
    BY <1>1 DEF ReloadDel, TypeOK, Floors
  <2> QED BY <2>1, <2>2, <2>3, <2>4
<1>2. CASE GetLoad(p)
  <2>0. \/ entry # None /\ pc[p] = "get" /\ Goto(p, "check")
        \/ entry # None /\ pc[p] = "again" /\ Goto(p, "recheck")
        \/ entry = None /\ pc[p] = "get" /\ Goto(p, "join")
        \/ entry = None /\ pc[p] = "again" /\ Goto(p, "load")
    BY <1>2, Zenon DEF GetLoad
  <2>a. PICK w \in {"check", "recheck", "join", "load"} :
          /\ pc' = [pc EXCEPT ![p] = w] /\ (w \in {"check", "recheck"} => entry # None)
          /\ w \in Flying <=> pc[p] \in Flying
    BY <2>0, Zenon DEF Flying
  <2>b. /\ seen' = [seen EXCEPT ![p] = entry] /\ UNCHANGED <<version, entry, flight, got, cleaner, known>>
    BY <1>2 DEF GetLoad
  <2>1. TypeOK'
    <3>1. pc' \in [Clients -> Listing \union Changing \union {"idle"}] /\ seen' \in [Clients -> Entries]
      BY <2>a, <2>b DEF TypeOK, Listing
    <3>2. \A q \in Clients : pc'[q] \in {"end", "ret", "set", "inval"} => q # p /\ pc'[q] = pc[q]
      BY <2>a DEF TypeOK
    <3>3. \A q \in Clients : pc'[q] \in {"check", "recheck"} => seen'[q] # None
      BY <2>a, <2>b DEF TypeOK
    <3> QED BY <2>b, <3>1, <3>2, <3>3 DEF TypeOK
  <2>2. Flown'
    BY <2>a, <2>b DEF TypeOK, Flown
  <2>3. Ordered'
    <3>1. NothingNew /\ version <= version'
      BY <1>2, <2>0 DEF GetLoad, TypeOK, Out, Source, NothingNew
    <3> QED BY <2>1, <3>1, OrderKept
  <2>4. Floors'
    <3>1. entry # None => entry.value \in Versions /\ shown <= entry.value
      BY DEF TypeOK, Entries, Ordered, Out, Source
    <3> QED BY <1>2, <2>0, <3>1 DEF GetLoad, TypeOK, Floors
  <2> QED BY <2>1, <2>2, <2>3, <2>4
<1>3. CASE GetHit(p)
  <2>1. TypeOK'
    BY <1>3 DEF GetHit, TypeOK, Entries, Listing, Changing
  <2>2. Flown'
    BY <1>3 DEF GetHit, TypeOK, Flown, Flying
  <2>3. Ordered'
    <3>1. NothingNew /\ version <= version'
      BY <1>3 DEF GetHit, TypeOK, Out, Source, NothingNew
    <3> QED BY <2>1, <3>1, OrderKept
  <2>4. Floors'
    BY <1>3 DEF GetHit, TypeOK, Floors
  <2> QED BY <2>1, <2>2, <2>3, <2>4
<1>4. CASE GetExpired(p)
  <2>1. TypeOK'
    BY <1>4 DEF GetExpired, TypeOK, Entries, Listing, Changing
  <2>2. Flown'
    BY <1>4 DEF GetExpired, TypeOK, Flown, Flying
  <2>3. Ordered'
    <3>1. NothingNew /\ version <= version'
      BY <1>4 DEF GetExpired, TypeOK, Out, Source, NothingNew
    <3> QED BY <2>1, <3>1, OrderKept
  <2>4. Floors'
    BY <1>4 DEF GetExpired, TypeOK, Floors
  <2> QED BY <2>1, <2>2, <2>3, <2>4
<1> QED BY <1>1, <1>2, <1>3, <1>4

\* The flight: join, load, store, end.
LEMMA FlightKeeps ==
  ASSUME IInv, NEW p \in Clients, Join(p) \/ Load(p) \/ SetEntry(p) \/ End(p)
  PROVE  IInv'
<1> USE CacheParameters DEF IInv, Versions, Goto, known, cleaner
<1>1. CASE Join(p)
  <2>1. TypeOK'
    BY <1>1 DEF Join, TypeOK, Entries, Listing, Changing
  <2>2. Flown'
    BY <1>1 DEF Join, TypeOK, Flown, Flying
  <2>3. Ordered'
    <3>1. NothingNew /\ version <= version'
      BY <1>1 DEF Join, TypeOK, Out, Source, NothingNew
    <3> QED BY <2>1, <3>1, OrderKept
  <2>4. Floors'
    BY <1>1 DEF Join, TypeOK, Floors
  <2> QED BY <2>1, <2>2, <2>3, <2>4
<1>2. CASE Load(p)
  <2>1. TypeOK'
    BY <1>2 DEF Load, TypeOK, Entries, Listing, Changing
  <2>2. Flown'
    BY <1>2 DEF Load, TypeOK, Flown, Flying
  <2>3. Ordered'
    <3>1. ASSUME NEW v \in Versions
          PROVE  (Out(v)' => Out(v)) /\ (Source(v)' => v = version \/ Source(v))
      BY <1>2 DEF Load, TypeOK, Out, Source
    <3>2. version' = version
      BY <1>2 DEF Load
    <3> QED BY <3>1, <3>2 DEF TypeOK, Ordered
  <2>4. Floors'
    BY <1>2 DEF Load, TypeOK, Floors
  <2> QED BY <2>1, <2>2, <2>3, <2>4
<1>3. CASE SetEntry(p)
  <2>1. TypeOK'
    BY <1>3 DEF SetEntry, TypeOK, Entries, Listing, Changing
  <2>2. Flown'
    BY <1>3 DEF SetEntry, TypeOK, Flown, Flying
  <2>3. Ordered'
    <3> DEFINE x == got[p]
    <3>1. x \in Versions /\ Source(x)
      BY <1>3 DEF SetEntry, TypeOK, Source
    <3>2. flight = p /\ version' = version
      BY <1>3 DEF SetEntry, Flown, Flying
    <3>3. ASSUME NEW v \in Versions
          PROVE  (Out(v)' => v = x \/ Out(v)) /\ (Source(v)' => v = x)
      BY <1>3, <3>2 DEF SetEntry, TypeOK, Flown, Flying, Out, Source
    <3> QED BY <3>1, <3>2, <3>3 DEF Ordered, TypeOK
  <2>4. Floors'
    BY <1>3 DEF SetEntry, TypeOK, Floors
  <2> QED BY <2>1, <2>2, <2>3, <2>4
<1>4. CASE End(p)
  <2>1. TypeOK'
    BY <1>4 DEF End, TypeOK, Entries, Listing, Changing
  <2>2. Flown'
    BY <1>4 DEF End, TypeOK, Flown, Flying
  <2>3. Ordered'
    <3>1. NothingNew /\ version <= version'
      BY <1>4 DEF End, TypeOK, Out, Source, NothingNew
    <3> QED BY <2>1, <3>1, OrderKept
  <2>4. Floors'
    <3>1. got[p] \in Versions => shown <= got[p]
      BY <1>4 DEF End, TypeOK, Ordered, Out, Source
    <3>2. got[p] \in Versions \/ got[p] = Failed
      BY <1>4 DEF End, TypeOK
    <3> QED BY <1>4, <3>1, <3>2 DEF End, TypeOK, Floors
  <2> QED BY <2>1, <2>2, <2>3, <2>4
<1> QED BY <1>1, <1>2, <1>3, <1>4

\* Changes of the directory.
LEMMA ChangeKeeps ==
  ASSUME IInv, NEW p \in Clients, BeginChange(p) \/ Change(p) \/ Invalidate(p)
  PROVE  IInv'
<1> USE CacheParameters DEF IInv, Versions, Goto, known, cleaner
<1>1. CASE BeginChange(p)
  <2>1. TypeOK'
    BY <1>1 DEF BeginChange, Meets, TypeOK, Entries, Listing, Changing
  <2>2. Flown'
    BY <1>1 DEF BeginChange, TypeOK, Flown, Flying
  <2>3. Ordered'
    <3>1. NothingNew /\ version <= version'
      BY <1>1 DEF BeginChange, TypeOK, Out, Source, NothingNew
    <3> QED BY <2>1, <3>1, OrderKept
  <2>4. Floors'
    BY <1>1 DEF BeginChange, TypeOK, Floors
  <2> QED BY <2>1, <2>2, <2>3, <2>4
<1>2. CASE Change(p)
  <2>1. TypeOK'
    BY <1>2 DEF Change, TypeOK, Entries, Listing, Changing
  <2>2. Flown'
    BY <1>2 DEF Change, TypeOK, Flown, Flying
  <2>3. Ordered'
    <3>1. NothingNew /\ version <= version'
      BY <1>2 DEF Change, TypeOK, Out, Source, NothingNew
    <3> QED BY <2>1, <3>1, OrderKept
  <2>4. Floors'
    BY <1>2 DEF Change, TypeOK, Floors
  <2> QED BY <2>1, <2>2, <2>3, <2>4
<1>3. CASE Invalidate(p)
  <2>1. TypeOK'
    BY <1>3 DEF Invalidate, TypeOK, Entries, Listing, Changing
  <2>2. Flown'
    BY <1>3 DEF Invalidate, TypeOK, Flown, Flying
  <2>3. Ordered'
    <3>1. NothingNew /\ version <= version'
      BY <1>3 DEF Invalidate, TypeOK, Out, Source, NothingNew
    <3> QED BY <2>1, <3>1, OrderKept
  <2>4. Floors'
    BY <1>3 DEF Invalidate, TypeOK, Floors
  <2> QED BY <2>1, <2>2, <2>3, <2>4
<1> QED BY <1>1, <1>2, <1>3

\* Time, the clean-up goroutine, Clear, Stop, and other devices.
LEMMA OthersKeep ==
  ASSUME IInv, CacheStep \/ ChangeElsewhere
  PROVE  IInv'
<1> USE CacheParameters DEF IInv, Versions, known, cleaner
<1>1. CASE Expire
  <2>1. TypeOK'
    BY <1>1 DEF Expire, TypeOK, Entries
  <2>2. Flown' /\ Floors'
    BY <1>1 DEF Expire, Flown, Floors
  <2>3. Ordered'
    <3>1. NothingNew /\ version <= version'
      BY <1>1 DEF Expire, TypeOK, Out, Source, NothingNew
    <3> QED BY <2>1, <3>1, OrderKept
  <2> QED BY <2>1, <2>2, <2>3
<1>2. CASE CleanSee
  <2>1. TypeOK'
    BY <1>2 DEF CleanSee, TypeOK, Entries
  <2>2. Flown' /\ Floors'
    BY <1>2 DEF CleanSee, Flown, Floors
  <2>3. Ordered'
    <3>1. NothingNew /\ version <= version'
      BY <1>2 DEF CleanSee, TypeOK, Out, Source, NothingNew
    <3> QED BY <2>1, <3>1, OrderKept
  <2> QED BY <2>1, <2>2, <2>3
<1>3. CASE CleanDelete
  <2>1. TypeOK'
    BY <1>3 DEF CleanDelete, TypeOK, Entries
  <2>2. Flown' /\ Floors'
    BY <1>3 DEF CleanDelete, Flown, Floors
  <2>3. Ordered'
    <3>1. NothingNew /\ version <= version'
      BY <1>3 DEF CleanDelete, TypeOK, Out, Source, NothingNew
    <3> QED BY <2>1, <3>1, OrderKept
  <2> QED BY <2>1, <2>2, <2>3
<1>4. CASE CleanExit
  <2>1. TypeOK'
    BY <1>4 DEF CleanExit, TypeOK, Entries
  <2>2. Flown' /\ Floors'
    BY <1>4 DEF CleanExit, Flown, Floors
  <2>3. Ordered'
    <3>1. NothingNew /\ version <= version'
      BY <1>4 DEF CleanExit, TypeOK, Out, Source, NothingNew
    <3> QED BY <2>1, <3>1, OrderKept
  <2> QED BY <2>1, <2>2, <2>3
<1>5. CASE Clear
  <2>1. TypeOK'
    BY <1>5 DEF Clear, TypeOK, Entries
  <2>2. Flown' /\ Floors'
    BY <1>5 DEF Clear, Flown, Floors
  <2>3. Ordered'
    <3>1. NothingNew /\ version <= version'
      BY <1>5 DEF Clear, TypeOK, Out, Source, NothingNew
    <3> QED BY <2>1, <3>1, OrderKept
  <2> QED BY <2>1, <2>2, <2>3
<1>6. CASE Stop
  <2>1. TypeOK'
    BY <1>6 DEF Stop, TypeOK, Entries
  <2>2. Flown' /\ Floors'
    BY <1>6 DEF Stop, Flown, Floors
  <2>3. Ordered'
    <3>1. NothingNew /\ version <= version'
      BY <1>6 DEF Stop, TypeOK, Out, Source, NothingNew
    <3> QED BY <2>1, <3>1, OrderKept
  <2> QED BY <2>1, <2>2, <2>3
<1>7. CASE ChangeElsewhere
  <2>1. TypeOK'
    BY <1>7 DEF ChangeElsewhere, Meets, TypeOK, Entries
  <2>2. Flown' /\ Floors'
    BY <1>7 DEF ChangeElsewhere, Flown, Floors
  <2>3. Ordered'
    <3>1. NothingNew /\ version <= version'
      BY <1>7 DEF ChangeElsewhere, TypeOK, Out, Source, NothingNew
    <3> QED BY <2>1, <3>1, OrderKept
  <2> QED BY <2>1, <2>2, <2>3
<1> QED BY <1>1, <1>2, <1>3, <1>4, <1>5, <1>6, <1>7 DEF CacheStep

-----------------------------------------------------------------------------

\* IInv holds in every reachable state.
THEOREM Invariance == Spec => []IInv
<1>1. IInv /\ [Next]_vars => IInv'
  <2> SUFFICES ASSUME IInv, [Next]_vars PROVE IInv'
    OBVIOUS
  <2>1. ASSUME NEW p \in Clients, ClientStep(p) PROVE IInv'
    BY <2>1, CallKeeps, LookKeeps, FlightKeeps, ChangeKeeps
    DEF ClientStep, ListStep, ChangeStep
  <2>2. CASE CacheStep \/ ChangeElsewhere
    BY <2>2, OthersKeep
  <2>3. CASE UNCHANGED vars
    BY <2>3 DEF vars, IInv, TypeOK, Flown, Ordered, Out, Source, Floors
  <2> QED BY <2>1, <2>2, <2>3 DEF Next
<1> QED BY <1>1, InitEstablishes, PTL DEF Spec

\* Type correctness; in particular no listing returns without a result.
THEOREM TypeCorrect == Spec => []TypeOK
<1>1. IInv => TypeOK
  BY DEF IInv
<1> QED BY <1>1, Invariance, PTL

\* Singleflight does what GetOrLoad's comment says: loads of a directory do not overlap.
THEOREM LoadsDoNotOverlap == Spec => []OneLoad
<1>1. IInv => OneLoad
  <2> SUFFICES ASSUME IInv PROVE OneLoad
    OBVIOUS
  <2> DEFINE L == {p \in Clients : pc[p] \in {"load", "set"}}
  <2>1. L \subseteq {flight}
    BY DEF IInv, Flown, Flying
  <2>2. Cardinality({flight}) = 1 /\ IsFiniteSet({flight})
    BY FS_Singleton
  <2>3. Cardinality(L) <= Cardinality({flight}) /\ Cardinality(L) \in Nat
    BY <2>1, <2>2, FS_Subset, FS_CardinalityType
  <2> QED BY <2>2, <2>3 DEF OneLoad
<1> QED BY <1>1, Invariance, PTL

\* Whatever loads, changes, deletions and expiries interleave, a listing shows nothing older
\* than a listing that returned before it began.
THEOREM ListingsNeverGoBackwards == Spec => []NeverBackwards
<1>1. IInv => NeverBackwards
  BY CacheParameters DEF IInv, TypeOK, Versions, Floors, NeverBackwards
<1> QED BY <1>1, Invariance, PTL
-----------------------------------------------------------------------------
(* What listings show while changes and listings do not overlap *)

\* A client whose listing has looked into the cache in vain, or a reload past its Del.
Past(p) ==
    \/ pc[p] \in {"join", "wait"} \union Flying
    \/ reload[p] /\ pc[p] \in {"get", "check"}

\* The entry shows every change whose operation has returned; one that was stored since a
\* listing looked in vain, or since a Del, shows every change there is.
NoOld == entry # None =>
    /\ settled <= entry.value
    /\ (\E p \in Clients : Past(p)) => version <= entry.value

\* So does what a listing holds in its hands.
Hands(p) ==
    /\ pc[p] \in Listing => due[p] <= version /\ (reload[p] \/ due[p] <= settled)
    /\ pc[p] = "check" => due[p] <= seen[p].value
    /\ pc[p] = "recheck" => version <= seen[p].value
    /\ pc[p] \in {"set", "end"} /\ got[p] # Failed => version <= got[p]
    /\ pc[p] = "ret" /\ got[p] # Failed => due[p] <= got[p]

Settled ==
    /\ settled <= version
    /\ \A p \in Clients : pc[p] = "inval" => got[p] <= version

Apart == \A p, q \in Clients : ~ (pc[p] \in Listing /\ pc[q] \in Changing)

\* The inductive invariant, on top of TypeOK.
Fresh == Settled /\ (~overlap => Apart /\ NoOld /\ \A p \in Clients : Hands(p))

LEMMA InitIsFresh == Init => Fresh
BY CacheParameters DEF Init, Fresh, Settled, Apart, NoOld, Hands, Listing, Changing

LEMMA ClientKeepsFresh ==
  ASSUME TypeOK, Fresh, NEW p \in Clients, ClientStep(p)
  PROVE  Fresh'
<1> USE CacheParameters DEF TypeOK, Entries, Versions, Fresh, Goto, known, cleaner,
    Listing, Changing, Flying
<1>1. CASE List(p)
  <2>1. Settled'
    BY <1>1 DEF List, Call, Meets, Settled
  <2>2. ASSUME ~overlap' PROVE Apart'
    BY <1>1, <2>2 DEF List, Call, Meets, Apart
  <2>3. ASSUME ~overlap' PROVE NoOld'
    BY <1>1, <2>3 DEF List, Call, Meets, Settled, Apart, NoOld, Hands, Past
  <2>4. ASSUME ~overlap', NEW q \in Clients PROVE Hands(q)'
    BY <1>1, <2>4 DEF List, Call, Meets, Settled, Apart, NoOld, Hands, Past
  <2> QED BY <2>1, <2>2, <2>3, <2>4
<1>2. CASE Reload(p)
  <2>1. Settled'
    BY <1>2 DEF Reload, Call, Meets, Settled
  <2>2. ASSUME ~overlap' PROVE Apart'
    BY <1>2, <2>2 DEF Reload, Call, Meets, Apart
  <2>3. ASSUME ~overlap' PROVE NoOld'
    BY <1>2, <2>3 DEF Reload, Call, Meets, Settled, Apart, NoOld, Hands, Past
  <2>4. ASSUME ~overlap', NEW q \in Clients PROVE Hands(q)'
    BY <1>2, <2>4 DEF Reload, Call, Meets, Settled, Apart, NoOld, Hands, Past
  <2> QED BY <2>1, <2>2, <2>3, <2>4
<1>3. CASE Return(p)
  <2>1. Settled'
    BY <1>3 DEF Return, Settled
  <2>2. ASSUME ~overlap' PROVE Apart'
    BY <1>3, <2>2 DEF Return, Apart
  <2>3. ASSUME ~overlap' PROVE NoOld'
    BY <1>3, <2>3 DEF Return, Settled, Apart, NoOld, Hands, Past
  <2>4. ASSUME ~overlap', NEW q \in Clients PROVE Hands(q)'
    BY <1>3, <2>4 DEF Return, Settled, Apart, NoOld, Hands, Past
  <2> QED BY <2>1, <2>2, <2>3, <2>4
<1>4. CASE ReloadDel(p)
  <2>1. Settled'
    BY <1>4 DEF ReloadDel, Settled
  <2>2. ASSUME ~overlap' PROVE Apart'
    BY <1>4, <2>2 DEF ReloadDel, Apart
  <2>3. ASSUME ~overlap' PROVE NoOld'
    BY <1>4, <2>3 DEF ReloadDel, Settled, Apart, NoOld, Hands, Past
  <2>4. ASSUME ~overlap', NEW q \in Clients PROVE Hands(q)'
    BY <1>4, <2>4 DEF ReloadDel, Settled, Apart, NoOld, Hands, Past
  <2> QED BY <2>1, <2>2, <2>3, <2>4
<1>5. CASE GetLoad(p)
  <2>0. \/ entry # None /\ pc[p] = "get" /\ Goto(p, "check")
        \/ entry # None /\ pc[p] = "again" /\ Goto(p, "recheck")
        \/ entry = None /\ pc[p] = "get" /\ Goto(p, "join")
        \/ entry = None /\ pc[p] = "again" /\ Goto(p, "load")
    BY <1>5, Zenon DEF GetLoad
  <2>5. /\ seen' = [seen EXCEPT ![p] = entry]
        /\ UNCHANGED <<version, entry, flight, got, cleaner, known>>
    BY <1>5 DEF GetLoad
  <2>1. Settled'
    BY <2>0, <2>5 DEF Settled
  <2>2. ASSUME ~overlap' PROVE Apart'
    BY <2>0, <2>5, <2>2 DEF Apart
  <2>3. ASSUME ~overlap' PROVE NoOld'
    BY <2>0, <2>5, <2>3 DEF Settled, Apart, NoOld, Hands, Past
  <2>4. ASSUME ~overlap', NEW q \in Clients PROVE Hands(q)'
    BY <2>0, <2>5, <2>4 DEF Settled, Apart, NoOld, Hands, Past
  <2> QED BY <2>1, <2>2, <2>3, <2>4
<1>6. CASE GetHit(p)
  <2>1. Settled'
    BY <1>6 DEF GetHit, Settled
  <2>2. ASSUME ~overlap' PROVE Apart'
    BY <1>6, <2>2 DEF GetHit, Apart
  <2>3. ASSUME ~overlap' PROVE NoOld'
    BY <1>6, <2>3 DEF GetHit, Settled, Apart, NoOld, Hands, Past
  <2>4. ASSUME ~overlap', NEW q \in Clients PROVE Hands(q)'
    BY <1>6, <2>4 DEF GetHit, Settled, Apart, NoOld, Hands, Past
  <2> QED BY <2>1, <2>2, <2>3, <2>4
<1>7. CASE GetExpired(p)
  <2>1. Settled'
    BY <1>7 DEF GetExpired, Settled
  <2>2. ASSUME ~overlap' PROVE Apart'
    BY <1>7, <2>2 DEF GetExpired, Apart
  <2>3. ASSUME ~overlap' PROVE NoOld'
    BY <1>7, <2>3 DEF GetExpired, Settled, Apart, NoOld, Hands, Past
  <2>4. ASSUME ~overlap', NEW q \in Clients PROVE Hands(q)'
    BY <1>7, <2>4 DEF GetExpired, Settled, Apart, NoOld, Hands, Past
  <2> QED BY <2>1, <2>2, <2>3, <2>4
<1>8. CASE Join(p)
  <2>1. Settled'
    BY <1>8 DEF Join, Settled
  <2>2. ASSUME ~overlap' PROVE Apart'
    BY <1>8, <2>2 DEF Join, Apart
  <2>3. ASSUME ~overlap' PROVE NoOld'
    BY <1>8, <2>3 DEF Join, Settled, Apart, NoOld, Hands, Past
  <2>4. ASSUME ~overlap', NEW q \in Clients PROVE Hands(q)'
    BY <1>8, <2>4 DEF Join, Settled, Apart, NoOld, Hands, Past
  <2> QED BY <2>1, <2>2, <2>3, <2>4
<1>9. CASE Load(p)
  <2>1. Settled'
    BY <1>9 DEF Load, Settled
  <2>2. ASSUME ~overlap' PROVE Apart'
    BY <1>9, <2>2 DEF Load, Apart
  <2>3. ASSUME ~overlap' PROVE NoOld'
    BY <1>9, <2>3 DEF Load, Settled, Apart, NoOld, Hands, Past
  <2>4. ASSUME ~overlap', NEW q \in Clients PROVE Hands(q)'
    BY <1>9, <2>4 DEF Load, Settled, Apart, NoOld, Hands, Past
  <2> QED BY <2>1, <2>2, <2>3, <2>4
<1>10. CASE SetEntry(p)
  <2>1. Settled'
    BY <1>10 DEF SetEntry, Settled
  <2>2. ASSUME ~overlap' PROVE Apart'
    BY <1>10, <2>2 DEF SetEntry, Apart
  <2>3. ASSUME ~overlap' PROVE NoOld'
    BY <1>10, <2>3 DEF SetEntry, Settled, Apart, NoOld, Hands, Past
  <2>4. ASSUME ~overlap', NEW q \in Clients PROVE Hands(q)'
    BY <1>10, <2>4 DEF SetEntry, Settled, Apart, NoOld, Hands, Past
  <2> QED BY <2>1, <2>2, <2>3, <2>4
<1>11. CASE End(p)
  <2>1. Settled'
    BY <1>11 DEF End, Settled
  <2>2. ASSUME ~overlap' PROVE Apart'
    BY <1>11, <2>2 DEF End, Apart
  <2>3. ASSUME ~overlap' PROVE NoOld'
    BY <1>11, <2>3 DEF End, Settled, Apart, NoOld, Hands, Past
  <2>4. ASSUME ~overlap', NEW q \in Clients PROVE Hands(q)'
    BY <1>11, <2>4 DEF End, Settled, Apart, NoOld, Hands, Past
  <2> QED BY <2>1, <2>2, <2>3, <2>4
<1>12. CASE BeginChange(p)
  <2>1. Settled'
    BY <1>12 DEF BeginChange, Meets, Settled
  <2>2. ASSUME ~overlap' PROVE Apart'
    BY <1>12, <2>2 DEF BeginChange, Meets, Apart
  <2>3. ASSUME ~overlap' PROVE NoOld'
    BY <1>12, <2>3 DEF BeginChange, Meets, Settled, Apart, NoOld, Hands, Past
  <2>4. ASSUME ~overlap', NEW q \in Clients PROVE Hands(q)'
    BY <1>12, <2>4 DEF BeginChange, Meets, Settled, Apart, NoOld, Hands, Past
  <2> QED BY <2>1, <2>2, <2>3, <2>4
<1>13. CASE Change(p)
  <2>1. Settled'
    BY <1>13 DEF Change, Settled
  <2>2. ASSUME ~overlap' PROVE Apart'
    BY <1>13, <2>2 DEF Change, Apart
  <2>3. ASSUME ~overlap' PROVE NoOld'
    BY <1>13, <2>3 DEF Change, Settled, Apart, NoOld, Hands, Past
  <2>4. ASSUME ~overlap', NEW q \in Clients PROVE Hands(q)'
    BY <1>13, <2>4 DEF Change, Settled, Apart, NoOld, Hands, Past
  <2> QED BY <2>1, <2>2, <2>3, <2>4
<1>14. CASE Invalidate(p)
  <2>1. Settled'
    BY <1>14 DEF Invalidate, Settled
  <2>2. ASSUME ~overlap' PROVE Apart'
    BY <1>14, <2>2 DEF Invalidate, Apart
  <2>3. ASSUME ~overlap' PROVE NoOld'
    BY <1>14, <2>3 DEF Invalidate, Settled, Apart, NoOld, Hands, Past
  <2>4. ASSUME ~overlap', NEW q \in Clients PROVE Hands(q)'
    BY <1>14, <2>4 DEF Invalidate, Settled, Apart, NoOld, Hands, Past
  <2> QED BY <2>1, <2>2, <2>3, <2>4
<1> QED BY <1>1, <1>2, <1>3, <1>4, <1>5, <1>6, <1>7, <1>8, <1>9, <1>10, <1>11, <1>12, <1>13, <1>14
    DEF ClientStep, ListStep, ChangeStep

LEMMA OthersKeepFresh ==
  ASSUME TypeOK, Fresh, CacheStep \/ ChangeElsewhere
  PROVE  Fresh'
<1> USE CacheParameters DEF TypeOK, Entries, Versions, known, cleaner
<1>1. CASE Expire
  BY <1>1 DEF Expire, Fresh, Settled, Apart, NoOld, Past, Hands
<1>2. CASE CleanSee
  BY <1>2 DEF CleanSee, Fresh, Settled, Apart, NoOld, Past, Hands
<1>3. CASE CleanDelete
  BY <1>3 DEF CleanDelete, Fresh, Settled, Apart, NoOld, Past, Hands
<1>4. CASE CleanExit
  BY <1>4 DEF CleanExit, Fresh, Settled, Apart, NoOld, Past, Hands
<1>5. CASE Clear
  BY <1>5 DEF Clear, Fresh, Settled, Apart, NoOld, Past, Hands
<1>6. CASE Stop
  BY <1>6 DEF Stop, Fresh, Settled, Apart, NoOld, Past, Hands
<1>7. CASE ChangeElsewhere
  <2>1. Settled'
    BY <1>7 DEF ChangeElsewhere, Fresh, Settled
  <2>2. ASSUME ~overlap' PROVE Apart' /\ NoOld' /\ \A q \in Clients : Hands(q)'
    <3>1. ~overlap /\ \A p \in Clients : pc[p] \notin Listing
      BY <1>7, <2>2 DEF ChangeElsewhere, Meets
    <3> QED BY <1>7, <3>1 DEF ChangeElsewhere, Fresh, Apart, NoOld, Hands, Past, Flying, Listing
  <2> QED BY <2>1, <2>2 DEF Fresh
<1> QED BY <1>1, <1>2, <1>3, <1>4, <1>5, <1>6, <1>7 DEF CacheStep

\* As long as changes and listings have not overlapped, a listing shows every change made
\* through this client, and a reload every change.
THEOREM ListingsAreFresh == Spec => []ListsAreFresh
<1>1. TypeOK /\ Fresh /\ [Next]_vars => Fresh'
  <2> SUFFICES ASSUME TypeOK, Fresh, [Next]_vars PROVE Fresh'
    OBVIOUS
  <2>1. ASSUME NEW p \in Clients, ClientStep(p) PROVE Fresh'
    BY <2>1, ClientKeepsFresh
  <2>2. CASE CacheStep \/ ChangeElsewhere
    BY <2>2, OthersKeepFresh
  <2>3. CASE UNCHANGED vars
    BY <2>3 DEF vars, Fresh, Settled, Apart, NoOld, Past, Hands
  <2> QED BY <2>1, <2>2, <2>3 DEF Next
<1>2. Fresh => ListsAreFresh
  BY CacheParameters DEF Fresh, Hands, Result, ListsAreFresh
<1> QED BY <1>1, <1>2, InitIsFresh, TypeCorrect, PTL DEF Spec
=============================================================================
