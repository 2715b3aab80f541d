------------------------- MODULE ChunkDownloadProofs -------------------------
(***************************************************************************)
(* Proofs about ChunkDownload: type correctness, the safety invariants and *)
(* the refinement of Download, for every set of workers, every number of   *)
(* chunks, retries and threads, with any operation failing, Shutdown and   *)
(* Cancel at any moment. All follow from one inductive invariant, IInv.    *)
(***************************************************************************)
EXTENDS ChunkDownload, TLAPS, FiniteSetTheorems, SequenceTheorems

(* The inductive invariant *)

Busy == {w \in Workers : wpc[w] \in InTask}

\* The semaphore counts the workers in handleTask, and the WaitGroup these and mergeFile.
Counts ==
    /\ sem = Cardinality(Busy) /\ sem <= MaxThread
    /\ wg = sem + (IF mpc \in {"off", "exit"} THEN 0 ELSE 1)
    /\ shutdownWg = IF dpc \in {"prep", "head", "wait"} THEN 1 ELSE 0

\* What has started, and what has ended.
Phases ==
    /\ dpc \in {"start", "checked", "prep"} => \A w \in Workers : wpc[w] = "off"
    /\ mpc = "off" <=> kpc = "off"
    /\ mpc # "off" => dpc \in {"wait", "nil", "err"}
    /\ dpc = "wait" => ~doneCh
    /\ doneCh => dpc \in {"nil", "err"}
    /\ dpc = "nil" => wgDoneCh
    /\ wgDoneCh => mpc = "exit"
    /\ mpc = "exit" => IsShutdown \/ dpc = "err" \/ output = Prefix(N)

\* A task is unsent, in one worker, with a retry goroutine, or through.
Tasks ==
    /\ \A i \in Chunks : i >= kn <=> place[i] = "unsent"
    /\ kpc \in {"off", "calc"} => kn = 0
    /\ kpc = "send" => kn < N /\ lastIndex = N - 1
    /\ kn > 0 => lastIndex = N - 1
    /\ \A w \in Workers : wpc[w] \in Holding =>
          /\ wtask[w] \in Chunks /\ place[wtask[w]] = "worker"
          /\ \A v \in Workers : wpc[v] \in Holding /\ wtask[v] = wtask[w] => v = w
    /\ \A w \in Workers : wpc[w] = "get" => wtask[w] \notin completed
    /\ \A w \in Workers : wpc[w] = "fetched" => temp[wtask[w]] = "whole"
    /\ \A i \in taskMap \union notify : place[i] = "done"

\* What is merged is through and removed; what is through or was found complete and
\* is not merged yet lies whole in the temp directory.
Merged ==
    /\ \A i \in Chunks : i < mi => place[i] = "done" /\ temp[i] = "none"
    /\ \A i \in Chunks : i >= mi /\ (place[i] = "done" \/ i \in completed) => temp[i] = "whole"
    /\ mpc \in {"off", "open"} => mi = 0
    /\ mpc = "copy" => mi < N /\ place[mi] = "done"
    /\ mpc = "clean" => mi = N
    /\ mpc \notin {"err", "exit"} => output = Prefix(mi)
    /\ mpc \in {"err", "exit"} =>
          output = Prefix(mi) \/ (mi < N /\ output = Append(Prefix(mi), Garbage))

IInv == TypeOK /\ Counts /\ Phases /\ Tasks /\ Merged

\* Appending chunk k to the first k chunks gives the first k + 1: what mergeFile's
\* loop does to the output file.
LEMMA AppendPrefix == \A k \in Nat : Prefix(k + 1) = Append(Prefix(k), k)
  BY DEF Prefix

\* A worker moves inside, or outside, handleTask: as many workers are in it as before.
LEMMA BusyStays ==
  ASSUME TypeOK, NEW w \in Workers, NEW pc, wpc' = [wpc EXCEPT ![w] = pc],
         wpc[w] \in InTask <=> pc \in InTask
  PROVE  Cardinality(Busy') = Cardinality(Busy)
<1>1. Busy' = Busy
  BY DEF Busy, TypeOK
<1> QED BY <1>1

\* A worker enters handleTask: one more is in it.
LEMMA BusyJoins ==
  ASSUME TypeOK, NEW w \in Workers, NEW pc, wpc' = [wpc EXCEPT ![w] = pc],
         wpc[w] \notin InTask, pc \in InTask
  PROVE  Cardinality(Busy') = Cardinality(Busy) + 1
<1>1. Busy' = Busy \union {w} /\ w \notin Busy
  BY DEF Busy, TypeOK
<1>2. IsFiniteSet(Busy)
  BY Parameters, FS_Subset DEF Busy
<1> QED BY <1>1, <1>2, FS_AddElement

\* A worker leaves handleTask: one fewer is in it, and there was one.
LEMMA BusyLeaves ==
  ASSUME TypeOK, NEW w \in Workers, NEW pc, wpc' = [wpc EXCEPT ![w] = pc],
         wpc[w] \in InTask, pc \notin InTask
  PROVE  Cardinality(Busy') = Cardinality(Busy) - 1 /\ Cardinality(Busy) > 0
<1>1. Busy' = Busy \ {w} /\ w \in Busy
  BY DEF Busy, TypeOK
<1>2. IsFiniteSet(Busy)
  BY Parameters, FS_Subset DEF Busy
<1>3. IsFiniteSet(Busy') /\ Cardinality(Busy') \in Nat
  BY <1>1, <1>2, FS_RemoveElement, FS_CardinalityType
<1> QED BY <1>1, <1>2, <1>3, FS_RemoveElement, FS_CardinalityType

\* A sequence with one more element: its length, its last element and the rest.
LEMMA GrowsAtTheEnd ==
  ASSUME NEW S, NEW s \in Seq(S), NEW e, NEW k \in Nat, Len(s) = k
  PROVE  /\ Len(Append(s, e)) = k + 1 /\ Append(s, e)[k + 1] = e /\ Append(s, e) # <<>>
         /\ SubSeq(Append(s, e), 1, k) = s
<1> DEFINE T == S \union {e}
            a == Append(s, e)
<1>1. s \in Seq(T) /\ e \in T
  OBVIOUS
<1>2. /\ a \in Seq(T) /\ a # <<>> /\ Len(a) = k + 1 /\ a[k + 1] = e
      /\ \A j \in 1..k : a[j] = s[j] /\ a[j] \in T
  BY <1>1, AppendProperties, ElementOfSeq, SMTT(60)
<1>3. /\ SubSeq(a, 1, k) \in Seq(T) /\ Len(SubSeq(a, 1, k)) = k
      /\ \A j \in 1..k : SubSeq(a, 1, k)[j] = a[j]
  <2> HIDE DEF a, T
  <2> QED BY <1>2, SubSeqProperties
<1>4. SubSeq(a, 1, k) = s
  <2> HIDE DEF a, T
  <2> QED BY <1>1, <1>2, <1>3, SeqEqual
<1> QED BY <1>2, <1>4

\* The initial state satisfies the invariant: nothing has started.
LEMMA InitEstablishes == Init => IInv
<1> SUFFICES ASSUME Init PROVE IInv
  OBVIOUS
<1>1. Busy = {}
  BY DEF Init, Busy, InTask
<1>2. Cardinality(Busy) = 0
  BY <1>1, FS_EmptySet
<1>3. TypeOK
  <2>1. output \in Seq(Chunks \union {Garbage})
    BY DEF Init
  <2>2. kn \in 0..N /\ mi \in 0..N /\ attempt \in [Chunks -> 0..MaxRetry]
    BY Parameters DEF Init
  <2>3. wpc \in [Workers -> {"off", "idle", "got", "exit"} \union InTask]
    BY DEF Init
  <2>4. wtask \in [Workers -> Chunks \union {NoTask}]
    BY DEF Init
  <2>5. /\ place \in [Chunks -> {"unsent", "worker", "resend", "report", "done", "lost"}]
        /\ temp \in [Chunks -> {"none", "partial", "whole"}]
    BY DEF Init
  <2>6. /\ dpc \in {"start", "checked", "prep", "head", "wait", "nil", "err"}
        /\ kpc \in {"off", "calc", "send", "err", "exit"}
        /\ mpc \in {"off", "open", "top", "pop", "wait", "copy", "clean", "err", "exit"}
        /\ spc \in {"no", "cancelled", "returned"}
    BY DEF Init
  <2>7. lastIndex \in Int /\ sem \in Nat /\ wg \in Nat /\ shutdownWg \in 0..1
    BY DEF Init
  <2>8. /\ completed \in SUBSET Chunks /\ taskMap \in SUBSET Chunks /\ notify \in SUBSET Chunks
        /\ wgDoneCh \in BOOLEAN /\ doneCh \in BOOLEAN /\ cancelled \in BOOLEAN
    BY DEF Init
  <2> QED BY <2>1, <2>2, <2>3, <2>4, <2>5, <2>6, <2>7, <2>8 DEF TypeOK
<1>4. Counts
  BY <1>2, Parameters DEF Init, Counts
<1>5. Phases /\ Tasks
  BY Parameters DEF Init, Phases, Tasks, Chunks, Holding
<1>6. Merged
  BY Parameters DEF Init, Merged, Chunks, Prefix
<1> QED BY <1>3, <1>4, <1>5, <1>6 DEF IInv

\* Do and the goroutine that closes wgDoneCh preserve the invariant.
LEMMA DoKeeps ==
  ASSUME IInv, DoStep \/ CloseWg
  PROVE  IInv'
<1> USE Parameters DEF IInv, Chunks, IsShutdown, InTask, Holding, DoReturn, MergeReturn,
     workerVars, taskVars, queueVars, calVars, mergeVars, doVars, envVars,
     notDo, notKpc, notMpc, notWorker, notEnv, notWg
<1>1. CASE DoCheck
  <2>1. TypeOK' /\ Counts' /\ Phases' /\ Tasks' /\ Merged'
    BY <1>1, SMTT(60) DEF DoCheck, TypeOK, Counts, Phases, Tasks, Merged, Busy
  <2> QED BY <2>1
<1>2. CASE DoRegister
  <2>1. Counts' /\ Phases' /\ Tasks' /\ Merged'
    BY <1>2 DEF DoRegister, Counts, Phases, Tasks, Merged, TypeOK, Busy
  <2>2. TypeOK'
    BY <1>2, SMTT(60) DEF DoRegister, TypeOK, Counts
  <2> QED BY <2>1, <2>2
<1>3. CASE DoGiveUp
  <2>1. Phases' /\ Tasks' /\ Merged'
    BY <1>3 DEF DoGiveUp, Phases, Tasks, Merged, TypeOK
  <2>2. TypeOK'
    BY <1>3, SMTT(60) DEF DoGiveUp, TypeOK, Counts
  <2>3. Counts'
    BY <1>3 DEF DoGiveUp, Counts, TypeOK, Busy, Phases
  <2> QED BY <2>1, <2>2, <2>3
<1>4. CASE DoStartWorkers
  <2>1. TypeOK' /\ Phases' /\ Tasks' /\ Merged'
    BY <1>4 DEF DoStartWorkers, TypeOK, Phases, Tasks, Merged
  <2>2. Counts'
    BY <1>4 DEF DoStartWorkers, Counts, TypeOK, Busy, Phases
  <2> QED BY <2>1, <2>2
<1>5. CASE DoLaunch
  <2>1. TypeOK' /\ Phases'
    BY <1>5, SMTT(60) DEF DoLaunch, TypeOK, Phases
  <2>2. Counts'
    BY <1>5 DEF DoLaunch, Counts, TypeOK, Busy, Phases
  <2>3. Tasks'
    BY <1>5 DEF DoLaunch, Tasks, TypeOK, Phases
  <2>4. Merged'
    BY <1>5 DEF DoLaunch, Merged, TypeOK, Phases
  <2> QED BY <2>1, <2>2, <2>3, <2>4
<1>6. CASE DoSucceed
  <2>1. Counts' /\ Phases' /\ Tasks' /\ Merged'
    BY <1>6 DEF DoSucceed, Counts, Phases, Tasks, Merged, TypeOK, Busy
  <2>2. TypeOK'
    BY <1>6, SMTT(60) DEF DoSucceed, TypeOK, Counts
  <2> QED BY <2>1, <2>2
<1>7. CASE CloseWg
  <2>1. TypeOK'
    BY <1>7, SMTT(60) DEF CloseWg, TypeOK
  <2>2. Counts'
    BY <1>7 DEF CloseWg, Counts, TypeOK, Busy
  <2>3. Tasks'
    BY <1>7 DEF CloseWg, Tasks, TypeOK
  <2>4. Merged'
    BY <1>7 DEF CloseWg, Merged, TypeOK
  <2>5. Phases'
    <3>1. mpc = "exit"
      BY <1>7 DEF CloseWg, TypeOK, Counts
    <3> QED
      BY <1>7, <3>1 DEF CloseWg, Phases, TypeOK
  <2> QED BY <2>1, <2>2, <2>3, <2>4, <2>5
<1> QED BY <1>1, <1>2, <1>3, <1>4, <1>5, <1>6, <1>7 DEF DoStep

\* calTask preserves the invariant.
LEMMA CalKeeps ==
  ASSUME IInv, CalStep
  PROVE  IInv'
<1> USE Parameters DEF IInv, Chunks, IsShutdown, InTask, Holding, DoReturn, MergeReturn,
     workerVars, taskVars, queueVars, calVars, mergeVars, doVars, envVars,
     notDo, notKpc, notMpc, notWorker, notEnv, notWg
<1>1. CASE CalFail
  <2>1. TypeOK'
    BY <1>1, SMTT(60) DEF CalFail, TypeOK
  <2>2. Counts'
    BY <1>1 DEF CalFail, Counts, TypeOK, Busy
  <2>3. Phases'
    BY <1>1 DEF CalFail, Phases, TypeOK
  <2>4. Tasks'
    BY <1>1 DEF CalFail, Tasks, TypeOK
  <2>5. Merged'
    BY <1>1 DEF CalFail, Merged, TypeOK
  <2> QED BY <2>1, <2>2, <2>3, <2>4, <2>5
<1>2. CASE CalRanges
  <2>1. TypeOK'
    BY <1>2 DEF CalRanges, TypeOK
  <2>2. Counts'
    BY <1>2 DEF CalRanges, Counts, TypeOK, Busy
  <2>3. Phases'
    BY <1>2 DEF CalRanges, Phases, TypeOK
  <2>4. Tasks'
    BY <1>2 DEF CalRanges, Tasks, TypeOK
  <2>5. Merged'
    BY <1>2 DEF CalRanges, Merged, TypeOK, Tasks
  <2> QED BY <2>1, <2>2, <2>3, <2>4, <2>5
<1>3. CASE CalStop
  <2>1. TypeOK' /\ Counts' /\ Phases' /\ Tasks' /\ Merged'
    BY <1>3, SMTT(60) DEF CalStop, TypeOK, Counts, Phases, Tasks, Merged, Busy
  <2> QED BY <2>1
<1>4. CASE CalReport
  <2>1. Counts' /\ Phases' /\ Tasks' /\ Merged'
    BY <1>4 DEF CalReport, Counts, Phases, Tasks, Merged, TypeOK, Busy
  <2>2. TypeOK'
    BY <1>4, SMTT(60) DEF CalReport, TypeOK, Counts
  <2> QED BY <2>1, <2>2
<1> QED BY <1>1, <1>2, <1>3, <1>4 DEF CalStep

\* mergeFile and popTask preserve the invariant.
LEMMA MergeKeeps ==
  ASSUME IInv, MergeStep
  PROVE  IInv'
<1> USE Parameters DEF IInv, Chunks, IsShutdown, InTask, Holding, DoReturn, MergeReturn,
     workerVars, taskVars, queueVars, calVars, mergeVars, doVars, envVars,
     notDo, notKpc, notMpc, notWorker, notEnv, notWg
<1>1. CASE MergeOpen
  <2>1. TypeOK' /\ Counts' /\ Phases' /\ Tasks' /\ Merged'
    BY <1>1, SMTT(60) DEF MergeOpen, TypeOK, Counts, Phases, Tasks, Merged, Busy
  <2> QED BY <2>1
<1>2. CASE MergeTop
  <2>1. TypeOK' /\ Counts' /\ Phases' /\ Tasks' /\ Merged'
    BY <1>2, SMTT(60) DEF MergeTop, TypeOK, Counts, Phases, Tasks, Merged, Busy
  <2> QED BY <2>1
<1>3. CASE MergeAbort
  <2>1. Counts' /\ Tasks' /\ Merged'
    BY <1>3, SMTT(60) DEF MergeAbort, Counts, Tasks, Merged, TypeOK, Busy
  <2>2. TypeOK'
    <3>1. wg - 1 \in Nat
      BY <1>3 DEF MergeAbort, TypeOK, Counts
    <3> QED
      BY <1>3, <3>1, SMTT(60) DEF MergeAbort, TypeOK
  <2>3. Phases'
    BY <1>3 DEF MergeAbort, Phases, TypeOK, Merged
  <2> QED BY <2>1, <2>2, <2>3
<1>4. CASE PopMap
  <2>1. TypeOK' /\ Counts' /\ Phases' /\ Tasks'
    BY <1>4, SMTT(60) DEF PopMap, TypeOK, Counts, Phases, Tasks, Busy
  <2>2. Merged'
    BY <1>4 DEF PopMap, Merged, TypeOK, Tasks
  <2> QED BY <2>1, <2>2
<1>5. CASE MergeCopy
  <2>1. Counts' /\ Phases'
    BY <1>5 DEF MergeCopy, Counts, Phases, TypeOK, Busy
  <2>2. TypeOK'
    BY <1>5, SMTT(60) DEF MergeCopy, TypeOK, Merged
  <2>3. Tasks'
    BY <1>5 DEF MergeCopy, Tasks, TypeOK, Merged
  <2>4. Merged'
    <3>1. mi \in Chunks /\ mi \in Nat /\ lastIndex = N - 1 /\ temp[mi] = "whole"
      BY <1>5 DEF MergeCopy, Merged, Tasks, TypeOK
    <3>2. output' = Prefix(mi + 1) /\ mi' = mi + 1
      BY <1>5, <3>1, AppendPrefix DEF MergeCopy, Merged
    <3>3. \A j \in Chunks : (j < mi' => place'[j] = "done" /\ temp'[j] = "none")
      BY <1>5, <3>1, <3>2 DEF MergeCopy, Merged, TypeOK
    <3>4. \A j \in Chunks : j >= mi' => temp'[j] = temp[j]
      BY <1>5, <3>1, <3>2 DEF MergeCopy, TypeOK
    <3>5. mpc' = "clean" => mi' = N
      BY <1>5, <3>1, <3>2 DEF MergeCopy
    <3> QED
      BY <1>5, <3>1, <3>2, <3>3, <3>4, <3>5, SMTT(60) DEF MergeCopy, Merged, TypeOK
  <2> QED BY <2>1, <2>2, <2>3, <2>4
<1>6. CASE MergeCopyFail
  <2>1. Counts' /\ Phases' /\ Tasks' /\ Merged'
    BY <1>6 DEF MergeCopyFail, Counts, Phases, Tasks, Merged, TypeOK, Busy
  <2>2. TypeOK'
    <3>1. Append(output, Garbage) \in Seq(Chunks \union {Garbage})
      BY DEF TypeOK
    <3>2. output' \in Seq(Chunks \union {Garbage}) /\ mpc' = "err"
      BY <1>6, <3>1, Zenon DEF MergeCopyFail, TypeOK
    <3> QED
      BY <1>6, <3>2, SMTT(60) DEF MergeCopyFail, TypeOK
  <2> QED BY <2>1, <2>2
<1>7. CASE MergeClean
  <2>1. Counts' /\ Merged'
    BY <1>7, SMTT(60) DEF MergeClean, Counts, Merged, TypeOK, Busy
  <2>2. TypeOK'
    BY <1>7, SMTT(60) DEF MergeClean, TypeOK, Counts
  <2>3. Phases'
    BY <1>7 DEF MergeClean, Phases, TypeOK, Merged
  <2>4. Tasks'
    BY <1>7 DEF MergeClean, Tasks, TypeOK, Merged
  <2> QED BY <2>1, <2>2, <2>3, <2>4
<1>8. CASE MergeCleanFail
  <2>1. TypeOK' /\ Counts' /\ Phases' /\ Tasks' /\ Merged'
    BY <1>8, SMTT(60) DEF MergeCleanFail, TypeOK, Counts, Phases, Tasks, Merged, Busy
  <2> QED BY <2>1
<1>9. CASE MergeReport
  <2>1. Counts' /\ Tasks' /\ Merged'
    BY <1>9 DEF MergeReport, Counts, Tasks, Merged, TypeOK, Busy
  <2>2. TypeOK'
    BY <1>9, SMTT(60) DEF MergeReport, TypeOK, Counts
  <2>3. Phases'
    BY <1>9 DEF MergeReport, Phases, TypeOK, Merged
  <2> QED BY <2>1, <2>2, <2>3
<1>10. ASSUME NEW i \in Chunks, PopNotify(i) PROVE IInv'
  <2>1. TypeOK' /\ Counts' /\ Phases'
    BY <1>10, ZenonT(60) DEF PopNotify, TypeOK, Counts, Phases, Busy
  <2>2. Tasks'
    <3>1. taskMap' \union notify' \subseteq taskMap \union notify
      BY <1>10 DEF PopNotify
    <3>2. UNCHANGED <<place, wpc, wtask, kpc, kn, lastIndex, completed, temp>>
      BY <1>10 DEF PopNotify
    <3> QED
      BY <3>1, <3>2 DEF Tasks
  <2>3. Merged'
    BY <1>10 DEF PopNotify, Merged, TypeOK, Tasks
  <2> QED BY <2>1, <2>2, <2>3
<1> QED BY <1>1, <1>2, <1>3, <1>4, <1>5, <1>6, <1>7, <1>8, <1>9, <1>10 DEF MergeStep

\* A worker in startWorker or handleTask preserves the invariant.
LEMMA WorkerKeeps ==
  ASSUME IInv, NEW w \in Workers, WorkerStep(w)
  PROVE  IInv'
<1> USE Parameters DEF IInv, Chunks, IsShutdown, InTask, Holding, DoReturn, MergeReturn,
     workerVars, taskVars, queueVars, calVars, mergeVars, doVars, envVars,
     notDo, notKpc, notMpc, notWorker, notEnv, notWg
<1>1. CASE SendTask(w)
  <2>1. Phases' /\ Tasks'
    BY <1>1, SMTT(60) DEF SendTask, Phases, Tasks, TypeOK
  <2>2. TypeOK'
    BY <1>1, SMTT(60) DEF SendTask, TypeOK, Tasks
  <2>3. Counts'
    BY <1>1, BusyStays DEF SendTask, Counts, TypeOK
  <2>4. Merged'
    BY <1>1, SMTT(60) DEF SendTask, Merged, TypeOK, Tasks
  <2> QED BY <2>1, <2>2, <2>3, <2>4
<1>2. CASE ResendTask(w)
  <2>1. TypeOK'
    BY <1>2, SMTT(60) DEF ResendTask, TypeOK
  <2>2. Phases'
    BY <1>2 DEF ResendTask, Phases, TypeOK
  <2>3. Tasks'
    BY <1>2, SMTT(60) DEF ResendTask, Tasks, TypeOK
  <2>4. Merged'
    BY <1>2, SMTT(60) DEF ResendTask, Merged, TypeOK
  <2>5. Counts'
    <3>1. Cardinality(Busy') = Cardinality(Busy)
      BY <1>2, BusyStays DEF ResendTask
    <3> QED
      BY <1>2, <3>1 DEF ResendTask, Counts, TypeOK
  <2> QED BY <2>1, <2>2, <2>3, <2>4, <2>5
<1>3. CASE WorkerExit(w)
  <2>1. TypeOK' /\ Phases' /\ Tasks' /\ Merged'
    BY <1>3, SMTT(60) DEF WorkerExit, TypeOK, Phases, Tasks, Merged
  <2>2. Counts'
    BY <1>3, BusyStays DEF WorkerExit, Counts, TypeOK
  <2> QED BY <2>1, <2>2
<1>4. CASE EnterTask(w)
  <2>1. TypeOK' /\ Phases' /\ Tasks' /\ Merged'
    BY <1>4, SMTT(60) DEF EnterTask, TypeOK, Phases, Tasks, Merged
  <2>2. Counts'
    <3>1. Cardinality(Busy') = Cardinality(Busy) + 1
      BY <1>4, BusyJoins DEF EnterTask
    <3> QED
      BY <1>4, <3>1 DEF EnterTask, Counts, TypeOK
  <2> QED BY <2>1, <2>2
<1>5. CASE BeginTask(w)
  <2>1. Phases'
    BY <1>5 DEF BeginTask, Phases, TypeOK
  <2>2. TypeOK'
    <3>1. wtask[w] \in Chunks
      BY <1>5 DEF BeginTask, Tasks
<3>2. wpc' \in [Workers -> {"off", "idle", "got", "exit"} \union InTask] /\ place' \in [Chunks
      -> {"unsent", "worker", "resend", "report", "done", "lost"}]
      BY <1>5, <3>1, ZenonT(60) DEF BeginTask, TypeOK
    <3>3. temp' \in [Chunks -> {"none", "partial", "whole"}]
      BY <1>5, <3>1, SMTT(60) DEF BeginTask, TypeOK
    <3> QED
      BY <1>5, <3>2, <3>3, SMTT(60) DEF BeginTask, TypeOK
  <2>3. Counts'
    BY <1>5, BusyStays, ZenonT(60) DEF BeginTask, Counts, TypeOK
  <2>4. Tasks'
    <3>1. wtask[w] \in Chunks /\ place[wtask[w]] = "worker"
      BY <1>5 DEF BeginTask, Tasks
    <3>2. \A j \in Chunks : place'[j] # "unsent" <=> place[j] # "unsent"
      BY <1>5, <3>1, SMTT(60) DEF BeginTask, TypeOK
    <3>3. \A j \in Chunks : j # wtask[w] => place'[j] = place[j] /\ temp'[j] = temp[j]
      BY <1>5, <3>1 DEF BeginTask, TypeOK
    <3>4. wpc'[w] \in Holding => place'[wtask[w]] = "worker"
      BY <1>5, <3>1 DEF BeginTask, TypeOK
    <3>5. \A v \in Workers : v # w => wpc'[v] = wpc[v]
      BY <1>5 DEF BeginTask, TypeOK
    <3>6. wpc'[w] = "get" => wtask[w] \notin completed
      BY <1>5 DEF BeginTask, TypeOK
    <3>7. wpc'[w] = "fetched" => temp'[wtask[w]] = "whole"
      BY <1>5, <3>1, SMTT(60) DEF BeginTask, TypeOK, Merged
<3>8. UNCHANGED <<wtask, completed, kpc, kn, lastIndex, taskMap, notify>> /\ wpc[w] = "enter"
      BY <1>5 DEF BeginTask
    <3>9. \A u \in Workers : wpc'[u] \in Holding =>
            /\ wpc[u] \in Holding /\ wtask'[u] \in Chunks /\ place'[wtask'[u]] = "worker"
            /\ \A v \in Workers : wpc'[v] \in Holding /\ wtask'[v] = wtask'[u] => v = u
      BY <3>1, <3>3, <3>4, <3>5, <3>8 DEF Tasks
    <3>10. \A u \in Workers : /\ wpc'[u] = "get" => wtask'[u] \notin completed'
                              /\ wpc'[u] = "fetched" => temp'[wtask'[u]] = "whole"
      BY <3>1, <3>3, <3>5, <3>6, <3>7, <3>8, <3>9 DEF Tasks
    <3>11. \A j \in taskMap' \union notify' : place'[j] = "done"
      BY <3>1, <3>3, <3>8 DEF Tasks, TypeOK
    <3> QED
      BY <3>2, <3>8, <3>9, <3>10, <3>11 DEF Tasks
  <2>5. Merged'
    BY <1>5, SMTT(60) DEF BeginTask, Merged, TypeOK, Tasks
  <2> QED BY <2>1, <2>2, <2>3, <2>4, <2>5
<1>6. CASE GetOk(w)
  <2>1. Phases' /\ Tasks'
    BY <1>6 DEF GetOk, Phases, Tasks, TypeOK
  <2>2. TypeOK'
    BY <1>6, SMTT(60) DEF GetOk, TypeOK, Tasks
  <2>3. Counts'
    BY <1>6, BusyStays DEF GetOk, Counts, TypeOK
  <2>4. Merged'
    BY <1>6, SMTT(60) DEF GetOk, Merged, TypeOK, Tasks
  <2> QED BY <2>1, <2>2, <2>3, <2>4
<1>7. CASE GetFail(w)
  <2>1. Phases' /\ Tasks'
    BY <1>7, SMTT(60) DEF GetFail, Phases, Tasks, TypeOK
  <2>2. TypeOK'
    <3>1. wtask[w] \in Chunks
      BY <1>7 DEF GetFail, Tasks
    <3>2. attempt[wtask[w]] < MaxRetry => attempt[wtask[w]] + 1 \in 0..MaxRetry
      BY <3>1 DEF TypeOK
    <3>3. attempt' \in [Chunks -> 0..MaxRetry]
      BY <1>7, <3>1, <3>2, ZenonT(60) DEF GetFail, TypeOK
    <3>4. place' \in [Chunks -> {"unsent", "worker", "resend", "report", "done", "lost"}]
      BY <1>7, <3>1 DEF GetFail, TypeOK
    <3> QED
      BY <1>7, <3>3, <3>4, SMTT(60) DEF GetFail, TypeOK
  <2>3. Counts'
    BY <1>7, BusyStays DEF GetFail, Counts, TypeOK
  <2>4. Merged'
    BY <1>7, SMTT(60) DEF GetFail, Merged, TypeOK, Tasks
  <2> QED BY <2>1, <2>2, <2>3, <2>4
<1>8. CASE CompleteTask(w)
  <2>1. Phases' /\ Tasks'
    BY <1>8 DEF CompleteTask, Phases, Tasks, TypeOK
  <2>2. TypeOK'
    <3>1. wtask[w] \in Chunks
      BY <1>8 DEF CompleteTask, Tasks
    <3>2. place' \in [Chunks -> {"unsent", "worker", "resend", "report", "done", "lost"}]
      BY <1>8, <3>1 DEF CompleteTask, TypeOK
    <3>3. taskMap' \in SUBSET Chunks /\ notify' \in SUBSET Chunks
      BY <1>8, <3>1 DEF CompleteTask, TypeOK
    <3> QED
      BY <1>8, <3>2, <3>3 DEF CompleteTask, TypeOK
  <2>3. Counts'
    BY <1>8, BusyStays DEF CompleteTask, Counts, TypeOK
  <2>4. Merged'
    BY <1>8, SMTT(60) DEF CompleteTask, Merged, TypeOK, Tasks
  <2> QED BY <2>1, <2>2, <2>3, <2>4
<1>9. CASE LeaveTask(w)
  <2>1. Phases' /\ Tasks' /\ Merged'
    BY <1>9, SMTT(60) DEF LeaveTask, Phases, Tasks, Merged, TypeOK
  <2>2. TypeOK'
    <3>1. sem \in Nat /\ wg \in Nat /\ sem > 0
      BY <1>9, BusyLeaves DEF LeaveTask, Counts, TypeOK
    <3>2. sem - 1 \in Nat /\ wg - 1 \in Nat
      BY <3>1 DEF Counts
<3>3. wpc' \in [Workers -> {"off", "idle", "got", "exit"} \union InTask] /\ wtask' \in [Workers
      -> Chunks \union {NoTask}]
      BY <1>9 DEF LeaveTask, TypeOK
    <3> QED
      BY <1>9, <3>2, <3>3 DEF LeaveTask, TypeOK
  <2>3. Counts'
    <3>1. Cardinality(Busy') = Cardinality(Busy) - 1
      BY <1>9, BusyLeaves DEF LeaveTask
    <3>2. sem \in Nat /\ wg \in Nat
      BY DEF TypeOK
    <3> QED
      BY <1>9, <3>1, <3>2 DEF LeaveTask, Counts
  <2> QED BY <2>1, <2>2, <2>3
<1>10. CASE WorkerReport(w)
  <2>1. Phases' /\ Tasks' /\ Merged'
    BY <1>10, SMTT(60) DEF WorkerReport, Phases, Tasks, Merged, TypeOK
  <2>2. TypeOK'
    BY <1>10, SMTT(60) DEF WorkerReport, TypeOK, Counts
  <2>3. Counts'
    <3>1. Cardinality(Busy') = Cardinality(Busy)
      BY <1>10, BusyStays DEF WorkerReport
    <3> QED
      BY <1>10, <3>1 DEF WorkerReport, Counts, TypeOK
  <2> QED BY <2>1, <2>2, <2>3
<1> QED BY <1>1, <1>2, <1>3, <1>4, <1>5, <1>6, <1>7, <1>8, <1>9, <1>10 DEF WorkerStep

\* The goroutines of retry and completeTask preserve the invariant.
LEMMA TaskKeeps ==
  ASSUME IInv, NEW i \in Chunks, TaskStep(i)
  PROVE  IInv'
<1> USE Parameters DEF IInv, Chunks, IsShutdown, InTask, Holding, DoReturn, MergeReturn,
     workerVars, taskVars, queueVars, calVars, mergeVars, doVars, envVars,
     notDo, notKpc, notMpc, notWorker, notEnv, notWg
<1>1. CASE RetryReport(i)
  <2>1. Counts'
    BY <1>1 DEF RetryReport, Counts, TypeOK, Busy
  <2>2. Phases'
    BY <1>1 DEF RetryReport, Phases, TypeOK
  <2>3. Tasks'
    BY <1>1, SMTT(60) DEF RetryReport, Tasks, TypeOK
  <2>4. Merged'
    BY <1>1, SMTT(60) DEF RetryReport, Merged, TypeOK
  <2>5. TypeOK'
    BY <1>1, SMTT(60) DEF RetryReport, TypeOK, Counts
  <2> QED BY <2>1, <2>2, <2>3, <2>4, <2>5
<1>2. CASE NotifyStop(i)
  <2>1. TypeOK'
    BY <1>2, SMTT(60) DEF NotifyStop, TypeOK
  <2>2. Counts'
    BY <1>2 DEF NotifyStop, Counts, TypeOK, Busy
  <2>3. Phases'
    BY <1>2 DEF NotifyStop, Phases, TypeOK
  <2>4. Tasks'
    BY <1>2 DEF NotifyStop, Tasks, TypeOK
  <2>5. Merged'
    BY <1>2 DEF NotifyStop, Merged, TypeOK
  <2> QED BY <2>1, <2>2, <2>3, <2>4, <2>5
<1> QED BY <1>1, <1>2 DEF TaskStep

\* Shutdown and Cancel preserve the invariant.
LEMMA EnvironmentKeeps ==
  ASSUME IInv, ShutdownCancel \/ ShutdownReturn \/ Cancel
  PROVE  IInv'
<1> USE Parameters DEF IInv, Chunks, IsShutdown, InTask, Holding, DoReturn, MergeReturn,
     workerVars, taskVars, queueVars, calVars, mergeVars, doVars, envVars,
     notDo, notKpc, notMpc, notWorker, notEnv, notWg
<1>1. CASE ShutdownCancel
  <2>1. TypeOK'
    BY <1>1 DEF ShutdownCancel, TypeOK
  <2>2. Counts'
    BY <1>1 DEF ShutdownCancel, Counts, TypeOK, Busy
  <2>3. Phases'
    BY <1>1 DEF ShutdownCancel, Phases, TypeOK
  <2>4. Tasks'
    BY <1>1 DEF ShutdownCancel, Tasks, TypeOK
  <2>5. Merged'
    BY <1>1 DEF ShutdownCancel, Merged, TypeOK
  <2> QED BY <2>1, <2>2, <2>3, <2>4, <2>5
<1>2. CASE ShutdownReturn
  <2>1. TypeOK' /\ Counts' /\ Phases' /\ Tasks' /\ Merged'
    BY <1>2, SMTT(60) DEF ShutdownReturn, TypeOK, Counts, Phases, Tasks, Merged, Busy
  <2> QED BY <2>1
<1>3. CASE Cancel
  <2>1. TypeOK' /\ Counts' /\ Phases' /\ Tasks' /\ Merged'
    BY <1>3, SMTT(60) DEF Cancel, TypeOK, Counts, Phases, Tasks, Merged, Busy
  <2> QED BY <2>1
<1> QED BY <1>1, <1>2, <1>3

\* Every step preserves the invariant.
LEMMA InvStep == IInv /\ [Next]_vars => IInv'
<1> SUFFICES ASSUME IInv, [Next]_vars PROVE IInv'
  OBVIOUS
<1>1. CASE UNCHANGED vars
  BY <1>1 DEF IInv, TypeOK, Counts, Phases, Tasks, Merged, vars, Busy, IsShutdown,
     workerVars, taskVars, queueVars, calVars, mergeVars, doVars, envVars
<1>2. CASE Next
  BY <1>2, DoKeeps, CalKeeps, MergeKeeps, WorkerKeeps, TaskKeeps, EnvironmentKeeps DEF Next
<1> QED BY <1>1, <1>2

\* The inductive invariant holds in every reachable state of the downloader.
THEOREM Invariance == Spec => []IInv
BY InitEstablishes, InvStep, PTL DEF Spec

-----------------------------------------------------------------------------

\* Type correctness; in particular neither counter of a WaitGroup goes negative,
\* which Go answers with a panic.
THEOREM TypeCorrect == Spec => []TypeOK
<1>1. IInv => TypeOK
  BY DEF IInv
<1> QED BY <1>1, Invariance, PTL

\* Whatever the interleaving of workers, retries and notifications, the output file
\* holds whole chunks in order, and garbage only where a copy broke off, at its end.
THEOREM OutputInOrder == Spec => []InOrder
<1>1. IInv => InOrder
  <2> SUFFICES ASSUME IInv PROVE InOrder
    OBVIOUS
  <2>1. mi \in Nat /\ Len(Prefix(mi)) = mi
    BY Parameters DEF IInv, TypeOK, Prefix
  <2>2. CASE output = Prefix(mi)
    BY <2>1, <2>2 DEF InOrder
  <2>3. CASE output = Append(Prefix(mi), Garbage) /\ mpc \in {"err", "exit"}
    <3>1. Prefix(mi) \in Seq(Int)
      BY <2>1 DEF Prefix
    <3>2. /\ Len(output) = mi + 1 /\ output[mi + 1] = Garbage /\ output # <<>>
          /\ SubSeq(output, 1, mi) = Prefix(mi)
      BY <2>1, <2>3, <3>1, GrowsAtTheEnd
    <3> QED BY <2>1, <2>3, <3>2 DEF InOrder
  <2> QED BY <2>2, <2>3 DEF IInv, Merged
<1> QED BY <1>1, Invariance, PTL

\* Do reports nil only for a whole file, unless the process was told to shut down.
THEOREM NilOnlyWhenComplete == Spec => []NilMeansComplete
<1>1. IInv => NilMeansComplete
  BY DEF IInv, Phases, NilMeansComplete, Merged
<1> QED BY <1>1, Invariance, PTL

\* No task is ever in two hands.
THEOREM TasksHaveOneHolder == Spec => []OneHolder
<1>1. IInv => OneHolder
  BY DEF IInv, Tasks, OneHolder
<1> QED BY <1>1, Invariance, PTL

\* The semaphore bounds the number of workers in handleTask, for every capacity.
THEOREM SemaphoreBounds == Spec => []ThreadsBounded
<1>1. IInv => ThreadsBounded
  BY DEF IInv, Counts, ThreadsBounded, Busy
<1> QED BY <1>1, Invariance, PTL

\* The temp directory is removed only when nothing in it is used any more.
THEOREM CleanUpIsAlone == Spec => []CleanAlone
<1>1. IInv => CleanAlone
  <2> SUFFICES ASSUME IInv, mpc = "clean" PROVE CleanAlone
    BY DEF CleanAlone
  <2>1. \A i \in Chunks : place[i] = "done" /\ temp[i] = "none"
    BY Parameters DEF IInv, Merged, Chunks
  <2>2. \A w \in Workers : wpc[w] # "get"
    BY <2>1 DEF IInv, Tasks, Holding
  <2> QED BY <2>1, <2>2 DEF CleanAlone
<1> QED BY <1>1, Invariance, PTL

-----------------------------------------------------------------------------
(* The steps as a user of the downloader sees them *)

Quiet == /\ output' = output
         /\ spc' = spc \/ (spc = "cancelled" /\ spc' = "returned")
         /\ dpc' = dpc \/ (~Returned /\ dpc' \notin {"nil", "err"})
Reports == ~Returned /\ dpc' = "err" /\ output' = output /\ spc' = spc
Ends == dpc = "wait" /\ dpc' = "nil" /\ wgDoneCh /\ output' = output /\ spc' = spc
Appends == /\ mpc = "copy" /\ dpc' = dpc /\ spc' = spc
           /\ output' = Append(output, mi) \/ output' = Append(output, Garbage)
Stops == spc = "no" /\ spc' = "cancelled" /\ dpc' = dpc /\ output' = output

\* Each step reports an error, ends with nil, appends a piece to the file while mergeFile
\* copies, starts the shutdown, or shows nothing.
LEMMA StepsSeen ==
  ASSUME IInv, [Next]_vars
  PROVE  Quiet \/ Reports \/ Ends \/ Appends \/ Stops
<1> USE DEF Quiet, Reports, Ends, Appends, Stops, Returned, DoReturn, MergeReturn,
     workerVars, taskVars, queueVars, calVars, mergeVars, doVars, envVars,
     notDo, notKpc, notMpc, notWorker, notEnv, notWg
<1>1. CASE DoStep \/ CloseWg
  BY <1>1 DEF DoStep, CloseWg, DoCheck, DoRegister, DoGiveUp, DoStartWorkers, DoLaunch,
     DoSucceed
<1>2. CASE CalStep
  BY <1>2 DEF CalStep, CalFail, CalRanges, CalStop, CalReport
<1>3. CASE MergeStep
  <2>1. CASE MergeCopy \/ MergeCopyFail
    <3>1. temp[mi] = "whole"
      BY <2>1, Parameters DEF MergeCopy, MergeCopyFail, IInv, TypeOK, Merged, Chunks
    <3> QED BY <2>1, <3>1 DEF MergeCopy, MergeCopyFail
  <2>2. CASE MergeOpen \/ MergeTop \/ MergeAbort \/ MergeClean \/ MergeCleanFail \/ MergeReport
    BY <2>2 DEF MergeOpen, MergeTop, MergeAbort, MergeClean, MergeCleanFail, MergeReport
  <2>3. CASE PopMap \/ \E i \in Chunks : PopNotify(i)
    BY <2>3 DEF PopMap, PopNotify
  <2> QED BY <1>3, <2>1, <2>2, <2>3 DEF MergeStep
<1>4. ASSUME NEW w \in Workers, WorkerStep(w)
      PROVE  Quiet \/ Reports \/ Ends \/ Appends \/ Stops
  <2>1. CASE BeginTask(w)
    BY <2>1 DEF BeginTask
  <2>2. CASE GetFail(w)
    BY <2>2 DEF GetFail
  <2>3. CASE CompleteTask(w) \/ LeaveTask(w) \/ WorkerReport(w)
    BY <2>3 DEF CompleteTask, LeaveTask, WorkerReport
  <2>4. CASE SendTask(w) \/ ResendTask(w) \/ WorkerExit(w) \/ EnterTask(w) \/ GetOk(w)
    BY <2>4 DEF SendTask, ResendTask, WorkerExit, EnterTask, GetOk
  <2> QED BY <1>4, <2>1, <2>2, <2>3, <2>4 DEF WorkerStep
<1>5. ASSUME NEW i \in Chunks, TaskStep(i)
      PROVE  Quiet \/ Reports \/ Ends \/ Appends \/ Stops
  BY <1>5 DEF TaskStep, RetryReport, NotifyStop
<1>6. CASE ShutdownCancel \/ ShutdownReturn \/ Cancel
  BY <1>6 DEF ShutdownCancel, ShutdownReturn, Cancel
<1>7. CASE UNCHANGED vars
  BY <1>7 DEF vars
<1> QED BY <1>1, <1>2, <1>3, <1>4, <1>5, <1>6, <1>7 DEF Next

\* Refinement: the concurrent downloader implements the sequential promise of Download.
THEOREM DownloaderImplementsPromise == Spec => ImplementsDownload
<1>1. Init => Promise!Init
  BY DEF Init, Promise!Init, IsShutdown
<1>2. IInv /\ [Next]_vars => [Promise!Next]_(Promise!vars)
  <2> SUFFICES ASSUME IInv, [Next]_vars
               PROVE  Promise!Next \/ UNCHANGED Promise!vars
    OBVIOUS
  <2>1. CASE Quiet
    BY <2>1 DEF Quiet, Promise!vars, Returned, IsShutdown
  <2>2. CASE Reports
    BY <2>2 DEF Reports, Promise!Next, Promise!Fail, Returned, IsShutdown
  <2>3. CASE Ends
    <3>1. IsShutdown \/ output = Promise!Prefix(N)
      BY <2>3 DEF Ends, IInv, Phases, Prefix, Promise!Prefix
    <3> QED BY <2>3, <3>1 DEF Ends, Promise!Next, Promise!Succeed, IsShutdown
  <2>4. CASE Appends
    <3>1. dpc # "nil" /\ mi < N /\ mi \in Nat /\ output = Promise!Prefix(mi)
      BY <2>4, Parameters DEF Appends, IInv, TypeOK, Phases, Merged, Prefix, Promise!Prefix
    <3>2. Len(output) = mi
      BY <3>1 DEF Promise!Prefix
    <3> QED BY <2>4, <3>1, <3>2 DEF Appends, Promise!Next, Promise!Deliver, Promise!Damage, IsShutdown
  <2>5. CASE Stops
    BY <2>5 DEF Stops, Promise!Next, Promise!Stop, IsShutdown
  <2> QED BY <2>1, <2>2, <2>3, <2>4, <2>5, StepsSeen
<1> QED BY <1>1, <1>2, Invariance, PTL DEF Spec, Promise!Spec, ImplementsDownload
=============================================================================
