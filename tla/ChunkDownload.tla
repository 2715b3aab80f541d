---------------------------- MODULE ChunkDownload ----------------------------
(***************************************************************************)
(* The concurrent downloader of internal/chunk_download.go: Do, its        *)
(* workers, the retry goroutines, calTask, mergeFile, the goroutine that   *)
(* waits for the WaitGroup, and the two things that interrupt them, the    *)
(* process-wide Shutdown of internal/chan.go and the cancellation of the   *)
(* client's context (Driver.Cancel, pan/driver.go).                        *)
(*                                                                         *)
(* All channels are unbuffered: a send and its receive are one step of     *)
(* two goroutines. One Do call; its N chunks are 0..N-1 (what CalRange     *)
(* cuts is the business of ChunkRange). Progress reporting is left out.    *)
(***************************************************************************)
EXTENDS Integers, Sequences, FiniteSets

CONSTANTS
    Workers,      \* the goroutines Do starts (concurrency of them)
    N,            \* number of ranges CalRange returns
    MaxRetry,     \* retries of one task before its error is reported
    MaxThread,    \* capacity of the semaphore channel
    MayFail,      \* operations that may fail
    MayShutdown,  \* Shutdown may be called
    MayCancel,    \* the client's context may be cancelled
    NoTask,       \* "no task" for a worker
    Garbage       \* a piece of the output file that is not a whole chunk

Operations == {"ensure", "head", "open", "get", "output", "copy", "calc", "clean"}

ASSUME Parameters ==
    /\ IsFiniteSet(Workers)
    /\ N \in Nat
    /\ MaxRetry \in Nat
    /\ MaxThread \in Nat \ {0}
    /\ MayFail \subseteq Operations
    /\ MayShutdown \in BOOLEAN /\ MayCancel \in BOOLEAN
    /\ NoTask \notin 0..N-1
    /\ Garbage \notin 0..N-1

Chunks == 0..N-1

VARIABLES
    dpc,          \* Do
    wpc, wtask,   \* workers: program counter, task in hand
    kpc, kn,      \* calTask: program counter, next task to send
    mpc, mi,      \* mergeFile: program counter, index it waits for
    lastIndex,    \* pd.lastIndex
    place,        \* where the task object of a chunk is
    attempt,      \* t.retry
    completed,    \* tasks whose temp file an earlier run left complete
    temp,         \* temp files: "none", "partial" or "whole"
    taskMap,      \* keys of pd.taskMap
    notify,       \* tasks whose goroutine of completeTask still sends
    output,       \* the output file, piece by piece
    sem,          \* tokens in pd.semaphore
    wg,           \* counter of pd.wg
    wgDoneCh,     \* pd.wgDoneCh is closed
    doneCh,       \* pd.doneCh is closed
    shutdownWg,   \* counter of the process-wide WaitGroup
    spc,          \* Shutdown: "no", "cancelled" (global context), "returned"
    cancelled     \* the client's context is cancelled

workerVars == <<wpc, wtask, sem>>
taskVars == <<place, attempt, completed, temp>>
queueVars == <<taskMap, notify>>
calVars == <<kpc, kn, lastIndex>>
mergeVars == <<mpc, mi, output>>
doVars == <<dpc, doneCh, shutdownWg>>
envVars == <<spc, cancelled>>
vars == <<workerVars, taskVars, queueVars, calVars, mergeVars, doVars, envVars,
          wg, wgDoneCh>>

\* What the steps of one goroutine usually leave alone.
notDo == <<workerVars, taskVars, queueVars, calVars, mergeVars, envVars, wgDoneCh>>
notKpc == <<workerVars, taskVars, queueVars, kn, lastIndex, mergeVars, envVars, wg, wgDoneCh>>
notMpc == <<workerVars, taskVars, queueVars, calVars, mi, output, envVars, wgDoneCh>>
notEnv == <<workerVars, taskVars, queueVars, calVars, mergeVars, doVars, wg, wgDoneCh>>
notWg == <<workerVars, taskVars, queueVars, calVars, mergeVars, doVars, envVars>>
notWorker == <<calVars, mergeVars, envVars, wgDoneCh>>

IsShutdown == spc # "no"

Init ==
    /\ dpc = "start"
    /\ wpc = [w \in Workers |-> "off"]
    /\ wtask = [w \in Workers |-> NoTask]
    /\ kpc = "off" /\ kn = 0
    /\ mpc = "off" /\ mi = 0
    /\ lastIndex = 0
    /\ place = [i \in Chunks |-> "unsent"]
    /\ attempt = [i \in Chunks |-> 0]
    /\ completed = {}
    /\ temp = [i \in Chunks |-> "none"]
    /\ taskMap = {} /\ notify = {}
    /\ output = <<>>
    /\ sem = 0 /\ wg = 0 /\ shutdownWg = 0
    /\ wgDoneCh = FALSE /\ doneCh = FALSE
    /\ spc = "no" /\ cancelled = FALSE

-----------------------------------------------------------------------------
(* Deviations: slips a change of the code could make. Specifications never  *)
(* use them; each is put in place of the definition it is named after to    *)
(* see that a property notices.                                             *)

\* mergeFile calls wg.Done() once by hand and once deferred.
MergeReturnTwice ==
    /\ mpc' = "exit"
    /\ wg' = wg - 2

\* Do returns without close(pd.doneCh).
DoReturnOpen(result) ==
    /\ dpc = "wait"
    /\ dpc' = result
    /\ shutdownWg' = shutdownWg - 1
    /\ UNCHANGED doneCh

\* What both arms of Do's select do before they return.
DoReturn(result) ==
    /\ dpc = "wait"
    /\ dpc' = result
    /\ doneCh' = TRUE
    /\ shutdownWg' = shutdownWg - 1

\* return, with the deferred wg.Done().
MergeReturn ==
    /\ mpc' = "exit"
    /\ wg' = wg - 1

\* An early return of Do forgets shutdownWg.Done().
DoGiveUpRegistered ==
    /\ \/ dpc = "prep" /\ "ensure" \in MayFail
       \/ dpc = "head" /\ ("head" \in MayFail \/ cancelled)
    /\ dpc' = "err"
    /\ UNCHANGED <<notDo, doneCh, shutdownWg, wg>>

\* Do starts mergeFile without wg.Add(1).
DoLaunchUncounted ==
    /\ dpc = "head"
    /\ dpc' = "wait"
    /\ mpc' = "open"
    /\ kpc' = "calc"
    /\ UNCHANGED <<workerVars, taskVars, queueVars, envVars, kn, lastIndex, mi, output, doneCh, shutdownWg, wg, wgDoneCh>>

\* lastIndex is one short.
CalRangesShort ==
    /\ kpc = "calc"
    /\ \E S \in SUBSET Chunks :
        /\ completed' = S
        /\ temp' = [i \in Chunks |-> IF i \in S THEN "whole" ELSE "none"]
    /\ lastIndex' = N - 2
    /\ kpc' = IF N = 0 THEN "exit" ELSE "send"
    /\ UNCHANGED <<workerVars, queueVars, mergeVars, doVars, envVars, place, attempt, kn, wg, wgDoneCh>>

\* The retry goroutine sends its task in a loop.
ResendTaskAgain(w) == \E i \in Chunks :
    /\ place[i] = "resend" /\ wpc[w] = "idle"
    /\ wpc' = [wpc EXCEPT ![w] = "got"]
    /\ wtask' = [wtask EXCEPT ![w] = i]
    /\ UNCHANGED <<notWorker, taskVars, queueVars, doVars, sem, wg>>

\* The semaphore is not acquired.
EnterTaskUnbounded(w) ==
    /\ wpc[w] = "got"
    /\ wg' = wg + 1
    /\ wpc' = [wpc EXCEPT ![w] = "enter"]
    /\ sem' = sem + 1
    /\ UNCHANGED <<notWorker, taskVars, queueVars, doVars, wtask>>

\* completeTask notifies only a popTask that already waits, and leaves the map alone.
CompleteTaskUnseen(w) ==
    LET i == wtask[w] IN
    /\ wpc[w] = "fetched"
    /\ wpc' = [wpc EXCEPT ![w] = "ret"]
    /\ place' = [place EXCEPT ![i] = "done"]
    /\ notify' = IF mpc = "wait" THEN notify \union {i} ELSE notify
    /\ UNCHANGED <<notWorker, doVars, wtask, sem, attempt, completed, temp, taskMap, wg>>

\* popTask takes any notification for the one it waits for.
PopNotifyAny(i) ==
    /\ mpc = "wait" /\ i \in notify
    /\ notify' = notify \ {i}
    /\ mpc' = "copy"
    /\ taskMap' = taskMap \ {i}
    /\ UNCHANGED <<workerVars, taskVars, calVars, doVars, envVars, mi, output, wg, wgDoneCh>>

\* A failed copy is logged and tried again.
MergeCopyFailAgain ==
    /\ mpc = "copy" /\ "copy" \in MayFail /\ Len(output) < N
    /\ output' = Append(output, Garbage)
    /\ UNCHANGED <<workerVars, taskVars, queueVars, calVars, doVars, envVars, mpc, mi, wg, wgDoneCh>>

-----------------------------------------------------------------------------
(* Do *)

DoCheck ==
    /\ dpc = "start"
    /\ dpc' = IF IsShutdown THEN "err" ELSE "checked"
    /\ UNCHANGED <<notDo, doneCh, shutdownWg, wg>>

DoRegister ==
    /\ dpc = "checked"
    /\ dpc' = "prep"
    /\ shutdownWg' = shutdownWg + 1
    /\ UNCHANGED <<notDo, doneCh, wg>>

\* ensure() fails, or the HEAD request, made when the size is unknown, does: an
\* early return, doneCh stays open.
DoGiveUp ==
    /\ \/ dpc = "prep" /\ "ensure" \in MayFail
       \/ dpc = "head" /\ ("head" \in MayFail \/ cancelled)
    /\ dpc' = "err"
    /\ shutdownWg' = shutdownWg - 1
    /\ UNCHANGED <<notDo, doneCh, wg>>

DoStartWorkers ==
    /\ dpc = "prep"
    /\ dpc' = "head"
    /\ wpc' = [w \in Workers |-> "idle"]
    /\ UNCHANGED <<notWorker, taskVars, queueVars, wtask, sem, doneCh, shutdownWg, wg>>

DoLaunch ==
    /\ dpc = "head"
    /\ dpc' = "wait"
    /\ wg' = wg + 1
    /\ mpc' = "open"
    /\ kpc' = "calc"
    /\ UNCHANGED <<workerVars, taskVars, queueVars, envVars, kn, lastIndex, mi, output, doneCh, shutdownWg, wgDoneCh>>

DoSucceed ==
    /\ wgDoneCh
    /\ DoReturn("nil")
    /\ UNCHANGED <<notDo, wg>>

\* The goroutine that waits for pd.wg.
CloseWg ==
    /\ mpc # "off" /\ wg = 0 /\ ~wgDoneCh
    /\ wgDoneCh' = TRUE
    /\ UNCHANGED <<notWg, wg>>

-----------------------------------------------------------------------------
(* calTask *)

CalFail ==
    /\ kpc = "calc" /\ "calc" \in MayFail
    /\ kpc' = "err"
    /\ UNCHANGED <<notKpc, doVars>>

\* CalRange found some chunks complete in the temp directory.
CalRanges ==
    /\ kpc = "calc"
    /\ \E S \in SUBSET Chunks :
        /\ completed' = S
        /\ temp' = [i \in Chunks |-> IF i \in S THEN "whole" ELSE "none"]
    /\ lastIndex' = N - 1
    /\ kpc' = IF N = 0 THEN "exit" ELSE "send"
    /\ UNCHANGED <<workerVars, queueVars, mergeVars, doVars, envVars, place, attempt, kn, wg, wgDoneCh>>

\* taskCh <- task, received by worker w.
SendTask(w) ==
    /\ kpc = "send" /\ wpc[w] = "idle"
    /\ wpc' = [wpc EXCEPT ![w] = "got"]
    /\ wtask' = [wtask EXCEPT ![w] = kn]
    /\ place' = [place EXCEPT ![kn] = "worker"]
    /\ kn' = kn + 1
    /\ kpc' = IF kn + 1 = N THEN "exit" ELSE "send"
    /\ UNCHANGED <<queueVars, mergeVars, doVars, envVars, sem, attempt, completed, temp, lastIndex, wg, wgDoneCh>>

CalStop ==
    /\ kpc = "send" /\ (doneCh \/ IsShutdown)
    /\ kpc' = "exit"
    /\ UNCHANGED <<notKpc, doVars>>

CalReport ==
    /\ kpc = "err"
    /\ DoReturn("err")
    /\ kpc' = "exit"
    /\ UNCHANGED notKpc

-----------------------------------------------------------------------------
(* Workers: startWorker and handleTask; the goroutines of retry *)

\* A retry goroutine's taskCh <- t, received by worker w.
ResendTask(w) == \E i \in Chunks :
    /\ place[i] = "resend" /\ wpc[w] = "idle"
    /\ wpc' = [wpc EXCEPT ![w] = "got"]
    /\ wtask' = [wtask EXCEPT ![w] = i]
    /\ place' = [place EXCEPT ![i] = "worker"]
    /\ UNCHANGED <<notWorker, queueVars, doVars, sem, attempt, completed, temp, wg>>

WorkerExit(w) ==
    /\ wpc[w] = "idle"
    /\ doneCh \/ IsShutdown \/ cancelled
    /\ wpc' = [wpc EXCEPT ![w] = "exit"]
    /\ UNCHANGED <<notWorker, taskVars, queueVars, doVars, wtask, sem, wg>>

\* semaphore <- struct{}{}, then handleTask's wg.Add(1).
EnterTask(w) ==
    /\ wpc[w] = "got" /\ sem < MaxThread
    /\ sem' = sem + 1
    /\ wg' = wg + 1
    /\ wpc' = [wpc EXCEPT ![w] = "enter"]
    /\ UNCHANGED <<notWorker, taskVars, queueVars, doVars, wtask>>

\* handleTask up to the request: shut down, already complete, or the temp file
\* is opened (and truncated).
BeginTask(w) ==
    LET i == wtask[w]
        At(pc, where) ==
            /\ wpc' = [wpc EXCEPT ![w] = pc]
            /\ place' = [place EXCEPT ![i] = where]
    IN  /\ wpc[w] = "enter"
        /\ \/ IsShutdown /\ At("ret", "lost") /\ UNCHANGED temp
           \/ ~IsShutdown /\ i \in completed /\ At("fetched", "worker") /\ UNCHANGED temp
           \/ /\ ~IsShutdown /\ i \notin completed /\ "open" \in MayFail
              /\ At("err", "lost") /\ UNCHANGED temp
           \/ /\ ~IsShutdown /\ i \notin completed
              /\ At("get", "worker") /\ temp' = [temp EXCEPT ![i] = "partial"]
        /\ UNCHANGED <<notWorker, queueVars, doVars, wtask, sem, attempt, completed, wg>>

\* The whole range arrived.
GetOk(w) ==
    /\ wpc[w] = "get" /\ ~cancelled
    /\ wpc' = [wpc EXCEPT ![w] = "fetched"]
    /\ temp' = [temp EXCEPT ![wtask[w]] = "whole"]
    /\ UNCHANGED <<notWorker, queueVars, doVars, wtask, sem, place, attempt, completed, wg>>

\* The request failed (or answered with an error status): go pd.retry(t, err),
\* which will send the task again or, its retries used up, report the error.
GetFail(w) ==
    LET i == wtask[w] IN
    /\ wpc[w] = "get" /\ ("get" \in MayFail \/ cancelled)
    /\ wpc' = [wpc EXCEPT ![w] = "ret"]
    /\ IF attempt[i] < MaxRetry
       THEN /\ attempt' = [attempt EXCEPT ![i] = @ + 1]
            /\ place' = [place EXCEPT ![i] = "resend"]
       ELSE /\ place' = [place EXCEPT ![i] = "report"]
            /\ UNCHANGED attempt
    /\ UNCHANGED <<notWorker, queueVars, doVars, wtask, sem, completed, temp, wg>>

\* completeTask: the map entry, and a goroutine that notifies popTask.
CompleteTask(w) ==
    LET i == wtask[w] IN
    /\ wpc[w] = "fetched"
    /\ wpc' = [wpc EXCEPT ![w] = "ret"]
    /\ place' = [place EXCEPT ![i] = "done"]
    /\ taskMap' = taskMap \union {i}
    /\ notify' = notify \union {i}
    /\ UNCHANGED <<notWorker, doVars, wtask, sem, attempt, completed, temp, wg>>

\* wg.Done() on return from handleTask, then <-semaphore.
LeaveTask(w) ==
    /\ wpc[w] = "ret"
    /\ wpc' = [wpc EXCEPT ![w] = "idle"]
    /\ wtask' = [wtask EXCEPT ![w] = NoTask]
    /\ sem' = sem - 1
    /\ wg' = wg - 1
    /\ UNCHANGED <<notWorker, taskVars, queueVars, doVars>>

\* errCh <- eo: the temp file could not be opened.
WorkerReport(w) ==
    /\ wpc[w] = "err"
    /\ DoReturn("err")
    /\ wpc' = [wpc EXCEPT ![w] = "ret"]
    /\ UNCHANGED <<notWorker, taskVars, queueVars, wtask, sem, wg>>

\* errCh <- err of a retry goroutine.
RetryReport(i) ==
    /\ place[i] = "report"
    /\ DoReturn("err")
    /\ place' = [place EXCEPT ![i] = "lost"]
    /\ UNCHANGED <<notWorker, workerVars, queueVars, attempt, completed, temp, wg>>

\* A goroutine of completeTask sees doneCh closed.
NotifyStop(i) ==
    /\ i \in notify /\ doneCh
    /\ notify' = notify \ {i}
    /\ UNCHANGED <<notWorker, workerVars, taskVars, doVars, taskMap, wg>>

-----------------------------------------------------------------------------
(* mergeFile and popTask *)

MergeOpen ==
    /\ mpc = "open"
    /\ mpc' \in {"top"} \union (IF "output" \in MayFail THEN {"err"} ELSE {})
    /\ UNCHANGED <<notMpc, doVars, wg>>

MergeTop ==
    /\ mpc = "top" /\ ~IsShutdown
    /\ mpc' = "pop"
    /\ UNCHANGED <<notMpc, doVars, wg>>

\* Shut down between two chunks, or popTask gives up waiting.
MergeAbort ==
    /\ \/ mpc = "top" /\ IsShutdown
       \/ mpc = "wait" /\ (doneCh \/ IsShutdown)
    /\ MergeReturn
    /\ UNCHANGED <<notMpc, doVars>>

\* popTask looks in the map first.
PopMap ==
    /\ mpc = "pop"
    /\ mpc' = IF mi \in taskMap THEN "copy" ELSE "wait"
    /\ taskMap' = taskMap \ {mi}
    /\ UNCHANGED <<workerVars, taskVars, calVars, doVars, envVars, notify, mi, output, wg, wgDoneCh>>

\* popTask receives the notification of task i; one it does not wait for goes
\* (back) into the map.
PopNotify(i) ==
    /\ mpc = "wait" /\ i \in notify
    /\ notify' = notify \ {i}
    /\ \/ i = mi /\ mpc' = "copy" /\ taskMap' = taskMap \ {i}
       \/ i # mi /\ mpc' = mpc /\ taskMap' = taskMap \union {i}
    /\ UNCHANGED <<workerVars, taskVars, calVars, doVars, envVars, mi, output, wg, wgDoneCh>>

\* The temp file is appended and removed.
MergeCopy ==
    /\ mpc = "copy"
    /\ output' = Append(output, IF temp[mi] = "whole" THEN mi ELSE Garbage)
    /\ temp' = [temp EXCEPT ![mi] = "none"]
    /\ mi' = mi + 1
    /\ mpc' = IF mi >= lastIndex THEN "clean" ELSE "top"
    /\ UNCHANGED <<workerVars, queueVars, calVars, doVars, envVars, place, attempt, completed, wg, wgDoneCh>>

\* The temp file cannot be opened, or io.Copy breaks off in the middle.
MergeCopyFail ==
    /\ mpc = "copy" /\ "copy" \in MayFail
    /\ mpc' = "err"
    /\ output' \in {output, Append(output, Garbage)}
    /\ UNCHANGED <<workerVars, taskVars, queueVars, calVars, doVars, envVars, mi, wg, wgDoneCh>>

\* os.RemoveAll(pd.tempDir)
MergeClean ==
    /\ mpc = "clean"
    /\ temp' = [i \in Chunks |-> "none"]
    /\ MergeReturn
    /\ UNCHANGED <<workerVars, queueVars, calVars, doVars, envVars, place, attempt, completed, mi, output, wgDoneCh>>

MergeCleanFail ==
    /\ mpc = "clean" /\ "clean" \in MayFail
    /\ mpc' = "err"
    /\ UNCHANGED <<notMpc, doVars, wg>>

MergeReport ==
    /\ mpc = "err"
    /\ DoReturn("err")
    /\ MergeReturn
    /\ UNCHANGED notMpc

-----------------------------------------------------------------------------
(* Shutdown (internal/chan.go) and Driver.Cancel *)

ShutdownCancel ==
    /\ MayShutdown /\ spc = "no"
    /\ spc' = "cancelled"
    /\ UNCHANGED <<notEnv, cancelled>>

\* shutdownWg.Wait() returns.
ShutdownReturn ==
    /\ spc = "cancelled" /\ shutdownWg = 0
    /\ spc' = "returned"
    /\ UNCHANGED <<notEnv, cancelled>>

Cancel ==
    /\ MayCancel /\ ~cancelled
    /\ cancelled' = TRUE
    /\ UNCHANGED <<notEnv, spc>>

-----------------------------------------------------------------------------

DoStep ==
    DoCheck \/ DoRegister \/ DoGiveUp \/ DoStartWorkers \/ DoLaunch \/ DoSucceed

CalStep == CalFail \/ CalRanges \/ CalStop \/ CalReport

WorkerStep(w) ==
    \/ SendTask(w) \/ ResendTask(w) \/ WorkerExit(w)
    \/ EnterTask(w) \/ BeginTask(w) \/ GetOk(w) \/ GetFail(w)
    \/ CompleteTask(w) \/ LeaveTask(w) \/ WorkerReport(w)

TaskStep(i) == RetryReport(i) \/ NotifyStop(i)

MergeStep ==
    \/ MergeOpen \/ MergeTop \/ MergeAbort \/ PopMap \/ MergeCopy \/ MergeCopyFail
    \/ MergeClean \/ MergeCleanFail \/ MergeReport
    \/ \E i \in Chunks : PopNotify(i)

Next ==
    \/ DoStep \/ CloseWg \/ CalStep \/ MergeStep
    \/ \E w \in Workers : WorkerStep(w)
    \/ \E i \in Chunks : TaskStep(i)
    \/ ShutdownCancel \/ ShutdownReturn \/ Cancel

Spec == Init /\ [][Next]_vars

\* Every goroutine that can run eventually runs, a request eventually ends.
\* Nothing makes Shutdown or Cancel be called.
Fairness ==
    /\ WF_vars(DoStep) /\ WF_vars(CloseWg) /\ WF_vars(CalStep) /\ WF_vars(MergeStep)
    /\ \A w \in Workers : WF_vars(WorkerStep(w))
    /\ \A i \in Chunks : WF_vars(TaskStep(i))
    /\ WF_vars(ShutdownReturn)

FairSpec == Spec /\ Fairness
-----------------------------------------------------------------------------
(* What the downloader guarantees *)

InTask == {"enter", "get", "fetched", "err", "ret"}
Holding == {"got", "enter", "get", "fetched"}

\* The first k chunks, in order.
Prefix(k) == [j \in 1..k |-> j - 1]

Returned == dpc \in {"nil", "err"}

TypeOK ==
    /\ dpc \in {"start", "checked", "prep", "head", "wait", "nil", "err"}
    /\ wpc \in [Workers -> {"off", "idle", "got", "exit"} \union InTask]
    /\ wtask \in [Workers -> Chunks \union {NoTask}]
    /\ kpc \in {"off", "calc", "send", "err", "exit"} /\ kn \in 0..N
    /\ mpc \in {"off", "open", "top", "pop", "wait", "copy", "clean", "err", "exit"}
    /\ mi \in 0..N
    /\ lastIndex \in Int
    /\ place \in [Chunks -> {"unsent", "worker", "resend", "report", "done", "lost"}]
    /\ attempt \in [Chunks -> 0..MaxRetry]
    /\ completed \in SUBSET Chunks
    /\ temp \in [Chunks -> {"none", "partial", "whole"}]
    /\ taskMap \in SUBSET Chunks /\ notify \in SUBSET Chunks
    /\ output \in Seq(Chunks \union {Garbage})
    /\ sem \in Nat /\ wg \in Nat /\ shutdownWg \in 0..1
    /\ wgDoneCh \in BOOLEAN /\ doneCh \in BOOLEAN
    /\ spc \in {"no", "cancelled", "returned"} /\ cancelled \in BOOLEAN

\* The output file holds whole chunks in the order of the remote file, none
\* twice, whatever order the workers, retries and notifications came in; only a
\* copy that broke off leaves something else, at the very end.
InOrder ==
    \/ output = Prefix(Len(output))
    \/ /\ output # <<>> /\ output[Len(output)] = Garbage
       /\ SubSeq(output, 1, Len(output) - 1) = Prefix(Len(output) - 1)
       /\ mpc \in {"err", "exit"}

\* Do returns nil only when the file is whole (mergeFile ended, and not because
\* of an error), unless Shutdown was called.
NilMeansComplete == dpc = "nil" /\ ~IsShutdown => output = Prefix(N)

\* One task is in one place: no two workers hold it, and one that a worker holds
\* waits neither in the map nor in a retry goroutine.
OneHolder == \A w \in Workers : wpc[w] \in Holding =>
    /\ wtask[w] \notin taskMap /\ place[wtask[w]] = "worker"
    /\ \A v \in Workers \ {w} : wpc[v] \in Holding => wtask[v] # wtask[w]

\* The semaphore bounds the tasks worked on at the same time (SetMaxThread).
ThreadsBounded == Cardinality({w \in Workers : wpc[w] \in InTask}) <= MaxThread

\* RemoveAll(tempDir) never pulls a temp file from under a request or a merge
\* still to come.
CleanAlone == mpc = "clean" =>
    /\ \A i \in Chunks : place[i] = "done" /\ temp[i] = "none"
    /\ \A w \in Workers : wpc[w] # "get"

\* The downloader implements Download: in particular the result Do reported is
\* final, and once it is nil the file no longer changes.
Promise == INSTANCE Download WITH
    file <- output,
    stopped <- IsShutdown,
    status <- IF dpc = "nil" THEN "ok" ELSE IF dpc = "err" THEN "failed" ELSE "running"

ImplementsDownload == Promise!Spec

\* As long as the client's context lives, Do returns: failed requests, used-up
\* retries, I/O errors and Shutdown never leave every goroutine waiting, and no
\* notification is lost between popTask's look into the map and its wait.
DoReturns == <>(Returned \/ cancelled)

\* Shutdown does not hang, not even after Driver.Cancel.
ShutdownEnds == (spc = "cancelled") ~> (spc = "returned")

\* A successful download leaves no goroutine behind.
NoGoroutineLeft ==
    /\ \A w \in Workers : wpc[w] = "exit"
    /\ kpc = "exit" /\ mpc = "exit" /\ notify = {}
    /\ \A i \in Chunks : place[i] \notin {"resend", "report"}

NothingLeaks == (dpc = "nil" /\ ~IsShutdown) ~> (NoGoroutineLeft \/ IsShutdown)

-----------------------------------------------------------------------------
(* What the repository says of it, and the code does not do *)

\* pan/driver.go: "Cancel cancels the client's context, aborting all in-flight
\* operations." An aborted Do returns.
CancelAborts == cancelled ~> Returned

\* enter_test.go: the download callback, which BaseDownloadFile calls when Do
\* returns nil, stands for a complete file, whether or not Shutdown was called.
NilMeansFile == dpc = "nil" => output = Prefix(N)
=============================================================================
