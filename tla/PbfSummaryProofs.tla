-------------------------- MODULE PbfSummaryProofs --------------------------
(***************************************************************************)
(* Proofs about the parallel summary, for every number of workers, every   *)
(* ring size and every file: its types, the permits and the ownership of   *)
(* the slots, that it agrees with the serial reader, and that the error it *)
(* reports is real.                                                        *)
(***************************************************************************)
EXTENDS PbfSummaryParallel, PbfQueueProofs

SummaryTypes ==
    /\ local \in [Workers -> [Positions(file) -> Nat]]
    /\ summary \in [Positions(file) -> Nat]
    /\ outcome \in [result : {-1, 0}, tally : [Positions(file) -> Nat]]

(***************************************************************************)
(* Errors: a failure has a message, and the message names a fault of the   *)
(* surroundings or the defect of a block that the serial reader would not  *)
(* get past either.                                                        *)
(***************************************************************************)
Rejects(b) == ReaderRejects(b) \/ SummaryRejects(b)

Genuine(message) ==
    \/ message \in Faults
    \/ message = "decode" /\ "memory" \in Faults
    \/ \E p \in Positions(file) : file[p].effect = message /\ Rejects(file[p])

ErrorsKnown ==
    /\ ~ stopped
    /\ rpc # "done" => (failed <=> error # "none") /\ (result = -1 => failed)
    /\ error # "none" => Genuine(error)
    /\ rpc = "report" => cause # "none" /\ Genuine(cause)
    /\ \A w \in Workers : wpc[w] \in {"decode", "parse"} => failed \/ Genuine(wpc[w])

(***************************************************************************)
(* Accounts: while nothing has failed, a block that was read is            *)
(* outstanding or counted once in one ledger, and a counted one is good.   *)
(* The ledger of a worker that has merged is empty.                        *)
(***************************************************************************)
Books == [l \in Ledgers |-> IF l = 0 THEN summary
                            ELSE IF wpc[l] = "exited" THEN Nothing ELSE local[l]]

Accounted ==
    Calm => /\ LedgersHold(Books, Positions(file), Outstanding, next)
            /\ \A p \in Positions(file) : p < next /\ p \notin Outstanding =>
                   Counts(Books, p) /\ ~ SummaryRejects(file[p])

HandedOut == rpc = "done" => AgreesWithSerial /\ ErrorIsReal

Inv == QueueInv /\ HandoverInv /\ SummaryTypes /\ ErrorsKnown /\ Accounted /\ HandedOut

\* The serial reader succeeds exactly on the files without a block it rejects.
LEMMA SerialResult ==
  /\ (\A p \in Positions(file) : ~ Rejects(file[p])) =>
        SerialSummary(file) = Delivery(0, Once(file, Positions(file)))
  /\ (\E p \in Positions(file) : Rejects(file[p])) => SerialSummary(file).result = -1
BY DEF SerialSummary, Rejects, Delivery

LEMMA TallyTypes ==
  /\ Nothing \in [Positions(file) -> Nat]
  /\ \A a, b \in [Positions(file) -> Nat] : Plus(a, b) \in [Positions(file) -> Nat]
BY DEF Nothing, Plus

\* Counting a fileblock once more.
LEMMA CountTypes ==
  ASSUME NEW S, NEW tally \in [S -> Nat], NEW p
  PROVE  [tally EXCEPT ![p] = @ + 1] \in [S -> Nat]
<1>1. CASE p \in S
  BY <1>1
<1>2. CASE p \notin S
  BY <1>2
<1> QED
  BY <1>1, <1>2

LEMMA InvInitially == Init => Inv
<1> SUFFICES ASSUME Init PROVE Inv
  OBVIOUS
<1>1. QueueInv /\ HandoverInv
  BY QueueInvInitially, HandoverInvInitially DEF Init
<1>2. SummaryTypes
  BY TallyTypes DEF Init, SummaryTypes, Delivery
<1>3. ErrorsKnown /\ HandedOut
  BY DEF Init, QueueInit, ErrorsKnown, HandedOut
<1>4. Accounted
  <2>1. \A l \in Ledgers, p \in Positions(file) : Books[l][p] = 0
    BY DEF Init, QueueInit, Books, Ledgers, Nothing, Workers
  <2>2. next = 1 /\ \A p \in Positions(file) : ~ (p < 1)
    BY <1>1 DEF Init, QueueInit, Positions
  <2> QED
    BY <2>1, <2>2 DEF Accounted, LedgersHold
<1> QED
  BY <1>1, <1>2, <1>3, <1>4 DEF Inv

\* What the summary does to the queue is a step of the queue.
LEMMA SummaryStepsQueue ==
  ASSUME QueueInv, Next
  PROVE  (QueueStep \/ Returned) /\ UNCHANGED file
<1> USE DEF queueVars, ioVars, stopVars, callVars, freeVars, readyVars, slotVars, flagVars,
            workerVars, mainVars, ReaderAt, ReaderGoes, WorkerAt
<1>1. CASE SetUp
  BY <1>1 DEF SetUp, QueueStep, MainQuiet, Causes, FaultKinds, QueueInv, QueueTypeOK
<1>2. CASE Reader
  BY <1>2 DEF QueueStep, Reader, StartWorker, StartFails, AllStarted, ReadHeader, TakePermit,
              TakeSlot, FillSlot, FillFails, MarkStop, PushReady, PostReady, CheckFlags,
              ReportError, SendStop, AllStopsSent, Join, AllJoined
<1>3. CASE Finish
  BY <1>3 DEF Finish, QueueStep, MainQuiet, QueueInv, QueueTypeOK
<1>4. ASSUME NEW w \in Workers, Worker(w)
      PROVE  WorkerQueueStep(w) /\ UNCHANGED file
  <2>t. /\ wpc \in [Workers -> WorkerPlaces] /\ error \in Causes
        /\ failed \in BOOLEAN /\ stopped \in BOOLEAN
    BY DEF QueueInv, QueueTypeOK
  <2>1. CASE WorkerTakePermit(w) \/ WorkerTakeSlot(w) \/ WorkerPush(w) \/ WorkerPost(w)
    BY <2>1 DEF WorkerQueueStep, WorkerTakePermit, WorkerTakeSlot, WorkerPush, WorkerPost
  <2>2. CASE \/ WorkerTestStop(w, "merge") \/ WorkerReport(w) \/ WorkerTestFailed(w)
             \/ WorkerWork(w) \/ WorkerMerge(w)
    <3> SUFFICES WorkerLocal(w)
      BY DEF WorkerLocal, WorkerQueueStep
    <3> USE DEF WorkerLocal, WorkerPlaces, WorkerGoes
    <3>1. CASE WorkerTestStop(w, "merge")
      BY <3>1, <2>t DEF WorkerTestStop
    <3>2. CASE WorkerReport(w)
      BY <3>2, <2>t DEF WorkerReport, SetError, Causes
    <3>3. CASE WorkerTestFailed(w)
      BY <3>3, <2>t DEF WorkerTestFailed
    <3>4. CASE WorkerWork(w)
      BY <3>4, <2>t DEF WorkerWork
    <3>5. CASE WorkerMerge(w)
      BY <3>5, <2>t DEF WorkerMerge
    <3> QED
      BY <2>2, <3>1, <3>2, <3>3, <3>4, <3>5
  <2> QED
    BY <1>4, <2>1, <2>2 DEF Worker
<1>5. CASE Returned
  BY <1>5 DEF Returned, vars
<1> QED
  BY <1>1, <1>2, <1>3, <1>4, <1>5 DEF Next, ReaderStep, QueueStep

LEMMA StepKeepsSummaryTypes ==
  ASSUME SummaryTypes, Next, UNCHANGED file
  PROVE  SummaryTypes'
<1> USE DEF SummaryTypes
<1>1. CASE UNCHANGED <<local, summary, outcome>>
  BY <1>1
<1>2. CASE SetUp
  BY <1>2, TallyTypes DEF SetUp, Delivery
<1>3. CASE Finish
  BY <1>3, TallyTypes DEF Finish, Delivery
<1>4. ASSUME NEW w \in Workers, WorkerWork(w) PROVE SummaryTypes'
  <2>1. PICK p : local' = [local EXCEPT ![w][p] = @ + 1]
    BY <1>4 DEF WorkerWork
  <2>2. local[w] \in [Positions(file) -> Nat]
    BY <1>4
  <2>3. [local[w] EXCEPT ![p] = @ + 1] \in [Positions(file) -> Nat]
    BY <2>2, CountTypes
  <2>4. local' \in [Workers -> [Positions(file) -> Nat]]
    BY <2>1, <2>3
  <2> QED
    BY <1>4, <2>4 DEF WorkerWork
<1>5. ASSUME NEW w \in Workers, WorkerMerge(w) PROVE SummaryTypes'
  BY <1>5, TallyTypes DEF WorkerMerge
<1> QED
  BY <1>1, <1>2, <1>3, <1>4, <1>5 DEF Next, ReaderStep, Worker, WorkerTestFailed, Returned, vars

\* A thread that has ended takes no step.
LEMMA EndedThreadsRest ==
  ASSUME NEW w \in Workers, Worker(w)
  PROVE  wpc[w] \notin {"idle", "exited"}
BY DEF Worker, WorkerTakePermit, WorkerTakeSlot, WorkerTestStop, WorkerReport, WorkerPush,
       WorkerPost, WorkerTestFailed, WorkerWork, WorkerMerge, WorkerAt

\* After the call has returned nothing happens any more.
LEMMA DoneRests ==
  ASSUME QueueInv, HandoverInv, rpc = "done", Next
  PROVE  UNCHANGED vars
<1>1. \A w \in Workers : ~ Worker(w)
  BY EndedThreadsRest, JoinedMeansGathered DEF QueueInv, QueueTypes, HandoverInv, Gathered
<1>2. ~ ReaderStep
  BY DEF ReaderStep, SetUp, Finish, Reader, StartWorker, StartFails, AllStarted, ReadHeader,
         TakePermit, TakeSlot, FillSlot, FillFails, MarkStop, PushReady, PostReady, CheckFlags,
         ReportError, SendStop, AllStopsSent, Join, AllJoined, ReaderAt
<1> QED
  BY <1>1, <1>2 DEF Next, Returned

\* The block a worker works on is one of the file.
LEMMA WorksOnBlock ==
  ASSUME QueueInv, HandoverInv, NEW w \in Workers, wpc[w] \in {"flags", "work"}
  PROVE  /\ wslot[w] \in Slots
         /\ slotBlock[wslot[w]] \in Positions(file) /\ slotBlock[wslot[w]] < next
<1>1. wslot[w] \in Slots /\ slotBlock[wslot[w]] \in Nat
  BY TransitTypes
<1>2. slotBlock[wslot[w]] > 0 /\ slotBlock[wslot[w]] < next
  BY <1>1 DEF HandoverInv, SlotsLoaded
<1>3. next \in 1..(Len(file) + 1) /\ Len(file) \in Nat
  BY FileLength DEF QueueInv, QueueTypeOK
<1> QED
  BY <1>1, <1>2, <1>3 DEF Positions

LEMMA StepKeepsErrorsKnown ==
  ASSUME QueueInv, HandoverInv, ErrorsKnown, Next, UNCHANGED file
  PROVE  ErrorsKnown'
<1> USE DEF ErrorsKnown, ReaderAt, ReaderGoes, ioVars, callVars, flagVars, workerVars
<1>t. /\ next \in 1..(Len(file) + 1) /\ Len(file) \in Nat /\ failed \in BOOLEAN
      /\ wpc \in [Workers -> WorkerPlaces]
  BY FileLength DEF QueueInv, QueueTypeOK
<1>g. \A message : Genuine(message)' <=> Genuine(message)
  BY DEF Genuine
<1>1. CASE SetUp
  <2>1. error' # error => error' \in Faults /\ rpc' = "done"
    BY <1>1 DEF SetUp
  <2>2. \A message \in Faults : Genuine(message)
    BY DEF Genuine
  <2>3. /\ UNCHANGED <<stopped, failed, wpc>> /\ rpc = "init" /\ rpc' \in {"start", "done"}
        /\ UNCHANGED result
    BY <1>1 DEF SetUp
  <2> HIDE DEF Genuine
  <2> QED
    BY <2>1, <2>2, <2>3, <1>g
<1>2. CASE StartWorker
  <2>1. /\ wpc' = [wpc EXCEPT ![started + 1] = "wait"]
        /\ UNCHANGED <<stopped, failed, error, rpc, cause, result>>
    BY <1>2 DEF StartWorker
  <2>2. \A w \in Workers : wpc'[w] \in {"decode", "parse"} => wpc[w] = wpc'[w]
    BY <2>1, <1>t
  <2> QED
    BY <2>1, <2>2, <1>g
<1>3. CASE StartFails
  BY <1>3, <1>g DEF StartFails, Genuine
<1>4. CASE ReadHeader
  <2>1. /\ UNCHANGED <<flagVars, workerVars, result>> /\ rpc = "header" /\ rpc' # "done"
        /\ \/ rpc' # "report"
           \/ cause' = "memory" /\ "memory" \in Faults
           \/ cause' = "header" /\ next <= Len(file) /\ file[next].effect = "header"
    BY <1>4 DEF ReadHeader
  <2>2. rpc' = "report" => Genuine(cause') /\ cause' # "none"
    BY <2>1, <1>t DEF Genuine, Rejects, ReaderRejects, Positions
  <2> QED
    BY <2>1, <2>2, <1>g
<1>5. CASE FillFails
  <2>1. /\ UNCHANGED <<flagVars, workerVars, result>> /\ rpc = "fill" /\ rpc' # "done"
        /\ \/ cause' = "memory" /\ "memory" \in Faults
           \/ cause' = "blob" /\ file[next].effect = "blob"
        /\ next <= Len(file)
    BY <1>5 DEF FillFails, QueueInv, ReaderKnows
  <2>2. Genuine(cause') /\ cause' # "none"
    BY <2>1, <1>t DEF Genuine, Rejects, ReaderRejects, Positions
  <2> QED
    BY <2>1, <2>2, <1>g
<1>6. CASE ReportError
  BY <1>6, <1>g DEF ReportError, SetError
<1>7. CASE AllStopsSent
  BY <1>7, <1>g DEF AllStopsSent
<1>8. CASE \/ AllStarted \/ TakePermit \/ TakeSlot \/ FillSlot \/ MarkStop \/ PushReady
           \/ PostReady \/ CheckFlags \/ SendStop \/ Join \/ AllJoined
  BY <1>8, <1>g DEF AllStarted, TakePermit, TakeSlot, FillSlot, MarkStop, PushReady,
                    PostReady, CheckFlags, SendStop, Join, AllJoined
<1>9. CASE Finish
  BY <1>9, <1>g DEF Finish
<1>10. ASSUME NEW w \in Workers, Worker(w) PROVE ErrorsKnown'
  <2> USE DEF mainVars, WorkerAt, WorkerGoes
  <2>1. CASE \/ WorkerTakePermit(w) \/ WorkerTakeSlot(w) \/ WorkerTestStop(w, "merge")
             \/ WorkerPush(w) \/ WorkerPost(w) \/ WorkerTestFailed(w) \/ WorkerMerge(w)
    <3>1. /\ UNCHANGED <<flagVars, rpc, cause, result>>
          /\ \A v \in Workers : wpc'[v] \in {"decode", "parse"} => wpc[v] = wpc'[v]
      BY <2>1, <1>t DEF WorkerTakePermit, WorkerTakeSlot, WorkerTestStop, WorkerPush,
                        WorkerPost, WorkerTestFailed, WorkerMerge
    <3> QED
      BY <3>1, <1>g
  <2>2. CASE WorkerReport(w)
    <3>1. /\ UNCHANGED <<stopped, rpc, cause, result>> /\ failed'
          /\ error' = IF failed THEN error ELSE wpc[w]
          /\ wpc[w] \in {"decode", "parse"}
          /\ \A v \in Workers : wpc'[v] \in {"decode", "parse"} => wpc[v] = wpc'[v]
      BY <2>2, <1>t DEF WorkerReport, SetError
    <3>2. rpc # "done"
      BY <1>10, EndedThreadsRest, JoinedMeansGathered DEF QueueInv, QueueTypes, HandoverInv, Gathered
    <3> QED
      BY <3>1, <3>2, <1>g
  <2>3. CASE WorkerWork(w)
    <3> DEFINE p == slotBlock[wslot[w]]
    <3>1. p \in Positions(file) /\ (slotStop[wslot[w]] => failed)
      BY <2>3, WorksOnBlock DEF WorkerWork, HandoverInv, KeepsBlobs
    <3>2. /\ wpc'[w] = "decode" =>
                slotStop[wslot[w]] \/ file[p].effect = "decode" \/ "memory" \in Faults
          /\ wpc'[w] = "parse" => SummaryRejects(file[p]) /\ file[p].effect # "decode"
          /\ \A v \in Workers : v # w => wpc[v] = wpc'[v]
          /\ UNCHANGED <<flagVars, rpc, cause, result>>
      BY <2>3, <1>t DEF WorkerWork
    <3>3. wpc'[w] = "decode" => failed \/ Genuine("decode")
      BY <3>1, <3>2 DEF Genuine, Rejects, SummaryRejects
    <3>4. wpc'[w] = "parse" => Genuine("parse")
      BY <3>1, <3>2 DEF Genuine, Rejects, SummaryRejects
    <3> QED
      BY <3>2, <3>3, <3>4, <1>g
  <2> QED
    BY <1>10, <2>1, <2>2, <2>3 DEF Worker
<1>11. CASE Returned
  BY <1>11, <1>g DEF Returned, vars, queueVars
<1> QED
  BY <1>1, <1>2, <1>3, <1>4, <1>5, <1>6, <1>7, <1>8, <1>9, <1>10, <1>11
     DEF Next, ReaderStep, Reader

\* While nobody counts, merges or leaves a block, the accounts stay.
LEMMA OthersKeepAccounts ==
  ASSUME SummaryTypes, Accounted, Calm, UNCHANGED <<file, Outstanding, next, local, summary>>,
         \A w \in Workers : wpc'[w] = "exited" <=> wpc[w] = "exited"
  PROVE  Accounted'
<1>1. Books' = Books
  BY DEF Books, Nothing, Ledgers, Workers
<1> QED
  BY <1>1 DEF Accounted, LedgersHold, Counts

LEMMA StepKeepsAccounted ==
  ASSUME QueueInv, HandoverInv, SummaryTypes, Accounted, Next, UNCHANGED file
  PROVE  Accounted'
<1>t. /\ wpc \in [Workers -> WorkerPlaces] /\ next \in Nat /\ QueueTypes
      /\ local \in [Workers -> [Positions(file) -> Nat]]
      /\ summary \in [Positions(file) -> Nat]
  BY TransitTypes DEF QueueInv, QueueTypes, SummaryTypes
<1>p. Positions(file) \subseteq Nat /\ Positions(file)' = Positions(file)
  BY FileLength DEF Positions, QueueInv, QueueTypeOK
<1>0. CASE Returned
  <2>1. UNCHANGED <<local, summary, queueVars>>
    BY <1>0 DEF Returned, vars
  <2>2. Books' = Books /\ Outstanding' = Outstanding /\ (Calm' <=> Calm)
    BY <2>1 DEF queueVars, ioVars, readyVars, slotVars, flagVars, workerVars, Books, Nothing,
                Outstanding, Pending, InTransit, ReadyWindow, ReadyAt, Carries, Calm, Clean
  <2> QED
    BY <2>1, <2>2 DEF Accounted, queueVars, ioVars, LedgersHold, Counts
<1>1. ASSUME QueueStep, Calm' PROVE Accounted'
  <2>1. Calm /\ Clean /\ Clean' /\ dropped = {} /\ dropped' = {} /\ ~ failed
    BY <1>t, <1>1, CalmWas DEF Calm, Clean
  <2>2. /\ LedgersHold(Books, Positions(file), Outstanding, next)
        /\ \A p \in Positions(file) : p < next /\ p \notin Outstanding =>
               Counts(Books, p) /\ ~ SummaryRejects(file[p])
    BY <2>1 DEF Accounted
  <2>3. CASE FillSlot /\ UNCHANGED <<local, summary>>
    <3>1. Outstanding' = Outstanding \cup {next} /\ next' = next + 1
      BY <2>1, <2>3, FillAddsOutstanding
    <3>2. Books' = Books
      BY <2>3 DEF FillSlot, Books, Nothing, workerVars
    <3>3. LedgersHold(Books, Positions(file), Outstanding', next')
      BY <1>t, <1>p, <2>2, <3>1, LedgersAfterReading
    <3>4. \A p \in Positions(file) : p < next' /\ p \notin Outstanding' =>
              p < next /\ p \notin Outstanding
      BY <1>t, <1>p, <3>1
    <3> QED
      BY <1>p, <2>2, <3>2, <3>3, <3>4 DEF Accounted, LedgersHold, Counts
  <2>4. ASSUME NEW w \in Workers, WorkerWork(w) PROVE Accounted'
    <3> DEFINE p == slotBlock[wslot[w]]
    <3>1. /\ wpc[w] = "work" /\ wpc'[w] = "push" /\ wpc' = [wpc EXCEPT ![w] = "push"]
          /\ ~ SummaryRejects(file[p])
          /\ local' = [local EXCEPT ![w][p] = @ + 1]
          /\ UNCHANGED <<summary, wslot, slotVars>>
      BY <1>t, <1>1, <2>4 DEF WorkerWork, WorkerAt, WorkerGoes, Calm
    <3>2. WorkerLocal(w)
      BY <3>1, <1>t, <1>1, LeavingIsLocal
    <3>3. /\ p \in Outstanding /\ Outstanding' = Outstanding \ {p} /\ next' = next
      BY <3>1, <3>2, <2>1, LeavingRemovesOutstanding
    <3>4. p \in Positions(file) /\ p < next
      BY <3>1, WorksOnBlock
    <3> HIDE DEF p
    <3>5. w \in Ledgers /\ w # 0
      BY DEF Ledgers, Workers
    <3>6. CountedIn(Books, Books', Positions(file), w, p)
      BY <1>t, <3>1, <3>4, <3>5 DEF Books, CountedIn, Nothing, Ledgers, Workers
    <3>7. /\ LedgersHold(Books', Positions(file), Outstanding \ {p}, next)
          /\ Counts(Books', p)
          /\ \A q \in Positions(file) : Counts(Books, q) => Counts(Books', q)
      <4>1. PICK T, U : T = Books /\ U = Books'
        OBVIOUS
      <4>2. LedgersHold(T, Positions(file), Outstanding, next)
        BY <2>2, <4>1
      <4>3. CountedIn(T, U, Positions(file), w, p)
        BY <3>6, <4>1
      <4>4. /\ Positions(file) \subseteq Nat /\ next \in Nat /\ p \in Outstanding
            /\ p < next /\ p \in Positions(file) /\ w \in Ledgers
        BY <1>t, <1>p, <3>3, <3>4, <3>5
      <4>5. /\ LedgersHold(U, Positions(file), Outstanding \ {p}, next)
            /\ Counts(U, p)
            /\ \A q \in Positions(file) : Counts(T, q) => Counts(U, q)
        BY <4>2, <4>3, <4>4, LedgersAfterCounting
      <4> QED
        BY <4>1, <4>5
    <3>8. \A q \in Positions(file) : q < next /\ q \notin Outstanding' =>
              Counts(Books', q) /\ ~ SummaryRejects(file[q])
      BY <2>2, <3>1, <3>3, <3>7
    <3> QED
      BY <1>p, <3>3, <3>7, <3>8 DEF Accounted, LedgersHold, Counts
  <2>5. ASSUME NEW w \in Workers, WorkerMerge(w) PROVE Accounted'
    <3>1. /\ wpc[w] = "merge" /\ wpc' = [wpc EXCEPT ![w] = "exited"]
          /\ summary' = Plus(summary, local[w])
          /\ UNCHANGED local /\ ~ FillSlot
      BY <2>5 DEF WorkerMerge, WorkerAt, WorkerGoes, FillSlot, workerVars, mainVars, ioVars,
                  slotVars, ReaderAt, ReaderGoes
    <3>2. \A v \in Workers : wpc[v] \in {"flags", "work"} => wpc'[v] \in {"flags", "work"}
      BY <3>1, <1>t
    <3>3. UNCHANGED <<Outstanding, next>>
      BY <1>1, <2>1, <3>1, <3>2, OthersKeepOutstanding
    <3>4. w \in Ledgers /\ w # 0 /\ 0 \in Ledgers
      BY QueueAssumption DEF Ledgers, Workers
    <3>5. MergedFrom(Books, Books', Positions(file), w)
      BY <1>t, <1>p, <3>1, <3>4 DEF Books, MergedFrom, Nothing, Plus, Ledgers, Workers
    <3>6. /\ LedgersHold(Books', Positions(file), Outstanding, next)
          /\ \A p \in Positions(file) : Counts(Books', p) <=> Counts(Books, p)
      <4>1. PICK T, U : T = Books /\ U = Books'
        OBVIOUS
      <4>2. LedgersHold(T, Positions(file), Outstanding, next)
        BY <2>2, <4>1
      <4>3. MergedFrom(T, U, Positions(file), w)
        BY <3>5, <4>1
      <4>4. w \in Workers /\ next \in Nat
        BY <1>t
      <4>5. /\ LedgersHold(U, Positions(file), Outstanding, next)
            /\ \A p \in Positions(file) : Counts(U, p) <=> Counts(T, p)
        BY <4>2, <4>3, <4>4, LedgersAfterMerging
      <4> QED
        BY <4>1, <4>5
    <3> QED
      BY <1>p, <2>2, <3>3, <3>6 DEF Accounted, LedgersHold, Counts
  <2>6. CASE /\ ~ FillSlot /\ UNCHANGED <<local, summary>>
             /\ \A w \in Workers : /\ wpc[w] \in {"flags", "work"} => wpc'[w] \in {"flags", "work"}
                                   /\ wpc'[w] = "exited" <=> wpc[w] = "exited"
    BY <1>1, <2>1, <2>6, OthersKeepOutstanding, OthersKeepAccounts
  <2>7. CASE UNCHANGED <<wpc, local, summary>>
    BY <2>3, <2>6, <2>7
  <2>8. CASE StartWorker /\ UNCHANGED <<local, summary>>
    <3>1. wpc[started + 1] = "idle" /\ wpc' = [wpc EXCEPT ![started + 1] = "wait"]
      BY <1>t, <2>8, QueueAssumption
         DEF StartWorker, QueueTypes, QueueTypeOK, Unstarted, Workers
    <3>2. ~ FillSlot
      BY <2>8 DEF StartWorker, FillSlot, ReaderAt
    <3> QED
      BY <1>t, <2>6, <2>8, <3>1, <3>2
  <2>9. CASE Reader /\ UNCHANGED <<local, summary, outcome>>
    <3>1. StartWorker \/ UNCHANGED wpc
      BY <2>9 DEF Reader, StartFails, AllStarted, ReadHeader, TakePermit, TakeSlot, FillSlot,
                  FillFails, MarkStop, PushReady, PostReady, CheckFlags, ReportError, SendStop,
                  AllStopsSent, Join, AllJoined, workerVars
    <3> QED
      BY <2>7, <2>8, <2>9, <3>1
  <2>10. CASE SetUp \/ Finish
    BY <2>7, <2>10 DEF SetUp, Finish, workerVars
  <2>11. ASSUME NEW w \in Workers, Worker(w) PROVE Accounted'
    <3> USE DEF WorkerAt, WorkerGoes
    <3>0. ~ FillSlot
      <4>1. UNCHANGED rpc
        BY <2>11 DEF Worker, WorkerTakePermit, WorkerTakeSlot, WorkerTestStop, WorkerReport,
                     WorkerPush, WorkerPost, WorkerTestFailed, WorkerWork, WorkerMerge, mainVars
      <4> QED
        BY <4>1 DEF FillSlot, ReaderAt, ReaderGoes
    <3>1. CASE \/ WorkerTakePermit(w) \/ WorkerTakeSlot(w) \/ WorkerTestStop(w, "merge")
               \/ WorkerReport(w) \/ WorkerPush(w) \/ WorkerPost(w)
      <4>1. UNCHANGED <<local, summary>>
        BY <3>1, <2>11 DEF Worker, WorkerTakePermit, WorkerTakeSlot, WorkerTestStop,
             WorkerReport, WorkerPush, WorkerPost, WorkerTestFailed, WorkerWork, WorkerMerge
      <4>2. PICK place \in {"take", "check", "merge", "flags", "push", "post", "wait"} :
                wpc' = [wpc EXCEPT ![w] = place]
        BY <3>1 DEF WorkerTakePermit, WorkerTakeSlot, WorkerTestStop, WorkerReport,
                    WorkerPush, WorkerPost
      <4>3. wpc[w] \notin {"flags", "work", "exited"}
        BY <3>1 DEF WorkerTakePermit, WorkerTakeSlot, WorkerTestStop, WorkerReport,
                    WorkerPush, WorkerPost
      <4> QED
        BY <1>t, <2>6, <3>0, <4>1, <4>2, <4>3
    <3>2. CASE WorkerTestFailed(w)
      BY <1>t, <2>1, <2>6, <3>0, <3>2 DEF WorkerTestFailed
    <3> QED
      BY <2>4, <2>5, <2>11, <3>1, <3>2 DEF Worker
  <2> QED
    BY <2>9, <2>10, <2>11, <1>0 DEF Next, ReaderStep
<1> QED
  BY <1>0, <1>1, SummaryStepsQueue DEF Accounted

\* What a clean call has counted when it hands the summary out.
LEMMA EverythingCounted ==
  ASSUME QueueInv, HandoverInv, SummaryTypes, ErrorsKnown, Accounted,
         rpc = "finish", result = 0, ~ failed
  PROVE  /\ summary = Once(file, Positions(file))
         /\ \A p \in Positions(file) : ~ Rejects(file[p])
<1>1. Gathered /\ dropped = {}
  BY JoinedMeansGathered DEF QueueInv, QueueTypes, HandoverInv, ReadsToTheEnd
<1>2. Calm /\ Clean /\ ~ stopped
  BY <1>1 DEF Calm, Clean, Gathered, ErrorsKnown
<1>3. Outstanding = {} /\ next = Len(file) + 1
  BY <1>2, NothingOutstanding
<1>4. next \in Nat /\ Positions(file) = 1..(next - 1)
  BY <1>3, FileLength DEF Positions, QueueInv, QueueTypeOK
<1>5. \A l \in Ledgers, p \in Positions(file) : l # 0 => Books[l][p] = 0
  <2> SUFFICES ASSUME NEW l \in Ledgers, NEW p \in Positions(file), l # 0 PROVE Books[l][p] = 0
    OBVIOUS
  <2>1. l \in Workers
    BY QueueAssumption DEF Ledgers, Workers
  <2>2. CASE wpc[l] = "exited"
    BY <2>2 DEF Books, Nothing
  <2>3. CASE wpc[l] = "idle"
    <3>1. l <= started
      BY <2>1, <1>2 DEF HandoverInv, CallOrder, Clean, Workers
    <3>2. wpc[l] = "exited"
      BY <2>1, <3>1 DEF HandoverInv, CallOrder
    <3> QED
      BY <2>3, <3>2
  <2> QED
    BY <1>1, <2>1, <2>2, <2>3 DEF Gathered
<1>6. \A p \in Positions(file) : Counts(Books, p) /\ ~ SummaryRejects(file[p])
  BY <1>2, <1>3, <1>4 DEF Accounted
<1>7. \A p \in Positions(file) : summary[p] = 1
  <2>1. 0 \in Ledgers /\ Books[0] = summary
    BY QueueAssumption DEF Ledgers, Books
  <2> QED
    BY <1>5, <1>6, <2>1 DEF Counts
<1>8. summary = Once(file, Positions(file))
  BY <1>7 DEF SummaryTypes, Once
<1>9. \A p \in Positions(file) : ~ ReaderRejects(file[p])
  BY <1>4 DEF HandoverInv, ReadsToTheEnd
<1> QED
  BY <1>6, <1>8, <1>9 DEF Rejects

LEMMA StepKeepsHandedOut ==
  ASSUME QueueInv, HandoverInv, SummaryTypes, ErrorsKnown, ErrorsKnown', Accounted, HandedOut,
         Next, UNCHANGED file
  PROVE  HandedOut'
<1>1. CASE rpc = "done"
  <2>1. UNCHANGED vars
    BY <1>1, DoneRests
  <2> QED
    BY <2>1 DEF vars, queueVars, flagVars, ioVars, HandedOut, AgreesWithSerial, ErrorIsReal,
                Happened, FromOutside, Nothing
<1>n. UNCHANGED <<file, Nothing>>
  BY DEF Nothing
<1>2. CASE SetUp
  <2>1. rpc' = "done" => /\ outcome' = Delivery(-1, Nothing)
                         /\ error' \in Faults
    BY <1>2 DEF SetUp, ReaderGoes
  <2>2. rpc' = "done" => error' # "none" /\ outcome'.result = -1
    BY <2>1, QueueAssumption DEF FaultKinds, Delivery
  <2> QED
    BY <2>1, <2>2, <1>n DEF HandedOut, AgreesWithSerial, FromOutside, ErrorIsReal, Happened
<1>3. CASE Finish
  <2>0. /\ rpc = "finish" /\ UNCHANGED <<error, failed, result>>
        /\ outcome' = IF result = 0 /\ ~ failed THEN Delivery(0, summary) ELSE Delivery(-1, Nothing)
        /\ result \in {-1, 0}
    BY <1>3 DEF Finish, flagVars, callVars, ReaderAt, QueueInv, QueueTypeOK
  <2>1. CASE result = 0 /\ ~ failed
    <3>1. /\ summary = Once(file, Positions(file))
          /\ \A p \in Positions(file) : ~ Rejects(file[p])
      BY <2>0, <2>1, EverythingCounted
    <3>2. SerialSummary(file) = Delivery(0, summary)
      BY <3>1, SerialResult
    <3>3. error = "none"
      BY <2>0, <2>1 DEF ErrorsKnown
    <3> QED
      BY <2>0, <2>1, <3>2, <3>3 DEF HandedOut, AgreesWithSerial, ErrorIsReal, Delivery
  <2>2. CASE ~ (result = 0 /\ ~ failed)
    <3>1. outcome' = Delivery(-1, Nothing) /\ error' # "none" /\ Genuine(error')
      BY <2>0, <2>2 DEF ErrorsKnown
    <3>2. CASE FromOutside(error')
      BY <3>1, <3>2, <1>n DEF HandedOut, AgreesWithSerial, ErrorIsReal, Happened, FromOutside,
                              Delivery
    <3>3. CASE \E p \in Positions(file) : file[p].effect = error' /\ Rejects(file[p])
      <4>1. SerialSummary(file).result = -1
        BY <3>3, SerialResult
      <4> QED
        BY <3>1, <3>3, <4>1, <1>n DEF HandedOut, AgreesWithSerial, ErrorIsReal, Happened, Delivery
    <3> QED
      BY <3>1, <3>2, <3>3 DEF Genuine, FromOutside
  <2> QED
    BY <2>1, <2>2
<1>4. ASSUME rpc # "done", ~ SetUp, ~ Finish PROVE rpc' # "done"
  <2>1. CASE Reader
    BY <1>4, <2>1 DEF Reader, StartWorker, StartFails, AllStarted, ReadHeader, TakePermit,
       TakeSlot, FillSlot, FillFails, MarkStop, PushReady, PostReady, CheckFlags, ReportError,
       SendStop, AllStopsSent, Join, AllJoined, ReaderGoes
  <2>2. ASSUME NEW w \in Workers, Worker(w) PROVE rpc' # "done"
    BY <1>4, <2>2 DEF Worker, WorkerTakePermit, WorkerTakeSlot, WorkerTestStop, WorkerReport,
       WorkerPush, WorkerPost, WorkerTestFailed, WorkerWork, WorkerMerge, mainVars
  <2> QED
    BY <1>4, <2>1, <2>2 DEF Next, ReaderStep, Returned
<1> QED
  BY <1>1, <1>2, <1>3, <1>4 DEF HandedOut

LEMMA InvInductive == Inv /\ [Next]_vars => Inv'
<1> SUFFICES ASSUME Inv, [Next]_vars PROVE Inv'
  OBVIOUS
<1>1. CASE UNCHANGED vars
  <2>1. QueueInv'
    BY <1>1, QueueInvInductive DEF Inv, vars
  <2>2. HandoverInv'
    BY <1>1, HandoverInvInductive DEF Inv, vars
  <2> USE <1>1 DEF vars, queueVars, ioVars, stopVars, callVars, freeVars, readyVars, slotVars,
                   flagVars, workerVars
  <2>3. SummaryTypes' /\ ErrorsKnown' /\ HandedOut'
    BY DEF Inv, SummaryTypes, ErrorsKnown, Genuine, HandedOut, AgreesWithSerial, ErrorIsReal,
           Happened, FromOutside, Nothing
  <2>4. Books' = Books /\ Outstanding' = Outstanding /\ (Calm' <=> Calm)
    BY DEF Books, Nothing, Outstanding, Pending, InTransit, ReadyWindow, ReadyAt, Carries,
           Calm, Clean
  <2>5. Accounted'
    BY <2>4 DEF Inv, Accounted, LedgersHold, Counts
  <2> QED
    BY <2>1, <2>2, <2>3, <2>5 DEF Inv
<1>2. CASE Next
  <2>1. (QueueStep \/ UNCHANGED queueVars) /\ UNCHANGED file
    BY <1>2, SummaryStepsQueue DEF Inv, Returned, vars
  <2>2. QueueInv' /\ HandoverInv'
    BY <2>1, QueueInvInductive, HandoverInvInductive DEF Inv
  <2>3. SummaryTypes' /\ ErrorsKnown' /\ Accounted'
    BY <1>2, <2>1, StepKeepsSummaryTypes, StepKeepsErrorsKnown, StepKeepsAccounted DEF Inv
  <2>4. HandedOut'
    BY <1>2, <2>1, <2>3, StepKeepsHandedOut DEF Inv
  <2> QED
    BY <2>2, <2>3, <2>4 DEF Inv
<1> QED
  BY <1>1, <1>2

LEMMA InvAlways == Spec => []Inv
BY InvInitially, InvInductive, PTL DEF Spec

(***************************************************************************)
(* Every variable of the parallel summary keeps its type: the ring indices *)
(* stay inside the rings, the reader never reads past the file, and it     *)
(* never sends more stop slots than it started workers.                    *)
(***************************************************************************)
THEOREM SummaryTypeOK == Spec => []TypeOK
<1>1. Inv => TypeOK
  BY DEF Inv, SummaryTypes, QueueInv, TypeOK
<1> QED
  BY <1>1, InvAlways, PTL

(***************************************************************************)
(* Each semaphore of the queue counts the entries of its ring, except for  *)
(* the permit the reader posts without an entry when it fails on a Blob.   *)
(***************************************************************************)
THEOREM SummaryPermitsBacked == Spec => []PermitsBacked
<1>1. Inv => PermitsBacked
  BY DEF Inv, QueueInv
<1> QED
  BY <1>1, InvAlways, PTL

(***************************************************************************)
(* A slot is on one ring, once, or in the hands of one thread, until the   *)
(* reader fails on a Blob.                                                 *)
(***************************************************************************)
THEOREM SummaryOneOwner == Spec => []OneOwner
<1>1. Inv => OneOwner
  BY DEF Inv, QueueInv
<1> QED
  BY <1>1, InvAlways, PTL

(***************************************************************************)
(* A summary that pbf_read_summary_parallel hands out is the one the       *)
(* serial reader of the same file gives, every fileblock counted exactly   *)
(* once.  A failed call leaves no counts, and the serial reader fails too  *)
(* unless the message is of a fault of the surroundings.                   *)
(***************************************************************************)
THEOREM SummaryAgreesWithSerial == Spec => []AgreesWithSerial
<1>1. Inv => AgreesWithSerial
  BY DEF Inv, HandedOut, AgreesWithSerial
<1> QED
  BY <1>1, InvAlways, PTL

(***************************************************************************)
(* The call fails exactly when it has a message, and the message names     *)
(* something that did go wrong: never the empty Blob of a slot the reader  *)
(* turned into a stop slot.                                                *)
(***************************************************************************)
THEOREM SummaryErrorIsReal == Spec => []ErrorIsReal
<1>1. Inv => ErrorIsReal
  BY DEF Inv, HandedOut, ErrorIsReal
<1> QED
  BY <1>1, InvAlways, PTL
=============================================================================
