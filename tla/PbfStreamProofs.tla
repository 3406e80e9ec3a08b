--------------------------- MODULE PbfStreamProofs ---------------------------
(***************************************************************************)
(* Proofs about the parallel stream, for every number of workers, every    *)
(* ring size and every file: its types, the ownership of the slots, that   *)
(* it delivers what the serial stream does, and what becomes of the        *)
(* buffers of the workers.                                                 *)
(***************************************************************************)
EXTENDS PbfStreamParallel, PbfQueueProofs

StreamTypes ==
    /\ user \in [Workers -> [Positions(file) -> Nat]]
    /\ shared \in [Positions(file) -> Nat]
    /\ initialized \in 0..WorkerCount
    /\ merged \in 0..initialized
    /\ destroyed \in {0, initialized}
    /\ rpc \notin {"merge", "done"} => merged = 0 /\ destroyed = 0

(***************************************************************************)
(* How far the buffers are: all of them are initialised before a thread is *)
(* started, nothing is merged after a failure, and what is merged is       *)
(* counted by merged.                                                      *)
(***************************************************************************)
BufferOrder ==
    /\ \/ rpc \notin {"init", "finish", "done"}
       \/ rpc = "finish" /\ result = 0
       => initialized = WorkerCount
    /\ rpc = "merge" => result = 0 /\ ~ failed
    /\ merged = 0 => shared = Nothing
    /\ rpc = "done" => destroyed = initialized
    /\ MergesAllOrNothing

(***************************************************************************)
(* Accounts: while nothing has failed, an OSMData block that was read is   *)
(* outstanding or streamed once into one buffer, unless a callback has     *)
(* asked to stop, and no other block is streamed.  The buffers up to       *)
(* merged count as empty.                                                  *)
(***************************************************************************)
Books == [l \in Ledgers |-> IF l = 0 THEN shared
                            ELSE IF l <= merged THEN Nothing ELSE user[l]]

Troubled(b) == b.effect = "decode" \/ StreamRejects(b)

Stopping == \E w \in Workers : wpc[w] = "stop"

StreamedOrStopped(p) ==
    \/ stopped
    \/ Counts(Books, p) /\ ~ Troubled(file[p]) /\ (StreamStops(file[p]) => Stopping)

Accounted ==
    Calm => /\ LedgersHold(Books, Positions(file), Outstanding, next)
            /\ \A p \in Positions(file) : Counts(Books, p) => p \in DataBlocks
            /\ \A p \in DataBlocks : p < next /\ p \notin Outstanding => StreamedOrStopped(p)
            /\ stopped \/ Stopping =>
                   \E p \in Positions(file) : StreamStops(file[p]) /\ Counts(Books, p)

\* A worker decodes OSMData blocks only.
WorksOnData ==
    dropped = {} => \A w \in Workers :
        wpc[w] = "work" => file[slotBlock[wslot[w]]].type = "OSMData"

HandedOut == rpc = "done" => StreamsEveryBlockOnce

Inv ==
    /\ QueueInv /\ HandoverInv /\ StreamTypes /\ BufferOrder
    /\ WorksOnData /\ Accounted /\ HandedOut

LEMMA TallyTypes ==
  /\ Nothing \in [Positions(file) -> Nat]
  /\ \A a, b \in [Positions(file) -> Nat] : Plus(a, b) \in [Positions(file) -> Nat]
BY DEF Nothing, Plus

\* Streaming a fileblock once more.
LEMMA CountTypes ==
  ASSUME NEW S, NEW tally \in [S -> Nat], NEW p
  PROVE  [tally EXCEPT ![p] = @ + 1] \in [S -> Nat]
<1>1. CASE p \in S
  BY <1>1
<1>2. CASE p \notin S
  BY <1>2
<1> QED
  BY <1>1, <1>2

LEMMA InvInitially == Init => Inv
<1> SUFFICES ASSUME Init PROVE Inv
  OBVIOUS
<1>1. QueueInv /\ HandoverInv
  BY QueueInvInitially, HandoverInvInitially DEF Init
<1>2. StreamTypes
  BY TallyTypes, QueueAssumption DEF Init, StreamTypes
<1>3. BufferOrder /\ WorksOnData /\ HandedOut
  BY DEF Init, QueueInit, BufferOrder, MergesAllOrNothing, WorksOnData, HandedOut
<1>4. Accounted
  <2>1. \A l \in Ledgers, p \in Positions(file) : Books[l][p] = 0
    BY DEF Init, QueueInit, Books, Ledgers, Nothing, Workers
  <2>2. next = 1 /\ \A p \in Positions(file) : ~ (p < 1)
    BY <1>1 DEF Init, QueueInit, Positions
  <2>3. ~ stopped /\ ~ Stopping
    BY DEF Init, QueueInit, Stopping
  <2> QED
    BY <2>1, <2>2, <2>3 DEF Accounted, LedgersHold, Counts, DataBlocks
<1> QED
  BY <1>1, <1>2, <1>3, <1>4 DEF Inv

\* What the stream does to the queue is a step of the queue.
LEMMA StreamStepsQueue ==
  ASSUME QueueInv, Next
  PROVE  (QueueStep \/ Returned) /\ UNCHANGED file
<1> USE DEF queueVars, ioVars, stopVars, callVars, freeVars, readyVars, slotVars, flagVars,
            workerVars, mainVars, ReaderAt, ReaderGoes, WorkerAt
<1>1. CASE InitWorker
  BY <1>1 DEF InitWorker, QueueStep, MainQuiet, Causes, FaultKinds, QueueInv, QueueTypeOK
<1>2. CASE OpenInput
  BY <1>2 DEF OpenInput, QueueStep, MainQuiet, Causes, FaultKinds, QueueInv, QueueTypeOK
<1>3. CASE Reader
  BY <1>3 DEF QueueStep, Reader, StartWorker, StartFails, AllStarted, ReadHeader, TakePermit,
              TakeSlot, FillSlot, FillFails, MarkStop, PushReady, PostReady, CheckFlags,
              ReportError, SendStop, AllStopsSent, Join, AllJoined
<1>4. CASE Decide
  BY <1>4 DEF Decide, QueueStep, MainQuiet, QueueInv, QueueTypeOK
<1>5. CASE MergeWorker
  BY <1>5 DEF MergeWorker, QueueStep, MainQuiet, Causes, FaultKinds, QueueInv, QueueTypeOK
<1>6. ASSUME NEW w \in Workers, Worker(w)
      PROVE  WorkerQueueStep(w) /\ UNCHANGED file
  <2>t. /\ wpc \in [Workers -> WorkerPlaces] /\ error \in Causes
        /\ failed \in BOOLEAN /\ stopped \in BOOLEAN
    BY DEF QueueInv, QueueTypeOK
  <2>1. CASE WorkerTakePermit(w) \/ WorkerTakeSlot(w) \/ WorkerPush(w) \/ WorkerPost(w)
    BY <2>1 DEF WorkerQueueStep, WorkerTakePermit, WorkerTakeSlot, WorkerPush, WorkerPost
  <2>2. CASE \/ WorkerTestStop(w, "exited") \/ WorkerReport(w) \/ WorkerTestFlags(w)
             \/ WorkerWork(w) \/ WorkerStops(w)
    <3> SUFFICES WorkerLocal(w)
      BY DEF WorkerLocal, WorkerQueueStep
    <3> USE DEF WorkerLocal, WorkerPlaces, WorkerGoes
    <3>1. CASE WorkerTestStop(w, "exited")
      BY <3>1, <2>t DEF WorkerTestStop
    <3>2. CASE WorkerReport(w)
      BY <3>2, <2>t DEF WorkerReport, SetError, Causes
    <3>3. CASE WorkerTestFlags(w)
      BY <3>3, <2>t DEF WorkerTestFlags
    <3>4. CASE WorkerWork(w)
      BY <3>4, <2>t DEF WorkerWork
    <3>5. CASE WorkerStops(w)
      BY <3>5, <2>t DEF WorkerStops
    <3> QED
      BY <2>2, <3>1, <3>2, <3>3, <3>4, <3>5
  <2> QED
    BY <1>6, <2>1, <2>2 DEF Worker
<1>7. CASE Returned
  BY <1>7 DEF Returned, vars
<1> QED
  BY <1>1, <1>2, <1>3, <1>4, <1>5, <1>6, <1>7 DEF Next, ReaderStep, QueueStep

\* Only MergeWorker adds to the shared result; a worker adds to its own buffer.
LEMMA StepKeepsStreamTypes ==
  ASSUME StreamTypes, Next, UNCHANGED file
  PROVE  StreamTypes'
<1> USE DEF StreamTypes, bufferVars, ReaderAt, ReaderGoes
<1>t. WorkerCount \in Nat
  BY QueueAssumption
<1>1. CASE InitWorker
  BY <1>1, <1>t DEF InitWorker
<1>2. CASE OpenInput
  BY <1>2 DEF OpenInput
<1>3. CASE Reader /\ UNCHANGED <<user, shared, bufferVars>>
  <2>1. rpc' \notin {"merge", "done"} /\ rpc \notin {"merge", "done"}
    BY <1>3 DEF Reader, StartWorker, StartFails, AllStarted, ReadHeader, TakePermit,
          TakeSlot, FillSlot, FillFails, MarkStop, PushReady, PostReady, CheckFlags,
          ReportError, SendStop, AllStopsSent, Join, AllJoined
  <2> QED
    BY <1>3, <2>1
<1>4. CASE Decide
  BY <1>4 DEF Decide
<1>5. CASE MergeWorker
  <2>1. merged < initialized => Plus(shared, user[merged + 1]) \in [Positions(file) -> Nat]
    BY <1>t, TallyTypes DEF Workers
  <2>2. shared' \in [Positions(file) -> Nat]
    BY <1>5, <2>1 DEF MergeWorker
  <2>3. /\ merged' \in 0..initialized' /\ initialized' \in 0..WorkerCount
        /\ destroyed' \in {0, initialized'} /\ rpc' \in {"merge", "done"}
    BY <1>5, <1>t DEF MergeWorker
  <2>4. UNCHANGED user
    BY <1>5 DEF MergeWorker
  <2> QED
    BY <2>2, <2>3, <2>4
<1>6. ASSUME NEW w \in Workers, Worker(w) PROVE StreamTypes'
  <2>1. UNCHANGED <<rpc, shared, bufferVars>>
    BY <1>6 DEF Worker, WorkerTakePermit, WorkerTakeSlot, WorkerTestStop, WorkerReport,
          WorkerPush, WorkerPost, WorkerTestFlags, WorkerWork, WorkerStops, mainVars
  <2>2. \/ UNCHANGED user
        \/ \E p : user' = [user EXCEPT ![w][p] = @ + 1]
    BY <1>6, Zenon DEF Worker, WorkerTestFlags, WorkerWork, WorkerStops
  <2>3. user' \in [Workers -> [Positions(file) -> Nat]]
    <3>1. ASSUME NEW p PROVE [user EXCEPT ![w][p] = @ + 1] \in [Workers -> [Positions(file) -> Nat]]
      <4>1. user[w] \in [Positions(file) -> Nat]
        BY <1>6
      <4>2. [user[w] EXCEPT ![p] = @ + 1] \in [Positions(file) -> Nat]
        BY <4>1, CountTypes
      <4> QED
        BY <4>2
    <3> QED
      BY <2>2, <3>1
  <2> QED
    BY <2>1, <2>3
<1>7. CASE Returned
  BY <1>7 DEF Returned, vars, queueVars
<1> QED
  BY <1>1, <1>2, <1>3, <1>4, <1>5, <1>6, <1>7 DEF Next, ReaderStep

\* A thread that has ended takes no step.
LEMMA EndedThreadsRest ==
  ASSUME NEW w \in Workers, Worker(w)
  PROVE  wpc[w] \notin {"idle", "exited"}
BY DEF Worker, WorkerTakePermit, WorkerTakeSlot, WorkerTestStop, WorkerReport, WorkerPush,
       WorkerPost, WorkerTestFlags, WorkerWork, WorkerStops, WorkerAt

LEMMA StepKeepsBufferOrder ==
  ASSUME QueueInv, HandoverInv, StreamTypes, BufferOrder, Next, UNCHANGED file
  PROVE  BufferOrder'
<1> USE DEF BufferOrder, MergesAllOrNothing, bufferVars, ReaderAt, ReaderGoes
<1>t. /\ WorkerCount \in Nat /\ failed \in BOOLEAN /\ result \in {-1, 0}
      /\ initialized \in 0..WorkerCount /\ merged \in 0..initialized
      /\ rpc \notin {"merge", "done"} => merged = 0 /\ destroyed = 0
  BY QueueAssumption DEF QueueInv, QueueTypeOK, StreamTypes
<1>n. Nothing' = Nothing
  BY DEF Nothing
<1>1. CASE InitWorker
  BY <1>1, <1>t, <1>n DEF InitWorker
<1>2. CASE OpenInput
  BY <1>2, <1>t, <1>n DEF OpenInput
<1>3. CASE Reader /\ UNCHANGED <<user, shared, bufferVars>>
  <2>1. /\ rpc \notin {"init", "finish", "merge", "done"}
        /\ rpc' \notin {"init", "merge", "done"}
    BY <1>3 DEF Reader, StartWorker, StartFails, AllStarted, ReadHeader, TakePermit,
          TakeSlot, FillSlot, FillFails, MarkStop, PushReady, PostReady, CheckFlags,
          ReportError, SendStop, AllStopsSent, Join, AllJoined
  <2> QED
    BY <1>3, <2>1, <1>n
<1>4. CASE Decide
  BY <1>4, <1>t, <1>n DEF Decide, flagVars
<1>5. CASE MergeWorker
  BY <1>5, <1>t, <1>n DEF MergeWorker
<1>6. ASSUME NEW w \in Workers, Worker(w) PROVE BufferOrder'
  <2>1. rpc \notin {"finish", "merge", "done"}
    BY <1>6, EndedThreadsRest, JoinedMeansGathered DEF QueueInv, QueueTypes, HandoverInv, Gathered
  <2>2. UNCHANGED <<rpc, result, shared, bufferVars>>
    BY <1>6 DEF Worker, WorkerTakePermit, WorkerTakeSlot, WorkerTestStop, WorkerReport,
          WorkerPush, WorkerPost, WorkerTestFlags, WorkerWork, WorkerStops, mainVars, callVars
  <2> QED
    BY <2>1, <2>2, <1>n
<1>7. CASE Returned
  BY <1>7, <1>n DEF Returned, vars, queueVars, flagVars, callVars
<1> QED
  BY <1>1, <1>2, <1>3, <1>4, <1>5, <1>6, <1>7 DEF Next, ReaderStep

LEMMA StepKeepsWorksOnData ==
  ASSUME QueueInv, WorksOnData, Next, UNCHANGED file
  PROVE  WorksOnData'
<1> SUFFICES ASSUME dropped' = {}, NEW w \in Workers, wpc'[w] = "work"
             PROVE  file[slotBlock'[wslot'[w]]].type = "OSMData"
  BY DEF WorksOnData
<1>t. wpc \in [Workers -> WorkerPlaces] /\ QueueTypes
  BY TransitTypes DEF QueueInv, QueueTypes
<1>1. CASE Returned
  BY <1>1 DEF Returned, vars, queueVars, slotVars, workerVars, WorksOnData
<1>2. CASE QueueStep
  <2>0. dropped = {}
    BY <1>2, <1>t, FlagsStay
  <2>1. CASE wpc[w] = "work"
    <3>0. file[slotBlock[wslot[w]]].type = "OSMData"
      BY <2>0, <2>1 DEF WorksOnData
    <3>1. CASE FillSlot
      <4>1. rslot # wslot[w]
        BY <2>0, <2>1, <3>1 DEF FillSlot, ReaderAt, QueueInv, OneOwner, ThreadsOwn, WorkerOwns,
                                ReaderOwns
      <4>2. slotBlock' = [slotBlock EXCEPT ![rslot] = next] /\ UNCHANGED wslot
        BY <3>1 DEF FillSlot, workerVars
      <4>3. slotBlock'[wslot[w]] = slotBlock[wslot[w]]
        BY <4>1, <4>2, TransitTypes
      <4> QED
        BY <3>0, <4>2, <4>3
    <3>2. CASE MarkStop \/ PushReady
      BY <3>0, <3>2 DEF MarkStop, PushReady, slotVars, workerVars
    <3>3. CASE Elsewhere
      BY <2>1, <3>0, <3>3 DEF Elsewhere, HandPlaces, slotVars
    <3>4. ASSUME NEW v \in Workers, WorkerTakeSlot(v) \/ WorkerLocal(v)
          PROVE  file[slotBlock'[wslot'[w]]].type = "OSMData"
      <4>1. slotBlock' = slotBlock /\ wslot'[w] = wslot[w]
        BY <2>1, <3>4, TransitTypes DEF WorkerTakeSlot, WorkerLocal, WorkerAt, slotVars
      <4> QED
        BY <3>0, <4>1
    <3> QED
      BY <1>2, <1>t, <3>1, <3>2, <3>3, <3>4, HandoverSteps
  <2>2. CASE wpc[w] # "work"
    <3>1. ~ InitWorker /\ ~ OpenInput /\ ~ Decide /\ ~ MergeWorker
      BY <2>2 DEF InitWorker, OpenInput, Decide, MergeWorker, workerVars
    <3>2. ~ Reader
      <4>1. Reader => UNCHANGED wpc \/ StartWorker
        BY DEF Reader, StartFails, AllStarted, ReadHeader, TakePermit, TakeSlot, FillSlot,
               FillFails, MarkStop, PushReady, PostReady, CheckFlags, ReportError, SendStop,
               AllStopsSent, Join, AllJoined, workerVars
      <4>2. StartWorker => wpc'[w] \in {"wait", wpc[w]}
        BY <1>t DEF StartWorker
      <4> QED
        BY <2>2, <4>1, <4>2
    <3>3. PICK v \in Workers : Worker(v)
      BY <1>2, <2>2, <3>1, <3>2 DEF Next, ReaderStep, Returned, vars, queueVars, workerVars
    <3>4. WorkerTestFlags(w)
      BY <1>t, <2>2, <3>3
         DEF Worker, WorkerTakePermit, WorkerTakeSlot, WorkerTestStop, WorkerReport, WorkerPush,
             WorkerPost, WorkerTestFlags, WorkerWork, WorkerStops, WorkerAt, WorkerGoes
    <3> QED
      BY <1>t, <2>2, <3>4 DEF WorkerTestFlags, WorkerGoes, slotVars
  <2> QED
    BY <2>1, <2>2
<1> QED
  BY <1>1, <1>2, StreamStepsQueue

\* The block a worker works on is one of the file.
LEMMA WorksOnBlock ==
  ASSUME QueueInv, HandoverInv, NEW w \in Workers, wpc[w] \in {"flags", "work"}
  PROVE  /\ wslot[w] \in Slots
         /\ slotBlock[wslot[w]] \in Positions(file) /\ slotBlock[wslot[w]] < next
<1>1. wslot[w] \in Slots /\ slotBlock[wslot[w]] \in Nat
  BY TransitTypes
<1>2. slotBlock[wslot[w]] > 0 /\ slotBlock[wslot[w]] < next
  BY <1>1 DEF HandoverInv, SlotsLoaded
<1>3. next \in 1..(Len(file) + 1) /\ Len(file) \in Nat
  BY FileLength DEF QueueInv, QueueTypeOK
<1> QED
  BY <1>1, <1>2, <1>3 DEF Positions

\* While nobody streams, merges or skips a block, the accounts stay.
LEMMA OthersKeepAccounts ==
  ASSUME Accounted, Calm, UNCHANGED <<file, Outstanding, next, user, shared, merged>>,
         stopped => stopped', (stopped \/ Stopping)' <=> (stopped \/ Stopping)
  PROVE  Accounted'
<1>1. Books' = Books
  BY DEF Books, Nothing, Ledgers, Workers
<1> QED
  BY <1>1 DEF Accounted, LedgersHold, Counts, StreamedOrStopped, DataBlocks

LEMMA StepKeepsAccounted ==
  ASSUME QueueInv, HandoverInv, StreamTypes, WorksOnData, Accounted, Next, UNCHANGED file
  PROVE  Accounted'
<1>t. /\ wpc \in [Workers -> WorkerPlaces] /\ next \in Nat /\ QueueTypes
      /\ user \in [Workers -> [Positions(file) -> Nat]]
      /\ shared \in [Positions(file) -> Nat]
      /\ merged \in 0..initialized /\ initialized \in 0..WorkerCount
      /\ WorkerCount \in Nat
  BY TransitTypes, QueueAssumption DEF QueueInv, QueueTypes, StreamTypes
<1>p. /\ Positions(file) \subseteq Nat /\ Positions(file)' = Positions(file)
      /\ DataBlocks \subseteq Positions(file) /\ DataBlocks' = DataBlocks
  BY FileLength DEF Positions, DataBlocks, QueueInv, QueueTypeOK
<1>0. CASE Returned
  <2>1. UNCHANGED <<user, shared, merged, queueVars>>
    BY <1>0 DEF Returned, vars, bufferVars
  <2>2. /\ Outstanding' = Outstanding /\ (Calm' <=> Calm) /\ (Stopping' <=> Stopping)
        /\ UNCHANGED <<next, stopped>>
    BY <2>1 DEF queueVars, ioVars, readyVars, slotVars, flagVars, workerVars,
                Outstanding, Pending, InTransit, ReadyWindow, ReadyAt, Carries, Calm, Clean, Stopping
  <2> QED
    BY <2>1, <2>2, OthersKeepAccounts DEF Accounted
<1>1. ASSUME QueueStep, Calm' PROVE Accounted'
  <2>1. Calm /\ Clean /\ Clean' /\ dropped = {} /\ dropped' = {} /\ ~ failed
    BY <1>t, <1>1, CalmWas DEF Calm, Clean
  <2>2. /\ LedgersHold(Books, Positions(file), Outstanding, next)
        /\ \A p \in Positions(file) : Counts(Books, p) => p \in DataBlocks
        /\ \A p \in DataBlocks : p < next /\ p \notin Outstanding => StreamedOrStopped(p)
        /\ stopped \/ Stopping =>
              \E p \in Positions(file) : StreamStops(file[p]) /\ Counts(Books, p)
    BY <2>1 DEF Accounted
  <2>f. stopped => stopped'
    BY <1>t, <1>1, FlagsStay
  \* Nothing but the queue moves.
  <2>3. CASE /\ ~ FillSlot /\ UNCHANGED <<user, shared, merged>>
             /\ \A w \in Workers : wpc[w] \in {"flags", "work"} => wpc'[w] \in {"flags", "work"}
             /\ (stopped \/ Stopping)' <=> (stopped \/ Stopping)
    BY <1>1, <2>1, <2>3, <2>f, OthersKeepOutstanding, OthersKeepAccounts
  <2>4. CASE FillSlot /\ UNCHANGED <<user, shared, merged>>
    <3>1. Outstanding' = Outstanding \cup {next} /\ next' = next + 1
      BY <2>1, <2>4, FillAddsOutstanding
    <3>2. Books' = Books /\ (Stopping' <=> Stopping) /\ UNCHANGED stopped
      BY <2>4 DEF FillSlot, Books, Nothing, workerVars, Stopping, flagVars
    <3>3. LedgersHold(Books, Positions(file), Outstanding', next')
      BY <1>t, <1>p, <2>2, <3>1, LedgersAfterReading
    <3>4. \A p \in DataBlocks : p < next' /\ p \notin Outstanding' =>
              p < next /\ p \notin Outstanding
      <4>1. \A p \in Nat : p < next + 1 /\ p # next => p < next
        BY <1>t
      <4>2. \A p \in DataBlocks : p \in Nat
        BY <1>p
      <4> QED
        BY <3>1, <4>1, <4>2
    <3>5. /\ \A p \in Positions(file) : Counts(Books, p)' <=> Counts(Books, p)
          /\ \A p \in Positions(file) : StreamedOrStopped(p)' <=> StreamedOrStopped(p)
          /\ LedgersHold(Books, Positions(file), Outstanding, next)'
      BY <1>p, <3>2, <3>3 DEF Counts, StreamedOrStopped, LedgersHold
    <3> QED
      BY <1>p, <2>2, <3>2, <3>4, <3>5 DEF Accounted
  \* A worker skips a block: it holds no entities, or the stream stopped.
  <2>5. ASSUME NEW w \in Workers, WorkerTestFlags(w) PROVE Accounted'
    <3> DEFINE p == slotBlock[wslot[w]]
    <3>1. /\ wpc[w] = "flags" /\ wpc'[w] \in {"push", "work"} /\ wpc' = [wpc EXCEPT ![w] = wpc'[w]]
          /\ wpc'[w] = "push" => stopped \/ file[p].type # "OSMData"
          /\ UNCHANGED <<user, shared, merged, stopped, rpc>>
      BY <1>t, <2>1, <2>5 DEF WorkerTestFlags, WorkerAt, WorkerGoes, mainVars, flagVars, bufferVars
    <3>2. Stopping' <=> Stopping
      BY <1>t, <3>1 DEF Stopping
    <3>3. ~ FillSlot
      BY <3>1 DEF FillSlot, ReaderAt, ReaderGoes
    <3>4. CASE wpc'[w] = "work"
      BY <1>t, <2>3, <3>1, <3>2, <3>3, <3>4
    <3>5. CASE wpc'[w] = "push"
      <4>1. WorkerLocal(w)
        BY <1>t, <1>1, <3>1, <3>5, LeavingIsLocal
      <4>2. Outstanding' = Outstanding \ {p} /\ next' = next
        BY <2>1, <3>1, <3>5, <4>1, LeavingRemovesOutstanding
      <4>3. Books' = Books
        BY <3>1 DEF Books, Nothing
      <4>4. LedgersHold(Books, Positions(file), Outstanding', next)
        BY <1>t, <2>2, <4>2, LedgersAfterSkipping
      <4>5. /\ \A q \in Positions(file) : Counts(Books, q)' <=> Counts(Books, q)
            /\ \A q \in Positions(file) : StreamedOrStopped(q)' <=> StreamedOrStopped(q)
            /\ LedgersHold(Books, Positions(file), Outstanding, next)'
        BY <1>p, <3>1, <3>2, <4>2, <4>3, <4>4 DEF Counts, StreamedOrStopped, LedgersHold
      <4>6. \A q \in DataBlocks : q < next /\ q \notin Outstanding' => StreamedOrStopped(q)
        <5> SUFFICES ASSUME NEW q \in DataBlocks, q < next, q \notin Outstanding'
                     PROVE  StreamedOrStopped(q)
          OBVIOUS
        <5>1. CASE q = p
          BY <3>1, <3>5, <5>1 DEF DataBlocks, StreamedOrStopped
        <5>2. CASE q # p
          BY <2>2, <4>2, <5>2
        <5> QED
          BY <5>1, <5>2
      <4> QED
        BY <1>p, <2>2, <3>1, <3>2, <4>2, <4>5, <4>6 DEF Accounted
    <3> QED
      BY <3>1, <3>4, <3>5
  \* A worker streams a block into its buffer.
  <2>6. ASSUME NEW w \in Workers, WorkerWork(w) PROVE Accounted'
    <3> DEFINE p == slotBlock[wslot[w]]
    <3>1. /\ wpc[w] = "work" /\ wpc'[w] \in {"push", "stop"} /\ wpc' = [wpc EXCEPT ![w] = wpc'[w]]
          /\ file[p].effect \notin {"decode", "parse"}
          /\ wpc'[w] = "stop" <=> file[p].effect = "stop"
          /\ user' = [user EXCEPT ![w][p] = @ + 1]
          /\ UNCHANGED <<shared, merged, stopped>>
      BY <1>t, <1>1, <2>6 DEF WorkerWork, WorkerAt, WorkerGoes, Calm, flagVars, bufferVars
    <3>2. WorkerLocal(w)
      BY <3>1, <1>t, <1>1, LeavingIsLocal
    <3>3. p \in Outstanding /\ Outstanding' = Outstanding \ {p} /\ next' = next
      BY <3>1, <3>2, <2>1, LeavingRemovesOutstanding
    <3>4. p \in Positions(file) /\ p < next /\ p \in DataBlocks
      BY <2>1, <3>1, WorksOnBlock DEF WorksOnData, DataBlocks
    <3>5. ~ Troubled(file[p]) /\ (StreamStops(file[p]) <=> wpc'[w] = "stop")
      BY <3>1, <3>4 DEF Troubled, StreamRejects, StreamStops, DataBlocks
    <3> HIDE DEF p
    <3>6. w \in Ledgers /\ w # 0 /\ merged < w
      <4>1. wpc[w] # "exited" /\ rpc \notin {"merge", "done"}
        BY <3>1, JoinedMeansGathered DEF QueueInv, QueueTypes, HandoverInv, Gathered
      <4> QED
        BY <4>1 DEF Ledgers, Workers, StreamTypes
    <3>7. CountedIn(Books, Books', Positions(file), w, p)
      BY <1>t, <3>1, <3>4, <3>6 DEF Books, CountedIn, Nothing, Ledgers, Workers
    <3>8. /\ LedgersHold(Books', Positions(file), Outstanding \ {p}, next)
          /\ Counts(Books', p)
          /\ \A q \in Positions(file) : Counts(Books, q) => Counts(Books', q)
      <4>1. PICK T, U : T = Books /\ U = Books'
        OBVIOUS
      <4>2. LedgersHold(T, Positions(file), Outstanding, next)
        BY <2>2, <4>1
      <4>3. CountedIn(T, U, Positions(file), w, p)
        BY <3>7, <4>1
      <4>4. /\ Positions(file) \subseteq Nat /\ next \in Nat /\ p \in Outstanding
            /\ p < next /\ p \in Positions(file) /\ w \in Ledgers
        BY <1>t, <1>p, <3>3, <3>4, <3>6
      <4>5. /\ LedgersHold(U, Positions(file), Outstanding \ {p}, next)
            /\ Counts(U, p)
            /\ \A q \in Positions(file) : Counts(T, q) => Counts(U, q)
        BY <4>2, <4>3, <4>4, LedgersAfterCounting
      <4> QED
        BY <4>1, <4>5
    <3>9. \A q \in Positions(file) : q # p /\ Counts(Books', q) => Counts(Books, q)
      BY <3>7 DEF Counts, CountedIn
    <3>10. Stopping' <=> Stopping \/ wpc'[w] = "stop"
      BY <1>t, <3>1 DEF Stopping
    <3>11. /\ LedgersHold(Books, Positions(file), Outstanding, next)'
           /\ \A q \in Positions(file) : Counts(Books, q)' <=> Counts(Books', q)
      BY <1>p, <3>3, <3>8 DEF LedgersHold, Counts
    <3>12. \A q \in Positions(file) : Counts(Books, q)' => q \in DataBlocks
      BY <2>2, <3>4, <3>9, <3>11
    <3>13. \A q \in DataBlocks : q < next /\ q \notin Outstanding' => StreamedOrStopped(q)'
      <4> SUFFICES ASSUME NEW q \in DataBlocks, q < next, q \notin Outstanding'
                   PROVE  StreamedOrStopped(q)'
        OBVIOUS
      <4>1. CASE q = p
        BY <3>4, <3>5, <3>8, <3>10, <3>11, <4>1 DEF StreamedOrStopped
      <4>2. CASE q # p
        <5>1. StreamedOrStopped(q)
          BY <2>2, <3>3, <4>2
        <5>2. q \in Positions(file)
          BY <1>p
        <5> QED
          BY <3>1, <3>8, <3>10, <3>11, <5>1, <5>2 DEF StreamedOrStopped
      <4> QED
        BY <4>1, <4>2
    <3>14. (stopped \/ Stopping)' =>
              \E q \in Positions(file) : StreamStops(file[q]) /\ Counts(Books, q)'
      BY <2>2, <3>1, <3>4, <3>5, <3>8, <3>10, <3>11
    <3> QED
      BY <1>p, <3>3, <3>11, <3>12, <3>13, <3>14 DEF Accounted
  \* The next buffer is merged.
  <2>7. ASSUME MergeWorker, merged' # merged PROVE Accounted'
    <3> DEFINE w == merged + 1
    <3>1. /\ merged < initialized /\ shared' = Plus(shared, user[w]) /\ merged' = w
          /\ UNCHANGED <<user, wpc, stopped, rpc>>
      BY <2>7 DEF MergeWorker, workerVars
    <3>2. /\ w \in Workers /\ w \in Ledgers /\ w # 0 /\ 0 \in Ledgers
          /\ ~ FillSlot /\ \A v \in Workers : wpc'[v] = wpc[v]
      BY <1>t, <3>1, <2>7 DEF Ledgers, Workers, FillSlot, MergeWorker, ReaderAt
    <3>3. UNCHANGED <<Outstanding, next>>
      BY <1>1, <2>1, <3>2, OthersKeepOutstanding
    <3>4. MergedFrom(Books, Books', Positions(file), w)
      BY <1>t, <1>p, <3>1, <3>2 DEF Books, MergedFrom, Nothing, Plus, Ledgers, Workers
    <3> HIDE DEF w
    <3>5. /\ LedgersHold(Books', Positions(file), Outstanding, next)
          /\ \A p \in Positions(file) : Counts(Books', p) <=> Counts(Books, p)
      <4>1. PICK T, U : T = Books /\ U = Books'
        OBVIOUS
      <4>2. LedgersHold(T, Positions(file), Outstanding, next)
        BY <2>2, <4>1
      <4>3. MergedFrom(T, U, Positions(file), w)
        BY <3>4, <4>1
      <4>4. w \in Workers /\ next \in Nat
        BY <1>t, <3>2
      <4>5. /\ LedgersHold(U, Positions(file), Outstanding, next)
            /\ \A p \in Positions(file) : Counts(U, p) <=> Counts(T, p)
        BY <4>2, <4>3, <4>4, LedgersAfterMerging
      <4> QED
        BY <4>1, <4>5
    <3>6. /\ Stopping' <=> Stopping
          /\ LedgersHold(Books, Positions(file), Outstanding, next)'
          /\ \A p \in Positions(file) : Counts(Books, p)' <=> Counts(Books, p)
      BY <1>p, <3>1, <3>3, <3>5 DEF LedgersHold, Counts, Stopping
    <3>7. \A p \in DataBlocks : StreamedOrStopped(p)' <=> StreamedOrStopped(p)
      BY <1>p, <3>1, <3>6 DEF StreamedOrStopped
    <3> QED
      BY <1>p, <2>2, <3>1, <3>3, <3>6, <3>7 DEF Accounted
  \* Every other step moves nothing but the queue.
  <2>8. CASE ~ FillSlot /\ UNCHANGED <<user, shared, merged, wpc, stopped>>
    BY <2>3, <2>8 DEF Stopping
  <2>9. CASE InitWorker \/ OpenInput \/ Decide
    <3>1. ~ FillSlot
      BY <2>9 DEF InitWorker, OpenInput, Decide, FillSlot, ReaderAt
    <3>2. UNCHANGED <<user, shared, merged, wpc, stopped>>
      BY <2>9 DEF InitWorker, OpenInput, Decide, workerVars, bufferVars, flagVars
    <3> QED
      BY <2>8, <3>1, <3>2
  <2>10. CASE MergeWorker
    <3>1. ~ FillSlot /\ UNCHANGED <<user, wpc, stopped>> /\ (merged' = merged => UNCHANGED shared)
      BY <1>t, <2>10 DEF MergeWorker, FillSlot, ReaderAt, workerVars
    <3> QED
      BY <2>7, <2>8, <2>10, <3>1
  <2>11. CASE Reader /\ UNCHANGED <<user, shared, bufferVars>>
    <3>1. CASE StartWorker
      <4>1. wpc[started + 1] = "idle" /\ wpc' = [wpc EXCEPT ![started + 1] = "wait"]
        BY <1>t, <3>1, QueueAssumption
           DEF StartWorker, QueueTypes, QueueTypeOK, Unstarted, Workers
      <4>2. ~ FillSlot /\ UNCHANGED <<stopped, merged>>
        BY <2>11, <3>1 DEF StartWorker, FillSlot, ReaderAt, flagVars, bufferVars
      <4>3. Stopping' <=> Stopping
        BY <1>t, <4>1 DEF Stopping
      <4> QED
        BY <1>t, <2>3, <2>11, <4>1, <4>2, <4>3
    <3>2. StartWorker \/ UNCHANGED <<wpc, stopped>>
      BY <2>11 DEF Reader, StartFails, AllStarted, ReadHeader, TakePermit, TakeSlot, FillSlot,
                   FillFails, MarkStop, PushReady, PostReady, CheckFlags, ReportError, SetError,
                   SendStop, AllStopsSent, Join, AllJoined, workerVars, flagVars
    <3> QED
      BY <2>4, <2>8, <2>11, <3>1, <3>2 DEF bufferVars
  <2>12. ASSUME NEW w \in Workers, Worker(w) PROVE Accounted'
    <3> USE DEF WorkerAt, WorkerGoes
    <3>0. ~ FillSlot
      <4>1. UNCHANGED rpc
        BY <2>12 DEF Worker, WorkerTakePermit, WorkerTakeSlot, WorkerTestStop, WorkerReport,
                     WorkerPush, WorkerPost, WorkerTestFlags, WorkerWork, WorkerStops, mainVars
      <4> QED
        BY <4>1 DEF FillSlot, ReaderAt, ReaderGoes
    <3>1. CASE /\ \/ WorkerTakePermit(w) \/ WorkerTakeSlot(w) \/ WorkerTestStop(w, "exited")
                  \/ WorkerReport(w) \/ WorkerPush(w) \/ WorkerPost(w)
               /\ UNCHANGED <<user, shared, bufferVars>>
      <4>1. PICK place \in {"take", "check", "exited", "flags", "push", "post", "wait"} :
                wpc' = [wpc EXCEPT ![w] = place]
        BY <3>1 DEF WorkerTakePermit, WorkerTakeSlot, WorkerTestStop, WorkerReport,
                    WorkerPush, WorkerPost
      <4>2. wpc[w] \notin {"flags", "work", "stop"} /\ UNCHANGED stopped
        BY <3>1 DEF WorkerTakePermit, WorkerTakeSlot, WorkerTestStop, WorkerReport, SetError,
                    WorkerPush, WorkerPost, flagVars
      <4>3. Stopping' <=> Stopping
        BY <1>t, <4>1, <4>2 DEF Stopping
      <4> QED
        BY <1>t, <2>3, <3>0, <3>1, <4>1, <4>2, <4>3 DEF bufferVars
    <3>2. CASE WorkerStops(w)
      <4>1. /\ wpc[w] = "stop" /\ wpc' = [wpc EXCEPT ![w] = "push"] /\ stopped'
            /\ UNCHANGED <<user, shared, merged>>
        BY <3>2 DEF WorkerStops, bufferVars
      <4>2. (stopped \/ Stopping)' <=> (stopped \/ Stopping)
        BY <4>1 DEF Stopping
      <4> QED
        BY <1>t, <2>3, <3>0, <4>1, <4>2
    <3> QED
      BY <2>5, <2>6, <2>12, <3>1, <3>2 DEF Worker
  <2> QED
    BY <2>9, <2>10, <2>11, <2>12, <1>0 DEF Next, ReaderStep
<1> QED
  BY <1>0, <1>1, StreamStepsQueue DEF Accounted

\* After the call has returned nothing happens any more.
LEMMA DoneRests ==
  ASSUME QueueInv, HandoverInv, rpc = "done", Next
  PROVE  UNCHANGED vars
<1>1. \A w \in Workers : ~ Worker(w)
  BY EndedThreadsRest, JoinedMeansGathered DEF QueueInv, QueueTypes, HandoverInv, Gathered
<1>2. ~ ReaderStep
  BY DEF ReaderStep, InitWorker, OpenInput, Decide, MergeWorker, Reader, StartWorker, StartFails,
         AllStarted, ReadHeader, TakePermit, TakeSlot, FillSlot, FillFails, MarkStop, PushReady,
         PostReady, CheckFlags, ReportError, SendStop, AllStopsSent, Join, AllJoined, ReaderAt
<1> QED
  BY <1>1, <1>2 DEF Next, Returned

\* What has been streamed when the last buffer has been merged.
LEMMA EverythingStreamed ==
  ASSUME QueueInv, HandoverInv, StreamTypes, BufferOrder, Accounted,
         rpc = "merge", merged = initialized
  PROVE  /\ \A p \in Positions(file) : shared[p] \in {0, 1} /\ (shared[p] = 1 => p \in DataBlocks)
         /\ stopped => \E p \in Positions(file) : StreamStops(file[p]) /\ shared[p] = 1
         /\ ~ stopped => \A p \in Positions(file) :
                /\ ~ ReaderRejects(file[p])
                /\ p \in DataBlocks =>
                       shared[p] = 1 /\ ~ Troubled(file[p]) /\ ~ StreamStops(file[p])
<1>1. result = 0 /\ ~ failed /\ merged = WorkerCount
  BY DEF BufferOrder
<1>2. Gathered /\ dropped = {}
  BY <1>1, JoinedMeansGathered DEF QueueInv, QueueTypes, HandoverInv, ReadsToTheEnd
<1>3. Calm /\ Clean /\ ~ Stopping
  BY <1>1, <1>2 DEF Calm, Clean, Gathered, Stopping
<1>4. Outstanding = {} /\ (~ stopped => next = Len(file) + 1)
  BY <1>1, <1>3, NothingOutstanding
<1>5. \A p \in Positions(file) : Counts(Books, p) <=> shared[p] = 1
  <2>1. 0 \in Ledgers /\ Books[0] = shared
    BY QueueAssumption DEF Ledgers, Books
  <2>2. \A l \in Ledgers, p \in Positions(file) : l # 0 => Books[l][p] = 0
    BY <1>1, QueueAssumption DEF Books, Ledgers, Nothing
  <2> QED
    BY <2>1, <2>2 DEF Counts
<1>6. \A p \in Positions(file) : shared[p] \in {0, 1}
  <2>1. 0 \in Ledgers /\ Books[0] = shared
    BY QueueAssumption DEF Ledgers, Books
  <2> QED
    BY <1>3, <2>1 DEF Accounted, LedgersHold
<1>7. \A p \in Positions(file) : shared[p] = 1 => p \in DataBlocks
  BY <1>3, <1>5 DEF Accounted
<1>8. stopped => \E p \in Positions(file) : StreamStops(file[p]) /\ shared[p] = 1
  BY <1>3, <1>5 DEF Accounted
<1>9. ASSUME ~ stopped, NEW p \in Positions(file)
      PROVE  /\ ~ ReaderRejects(file[p])
             /\ p \in DataBlocks => shared[p] = 1 /\ ~ Troubled(file[p]) /\ ~ StreamStops(file[p])
  <2>1. p \in 1..(next - 1) /\ p < next
    BY <1>4, <1>9, FileLength DEF Positions, QueueInv, QueueTypeOK
  <2>2. p \in DataBlocks => StreamedOrStopped(p)
    BY <1>3, <1>4, <2>1 DEF Accounted
  <2> QED
    BY <1>3, <1>5, <1>9, <2>1, <2>2 DEF StreamedOrStopped, HandoverInv, ReadsToTheEnd
<1> QED
  BY <1>6, <1>7, <1>8, <1>9

LEMMA StepKeepsHandedOut ==
  ASSUME QueueInv, HandoverInv, StreamTypes, BufferOrder, Accounted, HandedOut,
         Next, UNCHANGED file
  PROVE  HandedOut'
<1>1. CASE rpc = "done"
  <2>1. UNCHANGED vars
    BY <1>1, DoneRests
  <2> QED
    BY <2>1 DEF vars, queueVars, callVars, flagVars, ioVars, HandedOut, StreamsEveryBlockOnce,
                HeaderDecodes, DataBlocks
<1>2. ASSUME rpc # "done", rpc' = "done", result' = 0
      PROVE  rpc = "merge" /\ merged = initialized /\ UNCHANGED <<shared, stopped>>
  <2>1. CASE InitWorker \/ OpenInput \/ Decide
    BY <1>2, <2>1 DEF InitWorker, OpenInput, Decide, ReaderGoes, ReaderAt
  <2>2. CASE MergeWorker
    BY <1>2, <2>2 DEF MergeWorker, ReaderAt
  <2>3. CASE Reader
    BY <1>2, <2>3 DEF Reader, StartWorker, StartFails, AllStarted, ReadHeader, TakePermit,
       TakeSlot, FillSlot, FillFails, MarkStop, PushReady, PostReady, CheckFlags, ReportError,
       SendStop, AllStopsSent, Join, AllJoined, ReaderGoes
  <2>4. ASSUME NEW w \in Workers, Worker(w) PROVE FALSE
    BY <1>2, <2>4 DEF Worker, WorkerTakePermit, WorkerTakeSlot, WorkerTestStop, WorkerReport,
       WorkerPush, WorkerPost, WorkerTestFlags, WorkerWork, WorkerStops, mainVars
  <2> QED
    BY <1>2, <2>1, <2>2, <2>3, <2>4 DEF Next, ReaderStep, Returned
<1>3. ASSUME rpc # "done", rpc' = "done", result' = 0, HeaderDecodes'
      PROVE  StreamsEveryBlockOnce'
  <2>1. HeaderDecodes /\ DataBlocks' = DataBlocks /\ Positions(file') = Positions(file)
    BY <1>3 DEF HeaderDecodes, DataBlocks
  <2>2. UNCHANGED <<shared, stopped>>
    BY <1>2, <1>3
  <2>3. /\ \A p \in Positions(file) : shared[p] \in {0, 1} /\ (shared[p] = 1 => p \in DataBlocks)
        /\ stopped => \E p \in Positions(file) : StreamStops(file[p]) /\ shared[p] = 1
        /\ ~ stopped => \A p \in Positions(file) :
               /\ ~ ReaderRejects(file[p])
               /\ p \in DataBlocks =>
                      shared[p] = 1 /\ ~ Troubled(file[p]) /\ ~ StreamStops(file[p])
    BY <1>2, <1>3, EverythingStreamed
  <2>4. CASE stopped
    <3>1. \A p \in Positions(file) : shared[p] <= Once(file, DataBlocks)[p]
      BY <2>3 DEF Once
    <3> QED
      BY <2>1, <2>2, <2>3, <2>4, <3>1 DEF StreamsEveryBlockOnce
  <2>5. CASE ~ stopped
    <3>1. shared = Once(file, DataBlocks)
      BY <2>3, <2>5 DEF Once, StreamTypes
    <3>2. \A p \in Positions(file) :
              ~ (\/ ReaderRejects(file[p]) \/ file[p].effect = "decode"
                 \/ StreamRejects(file[p]) \/ StreamStops(file[p]))
      BY <2>1, <2>3, <2>5 DEF Troubled, HeaderDecodes, StreamRejects, StreamStops, DataBlocks
    <3>3. SerialStream(file) = Delivery(0, Once(file, DataBlocks))
      BY <3>2 DEF SerialStream, DataBlocks
    <3> QED
      BY <2>2, <2>5, <3>1, <3>3 DEF StreamsEveryBlockOnce
  <2> QED
    BY <2>4, <2>5
<1> QED
  BY <1>1, <1>3 DEF HandedOut, StreamsEveryBlockOnce

LEMMA InvInductive == Inv /\ [Next]_vars => Inv'
<1> SUFFICES ASSUME Inv, [Next]_vars PROVE Inv'
  OBVIOUS
<1>1. CASE UNCHANGED vars
  <2>1. QueueInv' /\ HandoverInv'
    BY <1>1, QueueInvInductive, HandoverInvInductive DEF Inv, vars
  <2> USE <1>1 DEF vars, queueVars, ioVars, callVars, slotVars, readyVars, flagVars, workerVars,
                   bufferVars
  <2>2. StreamTypes' /\ WorksOnData'
    BY DEF Inv, StreamTypes, WorksOnData
  <2>3. BufferOrder'
    BY DEF Inv, BufferOrder, MergesAllOrNothing, Nothing
  <2>4. HandedOut'
    BY DEF Inv, HandedOut, StreamsEveryBlockOnce, HeaderDecodes, DataBlocks
  <2>5. /\ Outstanding' = Outstanding /\ (Calm' <=> Calm) /\ (Stopping' <=> Stopping)
        /\ UNCHANGED <<file, next, stopped, user, shared, merged>>
    BY DEF Outstanding, Pending, InTransit, ReadyWindow, ReadyAt, Carries, Calm, Clean, Stopping
  <2>6. Accounted'
    BY <2>5, OthersKeepAccounts DEF Inv, Accounted
  <2> QED
    BY <2>1, <2>2, <2>3, <2>4, <2>6 DEF Inv
<1>2. CASE Next
  <2>1. (QueueStep \/ UNCHANGED queueVars) /\ UNCHANGED file
    BY <1>2, StreamStepsQueue DEF Inv, Returned, vars
  <2>2. QueueInv' /\ HandoverInv'
    BY <2>1, QueueInvInductive, HandoverInvInductive DEF Inv
  <2>3. StreamTypes' /\ BufferOrder' /\ WorksOnData'
    BY <1>2, <2>1, StepKeepsStreamTypes, StepKeepsBufferOrder, StepKeepsWorksOnData DEF Inv
  <2>4. Accounted' /\ HandedOut'
    BY <1>2, <2>1, StepKeepsAccounted, StepKeepsHandedOut DEF Inv
  <2> QED
    BY <2>2, <2>3, <2>4 DEF Inv
<1> QED
  BY <1>1, <1>2

LEMMA InvAlways == Spec => []Inv
BY InvInitially, InvInductive, PTL DEF Spec

(***************************************************************************)
(* Every variable of the parallel stream keeps its type: never more        *)
(* buffers are merged or destroyed than init_worker has initialised.       *)
(***************************************************************************)
THEOREM StreamTypeOK == Spec => []TypeOK
<1>1. Inv => TypeOK
  BY DEF Inv, StreamTypes, QueueInv, TypeOK
<1> QED
  BY <1>1, InvAlways, PTL

(***************************************************************************)
(* Also in a stream a slot is on one ring, once, or in the hands of one    *)
(* thread, until the reader fails on a Blob: no worker parses a Blob that  *)
(* the reader is overwriting.                                              *)
(***************************************************************************)
THEOREM StreamOneOwner == Spec => []OneOwner
<1>1. Inv => OneOwner
  BY DEF Inv, QueueInv
<1> QED
  BY <1>1, InvAlways, PTL

(***************************************************************************)
(* The merged result is all or nothing: whatever fails and whenever it is  *)
(* reported, also after the reader has taken its result, nothing is merged *)
(* unless everything succeeded; only a failing merge_worker leaves a part. *)
(***************************************************************************)
THEOREM StreamMergesAllOrNothing == Spec => []MergesAllOrNothing
<1>1. Inv => MergesAllOrNothing
  BY DEF Inv, BufferOrder
<1> QED
  BY <1>1, InvAlways, PTL

(***************************************************************************)
(* A call that returns has destroyed every buffer it initialised, when no  *)
(* thread is left that could use one.                                      *)
(***************************************************************************)
THEOREM StreamBuffersReleased == Spec => []BuffersReleased
<1>1. Inv => BuffersReleased
  BY JoinedMeansGathered
     DEF Inv, BufferOrder, BuffersReleased, Gathered, QueueInv, QueueTypes, HandoverInv
<1> QED
  BY <1>1, InvAlways, PTL

(***************************************************************************)
(* A stream that returns 0 delivers what the serial stream delivers: every *)
(* OSMData block exactly once, in whichever worker's buffer; after a stop  *)
(* none twice, and the block that stopped is among them.                   *)
(***************************************************************************)
THEOREM StreamDeliversOnce == Spec => []StreamsEveryBlockOnce
<1>1. Inv => StreamsEveryBlockOnce
  BY DEF Inv, HandedOut, StreamsEveryBlockOnce
<1> QED
  BY <1>1, InvAlways, PTL
=============================================================================
