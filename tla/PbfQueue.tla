------------------------------ MODULE PbfQueue ------------------------------
(***************************************************************************)
(* The fileblock queue of the parallel readers in src/src/shared/pbf.c:    *)
(* one reader (the calling thread) takes a slot from the ring of free      *)
(* slots, reads a Blob into it and puts it on the ring of ready slots;     *)
(* workers take ready slots and put them back on the free ring.  Each ring *)
(* has a mutex, held only around one read or write of the ring, and a      *)
(* semaphore that counts its entries.                                      *)
(*                                                                         *)
(* This module has the reader, the start and join of the workers and the   *)
(* steps of a worker on the queue.  PbfSummaryParallel and                 *)
(* PbfStreamParallel add what a worker does with a slot and how the        *)
(* results are merged.  The section under a mutex is one step, which       *)
(* FutexMutex justifies; taking a permit of a semaphore is one step, which *)
(* FutexSemaphore justifies.                                               *)
(***************************************************************************)
EXTENDS PbfFile

CONSTANTS WorkerCount,      \* worker_count, after the cap
          QueueMultiplier,  \* PBF_PARALLEL_QUEUE_MULTIPLIER
          Files,            \* the files that may be read
          Faults            \* what outside the file may fail

\* An allocation, opening the input, starting a thread, and the init_worker and
\* merge_worker callbacks of a stream.
FaultKinds == {"memory", "open", "thread", "init", "merge"}

ASSUME QueueAssumption ==
    /\ WorkerCount \in Nat /\ WorkerCount > 1
    /\ QueueMultiplier \in Nat \ {0}
    /\ Files \subseteq Seq(Block)
    /\ Faults \subseteq FaultKinds

Workers == 1..WorkerCount

SlotCountOnePerWorker == WorkerCount

SlotCount == WorkerCount * QueueMultiplier

Slots == 0..(SlotCount - 1)

VARIABLES
    file,                                     \* the fileblocks of the input
    freeRing, freeRead, freeWrite, freeSem,   \* ring and semaphore of free slots
    readyRing, readyRead, readyWrite, readySem,
    slotBlock,    \* position of the fileblock whose Blob a slot holds, or 0
    slotStop,     \* slot->stop; a stop slot also has blob_size 0
    failed, error, stopped,                   \* the shared outcome
    rpc,          \* where the calling thread is
    rslot,        \* the slot the calling thread works on
    next,         \* position of the next fileblock to read
    cause,        \* the message about to be given to pbf_parallel_set_error
    phase,        \* "read", then "stop" while the stop slots are sent
    stopsSent, started, joined, result,
    wpc, wslot,   \* where each worker is, and its slot
    dropped       \* history: slots that left the queue on a reader error

freeVars == <<freeRing, freeRead, freeWrite, freeSem>>
readyVars == <<readyRing, readyRead, readyWrite, readySem>>
slotVars == <<slotBlock, slotStop>>
flagVars == <<failed, error, stopped>>
workerVars == <<wpc, wslot>>
callVars == <<started, joined, result>>

ioVars == <<file, rslot, next, cause>>
stopVars == <<phase, stopsSent>>

queueVars == <<ioVars, stopVars, callVars, freeVars, readyVars, slotVars, flagVars,
               workerVars, rpc, dropped>>

(***************************************************************************)
(* "init"   allocating, opening      "fill"   reading the Blob             *)
(* "start"  starting the workers     "mark"   making the slot a stop slot  *)
(* "header" reading a BlobHeader     "push"   putting it on the ready ring *)
(* "wait"   waiting for a free slot  "post"   posting ready_slots          *)
(* "take"   reading the free ring    "flags"  testing failed and stopped   *)
(* "stops"  sending stop slots       "report" in pbf_parallel_set_error    *)
(* "join"   joining the workers      "merge"  (streams) merging the buffers*)
(* "finish" all workers have ended   "done"   returned                     *)
(***************************************************************************)
ReaderPlaces == {"init", "start", "header", "wait", "take", "fill", "mark", "push",
                 "post", "flags", "report", "stops", "join", "finish", "merge", "done"}

(***************************************************************************)
(* "idle"  not started               "decode" \ reporting that the Blob   *)
(* "wait"  waiting for a ready slot  "parse"  / could not be decoded/parsed*)
(* "take"  reading the ready ring    "push"   putting its slot back        *)
(* "check" testing slot->stop        "post"   posting free_slots           *)
(* "flags" testing failed, stopped   "merge"  merging its summary          *)
(* "work"  decoding and parsing      "exited" its thread has ended         *)
(* "stop"  (streams) about to set stopped                                  *)
(***************************************************************************)
WorkerPlaces == {"idle", "wait", "take", "check", "flags", "work", "decode", "parse",
                 "stop", "push", "post", "merge", "exited"}

\* All that an error message may name.
Causes == {"none", "header", "blob", "decode", "parse"} \cup FaultKinds

QueueInit ==
    /\ file \in Files
    /\ freeRing = [i \in Slots |-> i]
    /\ freeRead = 0
    /\ freeWrite = SlotCount
    /\ freeSem = SlotCount
    /\ readyRing = [i \in Slots |-> 0]
    /\ readyRead = 0
    /\ readyWrite = 0
    /\ readySem = 0
    /\ slotBlock = [s \in Slots |-> 0]
    /\ slotStop = [s \in Slots |-> FALSE]
    /\ failed = FALSE
    /\ error = "none"
    /\ stopped = FALSE
    /\ rslot = 0
    /\ next = 1
    /\ cause = "none"
    /\ phase = "read"
    /\ stopsSent = 0
    /\ started = 0
    /\ joined = 0
    /\ result = 0
    /\ wpc = [w \in Workers |-> "idle"]
    /\ wslot = [w \in Workers |-> 0]
    /\ dropped = {}

-----------------------------------------------------------------------------
(***************************************************************************)
(* The calling thread.                                                     *)
(***************************************************************************)
ReaderAt(place) == rpc = place
ReaderGoes(place) == rpc' = place

StartWorker ==
    /\ ReaderAt("start")
    /\ started < WorkerCount
    /\ started' = started + 1
    /\ wpc' = [wpc EXCEPT ![started + 1] = "wait"]
    /\ UNCHANGED <<ioVars, stopVars, joined, result, freeVars, readyVars, slotVars,
                   flagVars, wslot, rpc, dropped>>

StartFails ==
    /\ ReaderAt("start")
    /\ started < WorkerCount
    /\ "thread" \in Faults
    /\ cause' = "thread"
    /\ ReaderGoes("report")
    /\ UNCHANGED <<file, rslot, next, stopVars, callVars, freeVars, readyVars, slotVars,
                   flagVars, workerVars, dropped>>

AllStarted ==
    /\ ReaderAt("start")
    /\ started = WorkerCount
    /\ ReaderGoes("header")
    /\ UNCHANGED <<ioVars, stopVars, callVars, freeVars, readyVars, slotVars, flagVars,
                   workerVars, dropped>>

\* The length and the BlobHeader of the next fileblock, or the end of the file.
ReadHeader ==
    /\ ReaderAt("header")
    /\ \/ /\ next > Len(file)
          /\ ReaderGoes("stops")
          /\ UNCHANGED cause
       \/ /\ next <= Len(file)
          /\ file[next].effect # "header"
          /\ ReaderGoes("wait")
          /\ UNCHANGED cause
       \/ /\ next <= Len(file)
          /\ \/ file[next].effect = "header" /\ cause' = "header"
             \/ "memory" \in Faults /\ cause' = "memory"
          /\ ReaderGoes("report")
    /\ UNCHANGED <<file, rslot, next, stopVars, callVars, freeVars, readyVars, slotVars,
                   flagVars, workerVars, dropped>>

\* pbf_parallel_take_free_slot, for a Blob or for a stop slot: the permit ...
TakePermit ==
    /\ ReaderAt("wait")
    /\ freeSem > 0
    /\ freeSem' = freeSem - 1
    /\ ReaderGoes("take")
    /\ UNCHANGED <<ioVars, stopVars, callVars, freeRing, freeRead, freeWrite, readyVars,
                   slotVars, flagVars, workerVars, dropped>>

\* ... and the entry of the ring.
TakeSlot ==
    /\ ReaderAt("take")
    /\ rslot' = freeRing[freeRead % SlotCount]
    /\ freeRead' = freeRead + 1
    /\ ReaderGoes(IF phase = "read" THEN "fill" ELSE "mark")
    /\ UNCHANGED <<file, next, cause, stopVars, callVars, freeRing, freeWrite, freeSem,
                   readyVars, slotVars, flagVars, workerVars, dropped>>

FillSlot ==
    /\ ReaderAt("fill")
    /\ file[next].effect # "blob"
    /\ slotBlock' = [slotBlock EXCEPT ![rslot] = next]
    /\ slotStop' = [slotStop EXCEPT ![rslot] = FALSE]
    /\ next' = next + 1
    /\ ReaderGoes("push")
    /\ UNCHANGED <<file, rslot, cause, stopVars, callVars, freeVars, readyVars, flagVars,
                   workerVars, dropped>>

\* The Blob cannot be read, or its buffer cannot grow: the reader posts
\* free_slots, but does not put the slot back on the ring.
FillFails ==
    /\ ReaderAt("fill")
    /\ \/ file[next].effect = "blob" /\ cause' = "blob"
       \/ "memory" \in Faults /\ cause' = "memory"
    /\ freeSem' = freeSem + 1
    /\ dropped' = dropped \cup {rslot}
    /\ ReaderGoes("report")
    /\ UNCHANGED <<file, rslot, next, stopVars, callVars, freeRing, freeRead, freeWrite,
                   readyVars, slotVars, flagVars, workerVars>>

MarkStop ==
    /\ ReaderAt("mark")
    /\ slotStop' = [slotStop EXCEPT ![rslot] = TRUE]
    /\ ReaderGoes("push")
    /\ UNCHANGED <<ioVars, stopVars, callVars, freeVars, readyVars, slotBlock, flagVars,
                   workerVars, dropped>>

\* pbf_parallel_post_ready_slot: the entry of the ring ...
PushReady ==
    /\ ReaderAt("push")
    /\ readyRing' = [readyRing EXCEPT ![readyWrite % SlotCount] = rslot]
    /\ readyWrite' = readyWrite + 1
    /\ ReaderGoes("post")
    /\ UNCHANGED <<ioVars, stopVars, callVars, freeVars, readyRead, readySem, slotVars,
                   flagVars, workerVars, dropped>>

\* ... and the permit.
PostReady ==
    /\ ReaderAt("post")
    /\ readySem' = readySem + 1
    /\ \/ phase = "read" /\ ReaderGoes("flags") /\ UNCHANGED stopsSent
       \/ phase = "stop" /\ ReaderGoes("stops") /\ stopsSent' = stopsSent + 1
    /\ UNCHANGED <<ioVars, phase, callVars, freeVars, readyRing, readyRead, readyWrite,
                   slotVars, flagVars, workerVars, dropped>>

CheckFlags ==
    /\ ReaderAt("flags")
    /\ ReaderGoes(IF failed \/ stopped THEN "stops" ELSE "header")
    /\ UNCHANGED <<ioVars, stopVars, callVars, freeVars, readyVars, slotVars, flagVars,
                   workerVars, dropped>>

\* pbf_parallel_set_error: the first message stays.
SetErrorLastWins(message) ==
    /\ failed' = TRUE
    /\ error' = message
    /\ UNCHANGED stopped

SetError(message) ==
    /\ failed' = TRUE
    /\ error' = IF failed THEN error ELSE message
    /\ UNCHANGED stopped

ReportError ==
    /\ ReaderAt("report")
    /\ SetError(cause)
    /\ ReaderGoes("stops")
    /\ UNCHANGED <<ioVars, stopVars, callVars, freeVars, readyVars, slotVars, workerVars,
                   dropped>>

\* One stop slot for every started worker, then the result of the call.
SendStop ==
    /\ ReaderAt("stops")
    /\ stopsSent < started
    /\ phase' = "stop"
    /\ ReaderGoes("wait")
    /\ UNCHANGED <<ioVars, stopsSent, callVars, freeVars, readyVars, slotVars, flagVars,
                   workerVars, dropped>>

AllStopsSent ==
    /\ ReaderAt("stops")
    /\ stopsSent = started
    /\ result' = IF failed THEN -1 ELSE 0
    /\ ReaderGoes("join")
    /\ UNCHANGED <<ioVars, stopVars, started, joined, freeVars, readyVars, slotVars,
                   flagVars, workerVars, dropped>>

Join ==
    /\ ReaderAt("join")
    /\ joined < started
    /\ wpc[joined + 1] = "exited"
    /\ joined' = joined + 1
    /\ UNCHANGED <<ioVars, stopVars, started, result, freeVars, readyVars, slotVars,
                   flagVars, workerVars, rpc, dropped>>

AllJoinedEarly ==
    /\ ReaderAt("join")
    /\ joined + 1 >= started
    /\ ReaderGoes("finish")
    /\ UNCHANGED <<ioVars, stopVars, callVars, freeVars, readyVars, slotVars, flagVars,
                   workerVars, dropped>>

AllJoined ==
    /\ ReaderAt("join")
    /\ joined = started
    /\ ReaderGoes("finish")
    /\ UNCHANGED <<ioVars, stopVars, callVars, freeVars, readyVars, slotVars, flagVars,
                   workerVars, dropped>>

\* pbf_parallel_read_blocks, and the start and join of the workers around it.
Reader ==
    \/ StartWorker \/ StartFails \/ AllStarted
    \/ ReadHeader \/ TakePermit \/ TakeSlot \/ FillSlot \/ FillFails
    \/ MarkStop \/ PushReady \/ PostReady \/ CheckFlags
    \/ ReportError \/ SendStop \/ AllStopsSent \/ Join \/ AllJoined

-----------------------------------------------------------------------------
(***************************************************************************)
(* What every worker does on the queue.                                    *)
(***************************************************************************)
WorkerAt(w, place) == wpc[w] = place
WorkerGoes(w, place) == wpc' = [wpc EXCEPT ![w] = place]

mainVars == <<ioVars, stopVars, callVars, rpc, dropped>>

WorkerTakePermit(w) ==
    /\ WorkerAt(w, "wait")
    /\ readySem > 0
    /\ readySem' = readySem - 1
    /\ WorkerGoes(w, "take")
    /\ UNCHANGED <<mainVars, freeVars, readyRing, readyRead, readyWrite, slotVars, flagVars,
                   wslot>>

WorkerTakeSlotKeepsIndex(w) ==
    /\ WorkerAt(w, "take")
    /\ wslot' = [wslot EXCEPT ![w] = readyRing[readyRead % SlotCount]]
    /\ WorkerGoes(w, "check")
    /\ UNCHANGED <<mainVars, freeVars, readyVars, slotVars, flagVars>>

WorkerTakeSlot(w) ==
    /\ WorkerAt(w, "take")
    /\ wslot' = [wslot EXCEPT ![w] = readyRing[readyRead % SlotCount]]
    /\ readyRead' = readyRead + 1
    /\ WorkerGoes(w, "check")
    /\ UNCHANGED <<mainVars, freeVars, readyRing, readyWrite, readySem, slotVars, flagVars>>

\* A stop slot ends the worker's loop and is not put back.
WorkerTestStop(w, afterLoop) ==
    /\ WorkerAt(w, "check")
    /\ WorkerGoes(w, IF slotStop[wslot[w]] THEN afterLoop ELSE "flags")
    /\ UNCHANGED <<mainVars, freeVars, readyVars, slotVars, flagVars, wslot>>

WorkerReport(w) ==
    /\ wpc[w] \in {"decode", "parse"}
    /\ SetError(wpc[w])
    /\ WorkerGoes(w, "push")
    /\ UNCHANGED <<mainVars, freeVars, readyVars, slotVars, wslot>>

WorkerPush(w) ==
    /\ WorkerAt(w, "push")
    /\ freeRing' = [freeRing EXCEPT ![freeWrite % SlotCount] = wslot[w]]
    /\ freeWrite' = freeWrite + 1
    /\ WorkerGoes(w, "post")
    /\ UNCHANGED <<mainVars, freeRead, freeSem, readyVars, slotVars, flagVars, wslot>>

WorkerPost(w) ==
    /\ WorkerAt(w, "post")
    /\ freeSem' = freeSem + 1
    /\ WorkerGoes(w, "wait")
    /\ UNCHANGED <<mainVars, freeRing, freeRead, freeWrite, readyVars, slotVars, flagVars,
                   wslot>>

-----------------------------------------------------------------------------
(***************************************************************************)
(* Properties of the queue.                                                *)
(***************************************************************************)
QueueTypeOK ==
    /\ file \in Files
    /\ freeRing \in [Slots -> Slots] /\ readyRing \in [Slots -> Slots]
    /\ freeRead \in Nat /\ freeWrite \in Nat /\ freeSem \in Nat
    /\ readyRead \in Nat /\ readyWrite \in Nat /\ readySem \in Nat
    /\ slotBlock \in [Slots -> Nat]
    /\ slotStop \in [Slots -> BOOLEAN]
    /\ failed \in BOOLEAN /\ stopped \in BOOLEAN
    /\ error \in Causes /\ cause \in Causes
    /\ rpc \in ReaderPlaces
    /\ rslot \in Slots
    /\ next \in 1..(Len(file) + 1)
    /\ phase \in {"read", "stop"}
    /\ started \in 0..WorkerCount
    /\ stopsSent \in 0..started /\ joined \in 0..started
    /\ result \in {-1, 0}
    /\ wpc \in [Workers -> WorkerPlaces]
    /\ wslot \in [Workers -> Slots]
    /\ dropped \subseteq Slots

FreeWindow == freeRead..(freeWrite - 1)
ReadyWindow == readyRead..(readyWrite - 1)
FreeAt(i) == freeRing[i % SlotCount]
ReadyAt(i) == readyRing[i % SlotCount]

WorkersAt(place) == {w \in Workers : wpc[w] = place}

\* A thread owns its slot from the ring it took it from to the ring it puts it on.
WorkerOwns(w) == wpc[w] \in {"check", "flags", "work", "decode", "parse", "stop", "push"}
ReaderOwns == rpc \in {"fill", "mark", "push"}

(***************************************************************************)
(* Each semaphore counts the entries of its ring: every permit, taken and  *)
(* not yet used or about to be posted included, stands for one entry.  The *)
(* exception is the permit the reader posts without an entry when it       *)
(* cannot read a Blob; that one permit stays unbacked for good.            *)
(***************************************************************************)
PermitsBacked ==
    /\ freeWrite - freeRead + Cardinality(dropped) =
          freeSem + (IF rpc = "take" THEN 1 ELSE 0) + Cardinality(WorkersAt("post"))
    /\ readyWrite - readyRead =
          readySem + (IF rpc = "post" THEN 1 ELSE 0) + Cardinality(WorkersAt("take"))

(***************************************************************************)
(* A slot has one owner.  As long as the reader has not failed on a Blob,  *)
(* a slot is on the free ring once, or on the ready ring once, or in the   *)
(* hands of one thread: nobody writes a slot that another thread reads,    *)
(* and no ring overwrites an entry that has not been taken.                *)
(***************************************************************************)
FreeRingOwns ==
    /\ \A i, j \in FreeWindow : FreeAt(i) = FreeAt(j) => i = j
    /\ \A i \in FreeWindow, j \in ReadyWindow : FreeAt(i) # ReadyAt(j)
    /\ \A i \in FreeWindow, w \in Workers : WorkerOwns(w) => FreeAt(i) # wslot[w]
    /\ \A i \in FreeWindow : ReaderOwns => FreeAt(i) # rslot

ReadyRingOwns ==
    /\ \A i, j \in ReadyWindow : ReadyAt(i) = ReadyAt(j) => i = j
    /\ \A i \in ReadyWindow, w \in Workers : WorkerOwns(w) => ReadyAt(i) # wslot[w]
    /\ \A i \in ReadyWindow : ReaderOwns => ReadyAt(i) # rslot

ThreadsOwn ==
    /\ \A v, w \in Workers : WorkerOwns(v) /\ WorkerOwns(w) /\ wslot[v] = wslot[w] => v = w
    /\ \A w \in Workers : WorkerOwns(w) /\ ReaderOwns => wslot[w] # rslot

OneOwner == dropped = {} => FreeRingOwns /\ ReadyRingOwns /\ ThreadsOwn
=============================================================================
