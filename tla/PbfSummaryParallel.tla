------------------------- MODULE PbfSummaryParallel -------------------------
(***************************************************************************)
(* pbf_read_summary_parallel of src/src/shared/pbf.c on the fileblock      *)
(* queue.  A summary is modelled by how often it counts each fileblock;    *)
(* its numeric fields are sums over the fileblocks.                        *)
(***************************************************************************)
EXTENDS PbfQueue

VARIABLES local,     \* local_summary of each worker
          summary,   \* context.summary
          outcome    \* what the caller gets: the result and *summary, as a Delivery

vars == <<queueVars, local, summary, outcome>>

Nothing == [p \in Positions(file) |-> 0]

Plus(a, b) == [p \in Positions(file) |-> a[p] + b[p]]

Init ==
    /\ QueueInit
    /\ rpc = "init"
    /\ local = [w \in Workers |-> Nothing]
    /\ summary = Nothing
    /\ outcome = Delivery(0, Nothing)

\* The allocations and platform_open_read: on failure nothing has started yet.
SetUp ==
    /\ ReaderAt("init")
    /\ \/ ReaderGoes("start") /\ UNCHANGED <<error, outcome>>
       \/ /\ error' \in {"memory", "open"} \cap Faults
          /\ outcome' = Delivery(-1, Nothing)
          /\ ReaderGoes("done")
    /\ UNCHANGED <<ioVars, stopVars, callVars, freeVars, readyVars, slotVars, failed, stopped,
                   workerVars, dropped, local, summary>>

WorkerTestFailedForgetsSlot(w) ==
    /\ WorkerAt(w, "flags")
    /\ WorkerGoes(w, IF failed THEN "post" ELSE "work")
    /\ UNCHANGED <<mainVars, freeVars, readyVars, slotVars, flagVars, wslot,
                   local, summary, outcome>>

WorkerTestFailed(w) ==
    /\ WorkerAt(w, "flags")
    /\ WorkerGoes(w, IF failed THEN "push" ELSE "work")
    /\ UNCHANGED <<mainVars, freeVars, readyVars, slotVars, flagVars, wslot,
                   local, summary, outcome>>

\* The block is counted before it is decoded.  A slot that meanwhile became
\* a stop slot has blob_size 0 and does not decode; without memory to inflate
\* into no Blob does.
WorkerWork(w) ==
    LET slot == wslot[w]
        block == file[slotBlock[slot]]
        undecodable == slotStop[slot] \/ block.effect = "decode"
    IN  /\ WorkerAt(w, "work")
        /\ local' = [local EXCEPT ![w][slotBlock[slot]] = @ + 1]
        /\ \/ /\ undecodable \/ "memory" \in Faults
              /\ WorkerGoes(w, "decode")
           \/ /\ ~ undecodable
              /\ WorkerGoes(w, IF SummaryRejects(block) THEN "parse" ELSE "push")
        /\ UNCHANGED <<mainVars, freeVars, readyVars, slotVars, flagVars, wslot,
                       summary, outcome>>

WorkerMerge(w) ==
    /\ WorkerAt(w, "merge")
    /\ summary' = Plus(summary, local[w])
    /\ WorkerGoes(w, "exited")
    /\ UNCHANGED <<mainVars, freeVars, readyVars, slotVars, flagVars, wslot, local, outcome>>

Worker(w) ==
    \/ /\ \/ WorkerTakePermit(w) \/ WorkerTakeSlot(w) \/ WorkerTestStop(w, "merge")
          \/ WorkerReport(w) \/ WorkerPush(w) \/ WorkerPost(w)
       /\ UNCHANGED <<local, summary, outcome>>
    \/ WorkerTestFailed(w) \/ WorkerWork(w) \/ WorkerMerge(w)

FinishTrustsReader ==
    /\ ReaderAt("finish")
    /\ outcome' = IF result = 0 THEN Delivery(0, summary) ELSE Delivery(-1, Nothing)
    /\ ReaderGoes("done")
    /\ UNCHANGED <<ioVars, stopVars, callVars, freeVars, readyVars, slotVars, flagVars,
                   workerVars, dropped, local, summary>>

\* The summary is handed out only if nothing failed, also not after the
\* reader took its result and before the last worker ended.
Finish ==
    /\ ReaderAt("finish")
    /\ outcome' = IF result = 0 /\ ~ failed
                  THEN Delivery(0, summary)
                  ELSE Delivery(-1, Nothing)
    /\ ReaderGoes("done")
    /\ UNCHANGED <<ioVars, stopVars, callVars, freeVars, readyVars, slotVars, flagVars,
                   workerVars, dropped, local, summary>>

ReaderStep == SetUp \/ (Reader /\ UNCHANGED <<local, summary, outcome>>) \/ Finish

Returned == rpc = "done" /\ UNCHANGED vars

Next == ReaderStep \/ (\E w \in Workers : Worker(w)) \/ Returned

Spec == Init /\ [][Next]_vars

\* Every thread that can run does run.
FairSpec ==
    /\ Spec
    /\ WF_vars(ReaderStep)
    /\ \A w \in Workers : WF_vars(Worker(w))

-----------------------------------------------------------------------------
TypeOK ==
    /\ QueueTypeOK
    /\ local \in [Workers -> [Positions(file) -> Nat]]
    /\ summary \in [Positions(file) -> Nat]
    /\ outcome \in [result : {-1, 0}, tally : [Positions(file) -> Nat]]

(***************************************************************************)
(* The parallel reader succeeds with what the serial one gives: a summary  *)
(* that counts every fileblock exactly once.  It fails only where the      *)
(* serial one fails, or because of the very fault of the surroundings its  *)
(* message names.  A failed call leaves no counts at all in *summary, not  *)
(* even of the blocks that were good and merged; there the two differ,     *)
(* since the failing serial call leaves what it counted up to the fault.   *)
(***************************************************************************)
FromOutside(message) == message \in Faults \/ (message = "decode" /\ "memory" \in Faults)

AgreesWithSerial ==
    rpc = "done" =>
        LET serial == SerialSummary(file)
        IN  \/ outcome.result = 0 /\ outcome = serial
            \/ /\ outcome = Delivery(-1, Nothing)
               /\ serial.result = -1 \/ FromOutside(error)

(***************************************************************************)
(* The message of a failed call names something that did go wrong: never   *)
(* nothing, and never a consequence of the reader having given up, such as *)
(* the empty Blob of a slot that was turned into a stop slot under the     *)
(* hands of a worker.                                                      *)
(***************************************************************************)
Happened(message) ==
    \/ FromOutside(message)
    \/ \E p \in Positions(file) : file[p].effect = message

ErrorIsReal ==
    rpc = "done" => (outcome.result = -1 <=> error # "none")
                         /\ (error # "none" => Happened(error))

(***************************************************************************)
(* The call returns and every worker it started has ended, on every error  *)
(* path: the stop slots always find room and reach every worker.           *)
(***************************************************************************)
AllEnded == rpc = "done" /\ \A w \in Workers : wpc[w] \in {"idle", "exited"}

Terminates == <>AllEnded
=============================================================================
