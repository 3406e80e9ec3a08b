------------------------- MODULE PbfStreamParallel -------------------------
(***************************************************************************)
(* pbf_stream_entities_parallel of src/src/shared/pbf.c on the fileblock   *)
(* queue.  What the callbacks of a worker collect in its user buffer is    *)
(* modelled by how often each fileblock was streamed into it.              *)
(***************************************************************************)
EXTENDS PbfQueue

VARIABLES user,          \* the buffer of each worker (stream_worker_users)
          shared,        \* what merge_worker has put into shared_user
          initialized,   \* buffers init_worker has initialised
          merged,        \* buffers merge_worker has merged
          destroyed      \* buffers destroy_worker has been given

bufferVars == <<initialized, merged, destroyed>>
vars == <<queueVars, user, shared, bufferVars>>

Nothing == [p \in Positions(file) |-> 0]

Plus(a, b) == [p \in Positions(file) |-> a[p] + b[p]]

Init ==
    /\ QueueInit
    /\ rpc = "init"
    /\ user = [w \in Workers |-> Nothing]
    /\ shared = Nothing
    /\ initialized = 0
    /\ merged = 0
    /\ destroyed = 0

\* init_worker for every buffer, then platform_open_read.  A failure skips the
\* threads: the call goes on with nothing to join.  If the allocations before
\* that fail it returns at once.
InitWorker ==
    /\ ReaderAt("init")
    /\ initialized < WorkerCount
    /\ \/ initialized' = initialized + 1 /\ UNCHANGED <<result, error, rpc>>
       \/ /\ "init" \in Faults
          /\ result' = -1
          /\ error' = "init"
          /\ ReaderGoes("finish")
          /\ UNCHANGED initialized
       \/ /\ initialized = 0 /\ "memory" \in Faults
          /\ result' = -1
          /\ error' = "memory"
          /\ ReaderGoes("done")
          /\ UNCHANGED initialized
    /\ UNCHANGED <<ioVars, stopVars, started, joined, freeVars, readyVars, slotVars, failed,
                   stopped, workerVars, dropped, user, shared, merged, destroyed>>

OpenInput ==
    /\ ReaderAt("init")
    /\ initialized = WorkerCount
    /\ \/ ReaderGoes("start") /\ UNCHANGED <<result, error>>
       \/ /\ "open" \in Faults
          /\ result' = -1
          /\ error' = "open"
          /\ ReaderGoes("finish")
    /\ UNCHANGED <<ioVars, stopVars, started, joined, freeVars, readyVars, slotVars, failed,
                   stopped, workerVars, dropped, user, shared, bufferVars>>

\* Only OSMData blocks are streamed, and none once the stream failed or stopped.
WorkerTestFlags(w) ==
    LET skip == failed \/ stopped \/ file[slotBlock[wslot[w]]].type # "OSMData"
    IN  /\ WorkerAt(w, "flags")
        /\ WorkerGoes(w, IF skip THEN "push" ELSE "work")
        /\ UNCHANGED <<mainVars, freeVars, readyVars, slotVars, flagVars, wslot,
                       user, shared, bufferVars>>

\* A slot that meanwhile became a stop slot does not decode; lack of memory
\* may make any Blob fail to decode or its string table fail to parse.
WorkerWork(w) ==
    LET slot == wslot[w]
        effect == file[slotBlock[slot]].effect
        undecodable == slotStop[slot] \/ effect = "decode"
        short == "memory" \in Faults
    IN  /\ WorkerAt(w, "work")
        /\ \/ /\ undecodable \/ short
              /\ WorkerGoes(w, "decode")
              /\ UNCHANGED user
           \/ /\ ~ undecodable
              /\ \/ WorkerGoes(w, IF effect \in {"parse", "stop"} THEN effect ELSE "push")
                 \/ short /\ WorkerGoes(w, "parse")
              /\ user' = [user EXCEPT ![w][slotBlock[slot]] = @ + 1]
        /\ UNCHANGED <<mainVars, freeVars, readyVars, slotVars, flagVars, wslot,
                       shared, bufferVars>>

\* A callback returned a positive value.
WorkerStops(w) ==
    /\ WorkerAt(w, "stop")
    /\ stopped' = TRUE
    /\ WorkerGoes(w, "push")
    /\ UNCHANGED <<mainVars, freeVars, readyVars, slotVars, failed, error, wslot,
                   user, shared, bufferVars>>

Worker(w) ==
    \/ /\ \/ WorkerTakePermit(w) \/ WorkerTakeSlot(w) \/ WorkerTestStop(w, "exited")
          \/ WorkerReport(w) \/ WorkerPush(w) \/ WorkerPost(w)
       /\ UNCHANGED <<user, shared, bufferVars>>
    \/ WorkerTestFlags(w) \/ WorkerWork(w) \/ WorkerStops(w)

\* The buffers are merged one after the other if nothing failed.
DecideTrustsReader ==
    /\ ReaderAt("finish")
    /\ result' = result
    /\ ReaderGoes(IF result' = 0 THEN "merge" ELSE "done")
    /\ destroyed' = IF result' = 0 THEN destroyed ELSE initialized
    /\ UNCHANGED <<ioVars, stopVars, started, joined, freeVars, readyVars, slotVars, flagVars,
                   workerVars, dropped, user, shared, initialized, merged>>

Decide ==
    /\ ReaderAt("finish")
    /\ result' = IF result = 0 /\ ~ failed THEN 0 ELSE -1
    /\ ReaderGoes(IF result' = 0 THEN "merge" ELSE "done")
    /\ destroyed' = IF result' = 0 THEN destroyed ELSE initialized
    /\ UNCHANGED <<ioVars, stopVars, started, joined, freeVars, readyVars, slotVars, flagVars,
                   workerVars, dropped, user, shared, initialized, merged>>

MergeWorkerReturnsAtOnce ==
    /\ ReaderAt("merge")
    /\ \/ /\ merged < initialized
          /\ shared' = Plus(shared, user[merged + 1])
          /\ merged' = merged + 1
          /\ UNCHANGED <<rpc, result, error, destroyed>>
       \/ /\ merged < initialized
          /\ "merge" \in Faults
          /\ result' = -1
          /\ error' = "merge"
          /\ ReaderGoes("done")
          /\ UNCHANGED <<shared, merged, destroyed>>
       \/ /\ merged = initialized
          /\ destroyed' = initialized
          /\ ReaderGoes("done")
          /\ UNCHANGED <<shared, merged, result, error>>
    /\ UNCHANGED <<ioVars, stopVars, started, joined, freeVars, readyVars, slotVars, failed,
                   stopped, workerVars, dropped, user, initialized>>

\* A merge_worker that fails ends the merging; what was merged stays merged.
\* Every initialised buffer is destroyed, then the call returns.
MergeWorker ==
    /\ ReaderAt("merge")
    /\ \/ /\ merged < initialized
          /\ shared' = Plus(shared, user[merged + 1])
          /\ merged' = merged + 1
          /\ UNCHANGED <<rpc, result, error, destroyed>>
       \/ /\ merged < initialized
          /\ "merge" \in Faults
          /\ result' = -1
          /\ error' = "merge"
          /\ destroyed' = initialized
          /\ ReaderGoes("done")
          /\ UNCHANGED <<shared, merged>>
       \/ /\ merged = initialized
          /\ destroyed' = initialized
          /\ ReaderGoes("done")
          /\ UNCHANGED <<shared, merged, result, error>>
    /\ UNCHANGED <<ioVars, stopVars, started, joined, freeVars, readyVars, slotVars, failed,
                   stopped, workerVars, dropped, user, initialized>>

ReaderStep ==
    \/ InitWorker \/ OpenInput
    \/ Reader /\ UNCHANGED <<user, shared, bufferVars>>
    \/ Decide \/ MergeWorker

Returned == rpc = "done" /\ UNCHANGED vars

Next == ReaderStep \/ (\E w \in Workers : Worker(w)) \/ Returned

Spec == Init /\ [][Next]_vars

\* Every thread that can run does run.
FairSpec ==
    /\ Spec
    /\ WF_vars(ReaderStep)
    /\ \A w \in Workers : WF_vars(Worker(w))

-----------------------------------------------------------------------------
TypeOK ==
    /\ QueueTypeOK
    /\ user \in [Workers -> [Positions(file) -> Nat]]
    /\ shared \in [Positions(file) -> Nat]
    /\ initialized \in 0..WorkerCount
    /\ merged \in 0..initialized
    /\ destroyed \in {0, initialized}

DataBlocks == {p \in Positions(file) : file[p].type = "OSMData"}

(***************************************************************************)
(* A stream that returns 0 has put into the merged result what the serial  *)
(* stream delivers: every OSMData block of the file exactly once.  If a    *)
(* callback asked to stop, blocks may be missing, but none is there twice  *)
(* and the one that stopped is there.  Files whose OSMHeader Blob does not *)
(* decode are set aside: only the serial stream looks into it.             *)
(***************************************************************************)
HeaderDecodes == \A p \in Positions(file) : file[p].effect = "decode" => p \in DataBlocks

StreamsEveryBlockOnce ==
    rpc = "done" /\ result = 0 /\ HeaderDecodes =>
        /\ ~ stopped => Delivery(0, shared) = SerialStream(file)
        /\ stopped => /\ \A p \in Positions(file) : shared[p] <= Once(file, DataBlocks)[p]
                      /\ \E p \in Positions(file) : StreamStops(file[p]) /\ shared[p] = 1

(***************************************************************************)
(* The shared result is all or nothing: a failure of the stream, even one  *)
(* that a worker reports after the reader has taken its result, keeps      *)
(* every buffer out of it.  Only a failing merge_worker leaves a part, and *)
(* then the call says so.                                                  *)
(***************************************************************************)
MergesAllOrNothing ==
    rpc = "done" => \/ result = 0 /\ ~ failed /\ merged = WorkerCount
                    \/ result = -1 /\ merged = 0 /\ shared = Nothing
                    \/ result = -1 /\ error = "merge"

(***************************************************************************)
(* Whatever fails, a call that returns has destroyed the buffers it        *)
(* initialised, and no thread that could still use one is left.            *)
(***************************************************************************)
BuffersReleased ==
    rpc = "done" => /\ destroyed = initialized
                    /\ \A w \in Workers : wpc[w] \in {"idle", "exited"}

(***************************************************************************)
(* The call returns and every worker has ended.                            *)
(***************************************************************************)
AllEnded == rpc = "done" /\ \A w \in Workers : wpc[w] \in {"idle", "exited"}

Terminates == <>AllEnded

=============================================================================
