--------------------------- MODULE PbfQueueProofs ---------------------------
(***************************************************************************)
(* Proofs about the fileblock queue.  The inductive invariant QueueInv     *)
(* adds to the properties of PbfQueue where the calling thread may be in   *)
(* each phase.  QueueStep is everything the summary and the stream do to   *)
(* the queue; each of them shows that its steps are QueueSteps or leave    *)
(* the queue alone.                                                        *)
(***************************************************************************)
EXTENDS PbfQueue, FiniteSetTheorems, TLAPS

\* What the calling thread knows at its places.
ReaderKnows ==
    /\ rpc \in {"init", "start", "header", "fill", "flags"} => phase = "read"
    /\ rpc \in {"wait", "take", "fill"} /\ phase = "read" => next <= Len(file)
    /\ rpc \in {"wait", "take", "mark", "push", "post"} /\ phase = "stop" =>
           stopsSent < started
    /\ dropped # {} => \/ phase = "stop"
                       \/ rpc \in {"report", "stops", "join", "finish", "merge", "done"}

Unstarted == \A w \in Workers : w > started => wpc[w] = "idle"

QueueInv == QueueTypeOK /\ ReaderKnows /\ Unstarted /\ PermitsBacked /\ OneOwner

\* The calling thread works on things outside the queue.
MainQuiet ==
    /\ \/ rpc = "init" /\ rpc' \in {"init", "start"} /\ UNCHANGED result
       \/ rpc = "init" /\ rpc' = "finish" /\ result' = -1
       \/ rpc = "init" /\ rpc' = "done"
       \/ rpc \in {"finish", "merge"} /\ rpc' \in {"merge", "done"}
    /\ result' \in {-1, result} /\ error' \in Causes
    /\ UNCHANGED <<ioVars, stopVars, started, joined, freeVars, readyVars, slotVars, failed,
                   stopped, workerVars, dropped>>

OwningPlaces == {"check", "flags", "work", "decode", "parse", "stop", "push"}

\* A worker works on its slot, or leaves the loop.
WorkerLocal(w) ==
    /\ wpc' = [wpc EXCEPT ![w] = wpc'[w]]
    /\ \/ wpc[w] = "check" /\ slotStop[wslot[w]] /\ wpc'[w] \in {"merge", "exited"}
       \/ wpc[w] = "check" /\ ~ slotStop[wslot[w]] /\ wpc'[w] = "flags"
       \/ wpc[w] = "flags" /\ wpc'[w] \in {"work", "push"}
       \/ wpc[w] = "work" /\ wpc'[w] \in {"decode", "parse", "stop", "push"}
       \/ wpc[w] \in {"decode", "parse"} /\ wpc'[w] = "push" /\ failed'
       \/ wpc[w] = "stop" /\ wpc'[w] = "push" /\ stopped'
       \/ wpc[w] = "merge" /\ wpc'[w] = "exited"
    /\ wpc[w] \notin {"decode", "parse"} => UNCHANGED <<failed, error>>
    /\ wpc[w] # "stop" => UNCHANGED stopped
    /\ failed' \in BOOLEAN /\ stopped' \in BOOLEAN /\ error' \in Causes
    /\ UNCHANGED <<mainVars, freeVars, readyVars, slotVars, wslot>>

WorkerQueueStep(w) ==
    \/ WorkerTakePermit(w) \/ WorkerTakeSlot(w) \/ WorkerPush(w) \/ WorkerPost(w)
    \/ WorkerLocal(w)

QueueStep == Reader \/ MainQuiet \/ \E w \in Workers : WorkerQueueStep(w)

-----------------------------------------------------------------------------
(***************************************************************************)
(* Arithmetic of the rings.                                                *)
(***************************************************************************)
\* There is at least one slot.
LEMMA SlotCountPositive == SlotCount \in Nat /\ SlotCount > 0
<1>1. \A m, n \in Nat : m > 0 /\ n > 0 => m * n \in Nat /\ m * n > 0
  BY SMT
<1> QED
  BY <1>1, QueueAssumption DEF SlotCount

\* A ring index is a slot number.
LEMMA IndexInRing == ASSUME NEW i \in Nat PROVE i % SlotCount \in Slots
BY SlotCountPositive DEF Slots

\* Two positions less than a ring apart have different ring indices.
LEMMA IndicesDiffer ==
  ASSUME NEW n \in Nat, n > 0, NEW i \in Nat, NEW j \in Nat, i < j, j - i < n
  PROVE  i % n # j % n
<1>1. /\ i = n * (i \div n) + (i % n) /\ (i \div n) \in Int
      /\ j = n * (j \div n) + (j % n) /\ (j \div n) \in Int
  BY SMT
<1>2. ASSUME NEW k \in Int PROVE ~ (0 < n * k /\ n * k < n)
  <2>1. CASE k <= 0
    BY <2>1, SMT
  <2>2. CASE k >= 1
    BY <2>2, SMT
  <2> QED
    BY <2>1, <2>2
<1>3. n * (j \div n) - n * (i \div n) = n * ((j \div n) - (i \div n))
  BY <1>1, SMT
<1>4. ASSUME i % n = j % n PROVE n * ((j \div n) - (i \div n)) = j - i
  <2> DEFINE a == n * (i \div n)  b == n * (j \div n)  r == j % n  d == n * ((j \div n) - (i \div n))
  <2>1. i = a + r /\ j = b + r /\ b - a = d /\ a \in Int /\ b \in Int /\ r \in Int
    BY <1>1, <1>3, <1>4, SMT
  <2> HIDE DEF a, b, r, d
  <2>2. d = j - i
    BY <2>1
  <2> QED
    BY <2>2 DEF d
<1>5. (j \div n) - (i \div n) \in Int /\ 0 < j - i
  BY <1>1
<1> QED
  BY <1>2, <1>4, <1>5
-----------------------------------------------------------------------------
(***************************************************************************)
(* Types, and what the calling thread knows.                               *)
(***************************************************************************)
QueueTypes == QueueTypeOK /\ ReaderKnows /\ Unstarted

LEMMA FileLength == ASSUME file \in Files PROVE Len(file) \in Nat
BY QueueAssumption, SMT

\* Every step on the queue keeps the types and the reader's knowledge.
LEMMA StepKeepsTypes ==
  ASSUME QueueTypes, QueueStep
  PROVE  QueueTypes'
<1> USE DEF QueueTypes, QueueTypeOK, ReaderKnows, Unstarted, Workers, ReaderAt, ReaderGoes,
            ioVars, stopVars, callVars, freeVars, readyVars, slotVars, flagVars, workerVars
<1>t. Len(file) \in Nat /\ WorkerCount \in Nat
  BY FileLength, QueueAssumption
<1>i. /\ freeRead % SlotCount \in Slots /\ freeWrite % SlotCount \in Slots
      /\ readyRead % SlotCount \in Slots /\ readyWrite % SlotCount \in Slots
  BY IndexInRing
<1>1. CASE StartWorker
  BY <1>1, <1>t DEF StartWorker, WorkerPlaces
<1>2. CASE StartFails
  BY <1>2, <1>t DEF StartFails, ReaderPlaces, Causes, FaultKinds
<1>3. CASE AllStarted
  BY <1>3, <1>t DEF AllStarted, ReaderPlaces
<1>4. CASE ReadHeader
  BY <1>4, <1>t DEF ReadHeader, Causes, FaultKinds, ReaderPlaces
<1>5. CASE TakePermit
  BY <1>5, <1>t DEF TakePermit, ReaderPlaces
<1>6. CASE TakeSlot
  <2>1. rslot' \in Slots
    <3>1. rslot' = freeRing[freeRead % SlotCount]
      BY <1>6 DEF TakeSlot
    <3>2. freeRing \in [Slots -> Slots]
      OBVIOUS
    <3> QED
      BY ONLY <3>1, <3>2, <1>i
  <2>2. freeRead' \in Nat /\ rpc' \in {"fill", "mark"}
    BY <1>6 DEF TakeSlot
  <2>3. QueueTypeOK'
    BY <1>6, <1>t, <2>1, <2>2 DEF TakeSlot, ReaderPlaces
  <2>4. ReaderKnows' /\ Unstarted'
    BY <1>6, <1>t DEF TakeSlot
  <2> QED
    BY <2>3, <2>4
<1>7. CASE FillSlot
  BY <1>7, <1>t DEF FillSlot, ReaderPlaces
<1>8. CASE FillFails
  <2>1. rslot \in Slots /\ dropped \subseteq Slots /\ freeSem \in Nat
    OBVIOUS
  <2>2. dropped' \subseteq Slots /\ freeSem' \in Nat /\ cause' \in Causes /\ rpc' = "report"
    BY <1>8, <2>1 DEF FillFails, Causes, FaultKinds
  <2> QED
    BY <1>8, <1>t, <2>2 DEF FillFails, ReaderPlaces
<1>9. CASE MarkStop
  BY <1>9, <1>t DEF MarkStop, ReaderPlaces
<1>10. CASE PushReady
  BY <1>10, <1>t, <1>i, SMTT(40) DEF PushReady, ReaderPlaces
<1>11. CASE PostReady
  BY <1>11, <1>t, SMTT(40) DEF PostReady, ReaderPlaces
<1>12. CASE CheckFlags
  BY <1>12, <1>t DEF CheckFlags, ReaderPlaces
<1>13. CASE ReportError
  BY <1>13, <1>t DEF ReportError, SetError, ReaderPlaces
<1>14. CASE SendStop
  BY <1>14, <1>t DEF SendStop, ReaderPlaces
<1>15. CASE AllStopsSent
  BY <1>15, <1>t DEF AllStopsSent, ReaderPlaces
<1>16. CASE Join
  BY <1>16, <1>t DEF Join, ReaderPlaces
<1>17. CASE AllJoined
  BY <1>17, <1>t DEF AllJoined, ReaderPlaces
<1>18. CASE MainQuiet
  BY <1>18, <1>t DEF MainQuiet, ReaderPlaces
<1>19. ASSUME NEW w \in Workers, WorkerQueueStep(w) PROVE QueueTypes'
  <2> USE DEF WorkerAt, WorkerGoes, WorkerPlaces, mainVars
  <2>1. QueueTypeOK'
    <3> HIDE DEF Workers, ReaderKnows, Unstarted
    <3>1. CASE WorkerTakePermit(w)
      BY <3>1 DEF WorkerTakePermit
    <3>2. CASE WorkerTakeSlot(w)
      BY <3>2, <1>i, SMTT(40) DEF WorkerTakeSlot
    <3>3. CASE WorkerPush(w)
      BY <3>3, <1>i DEF WorkerPush
    <3>4. CASE WorkerPost(w)
      BY <3>4 DEF WorkerPost
    <3>5. CASE WorkerLocal(w)
      BY <3>5 DEF WorkerLocal, OwningPlaces
    <3> QED
      BY <1>19, <3>1, <3>2, <3>3, <3>4, <3>5 DEF WorkerQueueStep
  <2>2. /\ ReaderKnows'
        /\ wpc[w] # "idle" /\ \A v \in Workers \ {w} : wpc'[v] = wpc[v]
        /\ UNCHANGED started
    <3> HIDE DEF Workers, Unstarted
    <3> QED
      BY <1>19 DEF WorkerQueueStep, WorkerTakePermit, WorkerTakeSlot, WorkerPush, WorkerPost,
                   WorkerLocal, OwningPlaces
  <2> QED
    BY <2>1, <2>2
<1> QED
  BY <1>1, <1>2, <1>3, <1>4, <1>5, <1>6, <1>7, <1>8, <1>9, <1>10,
     <1>11, <1>12, <1>13, <1>14, <1>15, <1>16, <1>17, <1>18, <1>19 DEF QueueStep, Reader
-----------------------------------------------------------------------------
(***************************************************************************)
(* Permits.  PermitsBacked counts workers by their place.                  *)
(***************************************************************************)
LEMMA WorkersAtFinite ==
  ASSUME NEW place PROVE IsFiniteSet(WorkersAt(place)) /\ Cardinality(WorkersAt(place)) \in Nat
<1>1. IsFiniteSet(Workers)
  BY FS_Interval, QueueAssumption DEF Workers
<1>2. WorkersAt(place) \in SUBSET Workers
  BY DEF WorkersAt
<1> QED
  BY <1>1, <1>2, FS_Subset, FS_CardinalityType

\* A worker that moves changes the number of workers at the places it leaves and enters.
LEMMA WorkerMoves ==
  ASSUME wpc \in [Workers -> WorkerPlaces], NEW w \in Workers, NEW to, NEW place,
         wpc' = [wpc EXCEPT ![w] = to]
  PROVE  Cardinality(WorkersAt(place)') = Cardinality(WorkersAt(place))
             + (IF to = place THEN 1 ELSE 0) - (IF wpc[w] = place THEN 1 ELSE 0)
<1> DEFINE At == WorkersAt(place)
<1>1. IsFiniteSet(At) /\ Cardinality(At) \in Nat
  BY WorkersAtFinite
<1>2. WorkersAt(place)' = IF to = place THEN At \cup {w} ELSE At \ {w}
  BY DEF WorkersAt
<1>3. w \in At <=> wpc[w] = place
  BY DEF WorkersAt
<1> HIDE DEF At
<1>4. Cardinality(At \cup {w}) = IF w \in At THEN Cardinality(At) ELSE Cardinality(At) + 1
  BY <1>1, FS_AddElement
<1>5. Cardinality(At \ {w}) = IF w \in At THEN Cardinality(At) - 1 ELSE Cardinality(At)
  BY <1>1, FS_RemoveElement
<1>6. Cardinality(WorkersAt(place)') = Cardinality(At)
             + (IF to = place THEN 1 ELSE 0) - (IF wpc[w] = place THEN 1 ELSE 0)
  <2>1. CASE to = place
    BY <2>1, <1>1, <1>2, <1>3, <1>4
  <2>2. CASE to # place
    BY <2>2, <1>1, <1>2, <1>3, <1>5
  <2> QED
    BY <2>1, <2>2
<1> QED
  BY <1>6 DEF At

\* Every step on the queue keeps the permits backed.
LEMMA StepKeepsPermits ==
  ASSUME QueueTypes, PermitsBacked, QueueStep
  PROVE  PermitsBacked'
<1> DEFINE P == Cardinality(WorkersAt("post"))
           T == Cardinality(WorkersAt("take"))
           D == Cardinality(dropped)
           Move(w, to) == wpc' = [wpc EXCEPT ![w] = to]
<1>1. P \in Nat /\ T \in Nat
  BY WorkersAtFinite
<1>2. IsFiniteSet(dropped) /\ D \in Nat
  <2>1. IsFiniteSet(Slots)
    BY FS_Interval, SlotCountPositive DEF Slots
  <2> QED
    BY <2>1, FS_Subset, FS_CardinalityType DEF QueueTypes, QueueTypeOK
<1>3. /\ freeWrite - freeRead + D = freeSem + (IF rpc = "take" THEN 1 ELSE 0) + P
      /\ readyWrite - readyRead = readySem + (IF rpc = "post" THEN 1 ELSE 0) + T
      /\ freeWrite \in Nat /\ freeRead \in Nat /\ readyWrite \in Nat /\ readyRead \in Nat
      /\ freeSem \in Nat /\ readySem \in Nat
  BY DEF PermitsBacked, QueueTypes, QueueTypeOK
<1>4. ASSUME UNCHANGED wpc PROVE P' = P /\ T' = T
  BY <1>4 DEF WorkersAt
<1>5. ASSUME UNCHANGED dropped PROVE D' = D
  BY <1>5
<1>6. ASSUME NEW w \in Workers, NEW to \in WorkerPlaces, Move(w, to)
      PROVE  /\ P' = P + (IF to = "post" THEN 1 ELSE 0) - (IF wpc[w] = "post" THEN 1 ELSE 0)
             /\ T' = T + (IF to = "take" THEN 1 ELSE 0) - (IF wpc[w] = "take" THEN 1 ELSE 0)
  <2>1. wpc \in [Workers -> WorkerPlaces]
    BY DEF QueueTypes, QueueTypeOK
  <2>2. ASSUME NEW place
        PROVE  Cardinality(WorkersAt(place)') = Cardinality(WorkersAt(place))
                   + (IF to = place THEN 1 ELSE 0) - (IF wpc[w] = place THEN 1 ELSE 0)
    BY <2>1, <1>6, WorkerMoves, ZenonT(40)
  <2> QED
    BY <2>2 DEF P, T
<1>7. PermitsBacked' <=>
        /\ freeWrite' - freeRead' + D' = freeSem' + (IF rpc' = "take" THEN 1 ELSE 0) + P'
        /\ readyWrite' - readyRead' = readySem' + (IF rpc' = "post" THEN 1 ELSE 0) + T'
  BY DEF PermitsBacked
<1> HIDE DEF P, T, D, Move
<1> USE DEF ReaderAt, ReaderGoes, freeVars, readyVars, workerVars
<1>11. CASE StartWorker
  <2>1. /\ started + 1 \in Workers /\ wpc[started + 1] = "idle"
        /\ wpc' = [wpc EXCEPT ![started + 1] = "wait"] /\ UNCHANGED dropped
    BY <1>11, QueueAssumption DEF StartWorker, QueueTypes, QueueTypeOK, Unstarted, Workers
  <2>2. Move(started + 1, "wait")
    BY <2>1 DEF Move
  <2>3. P' = P /\ T' = T /\ D' = D
    BY <2>1, <2>2, <1>1, <1>5, <1>6 DEF WorkerPlaces
  <2> QED
    BY <1>11, <2>3, <1>1, <1>2, <1>3, <1>7 DEF StartWorker
<1>12. CASE StartFails
  BY <1>12, <1>1, <1>2, <1>3, <1>4, <1>5, <1>7 DEF StartFails
<1>13. CASE AllStarted
  BY <1>13, <1>1, <1>2, <1>3, <1>4, <1>5, <1>7 DEF AllStarted
<1>14. CASE ReadHeader
  BY <1>14, <1>1, <1>2, <1>3, <1>4, <1>5, <1>7 DEF ReadHeader
<1>15. CASE TakePermit
  BY <1>15, <1>1, <1>2, <1>3, <1>4, <1>5, <1>7 DEF TakePermit
<1>16. CASE TakeSlot
  BY <1>16, <1>1, <1>2, <1>3, <1>4, <1>5, <1>7 DEF TakeSlot
<1>17. CASE FillSlot
  BY <1>17, <1>1, <1>2, <1>3, <1>4, <1>5, <1>7 DEF FillSlot
<1>18. CASE FillFails
  <2>1. dropped = {} /\ dropped' = dropped \cup {rslot}
    BY <1>18 DEF FillFails, QueueTypes, ReaderKnows
  <2>2. D' = D + 1
    BY <2>1, <1>2, FS_AddElement DEF D
  <2> QED
    BY <1>18, <2>2, <1>1, <1>2, <1>3, <1>4, <1>7 DEF FillFails
<1>19. CASE MarkStop
  BY <1>19, <1>1, <1>2, <1>3, <1>4, <1>5, <1>7 DEF MarkStop
<1>20. CASE PushReady
  BY <1>20, <1>1, <1>2, <1>3, <1>4, <1>5, <1>7 DEF PushReady
<1>21. CASE PostReady
  BY <1>21, <1>1, <1>2, <1>3, <1>4, <1>5, <1>7 DEF PostReady
<1>22. CASE CheckFlags
  BY <1>22, <1>1, <1>2, <1>3, <1>4, <1>5, <1>7 DEF CheckFlags
<1>23. CASE ReportError
  BY <1>23, <1>1, <1>2, <1>3, <1>4, <1>5, <1>7 DEF ReportError
<1>24. CASE SendStop
  BY <1>24, <1>1, <1>2, <1>3, <1>4, <1>5, <1>7 DEF SendStop
<1>25. CASE AllStopsSent
  BY <1>25, <1>1, <1>2, <1>3, <1>4, <1>5, <1>7 DEF AllStopsSent
<1>26. CASE Join
  BY <1>26, <1>1, <1>2, <1>3, <1>4, <1>5, <1>7 DEF Join
<1>27. CASE AllJoined
  BY <1>27, <1>1, <1>2, <1>3, <1>4, <1>5, <1>7 DEF AllJoined
<1>28. CASE MainQuiet
  BY <1>28, <1>1, <1>2, <1>3, <1>4, <1>5, <1>7 DEF MainQuiet
<1>29. ASSUME NEW w \in Workers, WorkerQueueStep(w) PROVE PermitsBacked'
  <2>1. CASE WorkerTakePermit(w)
    <3>1. Move(w, "take") /\ UNCHANGED <<dropped, rpc>>
      BY <2>1 DEF WorkerTakePermit, WorkerGoes, mainVars, Move
    <3>2. /\ P' = P
          /\ T' = T + 1
      BY <2>1, <3>1, <1>1, <1>6 DEF WorkerTakePermit, WorkerAt, WorkerPlaces
    <3> QED
      BY <2>1, <3>1, <3>2, <1>1, <1>2, <1>3, <1>5, <1>7 DEF WorkerTakePermit
  <2>2. CASE WorkerTakeSlot(w)
    <3>1. Move(w, "check") /\ UNCHANGED <<dropped, rpc>>
      BY <2>2 DEF WorkerTakeSlot, WorkerGoes, mainVars, Move
    <3>2. /\ P' = P
          /\ T' = T - 1
      BY <2>2, <3>1, <1>1, <1>6 DEF WorkerTakeSlot, WorkerAt, WorkerPlaces
    <3> QED
      BY <2>2, <3>1, <3>2, <1>1, <1>2, <1>3, <1>5, <1>7 DEF WorkerTakeSlot
  <2>3. CASE WorkerPush(w)
    <3>1. Move(w, "post") /\ UNCHANGED <<dropped, rpc>>
      BY <2>3 DEF WorkerPush, WorkerGoes, mainVars, Move
    <3>2. /\ P' = P + 1
          /\ T' = T
      BY <2>3, <3>1, <1>1, <1>6 DEF WorkerPush, WorkerAt, WorkerPlaces
    <3> QED
      BY <2>3, <3>1, <3>2, <1>1, <1>2, <1>3, <1>5, <1>7 DEF WorkerPush
  <2>4. CASE WorkerPost(w)
    <3>1. Move(w, "wait") /\ UNCHANGED <<dropped, rpc>>
      BY <2>4 DEF WorkerPost, WorkerGoes, mainVars, Move
    <3>2. /\ P' = P - 1
          /\ T' = T
      BY <2>4, <3>1, <1>1, <1>6 DEF WorkerPost, WorkerAt, WorkerPlaces
    <3> QED
      BY <2>4, <3>1, <3>2, <1>1, <1>2, <1>3, <1>5, <1>7 DEF WorkerPost
  <2>5. CASE WorkerLocal(w)
    <3>1. UNCHANGED <<dropped, rpc, freeVars, readyVars>>
      BY <2>5 DEF WorkerLocal, mainVars
    <3>2. PICK to \in WorkerPlaces : /\ Move(w, to)
                                    /\ wpc[w] \in OwningPlaces \cup {"merge"}
                                    /\ to \in OwningPlaces \cup {"merge", "exited"}
      <4>1. /\ Move(w, wpc'[w])
            /\ wpc[w] \in OwningPlaces \cup {"merge"}
            /\ wpc'[w] \in OwningPlaces \cup {"merge", "exited"}
        BY <2>5 DEF WorkerLocal, Move, OwningPlaces
      <4> QED
        BY <4>1 DEF OwningPlaces, WorkerPlaces
    <3>3. P' = P /\ T' = T
      BY <3>2, <1>1, <1>6 DEF OwningPlaces
    <3> QED
      BY <3>1, <3>3, <1>3, <1>5, <1>7
  <2> QED
    BY <1>29, <2>1, <2>2, <2>3, <2>4, <2>5 DEF WorkerQueueStep
<1> QED
  BY <1>11, <1>12, <1>13, <1>14, <1>15, <1>16, <1>17, <1>18, <1>19, <1>20, <1>21, <1>22,
     <1>23, <1>24, <1>25, <1>26, <1>27, <1>28, <1>29 DEF QueueStep, Reader
-----------------------------------------------------------------------------
(***************************************************************************)
(* Owners.  While the entries of a ring are different slots and some other *)
(* slot is off the ring, the ring has room for it.                         *)
(***************************************************************************)
LEMMA RingHasRoom ==
  ASSUME NEW ring \in [Slots -> Slots], NEW lo \in Nat, NEW hi \in Nat, NEW s \in Slots,
         \A i, j \in lo..(hi - 1) : ring[i % SlotCount] = ring[j % SlotCount] => i = j,
         \A i \in lo..(hi - 1) : ring[i % SlotCount] # s
  PROVE  hi - lo < SlotCount
<1> DEFINE Window == lo..(hi - 1)
           entry == [i \in Window |-> ring[i % SlotCount]]
           Others == Slots \ {s}
<1>1. \A i \in Window : i % SlotCount \in Slots
  BY IndexInRing
<1>2. entry \in [Window -> Others]
  BY <1>1
<1>3. entry \in Injection(Window, Others)
  BY <1>2 DEF Injection, IsInjective
<1>4. IsFiniteSet(Slots) /\ Cardinality(Slots) = SlotCount
  BY FS_Interval, SlotCountPositive DEF Slots
<1>5. IsFiniteSet(Others) /\ Cardinality(Others) = SlotCount - 1
  BY <1>4, FS_RemoveElement
<1>6. Cardinality(Window) = IF lo > hi - 1 THEN 0 ELSE hi - lo
  BY FS_Interval
<1> HIDE DEF Window, entry, Others
<1>7. Cardinality(Window) <= Cardinality(Others)
  BY <1>3, <1>5, FS_Injection
<1> QED
  BY <1>5, <1>6, <1>7, SlotCountPositive

\* Putting a slot on a ring with room leaves the other entries alone.
LEMMA RingPush ==
  ASSUME NEW ring \in [Slots -> Slots], NEW lo \in Nat, NEW hi \in Nat, NEW s \in Slots,
         hi - lo < SlotCount
  PROVE  LET pushed == [ring EXCEPT ![hi % SlotCount] = s]
         IN  /\ \A i \in lo..(hi - 1) : pushed[i % SlotCount] = ring[i % SlotCount]
             /\ pushed[hi % SlotCount] = s
<1>1. hi % SlotCount \in Slots /\ \A i \in lo..(hi - 1) : i % SlotCount \in Slots
  BY IndexInRing
<1>2. ASSUME NEW i \in lo..(hi - 1) PROVE i % SlotCount # hi % SlotCount
  BY SlotCountPositive, IndicesDiffer
<1> QED
  BY <1>1, <1>2
\* Every step on the queue keeps every slot with one owner.
LEMMA StepKeepsOwners ==
  ASSUME QueueInv, QueueStep
  PROVE  OneOwner'
<1> SUFFICES ASSUME dropped' = {}
             PROVE  (FreeRingOwns /\ ReadyRingOwns /\ ThreadsOwn)'
  BY DEF OneOwner
<1> USE DEF ReaderAt, ReaderGoes, freeVars, readyVars, workerVars
<1>1. dropped = {}
  BY DEF QueueStep, Reader, MainQuiet, WorkerQueueStep, WorkerLocal, WorkerTakePermit,
         WorkerTakeSlot, WorkerPush, WorkerPost, mainVars, StartWorker, StartFails, AllStarted,
         ReadHeader, TakePermit, TakeSlot, FillSlot, FillFails, MarkStop, PushReady, PostReady,
         CheckFlags, ReportError, SendStop, AllStopsSent, Join, AllJoined
<1>2. FreeRingOwns /\ ReadyRingOwns /\ ThreadsOwn
  BY <1>1 DEF QueueInv, OneOwner
<1>3. /\ freeRing \in [Slots -> Slots] /\ readyRing \in [Slots -> Slots]
      /\ freeRead \in Nat /\ freeWrite \in Nat /\ readyRead \in Nat /\ readyWrite \in Nat
      /\ rslot \in Slots /\ wslot \in [Workers -> Slots] /\ wpc \in [Workers -> WorkerPlaces]
  BY DEF QueueInv, QueueTypeOK
<1>4. /\ freeRead <= freeWrite /\ readyRead <= readyWrite
      /\ rpc = "take" => freeRead < freeWrite
      /\ \A w \in Workers : wpc[w] = "take" => readyRead < readyWrite
  <2>1. Cardinality(dropped) = 0
    BY <1>1, FS_EmptySet
  <2>2. \A place : Cardinality(WorkersAt(place)) \in Nat
    BY WorkersAtFinite
  <2>3. ASSUME NEW w \in Workers, wpc[w] = "take" PROVE Cardinality(WorkersAt("take")) > 0
    <3>1. WorkersAt("take") # {}
      BY <2>3 DEF WorkersAt
    <3> QED
      BY <3>1, WorkersAtFinite, FS_EmptySet
  <2>4. /\ freeSem \in Nat /\ readySem \in Nat
        /\ freeWrite - freeRead = freeSem + (IF rpc = "take" THEN 1 ELSE 0)
                                     + Cardinality(WorkersAt("post"))
        /\ readyWrite - readyRead = readySem + (IF rpc = "post" THEN 1 ELSE 0)
                                       + Cardinality(WorkersAt("take"))
    BY <1>3, <2>1, <2>2 DEF QueueInv, QueueTypeOK, PermitsBacked
  <2> QED
    BY <1>3, <2>2, <2>3, <2>4
\* Threads that give up or keep their slots change nothing.
<1>5. ASSUME UNCHANGED <<freeRing, freeRead, freeWrite, readyRing, readyRead, readyWrite>>,
             ReaderOwns' => ReaderOwns /\ rslot' = rslot,
             \A w \in Workers : WorkerOwns(w)' => WorkerOwns(w) /\ wslot'[w] = wslot[w]
      PROVE  (FreeRingOwns /\ ReadyRingOwns /\ ThreadsOwn)'
  BY <1>2, <1>5 DEF FreeRingOwns, ReadyRingOwns, ThreadsOwn, FreeWindow, ReadyWindow, FreeAt, ReadyAt
<1>6. CASE StartWorker
  BY <1>6, <1>3, <1>5 DEF StartWorker, ReaderOwns, WorkerOwns
<1>7. CASE StartFails
  BY <1>7, <1>5 DEF StartFails, ReaderOwns, WorkerOwns, ioVars
<1>8. CASE AllStarted
  BY <1>8, <1>5 DEF AllStarted, ReaderOwns, WorkerOwns, ioVars
<1>9. CASE ReadHeader
  BY <1>9, <1>5 DEF ReadHeader, ReaderOwns, WorkerOwns, ioVars
<1>10. CASE TakePermit
  BY <1>10, <1>5 DEF TakePermit, ReaderOwns, WorkerOwns, ioVars
<1>11. CASE FillSlot
  BY <1>11, <1>5 DEF FillSlot, ReaderOwns, WorkerOwns
<1>12. CASE MarkStop
  BY <1>12, <1>5 DEF MarkStop, ReaderOwns, WorkerOwns, ioVars
<1>13. CASE PostReady
  BY <1>13, <1>5 DEF PostReady, ReaderOwns, WorkerOwns, ioVars
<1>14. CASE CheckFlags
  BY <1>14, <1>5 DEF CheckFlags, ReaderOwns, WorkerOwns, ioVars
<1>15. CASE ReportError
  BY <1>15, <1>5 DEF ReportError, ReaderOwns, WorkerOwns, ioVars
<1>16. CASE SendStop
  BY <1>16, <1>5 DEF SendStop, ReaderOwns, WorkerOwns, ioVars
<1>17. CASE AllStopsSent
  BY <1>17, <1>5 DEF AllStopsSent, ReaderOwns, WorkerOwns, ioVars
<1>18. CASE Join
  BY <1>18, <1>5 DEF Join, ReaderOwns, WorkerOwns, ioVars
<1>19. CASE AllJoined
  BY <1>19, <1>5 DEF AllJoined, ReaderOwns, WorkerOwns, ioVars
<1>20. CASE MainQuiet
  BY <1>20, <1>5 DEF MainQuiet, ReaderOwns, WorkerOwns, ioVars
<1>21. CASE FillFails
  BY <1>21 DEF FillFails
<1>22. CASE TakeSlot
  <2>1. /\ rslot' = freeRing[freeRead % SlotCount] /\ freeRead' = freeRead + 1
        /\ freeRead < freeWrite /\ ~ ReaderOwns
        /\ UNCHANGED <<freeRing, freeWrite, readyVars, workerVars>>
    BY <1>22, <1>4 DEF TakeSlot, ReaderOwns
  <2>2. freeRead \in FreeWindow /\ FreeWindow' = FreeWindow \ {freeRead}
    BY <2>1, <1>3 DEF FreeWindow
  <2> QED
    BY <2>1, <2>2, <1>2 DEF FreeRingOwns, ReadyRingOwns, ThreadsOwn, ReadyWindow, FreeAt,
                            ReadyAt, WorkerOwns
<1>23. CASE PushReady
  <2>1. /\ readyRing' = [readyRing EXCEPT ![readyWrite % SlotCount] = rslot]
        /\ readyWrite' = readyWrite + 1 /\ ReaderOwns /\ ~ ReaderOwns'
        /\ UNCHANGED <<freeVars, readyRead, workerVars>>
    BY <1>23 DEF PushReady, ReaderOwns
  <2>2. readyWrite - readyRead < SlotCount
    BY <2>1, <1>2, <1>3, RingHasRoom DEF ReadyRingOwns, ReadyWindow, ReadyAt
  <2>3. /\ \A i \in ReadyWindow : readyRing'[i % SlotCount] = readyRing[i % SlotCount]
        /\ readyRing'[readyWrite % SlotCount] = rslot
    <3>1. LET pushed == [readyRing EXCEPT ![readyWrite % SlotCount] = rslot]
          IN  /\ \A i \in readyRead..(readyWrite - 1) :
                    pushed[i % SlotCount] = readyRing[i % SlotCount]
              /\ pushed[readyWrite % SlotCount] = rslot
      BY <2>2, <1>3, RingPush
    <3> QED
      BY <2>1, <3>1 DEF ReadyWindow
  <2>4. ReadyWindow' = ReadyWindow \cup {readyWrite}
    BY <2>1, <1>3, <1>4 DEF ReadyWindow
  <2> QED
    BY <2>1, <2>3, <2>4, <1>2 DEF FreeRingOwns, ReadyRingOwns, ThreadsOwn, FreeWindow, FreeAt,
                                  ReadyAt, WorkerOwns
<1>24. ASSUME NEW w \in Workers, WorkerQueueStep(w)
      PROVE  (FreeRingOwns /\ ReadyRingOwns /\ ThreadsOwn)'
  <2> USE DEF WorkerAt, WorkerGoes, mainVars, ioVars
  <2>1. CASE WorkerTakePermit(w)
    BY <2>1, <1>3, <1>5 DEF WorkerTakePermit, ReaderOwns, WorkerOwns
  <2>2. CASE WorkerPost(w)
    BY <2>2, <1>3, <1>5 DEF WorkerPost, ReaderOwns, WorkerOwns
  <2>3. CASE WorkerLocal(w)
    BY <2>3, <1>3, <1>5 DEF WorkerLocal, OwningPlaces, ReaderOwns, WorkerOwns
  <2>4. CASE WorkerTakeSlot(w)
    <3>1. /\ wslot' = [wslot EXCEPT ![w] = readyRing[readyRead % SlotCount]]
          /\ readyRead' = readyRead + 1 /\ readyRead < readyWrite /\ ~ WorkerOwns(w)
          /\ UNCHANGED <<freeVars, readyRing, readyWrite, rslot, rpc>>
      BY <2>4, <1>4 DEF WorkerTakeSlot, WorkerOwns
    <3>2. \A v \in Workers : v # w => (WorkerOwns(v)' <=> WorkerOwns(v))
      BY <2>4, <1>3 DEF WorkerTakeSlot, WorkerOwns
    <3>3. readyRead \in ReadyWindow /\ ReadyWindow' = ReadyWindow \ {readyRead}
      BY <3>1, <1>3 DEF ReadyWindow
    <3>4. /\ wslot'[w] = ReadyAt(readyRead)
          /\ \A v \in Workers : v # w => wslot'[v] = wslot[v]
      BY <3>1, <1>3 DEF ReadyAt
    <3> QED
      BY <3>1, <3>2, <3>3, <3>4, <1>2 DEF FreeRingOwns, ReadyRingOwns, ThreadsOwn, FreeWindow,
                                          FreeAt, ReadyAt, ReaderOwns
  <2>5. CASE WorkerPush(w)
    <3>1. /\ freeRing' = [freeRing EXCEPT ![freeWrite % SlotCount] = wslot[w]]
          /\ freeWrite' = freeWrite + 1 /\ WorkerOwns(w)
          /\ UNCHANGED <<freeRead, readyVars, wslot, rslot, rpc>>
      BY <2>5 DEF WorkerPush, WorkerOwns
    <3>2. /\ ~ WorkerOwns(w)'
          /\ \A v \in Workers : v # w => (WorkerOwns(v)' <=> WorkerOwns(v))
      BY <2>5, <1>3 DEF WorkerPush, WorkerOwns
    <3>3. freeWrite - freeRead < SlotCount
      <4>1. wslot[w] \in Slots /\ \A i \in FreeWindow : freeRing[i % SlotCount] # wslot[w]
        BY <3>1, <1>2, <1>3 DEF FreeRingOwns, FreeAt
      <4>2. \A i, j \in FreeWindow : freeRing[i % SlotCount] = freeRing[j % SlotCount] => i = j
        BY <1>2 DEF FreeRingOwns, FreeAt
      <4> QED
        BY <4>1, <4>2, <1>3, RingHasRoom DEF FreeWindow
    <3>4. /\ \A i \in FreeWindow : freeRing'[i % SlotCount] = freeRing[i % SlotCount]
          /\ freeRing'[freeWrite % SlotCount] = wslot[w]
      <4>1. LET pushed == [freeRing EXCEPT ![freeWrite % SlotCount] = wslot[w]]
            IN  /\ \A i \in freeRead..(freeWrite - 1) :
                      pushed[i % SlotCount] = freeRing[i % SlotCount]
                /\ pushed[freeWrite % SlotCount] = wslot[w]
        <5> wslot[w] \in Slots
          BY <1>3
        <5> QED
          BY <3>3, <1>3, RingPush
      <4> QED
        BY <3>1, <4>1 DEF FreeWindow
    <3>5. FreeWindow' = FreeWindow \cup {freeWrite}
      BY <3>1, <1>3, <1>4 DEF FreeWindow
    <3> QED
      BY <3>1, <3>2, <3>4, <3>5, <1>2 DEF FreeRingOwns, ReadyRingOwns, ThreadsOwn, ReadyWindow,
                                          FreeAt, ReadyAt, ReaderOwns
  <2> QED
    BY <1>24, <2>1, <2>2, <2>3, <2>4, <2>5 DEF WorkerQueueStep
<1> QED
  BY <1>6, <1>7, <1>8, <1>9, <1>10, <1>11, <1>12, <1>13, <1>14, <1>15, <1>16, <1>17,
     <1>18, <1>19, <1>20, <1>21, <1>22, <1>23, <1>24 DEF QueueStep, Reader
-----------------------------------------------------------------------------
(***************************************************************************)
(* The inductive invariant.                                                *)
(***************************************************************************)
LEMMA QueueInvInitially ==
  ASSUME QueueInit, rpc = "init"
  PROVE  QueueInv
<1> USE DEF QueueInit
<1>1. QueueTypeOK
  <2>1. Len(file) \in Nat /\ 0 \in Slots /\ Slots \subseteq Int /\ SlotCount \in Nat
    BY SlotCountPositive, FileLength DEF Slots
  <2>2. WorkerCount \in Nat
    BY QueueAssumption
  <2> QED
    BY <2>1, <2>2 DEF QueueTypeOK, Causes, ReaderPlaces, WorkerPlaces
<1>2. ReaderKnows /\ Unstarted
  BY DEF ReaderKnows, Unstarted
<1>3. PermitsBacked
  <2>1. WorkersAt("post") = {} /\ WorkersAt("take") = {}
    BY DEF WorkersAt
  <2> QED
    BY <2>1, FS_EmptySet, SlotCountPositive DEF PermitsBacked
<1>4. OneOwner
  <2>1. \A i \in 0..(SlotCount - 1) : freeRing[i % SlotCount] = i
    <3>1. \A n \in Nat : \A i \in 0..(n - 1) : i % n = i
      BY SMT
    <3> QED
      BY <3>1, SlotCountPositive DEF Slots
  <2>2. FreeWindow = 0..(SlotCount - 1) /\ ReadyWindow = {}
    BY SlotCountPositive DEF FreeWindow, ReadyWindow
  <2>3. ~ ReaderOwns /\ \A w \in Workers : ~ WorkerOwns(w)
    BY DEF ReaderOwns, WorkerOwns
  <2> QED
    BY <2>1, <2>2, <2>3 DEF OneOwner, FreeRingOwns, ReadyRingOwns, ThreadsOwn, FreeAt
<1> QED
  BY <1>1, <1>2, <1>3, <1>4 DEF QueueInv

LEMMA QueueInvInductive ==
  ASSUME QueueInv, QueueStep \/ UNCHANGED queueVars
  PROVE  QueueInv'
<1>1. CASE QueueStep
  BY <1>1, StepKeepsTypes, StepKeepsPermits, StepKeepsOwners DEF QueueInv, QueueTypes
<1>2. CASE UNCHANGED queueVars
  <2> USE DEF queueVars, ioVars, stopVars, callVars, freeVars, readyVars, slotVars, flagVars,
              workerVars
  <2>1. (QueueTypeOK /\ ReaderKnows /\ Unstarted)'
    BY <1>2 DEF QueueInv, QueueTypeOK, ReaderKnows, Unstarted
  <2>2. PermitsBacked'
    BY <1>2 DEF QueueInv, PermitsBacked, WorkersAt
  <2>3. OneOwner'
    BY <1>2 DEF QueueInv, OneOwner, FreeRingOwns, ReadyRingOwns, ThreadsOwn, FreeWindow,
                ReadyWindow, FreeAt, ReadyAt, WorkerOwns, ReaderOwns
  <2> QED
    BY <2>1, <2>2, <2>3 DEF QueueInv
<1> QED
  BY <1>1, <1>2
-----------------------------------------------------------------------------
(***************************************************************************)
(* The order of the call: a joined worker has exited, every started worker *)
(* is joined before anything is merged or handed out, and only a failure   *)
(* keeps a worker from being started.                                      *)
(***************************************************************************)
CallOrder ==
    /\ rpc = "init" => started = 0
    /\ \A w \in Workers : w <= joined => wpc[w] = "exited"
    /\ rpc \in {"finish", "merge", "done"} => joined = started
    /\ rpc \notin {"join", "finish", "merge", "done"} => result = 0
    /\ rpc \notin {"init", "start", "report", "done"} /\ result = 0 /\ ~ failed =>
           started = WorkerCount

\* The threads of the call have ended.
Gathered == \A w \in Workers : wpc[w] \in {"idle", "exited"}

LEMMA StepKeepsCallOrder ==
  ASSUME QueueTypes, CallOrder, QueueStep
  PROVE  CallOrder'
<1> USE DEF CallOrder, ReaderAt, ReaderGoes, callVars, flagVars, workerVars
<1>t. /\ wpc \in [Workers -> WorkerPlaces] /\ started \in Nat /\ joined \in Nat
      /\ joined <= started /\ WorkerCount \in Nat /\ Workers \subseteq Int
  BY QueueAssumption DEF QueueTypes, QueueTypeOK, Workers
<1>1. CASE StartWorker
  BY <1>1, <1>t DEF StartWorker
<1>2. CASE StartFails
  BY <1>2 DEF StartFails
<1>3. CASE AllStarted
  BY <1>3 DEF AllStarted
<1>4. CASE ReadHeader
  BY <1>4 DEF ReadHeader
<1>5. CASE TakePermit \/ TakeSlot \/ FillSlot \/ FillFails \/ MarkStop \/ PushReady
  BY <1>5 DEF TakePermit, TakeSlot, FillSlot, FillFails, MarkStop, PushReady
<1>6. CASE PostReady \/ CheckFlags \/ SendStop
  BY <1>6 DEF PostReady, CheckFlags, SendStop
<1>7. CASE ReportError
  BY <1>7 DEF ReportError, SetError
<1>8. CASE AllStopsSent
  BY <1>8 DEF AllStopsSent
<1>9. CASE Join
  BY <1>9, <1>t DEF Join
<1>10. CASE AllJoined
  BY <1>10 DEF AllJoined
<1>11. CASE MainQuiet
  BY <1>11, <1>t DEF MainQuiet, QueueTypes, QueueTypeOK
<1>12. ASSUME NEW w \in Workers, WorkerQueueStep(w) PROVE CallOrder'
  <2>1. /\ \A v \in Workers : wpc[v] = "exited" => wpc'[v] = "exited"
        /\ UNCHANGED <<rpc, started, joined, result>>
        /\ failed => failed'
    <3> USE <1>t DEF WorkerAt, WorkerGoes, mainVars
    <3>1. CASE WorkerTakePermit(w)
      BY <3>1 DEF WorkerTakePermit
    <3>2. CASE WorkerTakeSlot(w)
      BY <3>2 DEF WorkerTakeSlot
    <3>3. CASE WorkerPush(w)
      BY <3>3 DEF WorkerPush
    <3>4. CASE WorkerPost(w)
      BY <3>4 DEF WorkerPost
    <3>5. CASE WorkerLocal(w)
      BY <3>5 DEF WorkerLocal
    <3> QED
      BY <1>12, <3>1, <3>2, <3>3, <3>4, <3>5 DEF WorkerQueueStep
  <2>2. failed \in BOOLEAN /\ failed' \in BOOLEAN
    BY <1>12, StepKeepsTypes DEF QueueTypes, QueueTypeOK, QueueStep
  <2> QED
    BY <2>1, <2>2
<1> QED
  BY <1>1, <1>2, <1>3, <1>4, <1>5, <1>6, <1>7, <1>8, <1>9, <1>10, <1>11, <1>12
     DEF QueueStep, Reader

LEMMA CallOrderInitially ==
  ASSUME QueueInit, rpc = "init"
  PROVE  CallOrder
BY DEF QueueInit, CallOrder, Workers

\* When the calling thread has joined the workers, no thread is left.
LEMMA JoinedMeansGathered ==
  ASSUME QueueTypes, CallOrder, rpc \in {"finish", "merge", "done"}
  PROVE  Gathered
BY DEF QueueTypes, QueueTypeOK, Unstarted, CallOrder, Gathered, Workers
-----------------------------------------------------------------------------
(***************************************************************************)
(* What is handed to the workers: every slot on the ready ring holds a     *)
(* fileblock or is a stop slot, and the reader goes on until it fails,     *)
(* is told to stop or has read the whole file.                             *)
(***************************************************************************)
Loaded(s) == slotStop[s] \/ slotBlock[s] > 0

SlotsLoaded ==
    /\ \A s \in Slots : slotBlock[s] < next
    /\ \A i \in 0..(readyWrite - 1) : Loaded(ReadyAt(i))
    /\ rpc = "push" => Loaded(rslot)
    /\ \A w \in Workers : wpc[w] = "check" => Loaded(wslot[w])
    /\ \A w \in Workers : wpc[w] \in {"flags", "work"} => slotBlock[wslot[w]] > 0

ReadsToTheEnd ==
    /\ dropped # {} => failed \/ rpc = "report"
    /\ rpc = "mark" => phase = "stop"
    /\ rpc \in {"wait", "take", "fill"} /\ phase = "read" => file[next].effect # "header"
    /\ \A p \in 1..(next - 1) : ~ ReaderRejects(file[p])
    /\ rpc \in {"stops", "join", "finish", "merge"} \/ phase = "stop" =>
           rpc = "done" \/ result = -1 \/ failed \/ stopped \/ next > Len(file)

\* A Blob is emptied under the hands of a worker only after a failure.
KeepsBlobs == \A w \in Workers : wpc[w] \in {"flags", "work"} /\ slotStop[wslot[w]] => failed

\* Where a worker is bound to what the reader handed out.
HandPlaces == {"check", "flags", "work", "merge", "exited"}

\* A step that hands nothing on.
Elsewhere ==
    /\ UNCHANGED <<file, next, readyRing, readyRead, readyWrite, slotVars>>
    /\ phase' = "read" => phase = "read"
    /\ rpc = "push" \/ rpc' = "push" => UNCHANGED <<rpc, rslot, phase>>
    /\ \A w \in Workers : wpc[w] \in HandPlaces \/ wpc'[w] \in HandPlaces =>
                              wpc'[w] = wpc[w] /\ wslot'[w] = wslot[w]

LEMMA HandoverSteps ==
  ASSUME QueueTypes, QueueStep
  PROVE  \/ FillSlot \/ MarkStop \/ PushReady \/ Elsewhere
         \/ \E w \in Workers : WorkerTakeSlot(w) \/ WorkerLocal(w)
<1> USE DEF Elsewhere, HandPlaces, ReaderAt, ReaderGoes, ioVars, stopVars, readyVars, workerVars
<1>1. CASE StartWorker
  <2>1. /\ started + 1 \in Workers /\ wpc[started + 1] = "idle"
        /\ wpc' = [wpc EXCEPT ![started + 1] = "wait"] /\ wpc \in [Workers -> WorkerPlaces]
    BY <1>1, QueueAssumption DEF StartWorker, QueueTypes, QueueTypeOK, Unstarted, Workers
  <2> QED
    BY <1>1, <2>1 DEF StartWorker
<1>2. CASE StartFails \/ AllStarted \/ ReadHeader \/ TakePermit \/ TakeSlot \/ FillFails
  BY <1>2 DEF StartFails, AllStarted, ReadHeader, TakePermit, TakeSlot, FillFails
<1>3. CASE PostReady \/ CheckFlags \/ ReportError \/ SendStop \/ AllStopsSent
  BY <1>3 DEF PostReady, CheckFlags, ReportError, SendStop, AllStopsSent
<1>4. CASE Join \/ AllJoined \/ MainQuiet
  BY <1>4 DEF Join, AllJoined, MainQuiet
<1>5. ASSUME NEW w \in Workers, WorkerTakePermit(w) \/ WorkerPush(w) \/ WorkerPost(w)
      PROVE  Elsewhere
  BY <1>5 DEF WorkerTakePermit, WorkerPush, WorkerPost, WorkerAt, WorkerGoes, mainVars,
              QueueTypes, QueueTypeOK
<1> QED
  BY <1>1, <1>2, <1>3, <1>4, <1>5 DEF QueueStep, Reader, WorkerQueueStep

\* A worker that has a permit finds an entry on the ready ring.
LEMMA ReadyRingHasEntry ==
  ASSUME QueueInv
  PROVE  /\ readyRead <= readyWrite
         /\ \A w \in Workers : wpc[w] = "take" => readyRead < readyWrite
<1>1. Cardinality(WorkersAt("take")) \in Nat
  BY WorkersAtFinite
<1>2. ASSUME NEW w \in Workers, wpc[w] = "take" PROVE Cardinality(WorkersAt("take")) > 0
  <2>1. WorkersAt("take") # {}
    BY <1>2 DEF WorkersAt
  <2> QED
    BY <2>1, WorkersAtFinite, FS_EmptySet
<1>3. /\ readySem \in Nat /\ readyWrite \in Nat /\ readyRead \in Nat
      /\ readyWrite - readyRead = readySem + (IF rpc = "post" THEN 1 ELSE 0)
                                     + Cardinality(WorkersAt("take"))
  BY DEF QueueInv, QueueTypeOK, PermitsBacked
<1> QED
  BY <1>1, <1>2, <1>3

LEMMA StepKeepsSlotsLoaded ==
  ASSUME QueueInv, SlotsLoaded, QueueStep
  PROVE  SlotsLoaded'
<1> USE DEF SlotsLoaded, Loaded, ReadyAt, ReaderAt, ReaderGoes, ioVars, stopVars, readyVars,
            slotVars, workerVars
<1>t. /\ readyRing \in [Slots -> Slots] /\ readyRead \in Nat /\ readyWrite \in Nat
      /\ rslot \in Slots /\ wslot \in [Workers -> Slots] /\ wpc \in [Workers -> WorkerPlaces]
      /\ slotBlock \in [Slots -> Nat] /\ slotStop \in [Slots -> BOOLEAN]
      /\ next \in Nat /\ next > 0
  BY FileLength DEF QueueInv, QueueTypeOK
<1>i. \A i \in Nat : i % SlotCount \in Slots
  BY IndexInRing
<1>1. CASE FillSlot
  <2>1. /\ slotBlock' = [slotBlock EXCEPT ![rslot] = next]
        /\ slotStop' = [slotStop EXCEPT ![rslot] = FALSE]
        /\ next' = next + 1
        /\ UNCHANGED <<rslot, readyVars, workerVars>>
    BY <1>1 DEF FillSlot
  <2>2. \A s \in Slots : /\ slotBlock'[s] < next'
                         /\ slotBlock[s] > 0 => slotBlock'[s] > 0
                         /\ Loaded(s) => Loaded(s)'
    BY <2>1, <1>t, <1>i
  <2>3. Loaded(rslot)'
    BY <2>1, <1>t, <1>i
  <2> QED
    BY <2>1, <2>2, <2>3, <1>t, <1>i
<1>2. CASE MarkStop
  <2>1. /\ slotStop' = [slotStop EXCEPT ![rslot] = TRUE]
        /\ UNCHANGED <<slotBlock, next, rslot, readyVars, workerVars>>
    BY <1>2 DEF MarkStop
  <2>2. (\A s \in Slots : Loaded(s) => Loaded(s)') /\ Loaded(rslot)'
    BY <2>1, <1>t, <1>i
  <2> QED
    BY <2>1, <2>2, <1>t, <1>i
<1>3. CASE PushReady
  <2>1. /\ readyRing' = [readyRing EXCEPT ![readyWrite % SlotCount] = rslot]
        /\ readyWrite' = readyWrite + 1 /\ rpc = "push" /\ rpc' = "post"
        /\ UNCHANGED <<slotVars, next, rslot, workerVars>>
    BY <1>3 DEF PushReady
  <2>2. \A s : Loaded(s)' <=> Loaded(s)
    BY <2>1
  <2>3. ASSUME NEW i \in 0..readyWrite PROVE Loaded(readyRing'[i % SlotCount])
    <3>1. CASE i % SlotCount = readyWrite % SlotCount
      BY <3>1, <2>1, <1>t, <1>i
    <3>2. CASE i % SlotCount # readyWrite % SlotCount
      <4>1. i \in 0..(readyWrite - 1) /\ i \in Nat
        BY <3>2, <1>t, <1>i
      <4>2. readyRing'[i % SlotCount] = readyRing[i % SlotCount]
        BY <3>2, <4>1, <2>1, <1>t, <1>i
      <4> QED
        BY <4>1, <4>2
    <3> QED
      BY <3>1, <3>2
  <2>4. \A i \in 0..(readyWrite' - 1) : Loaded(ReadyAt(i))'
    BY <2>1, <2>2, <2>3, <1>t, <1>i
  <2> QED
    BY <2>1, <2>2, <2>4
<1>4. CASE Elsewhere
  BY <1>4, <1>t DEF Elsewhere, HandPlaces
<1>5. ASSUME NEW w \in Workers, WorkerTakeSlot(w) PROVE SlotsLoaded'
  <2>1. /\ wpc[w] = "take" /\ wslot' = [wslot EXCEPT ![w] = ReadyAt(readyRead)]
        /\ wpc' = [wpc EXCEPT ![w] = "check"]
        /\ UNCHANGED <<rpc, rslot, next, slotVars, readyRing, readyWrite>>
    BY <1>5 DEF WorkerTakeSlot, WorkerAt, WorkerGoes, mainVars
  <2>2. readyRead \in 0..(readyWrite - 1)
    BY <2>1, <1>t, <1>i, ReadyRingHasEntry
  <2> QED
    BY <2>1, <2>2, <1>t, <1>i
<1>6. ASSUME NEW w \in Workers, WorkerLocal(w) PROVE SlotsLoaded'
  BY <1>6, <1>t DEF WorkerLocal, mainVars
<1> QED
  BY <1>1, <1>2, <1>3, <1>4, <1>5, <1>6, HandoverSteps DEF QueueInv, QueueTypes

LEMMA StepKeepsReading ==
  ASSUME QueueTypes, CallOrder, ReadsToTheEnd, QueueStep
  PROVE  ReadsToTheEnd'
<1> USE DEF ReadsToTheEnd, ReaderAt, ReaderGoes, ioVars, stopVars, callVars, flagVars
<1>t. /\ Len(file) \in Nat /\ next \in 1..(Len(file) + 1) /\ failed \in BOOLEAN
      /\ stopped \in BOOLEAN
  BY FileLength DEF QueueTypes, QueueTypeOK
<1>k. QueueTypes'
  BY StepKeepsTypes
<1>1. CASE StartWorker \/ StartFails \/ AllStarted
  BY <1>1 DEF StartWorker, StartFails, AllStarted
<1>2. CASE ReadHeader
  BY <1>2, <1>t DEF ReadHeader
<1>3. CASE TakePermit \/ TakeSlot
  BY <1>3 DEF TakePermit, TakeSlot, QueueTypes, QueueTypeOK
<1>4. CASE FillSlot
  <2>1. /\ phase = "read" /\ next <= Len(file)
        /\ file[next].effect # "header" /\ file[next].effect # "blob"
        /\ next' = next + 1 /\ rpc = "fill" /\ rpc' = "push"
        /\ UNCHANGED <<file, phase, failed, dropped>>
    BY <1>4 DEF FillSlot, QueueTypes, ReaderKnows
  <2>2. ~ ReaderRejects(file[next])
    BY <2>1 DEF ReaderRejects
  <2>3. \A p \in 1..(next' - 1) : p \in 1..(next - 1) \/ p = next
    BY <2>1, <1>t
  <2>4. \A p \in 1..(next' - 1) : ~ ReaderRejects(file'[p])
    BY <2>1, <2>2, <2>3
  <2> QED
    BY <2>1, <2>4
<1>5. CASE FillFails
  BY <1>5 DEF FillFails, QueueTypes, ReaderKnows
<1>6. CASE MarkStop \/ PushReady \/ PostReady
  BY <1>6 DEF MarkStop, PushReady, PostReady
<1>7. CASE CheckFlags
  BY <1>7 DEF CheckFlags
<1>8. CASE ReportError
  BY <1>8 DEF ReportError, SetError
<1>9. CASE SendStop \/ AllStopsSent
  BY <1>9 DEF SendStop, AllStopsSent, CallOrder
<1>10. CASE Join \/ AllJoined
  BY <1>10 DEF Join, AllJoined
<1>11. CASE MainQuiet
  BY <1>11 DEF MainQuiet
<1>12. ASSUME NEW w \in Workers, WorkerQueueStep(w) PROVE ReadsToTheEnd'
  <2>1. /\ UNCHANGED <<file, rpc, phase, next, dropped, result>>
        /\ failed => failed'
        /\ stopped => stopped'
    BY <1>12 DEF WorkerQueueStep, WorkerTakePermit, WorkerTakeSlot, WorkerPush, WorkerPost,
                 WorkerLocal, mainVars
  <2> QED
    BY <2>1
<1> QED
  BY <1>1, <1>2, <1>3, <1>4, <1>5, <1>6, <1>7, <1>8, <1>9, <1>10, <1>11, <1>12
     DEF QueueStep, Reader

\* Once failed, always failed; a slot lost to the reader stays lost.
LEMMA FlagsStay ==
  ASSUME QueueTypes, QueueStep
  PROVE  /\ failed => failed'
         /\ stopped => stopped'
         /\ dropped' = {} => dropped = {}
BY DEF QueueStep, Reader, MainQuiet, WorkerQueueStep, WorkerLocal, WorkerTakePermit,
       WorkerTakeSlot, WorkerPush, WorkerPost, mainVars, StartWorker, StartFails, AllStarted,
       ReadHeader, TakePermit, TakeSlot, FillSlot, FillFails, MarkStop, PushReady, PostReady,
       CheckFlags, ReportError, SetError, SendStop, AllStopsSent, Join, AllJoined, flagVars

LEMMA StepKeepsBlobs ==
  ASSUME QueueInv, ReadsToTheEnd, KeepsBlobs, QueueStep
  PROVE  KeepsBlobs'
<1> USE DEF KeepsBlobs, readyVars, slotVars, workerVars
<1>t. /\ rslot \in Slots /\ wslot \in [Workers -> Slots] /\ wpc \in [Workers -> WorkerPlaces]
      /\ slotStop \in [Slots -> BOOLEAN]
  BY DEF QueueInv, QueueTypeOK
<1>f. failed => failed'
  BY FlagsStay DEF QueueInv, QueueTypes
<1>1. CASE FillSlot
  BY <1>1, <1>f, <1>t DEF FillSlot
<1>2. CASE MarkStop
  <2>1. /\ slotStop' = [slotStop EXCEPT ![rslot] = TRUE] /\ rpc = "mark"
        /\ UNCHANGED workerVars
    BY <1>2 DEF MarkStop, ReaderAt
  <2>2. CASE dropped = {}
    <3>1. \A w \in Workers : wpc[w] \in {"flags", "work"} => wslot[w] # rslot
      BY <2>1, <2>2 DEF QueueInv, OneOwner, ThreadsOwn, WorkerOwns, ReaderOwns
    <3> QED
      BY <2>1, <3>1, <1>f, <1>t
  <2>3. CASE dropped # {}
    BY <2>1, <2>3, <1>f DEF ReadsToTheEnd
  <2> QED
    BY <2>2, <2>3
<1>3. CASE PushReady
  BY <1>3, <1>f DEF PushReady
<1>4. CASE Elsewhere
  BY <1>4, <1>f DEF Elsewhere, HandPlaces
<1>5. ASSUME NEW w \in Workers, WorkerTakeSlot(w) PROVE KeepsBlobs'
  BY <1>5, <1>f, <1>t DEF WorkerTakeSlot, WorkerGoes
<1>6. ASSUME NEW w \in Workers, WorkerLocal(w) PROVE KeepsBlobs'
  BY <1>6, <1>f, <1>t DEF WorkerLocal
<1> QED
  BY <1>1, <1>2, <1>3, <1>4, <1>5, <1>6, HandoverSteps DEF QueueInv, QueueTypes
-----------------------------------------------------------------------------
(***************************************************************************)
(* The stop slots come last: a worker that has taken one leaves no         *)
(* fileblock on the ready ring.  This holds as long as every slot has one  *)
(* owner.                                                                  *)
(***************************************************************************)
HasStop(w) == wpc[w] \in {"merge", "exited"} \/ (wpc[w] = "check" /\ slotStop[wslot[w]])

StopsLast ==
    /\ rpc = "push" => (slotStop[rslot] <=> phase = "stop")
    /\ phase = "read" => /\ \A i \in ReadyWindow : ~ slotStop[ReadyAt(i)]
                         /\ \A w \in Workers : ~ HasStop(w)
    /\ \A i, j \in ReadyWindow : i < j /\ slotStop[ReadyAt(i)] => slotStop[ReadyAt(j)]
    /\ \A w \in Workers : HasStop(w) => \A i \in ReadyWindow : slotStop[ReadyAt(i)]

LEMMA StepKeepsStopsLast ==
  ASSUME QueueInv, ReadsToTheEnd, StopsLast, QueueStep, dropped' = {}
  PROVE  StopsLast'
<1> USE DEF HasStop, readyVars, slotVars, workerVars
<1>t. /\ rslot \in Slots /\ wslot \in [Workers -> Slots] /\ wpc \in [Workers -> WorkerPlaces]
      /\ slotStop \in [Slots -> BOOLEAN] /\ readyRead \in Nat /\ readyWrite \in Nat
      /\ readyRing \in [Slots -> Slots] /\ phase \in {"read", "stop"}
  BY DEF QueueInv, QueueTypeOK
<1>o. FreeRingOwns /\ ReadyRingOwns /\ ThreadsOwn
  BY FlagsStay DEF QueueInv, QueueTypes, OneOwner
<1>1. ASSUME UNCHANGED <<readyVars, workerVars, phase>>, rpc' = "push",
             ReaderOwns, rslot' = rslot, slotStop'[rslot] <=> phase = "stop",
             \A s \in Slots : s # rslot => slotStop'[s] = slotStop[s]
      PROVE  StopsLast'
  <2>1. /\ \A i \in ReadyWindow : ReadyAt(i) # rslot
        /\ \A w \in Workers : wpc[w] = "check" => wslot[w] # rslot
    BY <1>1, <1>o DEF ReadyRingOwns, ThreadsOwn, WorkerOwns
  <2>2. \A i \in ReadyWindow : ReadyAt(i) \in Slots
    BY <1>t, IndexInRing DEF ReadyWindow, ReadyAt
  <2>3. /\ \A i \in ReadyWindow : slotStop'[ReadyAt(i)] = slotStop[ReadyAt(i)]
        /\ \A w \in Workers : HasStop(w)' <=> HasStop(w)
    BY <1>1, <2>1, <2>2, <1>t
  <2>4. ReadyWindow' = ReadyWindow /\ \A i : ReadyAt(i)' = ReadyAt(i)
    BY <1>1 DEF ReadyWindow, ReadyAt
  <2> HIDE DEF HasStop
  <2> QED
    BY <1>1, <2>3, <2>4 DEF StopsLast
<1>2. CASE FillSlot
  BY <1>1, <1>2, <1>t DEF FillSlot, QueueInv, ReaderKnows, ReaderAt, ReaderGoes, ReaderOwns, stopVars
<1>3. CASE MarkStop
  BY <1>1, <1>3, <1>t DEF MarkStop, ReadsToTheEnd, ReaderAt, ReaderGoes, ReaderOwns, stopVars, ioVars
<1>4. CASE PushReady
  <2>1. /\ readyRing' = [readyRing EXCEPT ![readyWrite % SlotCount] = rslot]
        /\ readyWrite' = readyWrite + 1 /\ rpc = "push" /\ rpc' = "post"
        /\ UNCHANGED <<phase, rslot, readyRead, slotVars, workerVars>>
    BY <1>4 DEF PushReady, ReaderAt, ReaderGoes, ioVars, stopVars
  <2>2. readyWrite - readyRead < SlotCount
    BY <2>1, <1>o, <1>t, RingHasRoom DEF ReadyRingOwns, ReadyWindow, ReadyAt, ReaderOwns
  <2>3. /\ \A i \in ReadyWindow : readyRing'[i % SlotCount] = readyRing[i % SlotCount]
        /\ readyRing'[readyWrite % SlotCount] = rslot
    <3>1. LET pushed == [readyRing EXCEPT ![readyWrite % SlotCount] = rslot]
          IN  /\ \A i \in readyRead..(readyWrite - 1) :
                    pushed[i % SlotCount] = readyRing[i % SlotCount]
              /\ pushed[readyWrite % SlotCount] = rslot
      BY <2>2, <1>t, RingPush
    <3> QED
      BY <2>1, <3>1 DEF ReadyWindow
  <2>4. /\ ReadyWindow' = ReadyWindow \cup {readyWrite}
        /\ \A i \in ReadyWindow : i \in Int /\ i < readyWrite
    BY <2>1, <1>t, ReadyRingHasEntry DEF ReadyWindow
  <2>5. (\A i \in ReadyWindow : ReadyAt(i)' = ReadyAt(i)) /\ \A i : i = readyWrite => ReadyAt(i)' = rslot
    BY <2>3 DEF ReadyAt
  <2>6. \A w \in Workers : HasStop(w)' <=> HasStop(w)
    BY <2>1
  <2>7. \A i \in ReadyWindow' : /\ i \in ReadyWindow \/ i = readyWrite
                                /\ i \in ReadyWindow =>
                                       (slotStop[ReadyAt(i)]' <=> slotStop[ReadyAt(i)])
                                /\ i = readyWrite => (slotStop[ReadyAt(i)]' <=> phase = "stop")
    BY <2>1, <2>4, <2>5 DEF StopsLast
  <2> HIDE DEF HasStop
  <2> QED
    BY <2>1, <2>4, <2>6, <2>7, <1>t DEF StopsLast
<1>5. CASE Elsewhere
  <2>1. /\ ReadyWindow' = ReadyWindow /\ \A i : ReadyAt(i)' = ReadyAt(i)
        /\ \A w \in Workers : HasStop(w)' <=> HasStop(w)
    BY <1>5 DEF Elsewhere, HandPlaces, ReadyWindow, ReadyAt
  <2> HIDE DEF HasStop
  <2> QED
    BY <1>5, <2>1 DEF StopsLast, Elsewhere
<1>6. ASSUME NEW w \in Workers, WorkerTakeSlot(w) PROVE StopsLast'
  <2>1. /\ wpc[w] = "take" /\ wslot' = [wslot EXCEPT ![w] = ReadyAt(readyRead)]
        /\ wpc' = [wpc EXCEPT ![w] = "check"] /\ readyRead' = readyRead + 1
        /\ UNCHANGED <<rpc, rslot, phase, slotVars, readyRing, readyWrite>>
    BY <1>6 DEF WorkerTakeSlot, WorkerAt, WorkerGoes, mainVars, ReadyAt, ioVars, stopVars
  <2>2. /\ readyRead \in ReadyWindow /\ ReadyWindow' = ReadyWindow \ {readyRead}
        /\ \A i \in ReadyWindow : i # readyRead => readyRead < i
    BY <2>1, <1>t, ReadyRingHasEntry DEF ReadyWindow
  <2>3. /\ \A i : ReadyAt(i)' = ReadyAt(i)
        /\ HasStop(w)' <=> slotStop[ReadyAt(readyRead)]
        /\ \A v \in Workers : v # w => (HasStop(v)' <=> HasStop(v))
    BY <2>1, <1>t DEF ReadyAt
  <2> HIDE DEF HasStop
  <2> QED
    BY <2>1, <2>2, <2>3 DEF StopsLast
<1>7. ASSUME NEW w \in Workers, WorkerLocal(w) PROVE StopsLast'
  <2>1. /\ \A v \in Workers : HasStop(v)' <=> HasStop(v)
        /\ ReadyWindow' = ReadyWindow /\ \A i : ReadyAt(i)' = ReadyAt(i)
        /\ UNCHANGED <<rpc, rslot, phase, slotVars>>
    BY <1>7, <1>t DEF WorkerLocal, ReadyWindow, ReadyAt, mainVars, ioVars, stopVars
  <2> HIDE DEF HasStop
  <2> QED
    BY <2>1 DEF StopsLast
<1> QED
  BY <1>2, <1>3, <1>4, <1>5, <1>6, <1>7, HandoverSteps DEF QueueInv, QueueTypes
-----------------------------------------------------------------------------
(***************************************************************************)
(* Fileblocks on their way: a block the reader has read is in one slot,    *)
(* until a worker counts or skips it.  Outstanding are the blocks that     *)
(* nobody has counted or skipped yet.                                      *)
(***************************************************************************)
Carries(w) == wpc[w] \in {"check", "flags", "work"}

InTransit(s) ==
    \/ rpc = "push" /\ rslot = s
    \/ \E i \in ReadyWindow : ReadyAt(i) = s
    \/ \E w \in Workers : Carries(w) /\ wslot[w] = s

Pending == {s \in Slots : ~ slotStop[s] /\ InTransit(s)}

Outstanding == {slotBlock[s] : s \in Pending}

PendingOnce == \A s, t \in Pending : slotBlock[s] = slotBlock[t] => s = t

HandoverInv ==
    /\ CallOrder /\ SlotsLoaded /\ ReadsToTheEnd /\ KeepsBlobs
    /\ dropped = {} => StopsLast /\ PendingOnce

\* Nothing has gone wrong in the queue so far.
Clean == ~ failed /\ dropped = {}

LEMMA CleanWas ==
  ASSUME QueueTypes, QueueStep, Clean'
  PROVE  Clean
BY FlagsStay DEF Clean

LEMMA TransitTypes ==
  ASSUME QueueInv
  PROVE  /\ rslot \in Slots /\ wslot \in [Workers -> Slots] /\ wpc \in [Workers -> WorkerPlaces]
         /\ slotStop \in [Slots -> BOOLEAN] /\ slotBlock \in [Slots -> Nat]
         /\ readyRing \in [Slots -> Slots] /\ readyRead \in Nat /\ readyWrite \in Nat
         /\ next \in Nat /\ next > 0
         /\ \A i \in ReadyWindow : i \in Nat /\ i < readyWrite /\ ReadyAt(i) \in Slots
<1>1. /\ rslot \in Slots /\ wslot \in [Workers -> Slots] /\ wpc \in [Workers -> WorkerPlaces]
      /\ slotStop \in [Slots -> BOOLEAN] /\ slotBlock \in [Slots -> Nat]
      /\ readyRing \in [Slots -> Slots] /\ readyRead \in Nat /\ readyWrite \in Nat
      /\ next \in Nat /\ next > 0
  BY FileLength DEF QueueInv, QueueTypeOK
<1>2. \A i \in ReadyWindow : i \in Nat /\ i < readyWrite
  BY <1>1 DEF ReadyWindow
<1>3. \A i \in ReadyWindow : ReadyAt(i) \in Slots
  BY <1>1, <1>2, IndexInRing DEF ReadyAt
<1> QED
  BY <1>1, <1>2, <1>3

\* A slot in the hands of the reader or of a worker is nowhere else.
LEMMA OwnersExclude ==
  ASSUME QueueInv, dropped = {}
  PROVE  /\ rpc \in {"fill", "mark"} => ~ InTransit(rslot)
         /\ \A w \in Workers : Carries(w) =>
               /\ \A i \in ReadyWindow : ReadyAt(i) # wslot[w]
               /\ rpc = "push" => rslot # wslot[w]
               /\ \A v \in Workers : Carries(v) /\ v # w => wslot[v] # wslot[w]
BY DEF QueueInv, OneOwner, ReadyRingOwns, ThreadsOwn, InTransit, Carries, WorkerOwns, ReaderOwns

\* The reader fills the slot it holds: one more slot is pending.
LEMMA FillAddsPending ==
  ASSUME QueueInv, FillSlot, dropped = {}
  PROVE  Pending' = Pending \cup {rslot} /\ rslot \notin Pending
<1>1. /\ slotStop' = [slotStop EXCEPT ![rslot] = FALSE] /\ rpc = "fill" /\ rpc' = "push"
      /\ UNCHANGED <<rslot, readyVars, workerVars>>
  BY DEF FillSlot, ReaderAt, ReaderGoes
<1>2. ~ InTransit(rslot)
  BY <1>1, OwnersExclude
<1>3. \A s \in Slots : InTransit(s)' <=> InTransit(s) \/ s = rslot
  BY <1>1 DEF InTransit, ReadyWindow, ReadyAt, Carries, readyVars, workerVars
<1> QED
  BY <1>1, <1>2, <1>3, TransitTypes DEF Pending

\* A worker that counts or skips a fileblock: one slot less is pending.
LEMMA LeavingRemovesPending ==
  ASSUME QueueInv, Clean, KeepsBlobs, NEW w \in Workers, WorkerLocal(w),
         wpc[w] \in {"flags", "work"}, wpc'[w] \notin {"flags", "work"}
  PROVE  Pending' = Pending \ {wslot[w]} /\ wslot[w] \in Pending
<1>1. /\ wpc' = [wpc EXCEPT ![w] = wpc'[w]] /\ wpc'[w] \notin {"check", "flags", "work"}
      /\ UNCHANGED <<rpc, rslot, readyVars, slotVars, wslot>>
  BY DEF WorkerLocal, mainVars, ioVars
<1>2. Carries(w) /\ ~ Carries(w)' /\ ~ slotStop[wslot[w]]
  BY <1>1 DEF Carries, KeepsBlobs, Clean
<1>3. \A v \in Workers : v # w => (Carries(v)' <=> Carries(v))
  BY <1>1, TransitTypes DEF Carries
<1>4. \A s \in Slots : InTransit(s)' <=> InTransit(s) /\ s # wslot[w]
  <2>1. ReadyWindow' = ReadyWindow /\ \A i : ReadyAt(i)' = ReadyAt(i)
    BY <1>1 DEF ReadyWindow, ReadyAt, readyVars
  <2> HIDE DEF Carries
  <2> QED
    BY <1>1, <1>2, <1>3, <2>1, OwnersExclude DEF InTransit, Clean
<1> QED
  BY <1>1, <1>2, <1>4, TransitTypes DEF Pending, InTransit, slotVars

\* Every other step leaves the pending slots alone.
LEMMA OthersKeepPending ==
  ASSUME QueueInv, dropped' = {}, QueueStep, ~ FillSlot,
         \A w \in Workers : wpc[w] \in {"flags", "work"} => wpc'[w] \in {"flags", "work"}
  PROVE  Pending' = Pending /\ UNCHANGED <<slotBlock, next>>
<1>0. dropped = {}
  BY FlagsStay DEF QueueInv, QueueTypes
<1>1. CASE MarkStop
  <2>1. /\ slotStop' = [slotStop EXCEPT ![rslot] = TRUE] /\ rpc = "mark" /\ rpc' = "push"
        /\ UNCHANGED <<rslot, next, slotBlock, readyVars, workerVars>>
    BY <1>1 DEF MarkStop, ReaderAt, ReaderGoes, ioVars
  <2>2. ~ InTransit(rslot)
    BY <2>1, <1>0, OwnersExclude
  <2>3. \A s \in Slots : InTransit(s)' <=> InTransit(s) \/ s = rslot
    BY <2>1 DEF InTransit, ReadyWindow, ReadyAt, Carries, readyVars, workerVars
  <2> QED
    BY <2>1, <2>2, <2>3, TransitTypes DEF Pending
<1>2. CASE PushReady
  <2>1. /\ readyRing' = [readyRing EXCEPT ![readyWrite % SlotCount] = rslot]
        /\ readyWrite' = readyWrite + 1 /\ rpc = "push" /\ rpc' = "post"
        /\ UNCHANGED <<rslot, next, readyRead, slotVars, workerVars>>
    BY <1>2 DEF PushReady, ReaderAt, ReaderGoes, ioVars
  <2>2. readyWrite - readyRead < SlotCount
    <3>1. ReadyRingOwns
      BY <1>0 DEF QueueInv, OneOwner
    <3> QED
      BY <2>1, <3>1, TransitTypes, RingHasRoom DEF ReadyRingOwns, ReadyWindow, ReadyAt, ReaderOwns
  <2>3. /\ \A i \in ReadyWindow : readyRing'[i % SlotCount] = readyRing[i % SlotCount]
        /\ readyRing'[readyWrite % SlotCount] = rslot
    <3>1. LET pushed == [readyRing EXCEPT ![readyWrite % SlotCount] = rslot]
          IN  /\ \A i \in readyRead..(readyWrite - 1) :
                    pushed[i % SlotCount] = readyRing[i % SlotCount]
              /\ pushed[readyWrite % SlotCount] = rslot
      <4>1. /\ rslot \in Slots /\ readyRing \in [Slots -> Slots]
            /\ readyRead \in Nat /\ readyWrite \in Nat
        BY TransitTypes
      <4> QED
        BY <4>1, <2>2, RingPush
    <3> QED
      BY <2>1, <3>1 DEF ReadyWindow
  <2>4. ReadyWindow' = ReadyWindow \cup {readyWrite}
    BY <2>1, TransitTypes, ReadyRingHasEntry DEF ReadyWindow
  <2>5. (\A i \in ReadyWindow : ReadyAt(i)' = ReadyAt(i)) /\ \A i : i = readyWrite => ReadyAt(i)' = rslot
    BY <2>3 DEF ReadyAt
  <2>6. \A s : InTransit(s)' <=> InTransit(s)
    BY <2>1, <2>4, <2>5 DEF InTransit, Carries, workerVars
  <2> QED
    BY <2>1, <2>6 DEF Pending, slotVars
<1>3. CASE Elsewhere
  <2>1. \A s : InTransit(s)' <=> InTransit(s)
    BY <1>3 DEF Elsewhere, HandPlaces, InTransit, ReadyWindow, ReadyAt, Carries
  <2> QED
    BY <1>3, <2>1 DEF Pending, Elsewhere, slotVars
<1>4. ASSUME NEW w \in Workers, WorkerTakeSlot(w)
      PROVE  Pending' = Pending /\ UNCHANGED <<slotBlock, next>>
  <2>1. /\ wpc[w] = "take" /\ wslot' = [wslot EXCEPT ![w] = ReadyAt(readyRead)]
        /\ wpc' = [wpc EXCEPT ![w] = "check"] /\ readyRead' = readyRead + 1
        /\ UNCHANGED <<rpc, rslot, next, slotVars, readyRing, readyWrite>>
    BY <1>4 DEF WorkerTakeSlot, WorkerAt, WorkerGoes, mainVars, ReadyAt, ioVars
  <2>2. readyRead \in ReadyWindow /\ ReadyWindow' = ReadyWindow \ {readyRead}
    BY <2>1, TransitTypes, ReadyRingHasEntry DEF ReadyWindow
  <2>3. /\ \A i : ReadyAt(i)' = ReadyAt(i)
        /\ ~ Carries(w) /\ Carries(w)' /\ wslot'[w] = ReadyAt(readyRead)
        /\ \A v \in Workers : v # w => (Carries(v)' <=> Carries(v)) /\ wslot'[v] = wslot[v]
    BY <2>1, TransitTypes DEF ReadyAt, Carries
  <2>4. \A s : InTransit(s)' <=> InTransit(s)
    BY <2>1, <2>2, <2>3 DEF InTransit
  <2> QED
    BY <2>1, <2>4 DEF Pending, slotVars
<1>5. ASSUME NEW w \in Workers, WorkerLocal(w)
      PROVE  Pending' = Pending /\ UNCHANGED <<slotBlock, next>>
  <2>1. /\ wpc' = [wpc EXCEPT ![w] = wpc'[w]]
        /\ UNCHANGED <<rpc, rslot, next, readyVars, slotVars, wslot>>
        /\ Carries(w)' => Carries(w)
        /\ Carries(w) => Carries(w)' \/ slotStop[wslot[w]]
    BY <1>5 DEF WorkerLocal, mainVars, ioVars, Carries
  <2>2. \A v \in Workers : v # w => (Carries(v)' <=> Carries(v))
    BY <2>1, TransitTypes DEF Carries
  <2>3. ReadyWindow' = ReadyWindow /\ \A i : ReadyAt(i)' = ReadyAt(i)
    BY <2>1 DEF ReadyWindow, ReadyAt, readyVars
  <2>4. \A s \in Slots : ~ slotStop[s] => (InTransit(s)' <=> InTransit(s))
    BY <2>1, <2>2, <2>3 DEF InTransit
  <2> QED
    BY <2>1, <2>4 DEF Pending, slotVars
<1> QED
  BY <1>1, <1>2, <1>3, <1>4, <1>5, HandoverSteps DEF QueueInv, QueueTypes

\* Only its own step takes a worker away from its fileblock.
LEMMA LeavingIsLocal ==
  ASSUME QueueTypes, QueueStep, NEW w \in Workers,
         wpc[w] \in {"flags", "work"}, wpc'[w] \notin {"flags", "work"}
  PROVE  WorkerLocal(w)
<1>1. wpc \in [Workers -> WorkerPlaces]
  BY DEF QueueTypes, QueueTypeOK
<1>2. CASE FillSlot \/ MarkStop \/ PushReady
  BY <1>2 DEF FillSlot, MarkStop, PushReady, workerVars
<1>3. CASE Elsewhere
  BY <1>3 DEF Elsewhere, HandPlaces
<1>4. ASSUME NEW v \in Workers, WorkerTakeSlot(v) \/ WorkerLocal(v) PROVE WorkerLocal(w)
  BY <1>1, <1>4 DEF WorkerTakeSlot, WorkerAt, WorkerGoes, WorkerLocal
<1> QED
  BY <1>2, <1>3, <1>4, HandoverSteps

LEMMA StepKeepsPendingOnce ==
  ASSUME QueueInv, SlotsLoaded, PendingOnce, QueueStep, dropped' = {}
  PROVE  PendingOnce'
<1>0. dropped = {}
  BY FlagsStay DEF QueueInv, QueueTypes
<1>1. CASE FillSlot
  <2>1. Pending' = Pending \cup {rslot} /\ rslot \notin Pending
    BY <1>0, <1>1, FillAddsPending
  <2>2. /\ slotBlock' = [slotBlock EXCEPT ![rslot] = next]
        /\ \A s \in Pending : s \in Slots /\ slotBlock[s] < next /\ slotBlock[s] \in Nat
    BY <1>1, TransitTypes DEF FillSlot, SlotsLoaded, Pending
  <2>3. rslot \in Slots /\ next \in Nat /\ slotBlock \in [Slots -> Nat]
    BY TransitTypes
  <2>4. /\ slotBlock'[rslot] = next
        /\ \A s \in Pending : slotBlock'[s] = slotBlock[s] /\ slotBlock[s] # next
    BY <2>1, <2>2, <2>3
  <2> QED
    BY <2>1, <2>4 DEF PendingOnce
<1>2. CASE \E w \in Workers : /\ wpc[w] \in {"flags", "work"}
                              /\ wpc'[w] \notin {"flags", "work"}
  <2>1. PICK w \in Workers : wpc[w] \in {"flags", "work"} /\ wpc'[w] \notin {"flags", "work"}
    BY <1>2
  <2>2. /\ UNCHANGED slotVars
        /\ \A v \in Workers : Carries(v)' => Carries(v) /\ wslot'[v] = wslot[v]
        /\ UNCHANGED <<rpc, rslot, readyVars>>
    <3>1. WorkerLocal(w) /\ wpc \in [Workers -> WorkerPlaces]
      BY <2>1, LeavingIsLocal, TransitTypes DEF QueueInv, QueueTypes
    <3> QED
      BY <3>1 DEF WorkerLocal, mainVars, ioVars, Carries
  <2>3. \A s \in Slots : InTransit(s)' => InTransit(s)
    BY <2>2 DEF InTransit, ReadyWindow, ReadyAt, readyVars
  <2>4. Pending' \subseteq Pending /\ UNCHANGED slotBlock
    BY <2>2, <2>3 DEF Pending, slotVars
  <2> QED
    BY <2>4 DEF PendingOnce
<1>3. CASE ~ FillSlot /\ \A w \in Workers : wpc[w] \in {"flags", "work"} => wpc'[w] \in {"flags", "work"}
  BY <1>3, OthersKeepPending DEF PendingOnce
<1> QED
  BY <1>1, <1>2, <1>3

\* Every step on the queue keeps the handover in order.
LEMMA HandoverInvInductive ==
  ASSUME QueueInv, HandoverInv, QueueStep \/ UNCHANGED queueVars
  PROVE  HandoverInv'
<1>1. CASE QueueStep
  BY <1>1, FlagsStay, StepKeepsCallOrder, StepKeepsSlotsLoaded, StepKeepsReading, StepKeepsBlobs,
     StepKeepsStopsLast, StepKeepsPendingOnce DEF HandoverInv, QueueInv, QueueTypes
<1>2. CASE UNCHANGED queueVars
  <2> USE <1>2 DEF queueVars, ioVars, stopVars, callVars, freeVars, readyVars, slotVars, flagVars,
                   workerVars
  <2>1. CallOrder' /\ SlotsLoaded' /\ ReadsToTheEnd' /\ KeepsBlobs'
    BY DEF HandoverInv, CallOrder, SlotsLoaded, Loaded, ReadyAt, ReadsToTheEnd, KeepsBlobs
  <2>2. ReadyWindow' = ReadyWindow /\ \A i : ReadyAt(i)' = ReadyAt(i)
    BY DEF ReadyWindow, ReadyAt
  <2>3. (\A s : InTransit(s)' <=> InTransit(s)) /\ \A w : HasStop(w)' <=> HasStop(w)
    BY <2>2 DEF InTransit, Carries, HasStop
  <2>4. StopsLast => StopsLast'
    BY <2>2, <2>3 DEF StopsLast
  <2>5. PendingOnce => PendingOnce'
    BY <2>3 DEF PendingOnce, Pending
  <2> QED
    BY <2>1, <2>4, <2>5 DEF HandoverInv
<1> QED
  BY <1>1, <1>2

LEMMA HandoverInvInitially ==
  ASSUME QueueInit, rpc = "init"
  PROVE  HandoverInv
<1> USE DEF QueueInit
<1>1. CallOrder
  BY CallOrderInitially
<1>2. SlotsLoaded /\ KeepsBlobs
  BY DEF SlotsLoaded, KeepsBlobs
<1>3. ReadsToTheEnd
  BY DEF ReadsToTheEnd
<1>4. ReadyWindow = {}
  BY DEF ReadyWindow
<1>5. StopsLast
  BY <1>4 DEF StopsLast, HasStop
<1>6. Pending = {}
  BY <1>4 DEF Pending, InTransit, Carries
<1> QED
  BY <1>1, <1>2, <1>3, <1>5, <1>6 DEF HandoverInv, PendingOnce

(***************************************************************************)
(* What the steps do to the outstanding fileblocks.                        *)
(***************************************************************************)
\* The next fileblock becomes outstanding.
LEMMA FillAddsOutstanding ==
  ASSUME QueueInv, FillSlot, dropped = {}
  PROVE  Outstanding' = Outstanding \cup {next} /\ next' = next + 1
<1>1. Pending' = Pending \cup {rslot} /\ rslot \notin Pending
  BY FillAddsPending
<1>2. /\ slotBlock' = [slotBlock EXCEPT ![rslot] = next] /\ next' = next + 1
      /\ rslot \in Slots /\ slotBlock \in [Slots -> Nat] /\ Pending \subseteq Slots
  BY TransitTypes DEF FillSlot, Pending
<1>3. /\ slotBlock'[rslot] = next
      /\ \A s \in Pending : slotBlock'[s] = slotBlock[s]
  BY <1>1, <1>2
<1>4. Outstanding' = {slotBlock'[s] : s \in Pending'}
  BY DEF Outstanding
<1> QED
  BY <1>1, <1>2, <1>3, <1>4 DEF Outstanding

\* A worker counts or skips an outstanding fileblock.
LEMMA LeavingRemovesOutstanding ==
  ASSUME QueueInv, HandoverInv, Clean, NEW w \in Workers, WorkerLocal(w),
         wpc[w] \in {"flags", "work"}, wpc'[w] \notin {"flags", "work"}
  PROVE  /\ ~ slotStop[wslot[w]] /\ slotBlock[wslot[w]] \in Outstanding
         /\ Outstanding' = Outstanding \ {slotBlock[wslot[w]]}
         /\ UNCHANGED next
<1>1. Pending' = Pending \ {wslot[w]} /\ wslot[w] \in Pending
  BY LeavingRemovesPending DEF HandoverInv
<1>2. UNCHANGED <<slotBlock, next>> /\ PendingOnce
  BY DEF WorkerLocal, mainVars, ioVars, slotVars, HandoverInv, Clean
<1>3. Outstanding' = {slotBlock[s] : s \in Pending'}
  BY <1>2 DEF Outstanding
<1>4. ~ slotStop[wslot[w]]
  BY <1>1 DEF Pending
<1> QED
  BY <1>1, <1>2, <1>3, <1>4 DEF Outstanding, PendingOnce

\* Every other step leaves them alone.
LEMMA OthersKeepOutstanding ==
  ASSUME QueueInv, dropped' = {}, QueueStep, ~ FillSlot,
         \A w \in Workers : wpc[w] \in {"flags", "work"} => wpc'[w] \in {"flags", "work"}
  PROVE  UNCHANGED <<Outstanding, next>>
BY OthersKeepPending DEF Outstanding

\* An outstanding fileblock is one the reader has read.
LEMMA OutstandingWasRead ==
  ASSUME QueueInv, HandoverInv
  PROVE  \A p \in Outstanding : p \in Positions(file) /\ p < next
<1> SUFFICES ASSUME NEW s \in Pending
             PROVE  slotBlock[s] \in Positions(file) /\ slotBlock[s] < next
  BY DEF Outstanding
<1>1. s \in Slots /\ ~ slotStop[s] /\ InTransit(s)
  BY DEF Pending
<1>2. slotBlock[s] > 0
  <2>1. CASE rpc = "push" /\ rslot = s
    BY <2>1, <1>1 DEF HandoverInv, SlotsLoaded, Loaded
  <2>2. CASE \E i \in ReadyWindow : ReadyAt(i) = s
    <3>1. PICK i \in ReadyWindow : ReadyAt(i) = s
      BY <2>2
    <3>2. i \in 0..(readyWrite - 1)
      BY TransitTypes
    <3> QED
      BY <1>1, <3>1, <3>2 DEF HandoverInv, SlotsLoaded, Loaded
  <2>3. CASE \E w \in Workers : Carries(w) /\ wslot[w] = s
    BY <2>3, <1>1 DEF HandoverInv, SlotsLoaded, Loaded, Carries
  <2> QED
    BY <1>1, <2>1, <2>2, <2>3 DEF InTransit
<1>3. slotBlock[s] < next /\ slotBlock[s] \in Nat
  BY <1>1, TransitTypes DEF HandoverInv, SlotsLoaded
<1>4. next \in 1..(Len(file) + 1) /\ Len(file) \in Nat
  BY FileLength DEF QueueInv, QueueTypeOK
<1> QED
  BY <1>2, <1>3, <1>4 DEF Positions

\* When the workers have been joined after a clean run, the whole file has
\* been read and nothing is outstanding.
LEMMA NothingOutstanding ==
  ASSUME QueueInv, HandoverInv, Clean, rpc \in {"finish", "merge"}, result = 0
  PROVE  Outstanding = {} /\ (~ stopped => next = Len(file) + 1)
<1>1. started = WorkerCount /\ joined = started /\ Gathered
  BY JoinedMeansGathered DEF HandoverInv, CallOrder, Clean, QueueInv, QueueTypes
<1>2. 1 \in Workers /\ wpc[1] = "exited"
  BY <1>1, QueueAssumption DEF HandoverInv, CallOrder, Workers
<1>3. \A i \in ReadyWindow : slotStop[ReadyAt(i)]
  BY <1>2 DEF HandoverInv, StopsLast, HasStop, Clean
<1>4. Pending = {}
  BY <1>1, <1>3 DEF Pending, InTransit, Carries, Gathered
<1>5. ~ stopped => next > Len(file)
  BY DEF HandoverInv, ReadsToTheEnd, Clean
<1>6. next \in 1..(Len(file) + 1) /\ Len(file) \in Nat
  BY FileLength DEF QueueInv, QueueTypeOK
<1> QED
  BY <1>4, <1>5, <1>6 DEF Outstanding
-----------------------------------------------------------------------------
(***************************************************************************)
(* Ledgers: the tallies of the workers and the shared one, numbered by     *)
(* worker, 0 being the shared one.  T[l][p] is how often ledger l counts   *)
(* block p of P, of which those before n have been read and those of out   *)
(* have not been counted yet.                                              *)
(***************************************************************************)
Ledgers == 0..WorkerCount

LedgersHold(T, P, out, n) ==
    \A p \in P :
        /\ p >= n \/ p \in out => \A l \in Ledgers : T[l][p] = 0
        /\ \A l \in Ledgers : T[l][p] \in {0, 1}
        /\ \A k, l \in Ledgers : T[k][p] = 1 /\ T[l][p] = 1 => k = l

Counts(T, p) == \E l \in Ledgers : T[l][p] = 1

\* U is T after ledger w has counted p once more.
CountedIn(T, U, P, w, p) ==
    /\ U[w][p] = T[w][p] + 1
    /\ \A l \in Ledgers, q \in P : l # w \/ q # p => U[l][q] = T[l][q]

\* U is T after the ledger of worker w was added to the shared one.
MergedFrom(T, U, P, w) ==
    /\ \A p \in P : U[0][p] = T[0][p] + T[w][p] /\ U[w][p] = 0
    /\ \A l \in Ledgers : l # 0 /\ l # w => U[l] = T[l]

\* No worker is about to report an error either.
Calm == Clean /\ \A w \in Workers : wpc[w] \notin {"decode", "parse"}

\* Only its own report takes a worker away from an error.
LEMMA ReportersWait ==
  ASSUME QueueTypes, QueueStep, ~ failed', NEW w \in Workers, wpc[w] \in {"decode", "parse"}
  PROVE  wpc'[w] = wpc[w]
<1>1. wpc \in [Workers -> WorkerPlaces]
  BY DEF QueueTypes, QueueTypeOK
<1>2. CASE StartWorker
  <2>1. /\ started + 1 \in Workers /\ wpc[started + 1] = "idle"
        /\ wpc' = [wpc EXCEPT ![started + 1] = "wait"]
    BY <1>2, QueueAssumption DEF StartWorker, QueueTypes, QueueTypeOK, Unstarted, Workers
  <2> QED
    BY <1>1, <2>1
<1>3. CASE \/ StartFails \/ AllStarted \/ ReadHeader \/ TakePermit \/ TakeSlot \/ FillSlot
           \/ FillFails \/ MarkStop \/ PushReady
  BY <1>3 DEF StartFails, AllStarted, ReadHeader, TakePermit, TakeSlot, FillSlot, FillFails,
              MarkStop, PushReady, workerVars
<1>4. CASE \/ PostReady \/ CheckFlags \/ ReportError \/ SendStop \/ AllStopsSent \/ Join
           \/ AllJoined \/ MainQuiet
  BY <1>4 DEF PostReady, CheckFlags, ReportError, SendStop, AllStopsSent, Join, AllJoined,
              MainQuiet, workerVars
<1>5. ASSUME NEW v \in Workers, WorkerQueueStep(v) PROVE wpc'[w] = wpc[w]
  BY <1>1, <1>5 DEF WorkerQueueStep, WorkerTakePermit, WorkerTakeSlot, WorkerPush, WorkerPost,
                    WorkerLocal, WorkerAt, WorkerGoes
<1> QED
  BY <1>2, <1>3, <1>4, <1>5 DEF QueueStep, Reader

LEMMA CalmWas ==
  ASSUME QueueTypes, QueueStep, Calm'
  PROVE  Calm
<1>1. Clean /\ ~ failed'
  BY CleanWas DEF Calm, Clean
<1>2. \A w \in Workers : wpc[w] \in {"decode", "parse"} => wpc'[w] = wpc[w]
  BY <1>1, ReportersWait
<1> QED
  BY <1>1, <1>2 DEF Calm

\* Reading one more block.
LEMMA LedgersAfterReading ==
  ASSUME NEW P, P \subseteq Nat, NEW T, NEW out, NEW n \in Nat, LedgersHold(T, P, out, n)
  PROVE  LedgersHold(T, P, out \cup {n}, n + 1)
<1>1. \A p \in P : p >= n + 1 \/ p \in out \cup {n} => p >= n \/ p \in out
  OBVIOUS
<1> QED
  BY <1>1 DEF LedgersHold

\* Leaving a block out.
LEMMA LedgersAfterSkipping ==
  ASSUME NEW P, NEW T, NEW out, NEW p, NEW n \in Nat, LedgersHold(T, P, out, n)
  PROVE  LedgersHold(T, P, out \ {p}, n)
BY DEF LedgersHold

\* Counting an outstanding block in one ledger.
LEMMA LedgersAfterCounting ==
  ASSUME NEW P, P \subseteq Nat, NEW out, NEW p \in out, NEW n \in Nat, p < n, p \in P,
         NEW T, NEW U, NEW w \in Ledgers, LedgersHold(T, P, out, n),
         CountedIn(T, U, P, w, p)
  PROVE  /\ LedgersHold(U, P, out \ {p}, n)
         /\ Counts(U, p)
         /\ \A q \in P : Counts(T, q) => Counts(U, q)
<1>1. \A l \in Ledgers : T[l][p] = 0
  BY DEF LedgersHold
<1>2. U[w][p] = 1 /\ \A l \in Ledgers : l # w => U[l][p] = 0
  <2>1. T[w][p] = 0
    BY <1>1
  <2>2. U[w][p] = T[w][p] + 1 /\ \A l \in Ledgers : l # w => U[l][p] = T[l][p]
    BY DEF CountedIn
  <2> QED
    BY <1>1, <2>1, <2>2
<1>3. ASSUME NEW q \in P, q # p PROVE \A l \in Ledgers : U[l][q] = T[l][q]
  BY <1>3 DEF CountedIn
<1>4. LedgersHold(U, P, out \ {p}, n)
  BY <1>2, <1>3 DEF LedgersHold
<1> QED
  BY <1>1, <1>2, <1>3, <1>4 DEF Counts

\* Adding a worker's ledger to the shared one.
LEMMA LedgersAfterMerging ==
  ASSUME NEW P, NEW out, NEW n \in Nat, NEW T, NEW U, NEW w \in Workers,
         LedgersHold(T, P, out, n), MergedFrom(T, U, P, w)
  PROVE  /\ LedgersHold(U, P, out, n)
         /\ \A p \in P : Counts(U, p) <=> Counts(T, p)
<1>1. 0 \in Ledgers /\ w \in Ledgers /\ w # 0
  BY QueueAssumption DEF Ledgers, Workers
<1>2. ASSUME NEW p \in P
      PROVE  /\ U[0][p] \in {0, 1} /\ (U[0][p] = 1 <=> T[0][p] = 1 \/ T[w][p] = 1)
             /\ U[w][p] = 0
             /\ \A l \in Ledgers : l # 0 /\ l # w => U[l][p] = T[l][p]
  <2>1. T[0][p] \in {0, 1} /\ T[w][p] \in {0, 1} /\ ~ (T[0][p] = 1 /\ T[w][p] = 1)
    BY <1>1 DEF LedgersHold
  <2>2. U[0][p] = T[0][p] + T[w][p] /\ U[w][p] = 0
    BY DEF MergedFrom
  <2>3. \A l \in Ledgers : l # 0 /\ l # w => U[l][p] = T[l][p]
    BY DEF MergedFrom
  <2> QED
    BY <2>1, <2>2, <2>3
<1>3. ASSUME NEW p \in P
      PROVE  /\ p >= n \/ p \in out => \A l \in Ledgers : U[l][p] = 0
             /\ \A l \in Ledgers : U[l][p] \in {0, 1}
             /\ \A k, l \in Ledgers : U[k][p] = 1 /\ U[l][p] = 1 => k = l
             /\ Counts(U, p) <=> Counts(T, p)
  <2>1. /\ p >= n \/ p \in out => \A l \in Ledgers : T[l][p] = 0
        /\ \A l \in Ledgers : T[l][p] \in {0, 1}
        /\ \A k, l \in Ledgers : T[k][p] = 1 /\ T[l][p] = 1 => k = l
    BY DEF LedgersHold
  <2> QED
    BY <1>1, <1>2, <2>1 DEF Counts
<1> QED
  BY <1>3 DEF LedgersHold
=============================================================================
