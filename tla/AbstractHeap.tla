---------------------------- MODULE AbstractHeap ----------------------------
(***************************************************************************)
(* What rt_malloc, rt_realloc and rt_free (src/src/shared/runtime.h)       *)
(* promise to their callers: the bytes of a pointer that was handed out    *)
(* and not given back are nobody else's, and they stay where they are      *)
(* until the owner resizes or frees them.                                  *)
(***************************************************************************)
EXTENDS Integers

VARIABLES
    live,  \* the bytes asked for, of every pointer handed out
    held   \* how many pointers callers hold

Nothing == [p \in {} |-> 0]

Init == live = Nothing /\ held = 0

\* The n bytes from p on and the k bytes from q on have none in common.
Apart(p, n, q, k) == p + n <= q \/ q + k <= p

IsRoom(p, n) ==
    /\ p \in Nat \ {0} /\ n \in Nat \ {0}
    /\ \A q \in DOMAIN live \ {p} : Apart(p, n, q, live[q])

Allocate(p, n) ==
    /\ p \notin DOMAIN live
    /\ IsRoom(p, n)
    /\ live' = [q \in DOMAIN live \cup {p} |-> IF q = p THEN n ELSE live[q]]
    /\ held' = held + 1

Resize(p, n) ==
    /\ p \in DOMAIN live
    /\ IsRoom(p, n)
    /\ live' = [live EXCEPT ![p] = n]
    /\ UNCHANGED held

Release(p) ==
    /\ p \in DOMAIN live
    /\ live' = [q \in DOMAIN live \ {p} |-> live[q]]
    /\ held' = held - 1

\* Which address and which size: those that live' adds or changes.
Next ==
    \/ \E p \in DOMAIN live' : Allocate(p, live'[p]) \/ Resize(p, live'[p])
    \/ \E p \in DOMAIN live : Release(p)

Spec == Init /\ [][Next]_<<live, held>>
=============================================================================
