---------------------------- MODULE DurableStore ----------------------------
(***************************************************************************)
(* What a database promises to the code above it: transactions are applied *)
(* as a whole or not at all, and a crash takes the state back to one that  *)
(* was current before, never to a part of a transaction.                   *)
(***************************************************************************)
CONSTANTS
    Keys,      \* blocks and metadata keys
    Values,    \* what may be stored under them
    None       \* nothing

VARIABLES
    current,   \* what a transaction that begins now sees
    durable,   \* what a crash leaves
    pending    \* the changes of the open transaction; a key it removes is in
               \* pending.remove

vars == <<current, durable, pending>>

NoChanges == [put |-> [k \in Keys |-> None], remove |-> {}]

Apply(s, changes) ==
    [k \in Keys |-> IF k \in changes.remove THEN None
                    ELSE IF changes.put[k] # None THEN changes.put[k] ELSE s[k]]

Init ==
    /\ current = [k \in Keys |-> None]
    /\ durable = current
    /\ pending = NoChanges

Put(k, v) ==
    /\ pending' = [put |-> [pending.put EXCEPT ![k] = v], remove |-> pending.remove \ {k}]
    /\ UNCHANGED <<current, durable>>

Delete(k) ==
    /\ pending' = [put |-> [pending.put EXCEPT ![k] = None],
                   remove |-> pending.remove \cup {k}]
    /\ UNCHANGED <<current, durable>>

(***************************************************************************)
(* A transaction takes effect, and may become durable at once if all       *)
(* before it are; or it is given up.                                       *)
(***************************************************************************)
Commit ==
    /\ current' = Apply(current, pending)
    /\ durable' = durable \/ (durable = current /\ durable' = current')
    /\ pending' = NoChanges

GiveUp ==
    /\ pending' = NoChanges
    /\ UNCHANGED <<current, durable>>

Flush ==
    /\ durable' = current
    /\ UNCHANGED <<current, pending>>

Crash ==
    /\ current' = durable
    /\ pending' = NoChanges
    /\ UNCHANGED durable

Next ==
    \/ \E k \in Keys : Delete(k) \/ \E v \in Values : Put(k, v)
    \/ Commit \/ GiveUp \/ Flush \/ Crash

Spec == Init /\ [][Next]_vars
=============================================================================
