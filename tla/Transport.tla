------------------------------ MODULE Transport ------------------------------
(***************************************************************************)
(* The multicast transport between kopach's controller, miners and workers *)
(* (pkg/comm/transport, pkg/coding/fec): a message is cut into Total       *)
(* shards, any Required of which restore it, and every shard is a UDP      *)
(* packet that carries the message's nonce.  Handle, one goroutine of the  *)
(* receiver, collects the shards of each nonce and calls the handler of    *)
(* the message.                                                            *)
(*                                                                         *)
(* Packets may be lost.  Those of one sending goroutine arrive in order;   *)
(* those of several goroutines or hosts arrive interleaved.                *)
(***************************************************************************)
EXTENDS Integers

CONSTANTS
    Messages,  \* messages sent with SendMany, each with a nonce of its own
    Before,    \* Before[m]: messages that are sent completely before m
    Handled,   \* messages whose magic has a handler at the receiver
    Total,     \* rsTotal
    Required   \* rsRequired

VARIABLES
    sent,      \* sent[m]: number of m's shards that have been sent
    received,  \* received[m]: number of them that Handle took in
    shards,    \* shards[m]: len(buffers[nonce].Buffers), 0 without an entry
    decoded,   \* messages whose entry has Decoded set
    delivered  \* delivered[m]: how often m's handler was called

vars == <<sent, received, shards, decoded, delivered>>

(***************************************************************************)
(* Handle decodes only when a shard joins an entry that exists, so one     *)
(* shard is never enough.                                                  *)
(***************************************************************************)
ASSUME TransportAssumption ==
    /\ Total \in Nat /\ Required \in 2..Total
    /\ Before \in [Messages -> SUBSET Messages]
    /\ Handled \subseteq Messages

Init ==
    /\ sent = [m \in Messages |-> 0]
    /\ received = [m \in Messages |-> 0]
    /\ shards = [m \in Messages |-> 0]
    /\ decoded = {}
    /\ delivered = [m \in Messages |-> 0]

(***************************************************************************)
(* SendMany sends the next shard of m.                                     *)
(***************************************************************************)
SendMany(m) ==
    /\ sent[m] < Total
    /\ \A e \in Before[m] : sent[e] = Total
    /\ sent' = [sent EXCEPT ![m] = @ + 1]

-----------------------------------------------------------------------------
(***************************************************************************)
(* Handle: the first shard of a nonce it has no entry for.                 *)
(***************************************************************************)
NewBuffer(m) ==
    /\ shards[m] = 0
    /\ shards' = [shards EXCEPT ![m] = 1]
    /\ UNCHANGED <<decoded, delivered>>

(***************************************************************************)
(* Handle: one more shard of a message that is not decoded yet; with       *)
(* enough of them fec.Decode restores it and its handler is called.  The   *)
(* fault tries one shard too early.                                        *)
(***************************************************************************)
CollectEarly(m) ==
    /\ shards[m] > 0
    /\ m \notin decoded
    /\ shards' = [shards EXCEPT ![m] = @ + 1]
    /\ \/ /\ shards[m] + 2 >= Required
          /\ decoded' = decoded \cup {m}
          /\ delivered' = [delivered EXCEPT ![m] = @ + 1]
       \/ /\ shards[m] + 2 < Required
          /\ UNCHANGED <<decoded, delivered>>

Collect(m) ==
    /\ shards[m] > 0
    /\ m \notin decoded
    /\ shards' = [shards EXCEPT ![m] = @ + 1]
    /\ \/ /\ shards[m] + 1 >= Required
          /\ decoded' = decoded \cup {m}
          /\ delivered' = [delivered EXCEPT ![m] = @ + 1]
       \/ /\ shards[m] + 1 < Required
          /\ UNCHANGED <<decoded, delivered>>

(***************************************************************************)
(* Handle: a shard of a decoded message.  It is dropped, and so are the    *)
(* entries of all other messages, decoded or not.  The faults drop the     *)
(* message's own entry as well, or forget to clear the flags.              *)
(***************************************************************************)
Superseded(m) == {i \in Messages : i # m \/ (i \in decoded /\ shards[i] > Total - 1)}

SupersedeAll(m) ==
    /\ m \in decoded
    /\ shards' = [i \in Messages |-> 0]
    /\ decoded' = {}
    /\ UNCHANGED delivered

SupersedeKeepsFlags(m) ==
    /\ m \in decoded
    /\ shards' = [i \in Messages |-> IF i \in Superseded(m) THEN 0 ELSE shards[i]]
    /\ UNCHANGED <<decoded, delivered>>

Supersede(m) ==
    /\ m \in decoded
    /\ shards' = [i \in Messages |-> IF i \in Superseded(m) THEN 0 ELSE shards[i]]
    /\ decoded' = decoded \ Superseded(m)
    /\ UNCHANGED delivered

-----------------------------------------------------------------------------
(***************************************************************************)
(* A shard arrives.                                                        *)
(***************************************************************************)
Arrive(m) ==
    /\ SendMany(m)
    /\ m \in Handled
    /\ received' = [received EXCEPT ![m] = @ + 1]
    /\ NewBuffer(m) \/ Collect(m) \/ Supersede(m)

(***************************************************************************)
(* A shard is lost, or arrives and Handle has no handler for its magic.    *)
(***************************************************************************)
Lose(m) ==
    /\ SendMany(m)
    /\ UNCHANGED <<received, shards, decoded, delivered>>

Next == \E m \in Messages : Arrive(m) \/ Lose(m)

Spec == Init /\ [][Next]_vars

-----------------------------------------------------------------------------
(***************************************************************************)
(* The type invariant; only an entry with enough shards is decoded, so     *)
(* deleting an entry deletes its flag.                                     *)
(***************************************************************************)
TypeOK ==
    /\ sent \in [Messages -> 0..Total]
    /\ received \in [Messages -> 0..Total]
    /\ shards \in [Messages -> 0..Total]
    /\ delivered \in [Messages -> Nat]
    /\ decoded \subseteq {m \in Handled : shards[m] >= Required}

(***************************************************************************)
(* Each call of a message's handler uses up Required shards of its own,    *)
(* however often its entry is dropped and built again, so a message is     *)
(* delivered Total \div Required times at most.                            *)
(***************************************************************************)
DeliveryNeedsShards ==
    \A m \in Messages :
        Required * delivered[m] + (IF m \in decoded THEN 0 ELSE shards[m]) <= received[m]

(***************************************************************************)
(* m shares the channel with no other message at any time.                 *)
(***************************************************************************)
Alone(m) == \A n \in Handled \ {m} : n \in Before[m] \/ m \in Before[n]

(***************************************************************************)
(* A message that shares the channel with no other is handled exactly once *)
(* if Required of its shards arrive, and not at all otherwise, whichever   *)
(* shards are lost and whatever was left in the buffers by those before.   *)
(***************************************************************************)
AloneExactlyOnce ==
    \A m \in Handled :
        Alone(m) => delivered[m] = IF received[m] >= Required THEN 1 ELSE 0

=============================================================================
