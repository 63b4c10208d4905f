--------------------------- MODULE CallbackPromise ---------------------------
(***************************************************************************)
(* What an outbox promises the host and the user, whatever its processes,  *)
(* locks, leases and retries do: a message is offered (written down)       *)
(* before it is exposed to a transport, it is exposed again only after     *)
(* proof that the host did not take it, the host takes it at most once,    *)
(* and the outbox calls delivered only what the host took                  *)
(* (docs/bidirectional-agent-protocol.md:95-105). The callback outbox of a *)
(* managed Turn (CallbackOutbox) and the outbox of an unmanaged native     *)
(* task (NativeTask) both implement it.                                    *)
(***************************************************************************)
EXTENDS Naturals

CONSTANT Messages

VARIABLES
    offered, \* messages in the event log
    exposed, \* messages that may be with the host
    taken,   \* how often the host took each message
    known    \* messages the outbox records as delivered

promise == <<offered, exposed, taken, known>>

Init == /\ offered = {} /\ exposed = {} /\ known = {}
        /\ taken = [m \in Messages |-> 0]

\* One save may offer several messages.
Offer ==
    /\ offered' \in SUBSET Messages /\ offered \subseteq offered'
    /\ UNCHANGED <<exposed, taken, known>>

Expose(m) ==
    /\ m \in offered \ exposed
    /\ exposed' = exposed \cup {m}
    /\ UNCHANGED <<offered, taken, known>>

Take(m) ==
    /\ m \in exposed /\ taken[m] = 0
    /\ taken' = [taken EXCEPT ![m] = 1]
    /\ UNCHANGED <<offered, exposed, known>>

\* A retryable failure proves that the transport never reached the host.
Refuse(m) ==
    /\ m \in exposed /\ taken[m] = 0
    /\ exposed' = exposed \ {m}
    /\ UNCHANGED <<offered, taken, known>>

Acknowledge(m) ==
    /\ taken[m] = 1 /\ m \notin known
    /\ known' = known \cup {m}
    /\ UNCHANGED <<offered, exposed, taken>>

\* The lane is handed to a later message.
Forget(m) ==
    /\ m \in known
    /\ known' = known \ {m}
    /\ UNCHANGED <<offered, exposed, taken>>

Next ==
    \/ Offer
    \/ \E m \in Messages :
        Expose(m) \/ Take(m) \/ Refuse(m) \/ Acknowledge(m) \/ Forget(m)

Spec == Init /\ [][Next]_promise
=============================================================================
