---------------------------- MODULE EventDelivery ----------------------------
(***************************************************************************)
(* What the ingest buffer promises to its callers, with no channel, no     *)
(* lock and no goroutine in sight.  A call hands over a group of events    *)
(* and is answered; an event that entered the buffer is queued until it    *)
(* is settled exactly once, as delivered or as dropped; a stop completes   *)
(* only when nothing is queued any more.                                   *)
(***************************************************************************)
EXTENDS Naturals

CONSTANTS
    Calls,  \* the calls that hand over a group of events
    Size    \* Size[c]: how many events call c hands over

Events == UNION {{c} \X (1..Size[c]) : c \in Calls}

EventsOf(c) == {e \in Events : e[1] = c}

VARIABLES
    answer, \* answer[c]: what call c was told so far
    fate,   \* fate[e]: where event e stands
    phase   \* is the buffer open, stopping or stopped

vars == <<answer, fate, phase>>

Answers == {"none", "accepted", "refused", "aborted"}
Fates == {"outside", "queued", "delivered", "dropped"}
Phases == {"open", "stopping", "stopped"}

Queued == {e \in Events : fate[e] = "queued"}

Init ==
    /\ answer = [c \in Calls |-> "none"]
    /\ fate = [e \in Events |-> "outside"]
    /\ phase = "open"

\* An event of an unanswered call enters the buffer, once, while it is open.
Admit(e) ==
    /\ phase = "open"
    /\ answer[e[1]] = "none"
    /\ fate[e] = "outside"
    /\ fate' = [fate EXCEPT ![e] = "queued"]
    /\ UNCHANGED <<answer, phase>>

\* "accepted" stands for every event of the call.
Accept(c) ==
    /\ answer[c] = "none"
    /\ \A e \in EventsOf(c) : fate[e] # "outside"
    /\ answer' = [answer EXCEPT ![c] = "accepted"]
    /\ UNCHANGED <<fate, phase>>

\* "refused" means that not one event of the call was taken.
Refuse(c) ==
    /\ answer[c] = "none"
    /\ \A e \in EventsOf(c) : fate[e] = "outside"
    /\ answer' = [answer EXCEPT ![c] = "refused"]
    /\ UNCHANGED <<fate, phase>>

\* A call that a stop overtakes has no answer, and part of it may be inside.
Abort(c) ==
    /\ phase # "open"
    /\ answer[c] = "none"
    /\ answer' = [answer EXCEPT ![c] = "aborted"]
    /\ UNCHANGED <<fate, phase>>

\* A group of queued events is settled together, and for good.
Settle(group, outcome) ==
    /\ group # {}
    /\ fate' = [e \in Events |-> IF e \in group THEN outcome ELSE fate[e]]
    /\ UNCHANGED <<answer, phase>>

BeginStop ==
    /\ phase = "open"
    /\ phase' = "stopping"
    /\ UNCHANGED <<answer, fate>>

FinishStop ==
    /\ phase = "stopping"
    /\ Queued = {}
    /\ phase' = "stopped"
    /\ UNCHANGED <<answer, fate>>

Next ==
    \/ \E e \in Events : Admit(e)
    \/ \E c \in Calls : Accept(c) \/ Refuse(c) \/ Abort(c)
    \/ \E group \in SUBSET Queued, outcome \in {"delivered", "dropped"} :
         Settle(group, outcome)
    \/ BeginStop
    \/ FinishStop

Spec == Init /\ [][Next]_vars

==============================================================================
