----------------------------- MODULE WriteOnce -----------------------------
(***************************************************************************)
(* What a paired phone is promised for a write (RequestClass::Write of     *)
(* remote_requests.rs): it takes effect only if it was asked for, at most  *)
(* once per action id for as long as the device stays paired, and is       *)
(* confirmed only once it has.  Nothing here knows of sessions, attempts,  *)
(* ledgers, caches, leases or restarts.                                    *)
(***************************************************************************)
EXTENDS Naturals

CONSTANTS Owners, Operations

VARIABLES
    asked,      \* <<device, action>> that a phone has sent
    done,       \* the effects, each with the pairing it happened under
    confirmed   \* <<device, action>> some phone was told the result of

promise == <<asked, done, confirmed>>

Init == asked = {} /\ done = {} /\ confirmed = {}

Ask(d, a) ==
    /\ asked' = asked \cup {<<d, a>>}
    /\ UNCHANGED <<done, confirmed>>

Perform(e) ==
    /\ <<e.device, e.action>> \in asked
    /\ \A x \in done : x.device = e.device /\ x.action = e.action => x.epoch # e.epoch
    /\ done' = done \cup {e}
    /\ UNCHANGED <<asked, confirmed>>

Confirm(d, a) ==
    /\ \E x \in done : x.device = d /\ x.action = a
    /\ confirmed' = confirmed \cup {<<d, a>>}
    /\ UNCHANGED <<asked, done>>

Effects == [device : Owners, action : Operations, epoch : Nat, token : Nat]

Next ==
    \/ \E d \in Owners, a \in Operations : Ask(d, a) \/ Confirm(d, a)
    \/ \E e \in done' \ done : e \in Effects /\ Perform(e)

Spec == Init /\ [][Next]_promise
=============================================================================
