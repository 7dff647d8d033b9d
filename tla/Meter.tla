-------------------------------- MODULE Meter --------------------------------
(***************************************************************************)
(* What a rate limit promises to the holder of an API key: an account that *)
(* is refilled at every tick of the clock, up to its capacity, and pays    *)
(* Cost for every request that is admitted.  There is no stored time of a  *)
(* last refill and nothing expires.                                        *)
(*                                                                         *)
(* A request is judged when it has been under way for a while.  Nothing but*)
(* the refill of that while may be missed in the verdict, or be granted    *)
(* once more; for a request that is judged at once this is the token bucket*)
(* of the textbooks.                                                       *)
(*                                                                         *)
(* RateLimiter implements this module (see RateLimiter!Ideal).             *)
(***************************************************************************)
EXTENDS Integers

CONSTANTS Requests,  \* slots for requests
          Capacity,  \* what the account holds at most, and at first
          Rate,      \* what a tick adds
          Cost,      \* what a request pays
          Slack,     \* how long a request may be under way
          Idle       \* the age of no request

VARIABLES credit,    \* the account
          age,       \* age[r]: the ticks that request r has been under way
          count      \* requests admitted since somebody began to count

vars == <<credit, age, count>>

Capped(c) == IF c <= Capacity THEN c ELSE Capacity

Init == credit = Capacity /\ age = [r \in Requests |-> Idle] /\ count = 0

Tick ==
    /\ \A r \in Requests : age[r] # Idle => age[r] < Slack
    /\ credit' = Capped(credit + Rate)
    /\ age' = [r \in Requests |-> IF age[r] = Idle THEN Idle ELSE age[r] + 1]
    /\ UNCHANGED count

Send(r) ==
    /\ age[r] = Idle
    /\ age' = [age EXCEPT ![r] = 0]
    /\ UNCHANGED <<credit, count>>

\* An admitted request pays, and finds what it pays.
Admit(r) ==
    /\ credit >= Cost
    /\ credit' \in credit - Cost .. Capped(credit - Cost + Rate * age[r])
    /\ count' = count + 1

\* A request is refused only if it cannot pay without the refill of the time
\* it was under way.
Refuse(r) ==
    /\ credit < Cost + Rate * age[r]
    /\ credit' \in credit .. Capped(credit + Rate * age[r])
    /\ UNCHANGED count

Answer(r) ==
    /\ age[r] # Idle
    /\ age' = [age EXCEPT ![r] = Idle]
    /\ Admit(r) \/ Refuse(r)

Recount == count' = 0 /\ UNCHANGED <<credit, age>>

Next == Tick \/ Recount \/ \E r \in Requests : Send(r) \/ Answer(r)

Spec == Init /\ [][Next]_vars
=============================================================================
