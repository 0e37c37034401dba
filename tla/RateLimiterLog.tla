--------------------------- MODULE RateLimiterLog ---------------------------
(***************************************************************************)
(* RateLimiter on its own, with a history of what it admitted, so that the *)
(* promise of a rate limit can be stated: a limit on every window of time, *)
(* wherever the window starts, not on the queue the code happens to keep.  *)
(***************************************************************************)
EXTENDS RateLimiter

CONSTANTS MaxTime, MaxStep     \* bounds on the clock and on one advance of it

VARIABLES
    globalLog,      \* history: the time of every admission, in order
    userLog         \* history: the same for each user

vars == <<rateVars, globalLog, userLog>>

Init == /\ RateInit
        /\ globalLog = <<>>
        /\ userLog = [u \in Users |-> <<>>]

Admit(u) == /\ CheckAdmits(u)
            /\ globalLog' = Append(globalLog, now)
            /\ userLog' = [userLog EXCEPT ![u] = Append(@, now)]

Refuse(u) == CheckRefuses(u) /\ UNCHANGED <<globalLog, userLog>>

Tick == \E d \in 1 .. MaxStep :
            /\ now + d <= MaxTime
            /\ Advance(d)
            /\ UNCHANGED <<globalLog, userLog>>

Next == \/ \E u \in Users : Admit(u)
        \/ \E u \in Users : Refuse(u)
        \/ Tick

Spec == Init /\ [][Next]_vars

-----------------------------------------------------------------------------
(* The clock and the queues hold times; the logs record times in order.      *)
TypeOK == /\ now \in Nat
          /\ globalEvents \in Seq(Nat)
          /\ userEvents \in [Users -> Seq(Nat)]
          /\ globalLog \in Seq(Nat)
          /\ userLog \in [Users -> Seq(Nat)]

(* Admissions are spaced so that no closed interval of Window ticks holds    *)
(* more than limit of them: the (i+limit)-th comes later than Window after   *)
(* the i-th.                                                                 *)
Spaced(log, limit) ==
    \A i \in 1 .. Len(log) :
        i + limit <= Len(log) => log[i + limit] - log[i] > Window

GlobalWindowBound == Spaced(globalLog, GlobalLimit)
UserWindowBound == \A u \in Users : Spaced(userLog[u], UserLimit)

(* RateLimiter.check, service.py:28-38: the worker admits at most            *)
(* GlobalLimit creations in any window of 60 seconds, not only in windows    *)
(* aligned with a minute or with a trim, and at most UserLimit of each user, *)
(* whatever the other users do.                                              *)
WindowBounds == GlobalWindowBound /\ UserWindowBound

(* RateLimiter.check, service.py:34: a refusal is justified.  When a user    *)
(* would be refused now, the limit is really used up: one of the two logs    *)
(* already has limit admissions in the Window that ends now.                 *)
Exhausted(log, limit) ==
    /\ Len(log) >= limit
    /\ now - log[Len(log) - limit + 1] <= Window

RefusalJustified ==
    \A u \in Users :
        OverLimit(u) => \/ Exhausted(globalLog, GlobalLimit)
                        \/ Exhausted(userLog[u], UserLimit)

(* A queue is what is left of its log after the expired head was popped.     *)
Remainder(events, log) ==
    LET popped == Len(log) - Len(events)
    IN /\ popped >= 0
       /\ \A i \in 1 .. Len(events) : events[i] = log[popped + i]
       /\ \A i \in 1 .. popped : log[i] < now - Window

(* Times are logged in order, and none of them is in the future.             *)
Chronicle(log) ==
    /\ \A i, j \in 1 .. Len(log) : i <= j => log[i] <= log[j]
    /\ \A i \in 1 .. Len(log) : log[i] <= now

(* RateLimiter._trim, service.py:40-43: popping the expired head forgets     *)
(* nothing that still counts.  Each queue is the tail of what was admitted,  *)
(* and all that was popped from it is outside the window for ever.           *)
QueuesAreRemainders ==
    /\ Remainder(globalEvents, globalLog) /\ Chronicle(globalLog)
    /\ \A u \in Users : Remainder(userEvents[u], userLog[u]) /\ Chronicle(userLog[u])
=============================================================================
