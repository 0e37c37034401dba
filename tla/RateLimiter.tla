----------------------------- MODULE RateLimiter -----------------------------
(***************************************************************************)
(* The sliding-window limiter of src/bo_vpn_agent/service.py (class        *)
(* RateLimiter): one queue of acceptance times for the whole worker and    *)
(* one for each Telegram user.  check() is called by create_task with the  *)
(* worker's lock held, so each outcome of it is one atomic step.           *)
(***************************************************************************)
EXTENDS Integers, Sequences

CONSTANTS
    Users,          \* Telegram user ids
    GlobalLimit,    \* config.global_create_limit_per_minute
    UserLimit,      \* config.user_create_limit_per_minute
    Window          \* the 60 seconds of check(), in ticks of the model's clock

ASSUME RateAssumption == /\ GlobalLimit \in Nat \ {0}
                         /\ UserLimit \in Nat \ {0}
                         /\ Window \in Nat

VARIABLES
    now,            \* time.monotonic()
    globalEvents,   \* global_events: acceptance times, oldest first
    userEvents      \* user_events: the same, one queue for each user

rateVars == <<now, globalEvents, userEvents>>

RateInit == /\ now = 0
            /\ globalEvents = <<>>
            /\ userEvents = [u \in Users |-> <<>>]

(* The number of events at the head of the queue that _trim pops: the while  *)
(* loop stops at the first one that is not older than the cutoff.            *)
Expired(events, cutoff) ==
    CHOOSE n \in 0 .. Len(events) :
        /\ \A i \in 1 .. n : events[i] < cutoff
        /\ n < Len(events) => events[n + 1] >= cutoff

(* Variant for mutation: the comparison of _trim is events[0] <= cutoff.     *)
TrimAtCutoff(events, cutoff) == SelectSeq(events, LAMBDA e : e > cutoff)

(* Variant for mutation: _trim is not called.                                *)
TrimNothing(events, cutoff) == events

Trim(events, cutoff) == SubSeq(events, Expired(events, cutoff) + 1, Len(events))

TrimmedGlobal == Trim(globalEvents, now - Window)
TrimmedUser(u) == Trim(userEvents[u], now - Window)

OverLimit(u) == \/ Len(TrimmedGlobal) >= GlobalLimit
                \/ Len(TrimmedUser(u)) >= UserLimit

(* check() returns True: the trimmed queues each gain the current time.      *)
CheckAdmits(u) ==
    /\ ~ OverLimit(u)
    /\ globalEvents' = Append(TrimmedGlobal, now)
    /\ userEvents' = [userEvents EXCEPT ![u] = Append(TrimmedUser(u), now)]
    /\ UNCHANGED now

(* check() returns False: the queues have been trimmed all the same.         *)
CheckRefuses(u) ==
    /\ OverLimit(u)
    /\ globalEvents' = TrimmedGlobal
    /\ userEvents' = [userEvents EXCEPT ![u] = TrimmedUser(u)]
    /\ UNCHANGED now

(* Time passes.  It is the monotonic clock: it never goes back.              *)
Advance(d) == /\ now' = now + d
              /\ UNCHANGED <<globalEvents, userEvents>>
=============================================================================
