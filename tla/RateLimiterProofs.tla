-------------------------- MODULE RateLimiterProofs --------------------------
(***************************************************************************)
(* The sliding-window bounds of RateLimiterLog, for every limit, every     *)
(* window, every set of users and every bound on the clock.                *)
(***************************************************************************)
EXTENDS RateLimiterLog, WellFoundedInduction, TLAPS

-----------------------------------------------------------------------------
(* What the operators of RateLimiter compute, for every queue and cutoff.    *)

(* A non-empty set of naturals has a least element.                          *)
LEMMA LeastNatural ==
    ASSUME NEW T \in SUBSET Nat, T # {}
    PROVE  \E x \in T : \A y \in T : x <= y
<1> DEFINE R == OpToRel(<, Nat)
<1>1. \A x, y \in Nat : y < x => <<y, x>> \in R
    BY DEF OpToRel
<1>2. IsWellFoundedOn(R, Nat)
    BY NatLessThanWellFounded, Zenon
<1> HIDE DEF R
<1>3. PICK x \in T : \A y \in T : ~ (<<y, x>> \in R)
    BY <1>2, WFMin
<1>4. ASSUME NEW y \in T PROVE x <= y
    <2>1. x \in Nat /\ y \in Nat OBVIOUS
    <2>2. ~ (y < x) BY <1>1, <1>3, <2>1, Zenon
    <2> QED BY <2>1, <2>2
<1> QED BY <1>4

(* What is left of a sequence when its first n elements are dropped.         *)
LEMMA DropPrefix ==
    ASSUME NEW s \in Seq(Nat), NEW n \in 0 .. Len(s)
    PROVE  /\ SubSeq(s, n + 1, Len(s)) \in Seq(Nat)
           /\ Len(SubSeq(s, n + 1, Len(s))) = Len(s) - n
           /\ \A i \in 1 .. Len(s) - n : SubSeq(s, n + 1, Len(s))[i] = s[n + i]
OBVIOUS

(* What appending does.                                                      *)
LEMMA AppendSpec ==
    ASSUME NEW s \in Seq(Nat), NEW x \in Nat
    PROVE  /\ Append(s, x) \in Seq(Nat)
           /\ Len(Append(s, x)) = Len(s) + 1
           /\ Append(s, x)[Len(s) + 1] = x
           /\ \A i \in 1 .. Len(s) : Append(s, x)[i] = s[i]
OBVIOUS

(* The loop of _trim stops at the first event inside the window, or at the   *)
(* end of the queue.                                                         *)
LEMMA TrimSpec ==
    ASSUME NEW events \in Seq(Nat), NEW cutoff \in Int
    PROVE  \E n \in 0 .. Len(events) :
               /\ Trim(events, cutoff) \in Seq(Nat)
               /\ Len(Trim(events, cutoff)) = Len(events) - n
               /\ \A i \in 1 .. Len(events) - n : Trim(events, cutoff)[i] = events[n + i]
               /\ \A i \in 1 .. n : events[i] < cutoff
               /\ n < Len(events) => events[n + 1] >= cutoff
<1> DEFINE Fresh == {i \in 1 .. Len(events) : events[i] >= cutoff}
           Stops(n) == /\ \A i \in 1 .. n : events[i] < cutoff
                       /\ n < Len(events) => events[n + 1] >= cutoff
<1>0. Len(events) \in Nat /\ \A i \in 1 .. Len(events) : events[i] \in Nat
    OBVIOUS
<1>1. \E n \in 0 .. Len(events) : Stops(n)
    <2>1. CASE Fresh = {}
        <3>1. Stops(Len(events)) BY <1>0, <2>1
        <3> QED BY <1>0, <3>1
    <2>2. CASE Fresh # {}
        <3>1. PICK m \in Fresh : \A y \in Fresh : m <= y
            <4>1. Fresh \in SUBSET Nat BY <1>0
            <4> HIDE DEF Fresh
            <4> QED BY <4>1, <2>2, LeastNatural
        <3>2. m - 1 \in 0 .. Len(events) /\ Stops(m - 1) BY <1>0, <3>1
        <3> QED BY <3>2
    <2> QED BY <2>1, <2>2
<1>2. Expired(events, cutoff) = CHOOSE n \in 0 .. Len(events) : Stops(n)
    BY DEF Expired
<1> HIDE DEF Stops
<1>3. PICK n \in 0 .. Len(events) : n = Expired(events, cutoff) /\ Stops(n)
    BY <1>1, <1>2
<1>4. Trim(events, cutoff) = SubSeq(events, n + 1, Len(events))
    BY <1>3 DEF Trim
<1>5. /\ SubSeq(events, n + 1, Len(events)) \in Seq(Nat)
      /\ Len(SubSeq(events, n + 1, Len(events))) = Len(events) - n
      /\ \A i \in 1 .. Len(events) - n : SubSeq(events, n + 1, Len(events))[i] = events[n + i]
    BY DropPrefix
<1> QED BY <1>3, <1>4, <1>5 DEF Stops

-----------------------------------------------------------------------------
(* The queues and the logs.                                                  *)

(* A tail of a remainder of a log is a remainder of that log, provided what  *)
(* was dropped is outside the window.                                        *)
LEMMA RemainderOfRemainder ==
    ASSUME NEW events \in Seq(Nat), NEW log \in Seq(Nat), NEW t \in Seq(Nat),
           NEW n \in 0 .. Len(events), now \in Nat,
           Remainder(events, log),
           Len(t) = Len(events) - n,
           \A i \in 1 .. Len(events) - n : t[i] = events[n + i],
           \A i \in 1 .. n : events[i] < now - Window
    PROVE  Remainder(t, log)
<1>1. PICK p \in Nat : p = Len(log) - Len(events)
    <2>1. Len(log) - Len(events) \in Nat BY DEF Remainder
    <2> QED BY <2>1, Zenon
<1>2. Len(log) - Len(t) = p + n
    BY <1>1
<1>3. \A i \in 1 .. Len(events) : events[i] = log[p + i]
    BY <1>1 DEF Remainder
<1>4. \A i \in 1 .. p : log[i] < now - Window
    BY <1>1 DEF Remainder
<1>5. ASSUME NEW i \in 1 .. Len(t) PROVE t[i] = log[p + n + i]
    <2>1. n + i \in 1 .. Len(events) /\ i \in 1 .. Len(events) - n OBVIOUS
    <2>2. t[i] = events[n + i] BY <2>1
    <2>3. events[n + i] = log[p + (n + i)] BY <1>3, <2>1
    <2>4. p + (n + i) = p + n + i OBVIOUS
    <2> QED BY <2>2, <2>3, <2>4
<1>6. ASSUME NEW i \in 1 .. p + n PROVE log[i] < now - Window
    <2>1. CASE i <= p BY <2>1, <1>4
    <2>2. CASE i > p
        <3>1. i - p \in 1 .. n /\ i - p \in 1 .. Len(events) BY <2>2
        <3>2. events[i - p] = log[p + (i - p)] BY <1>3, <3>1
        <3>3. p + (i - p) = i OBVIOUS
        <3> QED BY <3>1, <3>2, <3>3
    <2> QED BY <2>1, <2>2
<1>7. Len(log) - Len(t) >= 0 BY <1>2
<1>8. /\ \A i \in 1 .. Len(t) : t[i] = log[(Len(log) - Len(t)) + i]
      /\ \A i \in 1 .. (Len(log) - Len(t)) : log[i] < now - Window
    BY <1>2, <1>5, <1>6, Zenon
<1> QED BY <1>7, <1>8 DEF Remainder

(* Trimming at the current time leaves a remainder of the log.               *)
LEMMA TrimRemainder ==
    ASSUME NEW events \in Seq(Nat), NEW log \in Seq(Nat), now \in Nat,
           Remainder(events, log)
    PROVE  /\ Trim(events, now - Window) \in Seq(Nat)
           /\ Remainder(Trim(events, now - Window), log)
<1>1. now - Window \in Int BY RateAssumption
<1>2. PICK n \in 0 .. Len(events) :
          /\ Trim(events, now - Window) \in Seq(Nat)
          /\ Len(Trim(events, now - Window)) = Len(events) - n
          /\ \A i \in 1 .. Len(events) - n : Trim(events, now - Window)[i] = events[n + i]
          /\ \A i \in 1 .. n : events[i] < now - Window
    BY <1>1, TrimSpec
<1> QED BY <1>2, RemainderOfRemainder

(* Admitting appends the same time to a queue and to its log: the queue is   *)
(* still a remainder of the log, and the log is still in order.              *)
LEMMA AppendRemainder ==
    ASSUME NEW events \in Seq(Nat), NEW log \in Seq(Nat), now \in Nat,
           Remainder(events, log), Chronicle(log)
    PROVE  /\ Remainder(Append(events, now), Append(log, now))
           /\ Chronicle(Append(log, now))
<1>1. PICK p \in Nat : p = Len(log) - Len(events)
    <2>1. Len(log) - Len(events) \in Nat BY DEF Remainder
    <2> QED BY <2>1, Zenon
<1>2. PICK l \in Seq(Nat) :
          /\ l = Append(log, now)
          /\ Len(l) = Len(log) + 1
          /\ l[Len(log) + 1] = now
          /\ \A i \in 1 .. Len(log) : l[i] = log[i]
    BY AppendSpec, Zenon
<1>3. PICK e \in Seq(Nat) :
          /\ e = Append(events, now)
          /\ Len(e) = Len(events) + 1
          /\ e[Len(events) + 1] = now
          /\ \A i \in 1 .. Len(events) : e[i] = events[i]
    BY AppendSpec, Zenon
<1>4. Len(l) - Len(e) = p BY <1>1, <1>2, <1>3
<1>5. ASSUME NEW i \in 1 .. Len(e) PROVE e[i] = l[p + i]
    <2>1. CASE i = Len(events) + 1
        <3>1. p + i = Len(log) + 1 BY <1>1, <2>1
        <3> QED BY <1>2, <1>3, <2>1, <3>1
    <2>2. CASE i \in 1 .. Len(events)
        <3>1. p + i \in 1 .. Len(log) BY <1>1, <2>2
        <3>2. events[i] = log[p + i] BY <1>1, <2>2 DEF Remainder
        <3> QED BY <1>2, <1>3, <2>2, <3>1, <3>2
    <2> QED BY <1>3, <2>1, <2>2
<1>6. ASSUME NEW i \in 1 .. p PROVE l[i] < now - Window
    <2>1. i \in 1 .. Len(log) BY <1>1
    <2>2. log[i] < now - Window BY <1>1 DEF Remainder
    <2> QED BY <1>2, <2>1, <2>2
<1>7. Remainder(e, l)
    <2>1. Len(l) - Len(e) >= 0 BY <1>4
    <2>2. /\ \A i \in 1 .. Len(e) : e[i] = l[(Len(l) - Len(e)) + i]
          /\ \A i \in 1 .. (Len(l) - Len(e)) : l[i] < now - Window
        BY <1>4, <1>5, <1>6, Zenon
    <2> QED BY <2>1, <2>2 DEF Remainder
<1>8. Chronicle(l) BY <1>2 DEF Chronicle
<1> QED BY <1>2, <1>3, <1>7, <1>8

(* When the queue is below its limit after the trim, the admission keeps the *)
(* log spaced: the limit-th admission before this one has been popped.       *)
LEMMA AppendSpaced ==
    ASSUME NEW events \in Seq(Nat), NEW log \in Seq(Nat), now \in Nat,
           NEW limit \in Nat \ {0},
           Remainder(events, log), Spaced(log, limit), Len(events) < limit
    PROVE  Spaced(Append(log, now), limit)
<1>1. PICK p \in Nat : p = Len(log) - Len(events)
    <2>1. Len(log) - Len(events) \in Nat BY DEF Remainder
    <2> QED BY <2>1, Zenon
<1>2. PICK l \in Seq(Nat) :
          /\ l = Append(log, now)
          /\ Len(l) = Len(log) + 1
          /\ l[Len(log) + 1] = now
          /\ \A i \in 1 .. Len(log) : l[i] = log[i]
    BY AppendSpec, Zenon
<1>3. ASSUME NEW i \in 1 .. Len(l), i + limit <= Len(l)
      PROVE  l[i + limit] - l[i] > Window
    <2>1. CASE i + limit <= Len(log)
        <3>1. i \in 1 .. Len(log) /\ i + limit \in 1 .. Len(log) BY <2>1
        <3>2. log[i + limit] - log[i] > Window BY <2>1, <3>1 DEF Spaced
        <3> QED BY <1>2, <3>1, <3>2
    <2>2. CASE i + limit = Len(log) + 1
        <3>1. i \in 1 .. p /\ i \in 1 .. Len(log) BY <1>1, <2>2
        <3>2. log[i] < now - Window BY <1>1, <3>1 DEF Remainder
        <3>3. l[i] = log[i] /\ log[i] \in Nat BY <1>2, <3>1
        <3>4. l[i + limit] = now BY <1>2, <2>2
        <3> QED BY <3>2, <3>3, <3>4, RateAssumption
    <2>3. i + limit <= Len(log) \/ i + limit = Len(log) + 1 BY <1>2, <1>3
    <2> QED BY <2>1, <2>2, <2>3
<1> QED BY <1>2, <1>3 DEF Spaced

(* The inductive invariant: the queues are remainders of their logs, and the *)
(* logs are spaced.                                                          *)
RateInv == TypeOK /\ QueuesAreRemainders /\ GlobalWindowBound /\ UserWindowBound

(* The limiter starts with empty queues and empty logs.                      *)
LEMMA RateInvInit == Init => RateInv
<1> SUFFICES ASSUME Init PROVE RateInv OBVIOUS
<1>1. TypeOK BY DEF Init, RateInit, TypeOK
<1>2. \A s \in {<<>>} : Remainder(s, s) /\ Chronicle(s)
    BY DEF Remainder, Chronicle
<1>3. \A limit \in Nat : Spaced(<<>>, limit) BY DEF Spaced
<1>4. QueuesAreRemainders BY <1>2 DEF Init, RateInit, QueuesAreRemainders
<1>5. GlobalWindowBound /\ UserWindowBound
    BY <1>3, RateAssumption DEF Init, GlobalWindowBound, UserWindowBound
<1> QED BY <1>1, <1>4, <1>5 DEF RateInv

(* check() returning True keeps both bounds, the user's and the worker's.    *)
LEMMA RateInvAdmit ==
    ASSUME RateInv, NEW u \in Users, Admit(u)
    PROVE  RateInv'
<1>1. /\ now \in Nat /\ now' = now
      /\ globalEvents \in Seq(Nat) /\ globalLog \in Seq(Nat)
      /\ userEvents \in [Users -> Seq(Nat)] /\ userLog \in [Users -> Seq(Nat)]
    BY DEF RateInv, TypeOK, Admit, CheckAdmits
<1>2. /\ TrimmedGlobal \in Seq(Nat)
      /\ Remainder(TrimmedGlobal, globalLog)
    BY <1>1, TrimRemainder DEF RateInv, QueuesAreRemainders, TrimmedGlobal
<1>3. /\ TrimmedUser(u) \in Seq(Nat)
      /\ Remainder(TrimmedUser(u), userLog[u])
    <2>1. /\ userEvents[u] \in Seq(Nat) /\ userLog[u] \in Seq(Nat)
          /\ Remainder(userEvents[u], userLog[u])
        BY <1>1 DEF RateInv, QueuesAreRemainders
    <2> QED BY <1>1, <2>1, TrimRemainder DEF TrimmedUser
<1>4. /\ Len(TrimmedGlobal) < GlobalLimit
      /\ Len(TrimmedUser(u)) < UserLimit
    BY <1>2, <1>3, RateAssumption DEF Admit, CheckAdmits, OverLimit
<1>5. /\ globalEvents' = Append(TrimmedGlobal, now)
      /\ globalLog' = Append(globalLog, now)
      /\ userEvents' = [userEvents EXCEPT ![u] = Append(TrimmedUser(u), now)]
      /\ userLog' = [userLog EXCEPT ![u] = Append(userLog[u], now)]
    BY DEF Admit, CheckAdmits
<1>6. /\ Append(TrimmedGlobal, now) \in Seq(Nat)
      /\ Append(globalLog, now) \in Seq(Nat)
      /\ Append(TrimmedUser(u), now) \in Seq(Nat)
      /\ Append(userLog[u], now) \in Seq(Nat)
    BY <1>1, <1>2, <1>3, AppendSpec
<1>7. TypeOK' BY <1>1, <1>5, <1>6 DEF TypeOK
<1>8. /\ Remainder(Append(TrimmedGlobal, now), Append(globalLog, now))
      /\ Chronicle(Append(globalLog, now))
    BY <1>1, <1>2, AppendRemainder DEF RateInv, QueuesAreRemainders
<1>9. /\ Remainder(Append(TrimmedUser(u), now), Append(userLog[u], now))
      /\ Chronicle(Append(userLog[u], now))
    BY <1>1, <1>3, AppendRemainder DEF RateInv, QueuesAreRemainders
<1>10. Remainder(globalEvents, globalLog)' /\ Chronicle(globalLog)'
    BY <1>1, <1>5, <1>8 DEF Remainder, Chronicle
<1>11. ASSUME NEW v \in Users
       PROVE  Remainder(userEvents[v], userLog[v])' /\ Chronicle(userLog[v])'
    <2>1. CASE v = u
        <3>1. /\ userEvents'[v] = Append(TrimmedUser(u), now)
              /\ userLog'[v] = Append(userLog[u], now)
            BY <1>1, <1>5, <2>1
        <3> QED BY <1>1, <1>9, <3>1 DEF Remainder, Chronicle
    <2>2. CASE v # u
        <3>1. userEvents'[v] = userEvents[v] /\ userLog'[v] = userLog[v]
            BY <1>1, <1>5, <2>2
        <3>2. Remainder(userEvents[v], userLog[v]) /\ Chronicle(userLog[v])
            BY DEF RateInv, QueuesAreRemainders
        <3> QED BY <1>1, <3>1, <3>2 DEF Remainder, Chronicle
    <2> QED BY <2>1, <2>2
<1>12. QueuesAreRemainders' BY <1>10, <1>11 DEF QueuesAreRemainders
<1>13. GlobalWindowBound'
    <2>1. Spaced(Append(globalLog, now), GlobalLimit)
        BY <1>1, <1>2, <1>4, AppendSpaced, RateAssumption DEF RateInv, GlobalWindowBound
    <2> QED BY <1>5, <2>1 DEF GlobalWindowBound, Spaced
<1>14. ASSUME NEW v \in Users PROVE Spaced(userLog'[v], UserLimit)
    <2>1. userLog[u] \in Seq(Nat) /\ Spaced(userLog[u], UserLimit)
        BY <1>1 DEF RateInv, UserWindowBound
    <2>2. Spaced(Append(userLog[u], now), UserLimit)
        BY <1>1, <1>3, <1>4, <2>1, AppendSpaced, RateAssumption
    <2>3. CASE v = u BY <1>1, <1>5, <2>2, <2>3
    <2>4. CASE v # u BY <1>1, <1>5, <2>4 DEF RateInv, UserWindowBound
    <2> QED BY <2>3, <2>4
<1>15. UserWindowBound' BY <1>14 DEF UserWindowBound, Spaced
<1> QED BY <1>7, <1>12, <1>13, <1>15 DEF RateInv

(* check() returning False only trims: nothing is admitted.                  *)
LEMMA RateInvRefuse ==
    ASSUME RateInv, NEW u \in Users, Refuse(u)
    PROVE  RateInv'
<1>1. /\ now \in Nat /\ now' = now
      /\ globalEvents \in Seq(Nat) /\ globalLog \in Seq(Nat)
      /\ userEvents \in [Users -> Seq(Nat)] /\ userLog \in [Users -> Seq(Nat)]
      /\ globalLog' = globalLog /\ userLog' = userLog
      /\ globalEvents' = TrimmedGlobal
      /\ userEvents' = [userEvents EXCEPT ![u] = TrimmedUser(u)]
    BY DEF RateInv, TypeOK, Refuse, CheckRefuses
<1>2. /\ TrimmedGlobal \in Seq(Nat)
      /\ Remainder(TrimmedGlobal, globalLog)
    BY <1>1, TrimRemainder DEF RateInv, QueuesAreRemainders, TrimmedGlobal
<1>3. /\ TrimmedUser(u) \in Seq(Nat)
      /\ Remainder(TrimmedUser(u), userLog[u])
    <2>1. /\ userEvents[u] \in Seq(Nat) /\ userLog[u] \in Seq(Nat)
          /\ Remainder(userEvents[u], userLog[u])
        BY <1>1 DEF RateInv, QueuesAreRemainders
    <2> QED BY <1>1, <2>1, TrimRemainder DEF TrimmedUser
<1>4. TypeOK' BY <1>1, <1>2, <1>3 DEF TypeOK
<1>5. Remainder(globalEvents, globalLog)' /\ Chronicle(globalLog)'
    BY <1>1, <1>2 DEF RateInv, QueuesAreRemainders, Remainder, Chronicle
<1>6. ASSUME NEW v \in Users
      PROVE  Remainder(userEvents[v], userLog[v])' /\ Chronicle(userLog[v])'
    <2>1. Remainder(userEvents[v], userLog[v]) /\ Chronicle(userLog[v])
        BY DEF RateInv, QueuesAreRemainders
    <2>2. CASE v = u
        <3>1. userEvents'[v] = TrimmedUser(u) /\ userLog'[v] = userLog[u]
            BY <1>1, <2>2
        <3> QED BY <1>1, <1>3, <2>1, <2>2, <3>1 DEF Remainder, Chronicle
    <2>3. CASE v # u
        <3>1. userEvents'[v] = userEvents[v] /\ userLog'[v] = userLog[v]
            BY <1>1, <2>3
        <3> QED BY <1>1, <2>1, <3>1 DEF Remainder, Chronicle
    <2> QED BY <2>2, <2>3
<1>7. QueuesAreRemainders' BY <1>5, <1>6 DEF QueuesAreRemainders
<1>8. GlobalWindowBound' /\ UserWindowBound'
    BY <1>1 DEF RateInv, GlobalWindowBound, UserWindowBound, Spaced
<1> QED BY <1>4, <1>7, <1>8 DEF RateInv

(* Time only moves the window forward: what was outside stays outside.       *)
LEMMA RateInvTick ==
    ASSUME RateInv, Tick
    PROVE  RateInv'
<1>1. PICK d \in Nat : now' = now + d
    BY DEF Tick, Advance
<1>2. /\ now \in Nat /\ now' \in Nat /\ now <= now'
      /\ globalEvents \in Seq(Nat) /\ globalLog \in Seq(Nat)
      /\ userEvents \in [Users -> Seq(Nat)] /\ userLog \in [Users -> Seq(Nat)]
      /\ UNCHANGED <<globalEvents, userEvents, globalLog, userLog>>
    BY <1>1 DEF RateInv, TypeOK, Tick, Advance
<1>3. TypeOK' BY <1>2 DEF TypeOK
<1>4. ASSUME NEW e \in Seq(Nat), NEW l \in Seq(Nat), Remainder(e, l), Chronicle(l)
      PROVE  /\ Len(l) - Len(e) >= 0
             /\ \A i \in 1 .. Len(e) : e[i] = l[(Len(l) - Len(e)) + i]
             /\ \A i \in 1 .. (Len(l) - Len(e)) : l[i] < now' - Window
             /\ \A i, j \in 1 .. Len(l) : i <= j => l[i] <= l[j]
             /\ \A i \in 1 .. Len(l) : l[i] <= now'
    <2>1. ASSUME NEW i \in 1 .. (Len(l) - Len(e)) PROVE l[i] < now' - Window
        <3>1. i \in 1 .. Len(l) OBVIOUS
        <3>2. l[i] \in Nat BY <3>1
        <3>3. l[i] < now - Window BY <1>4 DEF Remainder
        <3> QED BY <1>2, <3>2, <3>3, RateAssumption
    <2>2. ASSUME NEW i \in 1 .. Len(l) PROVE l[i] <= now'
        <3>1. l[i] \in Nat /\ l[i] <= now BY <1>4 DEF Chronicle
        <3> QED BY <1>2, <3>1
    <2>3. /\ Len(l) - Len(e) >= 0
          /\ \A i \in 1 .. Len(e) : e[i] = l[(Len(l) - Len(e)) + i]
        BY <1>4 DEF Remainder
    <2>4. \A i, j \in 1 .. Len(l) : i <= j => l[i] <= l[j]
        BY <1>4 DEF Chronicle
    <2> QED BY <2>1, <2>2, <2>3, <2>4
<1>5. Remainder(globalEvents, globalLog)' /\ Chronicle(globalLog)'
    BY <1>2, <1>4 DEF RateInv, QueuesAreRemainders, Remainder, Chronicle
<1>6. ASSUME NEW v \in Users
      PROVE  Remainder(userEvents[v], userLog[v])' /\ Chronicle(userLog[v])'
    <2>1. userEvents[v] \in Seq(Nat) /\ userLog[v] \in Seq(Nat)
        BY <1>2
    <2>2. Remainder(userEvents[v], userLog[v]) /\ Chronicle(userLog[v])
        BY DEF RateInv, QueuesAreRemainders
    <2>3. userEvents'[v] = userEvents[v] /\ userLog'[v] = userLog[v]
        BY <1>2
    <2> QED BY <1>4, <2>1, <2>2, <2>3 DEF Remainder, Chronicle
<1>7. QueuesAreRemainders' BY <1>5, <1>6 DEF QueuesAreRemainders
<1>8. GlobalWindowBound' /\ UserWindowBound'
    BY <1>2 DEF RateInv, GlobalWindowBound, UserWindowBound, Spaced
<1> QED BY <1>3, <1>7, <1>8 DEF RateInv

(* Every step of the limiter preserves the invariant.                        *)
LEMMA RateInvNext == RateInv /\ [Next]_vars => RateInv'
<1> SUFFICES ASSUME RateInv, [Next]_vars PROVE RateInv' OBVIOUS
<1>1. CASE \E u \in Users : Admit(u) BY <1>1, RateInvAdmit
<1>2. CASE \E u \in Users : Refuse(u) BY <1>2, RateInvRefuse
<1>3. CASE Tick BY <1>3, RateInvTick
<1>4. CASE UNCHANGED vars
    BY <1>4 DEF vars, rateVars, RateInv, TypeOK, QueuesAreRemainders, Remainder,
                Chronicle, GlobalWindowBound, UserWindowBound, Spaced
<1> QED BY <1>1, <1>2, <1>3, <1>4 DEF Next

(* service.py:28-43, for every limit and window: at most GlobalLimit         *)
(* creations are admitted in any window, and at most UserLimit of one user;  *)
(* popping the heads of the queues loses nothing that still counts.          *)
THEOREM RateWindowBounds ==
    Spec => [](TypeOK /\ QueuesAreRemainders /\ WindowBounds)
<1>1. Spec => []RateInv BY RateInvInit, RateInvNext, PTL DEF Spec
<1> QED BY <1>1, PTL DEF RateInv, WindowBounds

(* When a queue is still full after the trim, the log itself has used up the *)
(* limit: the oldest of its last limit admissions is inside the window.      *)
LEMMA FullQueueExhausts ==
    ASSUME NEW events \in Seq(Nat), NEW log \in Seq(Nat), now \in Nat,
           NEW limit \in Nat \ {0},
           Remainder(events, log), Chronicle(log),
           Len(Trim(events, now - Window)) >= limit
    PROVE  Exhausted(log, limit)
<1>1. now - Window \in Int BY RateAssumption
<1>2. PICK n \in 0 .. Len(events) :
          /\ Len(Trim(events, now - Window)) = Len(events) - n
          /\ n < Len(events) => events[n + 1] >= now - Window
    BY <1>1, TrimSpec
<1>3. PICK p \in Nat : p = Len(log) - Len(events)
    <2>1. Len(log) - Len(events) \in Nat BY DEF Remainder
    <2> QED BY <2>1, Zenon
<1>4. n + limit <= Len(events) /\ n < Len(events) /\ n + 1 \in 1 .. Len(events)
    BY <1>2
<1>5. events[n + 1] = log[p + (n + 1)] BY <1>3, <1>4 DEF Remainder
<1>6. PICK k \in 1 .. Len(log) : k = Len(log) - limit + 1
    <2>1. Len(log) - limit + 1 \in 1 .. Len(log) BY <1>3, <1>4
    <2> QED BY <2>1, Zenon
<1>7. PICK m \in 1 .. Len(log) : m = p + (n + 1)
    <2>1. p + (n + 1) \in 1 .. Len(log) BY <1>3, <1>4
    <2> QED BY <2>1, Zenon
<1>8. m <= k BY <1>3, <1>4, <1>6, <1>7
<1>9. log[m] <= log[k] BY <1>8 DEF Chronicle
<1>10. log[m] = events[n + 1] /\ log[m] \in Nat /\ log[k] \in Nat
    BY <1>5, <1>7
<1>11. log[m] >= now - Window BY <1>2, <1>4, <1>10
<1>12. now - log[k] <= Window
    <2> DEFINE a == log[m]
               b == log[k]
    <2>1. a \in Nat /\ b \in Nat /\ a <= b /\ a >= now - Window BY <1>9, <1>10, <1>11
    <2> HIDE DEF a, b
    <2>2. now - b <= Window BY <2>1, RateAssumption
    <2> QED BY <2>2 DEF b
<1>13. Len(log) >= limit BY <1>3, <1>4
<1> QED BY <1>6, <1>12, <1>13 DEF Exhausted

(* service.py:34, for every limit and window: nobody is refused while fewer  *)
(* than the limit were admitted in the window that ends now.                 *)
THEOREM RefusalsJustified == Spec => []RefusalJustified
<1>1. ASSUME RateInv PROVE RefusalJustified
    <2> SUFFICES ASSUME NEW u \in Users, OverLimit(u)
                 PROVE  Exhausted(globalLog, GlobalLimit) \/ Exhausted(userLog[u], UserLimit)
        BY DEF RefusalJustified
    <2>1. /\ now \in Nat
          /\ globalEvents \in Seq(Nat) /\ globalLog \in Seq(Nat)
          /\ userEvents[u] \in Seq(Nat) /\ userLog[u] \in Seq(Nat)
        BY <1>1 DEF RateInv, TypeOK
    <2>2. /\ Remainder(globalEvents, globalLog) /\ Chronicle(globalLog)
          /\ Remainder(userEvents[u], userLog[u]) /\ Chronicle(userLog[u])
        BY <1>1 DEF RateInv, QueuesAreRemainders
    <2>3. CASE Len(TrimmedGlobal) >= GlobalLimit
        BY <2>1, <2>2, <2>3, FullQueueExhausts, RateAssumption DEF TrimmedGlobal
    <2>4. CASE Len(TrimmedUser(u)) >= UserLimit
        BY <2>1, <2>2, <2>4, FullQueueExhausts, RateAssumption DEF TrimmedUser
    <2> QED BY <2>3, <2>4 DEF OverLimit
<1>2. Spec => []RateInv BY RateInvInit, RateInvNext, PTL DEF Spec
<1> QED BY <1>1, <1>2, PTL
=============================================================================
