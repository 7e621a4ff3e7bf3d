------------------------- MODULE ProviderMeshProofs -------------------------
(***************************************************************************)
(* The safety properties of ProviderMesh for any providers, scans,         *)
(* thresholds and retries.  The breakers are handled one by one: a step    *)
(* changes each of them by one of the operations of its class.             *)
(***************************************************************************)
EXTENDS ProviderMesh, TLAPS

Counts(b) == b.state = "CLOSED" <=> b.failures < Threshold

LEMMA BreakerTypes ==
  ASSUME NEW b \in Breaker
  PROVE  /\ Closed \in Breaker
         /\ Allowed(b) \in Breaker
         /\ Failure(b) \in Breaker
         /\ [b EXCEPT !.cooled = TRUE] \in Breaker
<1>1. Closed \in Breaker
  BY ConstantsAssumption DEF Breaker, Closed
<1>2. Allowed(b) \in Breaker
  BY DEF Breaker, Allowed
<1>3. Failure(b) \in Breaker
  <2> DEFINE n == IF b.failures < MaxFailures THEN b.failures + 1 ELSE MaxFailures
             state == IF n >= Threshold THEN "OPEN" ELSE b.state
  <2>1. n \in 0..MaxFailures
    BY ConstantsAssumption DEF Breaker
  <2>2. state \in {"CLOSED", "OPEN", "HALF_OPEN"}
    BY DEF Breaker
  <2>3. Failure(b) = [state |-> state, failures |-> n, cooled |-> FALSE]
    BY DEF Failure
  <2> HIDE DEF n, state
  <2> QED
    BY <2>1, <2>2, <2>3 DEF Breaker
<1>4. [b EXCEPT !.cooled = TRUE] \in Breaker
  BY DEF Breaker
<1> QED
  BY <1>1, <1>2, <1>3, <1>4

\* Counting is kept by every operation of a breaker.
LEMMA BreakerOperations ==
  ASSUME NEW b \in Breaker, Counts(b)
  PROVE  /\ Counts(Closed)
         /\ Counts(Allowed(b))
         /\ Counts(Failure(b))
         /\ Counts([b EXCEPT !.cooled = TRUE])
BY ConstantsAssumption DEF Breaker, Closed, Allowed, Failure, Counts

\* What one step can make of a breaker.
Outcomes(b) ==
  {b, Closed, Allowed(b), Failure(b), Failure(Closed), [b EXCEPT !.cooled = TRUE]}

LEMMA OutcomeTypes ==
  ASSUME NEW b \in Breaker, NEW a \in Outcomes(b)
  PROVE  a \in Breaker /\ (Counts(b) => Counts(a))
BY BreakerTypes, BreakerOperations DEF Outcomes

LEMMA FinishBreaker ==
  ASSUME TypeOK, NEW c \in Calls, NEW after,
         after \in Outcomes(breaker[Provider(c)]), Finish(c, after)
  PROVE  /\ breaker' = [p \in Providers |-> breaker'[p]]
         /\ \A p \in Providers : breaker'[p] \in Outcomes(breaker[p])
BY DEF TypeOK, Finish, Outcomes

LEMMA BreakerStep ==
  TypeOK /\ Next =>
    /\ breaker' = [p \in Providers |-> breaker'[p]]
    /\ \A p \in Providers : breaker'[p] \in Outcomes(breaker[p])
<1> SUFFICES ASSUME TypeOK, Next
             PROVE  /\ breaker' = [p \in Providers |-> breaker'[p]]
                    /\ \A p \in Providers : breaker'[p] \in Outcomes(breaker[p])
  OBVIOUS
<1>1. CASE UNCHANGED breaker
  BY <1>1 DEF TypeOK, Outcomes
<1>2. CASE Poll
  BY <1>2 DEF Poll, Outcomes
<1>3. CASE Restart
  BY <1>3 DEF Restart, Outcomes
<1>4. CASE \E p \in Providers : Cool(p)
  BY <1>4 DEF Cool, TypeOK, Outcomes
<1>5. CASE \E s \in Scans, url \in BOOLEAN : BeginScan(s, url)
  BY <1>5 DEF BeginScan, Outcomes
<1>6. CASE \E c \in Calls : Start(c)
  BY <1>6 DEF Start, TypeOK, Outcomes, Calls, Provider
<1>7. ASSUME NEW c \in Calls, Answered(c)
      PROVE  /\ breaker' = [p \in Providers |-> breaker'[p]]
             /\ \A p \in Providers : breaker'[p] \in Outcomes(breaker[p])
  BY <1>7, FinishBreaker DEF Answered, Success, Outcomes
<1>8. ASSUME NEW c \in Calls, Failed(c)
      PROVE  /\ breaker' = [p \in Providers |-> breaker'[p]]
             /\ \A p \in Providers : breaker'[p] \in Outcomes(breaker[p])
  BY <1>8, FinishBreaker DEF Failed, Outcomes
<1>9. ASSUME NEW c \in Calls, Unparsed(c)
      PROVE  /\ breaker' = [p \in Providers |-> breaker'[p]]
             /\ \A p \in Providers : breaker'[p] \in Outcomes(breaker[p])
  BY <1>9, FinishBreaker DEF Unparsed, Success, Outcomes
<1>10. Purge => UNCHANGED breaker
  BY DEF Purge
<1>11. \A s \in Scans : Gather(s) => UNCHANGED breaker
  BY DEF Gather
<1>12. \A c \in Calls : Retry(c) \/ Fetch(c) \/ Expire(c) => UNCHANGED breaker
  BY DEF Retry, Fetch, Expire
<1> QED
  BY <1>1, <1>2, <1>3, <1>4, <1>5, <1>6, <1>7, <1>8, <1>9, <1>10, <1>11, <1>12
  DEF Next

-----------------------------------------------------------------------------
LEMMA PurgedType == image \in [Calls -> Image] => Purged \in [Calls -> Image]
BY DEF Purged, Image

CallState == {IdleCall, DoneCall} \cup Queued \cup Sent

LEMMA FinishType ==
  ASSUME TypeOK, NEW c \in Calls, NEW after, Finish(c, after)
  PROVE  /\ call' \in [Calls -> CallState]
         /\ image' \in [Calls -> Image]
         /\ reachable' = reachable
BY DEF TypeOK, Finish, Reply, CallState, Image

LEMMA TypeStep == TypeOK /\ [Next]_vars => TypeOK'
<1> SUFFICES ASSUME TypeOK, [Next]_vars PROVE TypeOK'
  OBVIOUS
<1>1. CASE UNCHANGED vars
  BY <1>1 DEF vars, TypeOK
<1>2. CASE Next
  <2>1. breaker' \in [Providers -> Breaker]
    BY <1>2, BreakerStep, OutcomeTypes DEF TypeOK
  <2> SUFFICES /\ call' \in [Calls -> CallState]
               /\ image' \in [Calls -> Image]
               /\ reachable' \in BOOLEAN
    BY <2>1 DEF TypeOK, CallState
  <2>2. CASE Poll
    BY <2>2 DEF Poll, TypeOK, CallState
  <2>3. CASE Purge
    BY <2>3, PurgedType DEF Purge, TypeOK, CallState
  <2>4. CASE Restart
    BY <2>4 DEF Restart, CallState, Image
  <2>5. CASE \E p \in Providers : Cool(p)
    BY <2>5 DEF Cool, TypeOK, CallState
  <2>6. CASE \E s \in Scans, url \in BOOLEAN : BeginScan(s, url)
    BY <2>6 DEF BeginScan, TypeOK, CallState, Queued
  <2>7. CASE \E s \in Scans : Gather(s)
    BY <2>7 DEF Gather, TypeOK, CallState
  <2>8. CASE \E c \in Calls : Start(c)
    <3> PICK c \in Calls : Start(c)
      BY <2>8
    <3>1. call' \in [Calls -> CallState]
      BY ConstantsAssumption DEF Start, Reply, TypeOK, CallState, Sent
    <3>2. image' \in [Calls -> Image]
      BY PurgedType DEF Start, TypeOK, Image
    <3> QED
      BY <3>1, <3>2 DEF Start, TypeOK
  <2>9. CASE \E c \in Calls : Retry(c)
    <3> PICK c \in Calls : Retry(c)
      BY <2>9
    <3>1. call[c] \in Sent
      BY DEF Retry, TypeOK, IdleCall, DoneCall, Queued, Sent
    <3>2. [call[c] EXCEPT !.attempt = @ + 1] \in Sent
      BY <3>1, ConstantsAssumption DEF Retry, Sent
    <3> QED
      BY <3>2 DEF Retry, TypeOK, CallState
  <2>10. CASE \E c \in Calls : Answered(c) \/ Failed(c) \/ Unparsed(c)
    BY <2>10, FinishType DEF Answered, Failed, Unparsed, TypeOK
  <2>11. CASE \E c \in Calls : Fetch(c)
    BY <2>11, PurgedType DEF Fetch, TypeOK, CallState, Image
  <2>12. CASE \E c \in Calls : Expire(c)
    BY <2>12 DEF Expire, TypeOK, CallState, Image
  <2> QED
    BY <1>2, <2>2, <2>3, <2>4, <2>5, <2>6, <2>7, <2>8, <2>9, <2>10, <2>11, <2>12
    DEF Next
<1> QED
  BY <1>1, <1>2

\* The variables of the provider mesh have the shape the code gives them.
THEOREM TypeCorrect == Spec => []TypeOK
<1>1. Init => TypeOK
  BY ConstantsAssumption DEF Init, TypeOK, Closed, Breaker, Image
<1> QED
  BY <1>1, TypeStep, PTL DEF Spec

-----------------------------------------------------------------------------
LEMMA CountsStep == TypeOK /\ BreakerCounts /\ [Next]_vars => BreakerCounts'
<1> SUFFICES ASSUME TypeOK, BreakerCounts, [Next]_vars,
                    NEW p \in Providers
             PROVE  Counts(breaker'[p])
  BY DEF BreakerCounts, Counts
<1>1. breaker[p] \in Breaker /\ Counts(breaker[p])
  BY DEF TypeOK, BreakerCounts, Counts
<1>2. breaker'[p] \in Outcomes(breaker[p])
  BY BreakerStep DEF vars, Outcomes
<1> QED
  BY <1>1, <1>2, OutcomeTypes

\* A breaker (class CircuitBreaker) is closed exactly while it has counted fewer
\* failures than its threshold, whichever calls overlap.
THEOREM Counting == Spec => []BreakerCounts
<1>1. Init => BreakerCounts
  BY ConstantsAssumption DEF Init, BreakerCounts, Closed
<1> QED
  BY <1>1, TypeCorrect, CountsStep, PTL DEF Spec

-----------------------------------------------------------------------------
LEMMA FinishImages ==
  ASSUME TypeOK, ImagesWithdrawn, NEW c \in Calls, NEW after, Finish(c, after)
  PROVE  ImagesWithdrawn'
BY DEF TypeOK, ImagesWithdrawn, Finish, Reply

LEMMA ImagesStep == TypeOK /\ ImagesWithdrawn /\ [Next]_vars => ImagesWithdrawn'
<1> SUFFICES ASSUME TypeOK, ImagesWithdrawn, [Next]_vars PROVE ImagesWithdrawn'
  OBVIOUS
<1>1. CASE UNCHANGED vars
  BY <1>1 DEF vars, ImagesWithdrawn
<1>2. CASE Poll
  BY <1>2 DEF Poll, ImagesWithdrawn
<1>3. CASE Purge
  BY <1>3 DEF Purge, Purged, ImagesWithdrawn
<1>4. CASE Restart
  BY <1>4 DEF Restart, ImagesWithdrawn
<1>5. CASE \E p \in Providers : Cool(p)
  BY <1>5 DEF Cool, ImagesWithdrawn
<1>6. CASE \E s \in Scans, url \in BOOLEAN : BeginScan(s, url)
  BY <1>6 DEF BeginScan, ImagesWithdrawn
<1>7. CASE \E s \in Scans : Gather(s)
  BY <1>7 DEF Gather, InFlight, ImagesWithdrawn
<1>8. CASE \E c \in Calls : Start(c)
  <2> PICK c \in Calls : Start(c)
    BY <1>8
  <2>1. CASE ~Admits(breaker[Provider(c)])
    BY <2>1 DEF Start, Reply, TypeOK, ImagesWithdrawn
  <2>2. CASE Admits(breaker[Provider(c)])
    <3>1. reachable' = reachable
      BY DEF Start
    <3>2. image'[c] # "none" /\ reachable => call'[c].at = "sent"
      <4>1. reachable => call' = [call EXCEPT ![c] = [at |-> "sent", attempt |-> 0]]
        BY <2>2 DEF Start
      <4> QED
        BY <4>1 DEF TypeOK
    <3>3. ASSUME NEW d \in Calls, d # c, image'[d] # "none", reachable
          PROVE  call'[d].at = "sent"
      <4>1. image[d] # "none"
        BY <2>2, <3>3 DEF Start, Purged, TypeOK
      <4>2. call'[d] = call[d]
        BY <3>3 DEF Start, Reply, TypeOK
      <4> QED
        BY <3>3, <4>1, <4>2 DEF ImagesWithdrawn
    <3> QED
      BY <3>1, <3>2, <3>3 DEF ImagesWithdrawn
  <2> QED
    BY <2>1, <2>2
<1>9. CASE \E c \in Calls : Retry(c)
  <2> PICK c \in Calls : Retry(c)
    BY <1>9
  <2>1. call[c] \in Sent
    BY DEF Retry, TypeOK, IdleCall, DoneCall, Queued, Sent
  <2>2. [call[c] EXCEPT !.attempt = @ + 1].at = "sent"
    BY <2>1 DEF Sent
  <2> QED
    BY <2>2 DEF Retry, TypeOK, ImagesWithdrawn
<1>10. CASE \E c \in Calls : Answered(c) \/ Failed(c) \/ Unparsed(c)
  BY <1>10, FinishImages DEF Answered, Failed, Unparsed
<1>11. CASE \E c \in Calls : Fetch(c)
  BY <1>11 DEF Fetch, Purged, TypeOK, ImagesWithdrawn
<1>12. CASE \E c \in Calls : Expire(c)
  BY <1>12 DEF Expire, TypeOK, ImagesWithdrawn
<1> QED
  BY <1>1, <1>2, <1>3, <1>4, <1>5, <1>6, <1>7, <1>8, <1>9, <1>10, <1>11, <1>12
  DEF Next

\* Where the server can be reached, a temporary image is registered only while
\* the discover call that created it waits for the provider.
THEOREM Withdrawal == Spec => []ImagesWithdrawn
<1>1. Init => ImagesWithdrawn
  BY DEF Init, ImagesWithdrawn
<1> QED
  BY <1>1, TypeCorrect, ImagesStep, PTL DEF Spec

-----------------------------------------------------------------------------
\* The calls that a step takes from another state to sent are those it starts.
LEMMA SentByStart ==
  ASSUME TypeOK, Next, NEW c \in Calls, call[c].at # "sent", call'[c].at = "sent"
  PROVE  Start(c)
<1>1. CASE UNCHANGED call
  BY <1>1
<1>2. CASE Restart
  BY <1>2 DEF Restart, IdleCall
<1>3. CASE \E s \in Scans, url \in BOOLEAN : BeginScan(s, url)
  BY <1>3 DEF BeginScan
<1>4. CASE \E s \in Scans : Gather(s)
  BY <1>4 DEF Gather, IdleCall
<1>5. ASSUME NEW d \in Calls, d # c,
             \/ Start(d) \/ Retry(d) \/ Answered(d) \/ Failed(d) \/ Unparsed(d)
      PROVE  FALSE
  BY <1>5 DEF Start, Reply, Retry, Answered, Failed, Unparsed, Finish, TypeOK
<1>6. CASE Retry(c)
  BY <1>6 DEF Retry
<1>7. CASE Answered(c) \/ Failed(c) \/ Unparsed(c)
  BY <1>7 DEF Answered, Failed, Unparsed, Finish
<1>8. Poll \/ Purge => UNCHANGED call
  BY DEF Poll, Purge
<1>9. \A p \in Providers : Cool(p) => UNCHANGED call
  BY DEF Cool
<1>10. \A d \in Calls : Fetch(d) \/ Expire(d) => UNCHANGED call
  BY DEF Fetch, Expire
<1> QED
  BY <1>1, <1>2, <1>3, <1>4, <1>5, <1>6, <1>7, <1>8, <1>9, <1>10 DEF Next

\* discover sends nothing to a provider whose breaker is open and not yet cooled,
\* also when the scan was admitted before the breaker opened.
THEOREM LoadShed == Spec => OpenShedsLoad
<1> DEFINE Sheds(c) ==
      (/\ call[c].at # "sent" /\ call'[c].at = "sent"
       /\ breaker[Provider(c)].state = "OPEN") => breaker[Provider(c)].cooled
<1>1. ASSUME TypeOK, [Next]_vars, NEW c \in Calls PROVE Sheds(c)
  <2>1. CASE UNCHANGED vars
    BY <2>1 DEF vars
  <2>2. CASE Next /\ call[c].at # "sent" /\ call'[c].at = "sent"
    <3>1. Start(c)
      BY <1>1, <2>2, SentByStart
    <3>2. Admits(breaker[Provider(c)])
      <4> SUFFICES ASSUME ~Admits(breaker[Provider(c)]) PROVE FALSE
        OBVIOUS
      <4>1. call' = [call EXCEPT ![c] = DoneCall]
        BY <3>1 DEF Start, Reply
      <4>2. call'[c] = DoneCall
        BY <1>1, <4>1 DEF TypeOK
      <4> QED
        BY <2>2, <4>2 DEF DoneCall
    <3> QED
      BY <3>2 DEF Admits, Allowed
  <2> QED
    BY <1>1, <2>1, <2>2
<1>2. TypeOK /\ [Next]_vars => [\A c \in Calls : Sheds(c)]_vars
  BY <1>1
<1> QED
  BY <1>2, TypeCorrect, PTL DEF Spec, OpenShedsLoad

-----------------------------------------------------------------------------
\* Calls end only in Answered, Failed and Unparsed.
LEMMA DoneByFinish ==
  ASSUME TypeOK, Next, NEW c \in Calls, call[c].at = "sent", call'[c] = DoneCall
  PROVE  Answered(c) \/ Failed(c) \/ Unparsed(c)
<1>1. CASE UNCHANGED call
  BY <1>1 DEF DoneCall
<1>2. CASE Restart
  BY <1>2 DEF Restart, IdleCall, DoneCall
<1>3. CASE \E s \in Scans, url \in BOOLEAN : BeginScan(s, url)
  BY <1>3 DEF BeginScan, IdleCall, DoneCall
<1>4. CASE \E s \in Scans : Gather(s)
  BY <1>4 DEF Gather, IdleCall, DoneCall
<1>5. ASSUME NEW d \in Calls, d # c,
             \/ Start(d) \/ Retry(d) \/ Answered(d) \/ Failed(d) \/ Unparsed(d)
      PROVE  FALSE
  BY <1>5 DEF Start, Reply, Retry, Answered, Failed, Unparsed, Finish, TypeOK, DoneCall
<1>6. CASE Start(c)
  BY <1>6 DEF Start
<1>7. CASE Retry(c)
  <2>1. call[c] \in Sent
    BY DEF TypeOK, IdleCall, DoneCall, Queued, Sent
  <2>2. [call[c] EXCEPT !.attempt = @ + 1].at = "sent"
    BY <2>1 DEF Sent
  <2> QED
    BY <1>7, <2>2 DEF Retry, TypeOK, DoneCall
<1>8. Poll \/ Purge => UNCHANGED call
  BY DEF Poll, Purge
<1>9. \A p \in Providers : Cool(p) => UNCHANGED call
  BY DEF Cool
<1>10. \A d \in Calls : Fetch(d) \/ Expire(d) => UNCHANGED call
  BY DEF Fetch, Expire
<1> QED
  BY <1>1, <1>2, <1>3, <1>4, <1>5, <1>6, <1>7, <1>8, <1>9, <1>10 DEF Next

\* A breaker that counts is never half open after a failure: from HALF_OPEN, one
\* failure more reaches the threshold again.
LEMMA FailureDecides ==
  ASSUME NEW b \in Breaker, Counts(b)
  PROVE  Failure(b).state # "HALF_OPEN"
<1> DEFINE n == IF b.failures < MaxFailures THEN b.failures + 1 ELSE MaxFailures
<1>1. n \in 0..MaxFailures /\ (b.failures >= Threshold => n >= Threshold)
  BY ConstantsAssumption DEF Breaker
<1>2. Failure(b).state = IF n >= Threshold THEN "OPEN" ELSE b.state
  BY Zenon DEF Failure
<1>3. b.state = "HALF_OPEN" => b.failures >= Threshold
  BY ConstantsAssumption DEF Breaker, Counts
<1> HIDE DEF n
<1> QED
  BY <1>1, <1>2, <1>3

\* Whichever call returns or raises, record_success or record_failure has left the
\* breaker of its provider closed or open.
THEOREM TrialsEnd == Spec => TrialsDecide
<1> DEFINE Decides(c) ==
      (call[c].at = "sent" /\ call'[c] = DoneCall) =>
         breaker'[Provider(c)].state # "HALF_OPEN"
<1>1. ASSUME TypeOK, BreakerCounts, [Next]_vars, NEW c \in Calls PROVE Decides(c)
  <2>1. CASE UNCHANGED vars
    BY <2>1 DEF vars, DoneCall
  <2>2. CASE Next /\ call[c].at = "sent" /\ call'[c] = DoneCall
    <3> DEFINE p == Provider(c)
    <3>1. p \in Providers /\ breaker[p] \in Breaker /\ Counts(breaker[p])
      BY <1>1 DEF TypeOK, BreakerCounts, Counts, Calls, Provider
    <3>2. Answered(c) \/ Failed(c) \/ Unparsed(c)
      BY <1>1, <2>2, DoneByFinish
    <3>3. ASSUME NEW after, Finish(c, after) PROVE breaker'[p] = after
      BY <1>1, <3>1, <3>3 DEF Finish, TypeOK
    <3>4. breaker'[p] \in {Closed, Failure(breaker[p]), Failure(Closed)}
      BY <3>2, <3>3 DEF Answered, Failed, Unparsed, Success
    <3>5. Failure(breaker[p]).state # "HALF_OPEN"
      BY <3>1, FailureDecides
    <3>6. Failure(Closed).state # "HALF_OPEN"
      BY <3>1, FailureDecides, BreakerTypes, BreakerOperations
    <3>7. Closed.state # "HALF_OPEN"
      BY DEF Closed
    <3> QED
      BY <3>4, <3>5, <3>6, <3>7
  <2> QED
    BY <1>1, <2>1, <2>2
<1>2. TypeOK /\ BreakerCounts /\ [Next]_vars => [\A c \in Calls : Decides(c)]_vars
  BY <1>1
<1> QED
  BY <1>2, TypeCorrect, Counting, PTL DEF Spec, TrialsDecide
=============================================================================
