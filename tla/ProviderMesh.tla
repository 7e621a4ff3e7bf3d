---------------------------- MODULE ProviderMesh ----------------------------
(***************************************************************************)
(* The reverse image search providers of one server process: a circuit     *)
(* breaker per provider, the retried HTTP calls behind it, and the         *)
(* registry of temporary images that the providers' crawlers fetch.        *)
(*                                                                         *)
(* execute_parallel_discovery starts one call per ready provider and waits *)
(* for all of them.  The process is a single event loop: what a call does  *)
(* between two awaits is one step, and other scans run in between.  The    *)
(* breakers and the registry live in memory and are lost in a restart.     *)
(***************************************************************************)
EXTENDS Integers, FiniteSets

CONSTANTS
  Providers,
  Scans,        \* scans that can be in flight together
  Threshold,    \* failure_threshold of a breaker
  MaxRetries,   \* max_retries of a call
  MaxFailures   \* bound: where a breaker's failure counter saturates

VARIABLES
  breaker,      \* the circuit breaker of each provider
  call,         \* the call of each scan to each provider
  image,        \* the temporary image that each call registered
  reachable     \* whether PUBLIC_BASE_URL is not a local host name

vars == <<breaker, call, image, reachable>>

ASSUME ConstantsAssumption ==
  /\ Threshold \in Nat \ {0} /\ MaxFailures \in Nat /\ Threshold <= MaxFailures
  /\ MaxRetries \in Nat

-----------------------------------------------------------------------------
Calls == Scans \X Providers

Of(s)       == {s} \X Providers
Provider(c) == c[2]

\* "cooled": recovery_timeout_seconds have passed since the last failure.
Breaker ==
  [state : {"CLOSED", "OPEN", "HALF_OPEN"}, failures : 0..MaxFailures,
   cooled : BOOLEAN]

\* A call is queued as a task, sent (waiting for an answer or backing off), and
\* done when it has returned or raised; "url" says whether the reference image
\* has a URL of its own and needs no temporary image.
IdleCall == [at |-> "idle"]
DoneCall == [at |-> "done"]
Queued   == [at : {"queued"}, url : BOOLEAN]
Sent     == [at : {"sent"}, attempt : 0..MaxRetries]

\* A temporary image past its expires_at stays registered until the next purge.
Image == {"none", "live", "expired"}

InFlight(c) == call[c].at \in {"queued", "sent"}

Closed == [state |-> "CLOSED", failures |-> 0, cooled |-> FALSE]

-----------------------------------------------------------------------------
(* The circuit breaker. *)

\* allow_request: merely asking moves a breaker that has cooled to HALF_OPEN.
Allowed(b) ==
  IF b.state = "OPEN" /\ b.cooled THEN [b EXCEPT !.state = "HALF_OPEN"] ELSE b

\* What allow_request and get_status then answer, for a provider with a key.
Admits(b) == Allowed(b).state # "OPEN"

\* Seeded fault: one failure too many before the breaker opens.
FailureLate(b) ==
  LET n == IF b.failures < MaxFailures THEN b.failures + 1 ELSE MaxFailures IN
    [state |-> IF n > Threshold THEN "OPEN" ELSE b.state,
     failures |-> n, cooled |-> FALSE]

\* record_failure.
Failure(b) ==
  LET n == IF b.failures < MaxFailures THEN b.failures + 1 ELSE MaxFailures IN
    [state |-> IF n >= Threshold THEN "OPEN" ELSE b.state,
     failures |-> n, cooled |-> FALSE]

\* record_success resets the breaker, whatever has opened it.
Success(b) == Closed

-----------------------------------------------------------------------------
(* The registry of temporary images. *)

\* _purge_expired, which every access to the registry begins with.
Purged == [c \in Calls |-> IF image[c] = "expired" THEN "none" ELSE image[c]]

Init ==
  /\ breaker = [p \in Providers |-> Closed]
  /\ call = [c \in Calls |-> IdleCall]
  /\ image = [c \in Calls |-> "none"]
  /\ reachable \in BOOLEAN

\* get_provider_statuses, which several endpoints call: it asks every breaker.
Poll ==
  /\ breaker' = [p \in Providers |-> Allowed(breaker[p])]
  /\ UNCHANGED <<call, image, reachable>>

\* execute_parallel_discovery starts a task for every provider that is READY.
\* Bound: a scan with an image left in the registry starts no further calls.
BeginScan(s, url) ==
  /\ \A c \in Of(s) : call[c] = IdleCall /\ image[c] = "none"
  /\ \E p \in Providers : Admits(breaker[p])
  /\ breaker' = [p \in Providers |-> Allowed(breaker[p])]
  /\ call' = [c \in Calls |->
       IF c \in Of(s) /\ Admits(breaker[Provider(c)])
       THEN [at |-> "queued", url |-> url] ELSE call[c]]
  /\ UNCHANGED <<image, reachable>>

Reply(c) == call' = [call EXCEPT ![c] = DoneCall]

\* Seeded fault: discover relies on the status that was read before.
StartUnchecked(c) ==
  /\ call[c].at = "queued"
  /\ call' = [call EXCEPT ![c] = [at |-> "sent", attempt |-> 0]]
  /\ IF call[c].url THEN UNCHANGED image
     ELSE image' = [Purged EXCEPT ![c] = "live"]
  /\ UNCHANGED <<breaker, reachable>>

\* Seeded fault: a call waits until its breaker lets it through.
StartWaiting(c) ==
  LET p == Provider(c) IN
    /\ call[c].at = "queued"
    /\ Admits(breaker[p])
    /\ breaker' = [breaker EXCEPT ![p] = Allowed(@)]
    /\ image' = IF call[c].url THEN image ELSE [Purged EXCEPT ![c] = "live"]
    /\ IF call[c].url \/ reachable
       THEN call' = [call EXCEPT ![c] = [at |-> "sent", attempt |-> 0]]
       ELSE Reply(c)
    /\ UNCHANGED reachable

\* discover runs up to its first await.  If the breaker has opened since the scan
\* began, it returns no results.  A temporary image on a local host is refused
\* by an exception outside the try block that would remove it.
Start(c) ==
  LET p == Provider(c) IN
    /\ call[c].at = "queued"
    /\ breaker' = [breaker EXCEPT ![p] = Allowed(@)]
    /\ \/ /\ ~Admits(breaker[p])
          /\ Reply(c)
          /\ UNCHANGED image
       \/ /\ Admits(breaker[p])
          /\ image' = IF call[c].url THEN image
                      ELSE [Purged EXCEPT ![c] = "live"]
          /\ IF call[c].url \/ reachable
             THEN call' = [call EXCEPT ![c] = [at |-> "sent", attempt |-> 0]]
             ELSE Reply(c)
    /\ UNCHANGED reachable

\* A transient error (429, 5xx, timeout or network) while retries are left.
Retry(c) ==
  /\ call[c].at = "sent"
  /\ call[c].attempt < MaxRetries
  /\ call' = [call EXCEPT ![c].attempt = @ + 1]
  /\ UNCHANGED <<breaker, image, reachable>>

\* Seeded fault: a call that opens its breaker does not remove its image.
FinishKept(c, after) ==
  /\ call[c].at = "sent"
  /\ breaker' = [breaker EXCEPT ![Provider(c)] = after]
  /\ image' = IF after.state = "CLOSED" THEN [image EXCEPT ![c] = "none"] ELSE image
  /\ Reply(c)
  /\ UNCHANGED reachable

\* The finally block: the call returns or raises, and its image is deleted.
Finish(c, after) ==
  /\ call[c].at = "sent"
  /\ breaker' = [breaker EXCEPT ![Provider(c)] = after]
  /\ image' = [image EXCEPT ![c] = "none"]
  /\ Reply(c)
  /\ UNCHANGED reachable

Answered(c) == Finish(c, Success(breaker[Provider(c)]))

\* A refusal (401, 403, another 4xx) or invalid JSON, without a retry, or a
\* transient error on the last attempt.
Failed(c) == Finish(c, Failure(breaker[Provider(c)]))

\* A body that the parser stumbles over: success is on record by then.
Unparsed(c) == Finish(c, Failure(Success(breaker[Provider(c)])))

\* The gather of a scan returns when all its calls have.
Gather(s) ==
  /\ \A c \in Of(s) : ~InFlight(c)
  /\ \E c \in Of(s) : call[c] = DoneCall
  /\ call' = [c \in Calls |-> IF c \in Of(s) THEN IdleCall ELSE call[c]]
  /\ UNCHANGED <<breaker, image, reachable>>

\* A crawler fetches a temporary image.  Accesses are not counted here: any may
\* be the one too many, which removes the image.
Fetch(c) ==
  /\ image[c] = "live"
  /\ \E left \in {"live", "none"} : image' = [Purged EXCEPT ![c] = left]
  /\ UNCHANGED <<breaker, call, reachable>>

\* A fetch that finds nothing, or active_count, also purges.
Purge ==
  /\ image' = Purged
  /\ UNCHANGED <<breaker, call, reachable>>

\* Time passes.
Expire(c) ==
  /\ image[c] = "live"
  /\ image' = [image EXCEPT ![c] = "expired"]
  /\ UNCHANGED <<breaker, call, reachable>>

Cool(p) ==
  /\ breaker[p].state = "OPEN"
  /\ breaker' = [breaker EXCEPT ![p].cooled = TRUE]
  /\ UNCHANGED <<call, image, reachable>>

\* The process dies and starts again, perhaps with another PUBLIC_BASE_URL.
Restart ==
  /\ breaker' = [p \in Providers |-> Closed]
  /\ call' = [c \in Calls |-> IdleCall]
  /\ image' = [c \in Calls |-> "none"]
  /\ reachable' \in BOOLEAN

Next ==
  \/ Poll
  \/ Purge
  \/ Restart
  \/ \E p \in Providers : Cool(p)
  \/ \E s \in Scans, url \in BOOLEAN : BeginScan(s, url)
  \/ \E s \in Scans : Gather(s)
  \/ \E c \in Calls :
       \/ Start(c)
       \/ Retry(c)
       \/ Answered(c)
       \/ Failed(c)
       \/ Unparsed(c)
       \/ Fetch(c)
       \/ Expire(c)

\* The event loop runs every task that is ready, and every attempt ends, because
\* the HTTP client has a timeout; nothing makes a provider answer well.
Fairness ==
  /\ \A c \in Calls :
       /\ WF_vars(Start(c))
       /\ WF_vars(Retry(c) \/ Answered(c) \/ Failed(c) \/ Unparsed(c))
  /\ \A s \in Scans : WF_vars(Gather(s))

Spec == Init /\ [][Next]_vars /\ Fairness

-----------------------------------------------------------------------------
(* Properties. *)

TypeOK ==
  /\ breaker \in [Providers -> Breaker]
  /\ call \in [Calls -> {IdleCall, DoneCall} \cup Queued \cup Sent]
  /\ image \in [Calls -> Image]
  /\ reachable \in BOOLEAN

\* A breaker is closed exactly as long as it has counted less than the threshold,
\* whatever overlapping calls, late answers and polls have done to it.
BreakerCounts ==
  \A p \in Providers :
    breaker[p].state = "CLOSED" <=> breaker[p].failures < Threshold

\* A temporary image is registered only while its call waits for the provider,
\* where the server can be reached at all.
ImagesWithdrawn ==
  \A c \in Calls : (reachable /\ image[c] # "none") => call[c].at = "sent"

\* An open breaker sheds load: no call is sent to its provider before it has
\* cooled, not even by a scan that began before it opened.
OpenShedsLoad ==
  [][\A c \in Calls :
       (/\ call[c].at # "sent" /\ call'[c].at = "sent"
        /\ breaker[Provider(c)].state = "OPEN") => breaker[Provider(c)].cooled]_vars

\* A trial decides: whichever call ends, however many were let in, its provider's
\* breaker is open or closed afterwards, never half open.
TrialsDecide ==
  [][\A c \in Calls :
       (call[c].at = "sent" /\ call'[c] = DoneCall) =>
         breaker'[Provider(c)].state # "HALF_OPEN"]_vars

\* Every scan gets an answer for all its calls, even if every provider fails.
ScansReturn ==
  \A s \in Scans :
    (\E c \in Of(s) : call[c] # IdleCall) ~> (\A c \in Of(s) : call[c] = IdleCall)
=============================================================================
