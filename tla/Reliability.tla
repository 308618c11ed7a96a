---------------------------- MODULE Reliability ----------------------------
(***************************************************************************)
(* HTTPClientWithReliability.Do: the limiter, the circuit breaker around   *)
(* the whole loop of attempts, the sleep between two attempts.             *)
(*                                                                         *)
(* Of gobreaker v0.5 the model has its three states, the counts and the    *)
(* expiry of a generation, and that a result is ignored when it comes in a *)
(* later generation than the call began in.  A clock ticks in units of     *)
(* time; what is left of a generation or of a sleep counts down.           *)
(***************************************************************************)
EXTENDS Integers, FiniteSets

CONSTANTS
    Calls,      \* goroutines that use the client
    WithBody,   \* those whose requests have a body
    Configs,    \* the configurations considered
    MaxCounted  \* bound: calls counted in one generation

\* RetryConfig and CircuitBreakerConfig; gobreaker takes zero for Permitted as one.
IsConfig(k) ==
    /\ DOMAIN k = {"retries", "backoff", "interval", "wait", "minCalls", "threshold", "permitted"}
    /\ k.retries \in Nat /\ k.backoff \in Nat
    /\ k.interval \in Nat /\ k.wait \in Nat
    /\ k.minCalls \in Nat /\ k.threshold \in Nat /\ k.permitted \in Nat \ {0}

ASSUME ReliabilityConstants ==
    /\ WithBody \subseteq Calls
    /\ \A k \in Configs : IsConfig(k)
    /\ MaxCounted \in Nat

VARIABLES
    conf,      \* the configuration; never changes
    breaker,   \* of gobreaker: its state, the time left of the generation (-1 when
               \* it is past), the counts (successes in half-open only),
               \* and the calls begun in this generation that go on
    pc,        \* Do: "idle", "send", "sleep", "won" or "lost"
    attempt,   \* i of the loop
    nap,       \* what is left of time.Sleep
    spent,     \* calls whose request has had its body read
    kept,      \* of net/http: an answer has left a connection open for reuse
    received   \* how often the server has had a request with a body whole; for the
               \* properties

vars == <<conf, breaker, pc, attempt, nap, spent, kept, received>>

-----------------------------------------------------------------------------
(* gobreaker. *)

\* setState and toNewGeneration.
NewGeneration(s) ==
    [state |-> s,
     left |-> CASE s = "closed" -> conf.interval
                [] s = "open" -> conf.wait
                [] s = "half-open" -> -1,
     requests |-> 0, failures |-> 0, successes |-> 0,
     begun |-> {}]

\* The expiry is zero, for no expiry, in half-open and for an interval of zero.
Expired ==
    /\ breaker.left < 0
    /\ \/ breaker.state = "open"
       \/ breaker.state = "closed" /\ conf.interval # 0

\* currentState: every call of the breaker goes through it.
Current ==
    IF Expired
      THEN NewGeneration(IF breaker.state = "open" THEN "half-open" ELSE "closed")
      ELSE breaker

\* beforeRequest lets a call in.
Admits(b) ==
    /\ b.state # "open"
    /\ b.state = "half-open" => b.requests < conf.permitted

\* Mutant of ReadyToTrip: any failure trips.
ReadyToTripAny(b) == b.failures > 0 /\ b.requests >= conf.minCalls

\* The share of failures among the calls begun, in hundredths.
ReadyToTrip(b) ==
    /\ b.requests >= conf.minCalls
    /\ b.failures * 100 >= conf.threshold * b.requests

OnSuccess(b) ==
    LET counted == [b EXCEPT !.successes = @ + 1] IN
    IF b.state = "half-open"
      THEN IF counted.successes >= conf.permitted THEN NewGeneration("closed") ELSE counted
      ELSE b

OnFailure(b) ==
    LET counted == [b EXCEPT !.failures = @ + 1] IN
    IF b.state = "half-open" \/ ReadyToTrip(counted)
      THEN NewGeneration("open")
      ELSE counted

\* afterRequest: a result of an older generation is ignored.
After(b, c, success) ==
    LET others == [b EXCEPT !.begun = @ \ {c}] IN
    IF c \in b.begun
      THEN IF success THEN OnSuccess(others) ELSE OnFailure(others)
      ELSE b

-----------------------------------------------------------------------------
(* Do. *)

Init ==
    /\ conf \in Configs
    /\ breaker = NewGeneration("closed")
    /\ pc = [c \in Calls |-> "idle"]
    /\ attempt = [c \in Calls |-> 0]
    /\ nap = [c \in Calls |-> 0]
    /\ spent = {}
    /\ kept = FALSE
    /\ received = [c \in WithBody |-> 0]

\* A request.  rateLimiter.Wait delays it, or answers 429 and changes nothing; then
\* Execute lets it in, or answers ErrOpenState or ErrTooManyRequests.
Enter(c) ==
    /\ pc[c] = "idle"
    /\ Current.requests < MaxCounted
    /\ IF Admits(Current)
         THEN /\ breaker' = [Current EXCEPT !.requests = @ + 1, !.begun = @ \cup {c}]
              /\ pc' = [pc EXCEPT ![c] = "send"]
         ELSE /\ breaker' = Current
              /\ UNCHANGED pc
    /\ UNCHANGED <<conf, attempt, nap, spent, kept, received>>

\* Mutant of Sendable: the body is read again from its start.
SendableAgain(c) == TRUE

\* The body of a request is a buffer that the first attempt reads to its end.  A
\* later attempt fails on the length that was announced; over a connection used
\* before, though, net/http takes the buffer from its start and sends the request.
Sendable(c) == c \notin spent \/ kept

\* The server has the whole request.
Received(c) ==
    /\ Sendable(c)
    /\ received' = [d \in WithBody |-> IF d = c THEN received[d] + 1 ELSE received[d]]
    /\ spent' = spent \cup ({c} \cap WithBody)

\* The server does not get the whole request, and its body was read or was not.
NotReceived(c) ==
    /\ spent' \in {spent, spent \cup ({c} \cap WithBody)}
    /\ UNCHANGED received

\* The server answers, and its connection may be used again.
Answer(c) ==
    /\ Received(c)
    /\ kept' \in {kept, TRUE}

\* A code that is not retryable ends the loop, as a success.
Answered(c) ==
    /\ pc[c] = "send"
    /\ Answer(c)
    /\ pc' = [pc EXCEPT ![c] = "won"]
    /\ UNCHANGED <<conf, breaker, attempt, nap>>

\* Mutant of Again: no sleep between the attempts.
AgainAtOnce(c) ==
    IF attempt[c] < conf.retries
      THEN /\ attempt' = [attempt EXCEPT ![c] = @ + 1]
           /\ UNCHANGED <<pc, nap>>
      ELSE /\ pc' = [pc EXCEPT ![c] = "lost"]
           /\ UNCHANGED <<attempt, nap>>

\* Mutant of Again: the loop runs once more than RetryConfig allows.
AgainAlways(c) ==
    IF attempt[c] <= conf.retries
      THEN /\ pc' = [pc EXCEPT ![c] = "sleep"]
           /\ nap' = [nap EXCEPT ![c] = conf.backoff]
           /\ UNCHANGED attempt
      ELSE /\ pc' = [pc EXCEPT ![c] = "lost"]
           /\ UNCHANGED <<attempt, nap>>

\* Sleep unless it was the last attempt.
Again(c) ==
    IF attempt[c] < conf.retries
      THEN /\ pc' = [pc EXCEPT ![c] = "sleep"]
           /\ nap' = [nap EXCEPT ![c] = conf.backoff]
           /\ UNCHANGED attempt
      ELSE /\ pc' = [pc EXCEPT ![c] = "lost"]
           /\ UNCHANGED <<attempt, nap>>

\* A retryable code.
Retryable(c) ==
    /\ pc[c] = "send"
    /\ Answer(c)
    /\ Again(c)
    /\ UNCHANGED <<conf, breaker>>

\* An error of client.Do: a refused connection, a timeout, a request that was
\* cancelled, a body that was read before.
Failed(c) ==
    /\ pc[c] = "send"
    /\ Received(c) \/ NotReceived(c)
    /\ Again(c)
    /\ UNCHANGED <<conf, breaker, kept>>

\* The sleep is over; continue.
Retry(c) ==
    /\ pc[c] = "sleep"
    /\ nap[c] = 0
    /\ pc' = [pc EXCEPT ![c] = "send"]
    /\ attempt' = [attempt EXCEPT ![c] = @ + 1]
    /\ UNCHANGED <<conf, breaker, nap, spent, kept, received>>

\* The next request is a new one.
Forget(c) ==
    /\ attempt' = [attempt EXCEPT ![c] = 0]
    /\ spent' = spent \ {c}
    /\ received' = [d \in WithBody |-> IF d = c THEN 0 ELSE received[d]]

\* Mutant of Return: the breaker is not told of a trial call that failed.
ReturnUntold(c) ==
    /\ pc[c] \in {"won", "lost"}
    /\ breaker' = IF pc[c] = "lost" /\ Current.state = "half-open" THEN Current
                  ELSE After(Current, c, pc[c] = "won")
    /\ pc' = [pc EXCEPT ![c] = "idle"]
    /\ Forget(c)
    /\ UNCHANGED <<conf, nap, kept>>

\* The function given to Execute returns, and Do.
Return(c) ==
    /\ pc[c] \in {"won", "lost"}
    /\ breaker' = After(Current, c, pc[c] = "won")
    /\ pc' = [pc EXCEPT ![c] = "idle"]
    /\ Forget(c)
    /\ UNCHANGED <<conf, nap, kept>>

\* A unit of time passes.
Tick ==
    /\ breaker' = [breaker EXCEPT !.left = IF @ < 0 THEN @ ELSE @ - 1]
    /\ nap' = [c \in Calls |-> IF nap[c] = 0 THEN 0 ELSE nap[c] - 1]
    /\ UNCHANGED <<conf, pc, attempt, spent, kept, received>>

Step(c) == Answered(c) \/ Retryable(c) \/ Failed(c) \/ Retry(c) \/ Return(c)

Next ==
    \/ \E c \in Calls : Enter(c) \/ Step(c)
    \/ Tick

Spec == Init /\ [][Next]_vars

\* Time passes, and http.Client.Timeout ends every attempt.
Fairness == WF_vars(Tick) /\ \A c \in Calls : WF_vars(Step(c))

FairSpec == Spec /\ Fairness

-----------------------------------------------------------------------------
(* Properties. *)

TypeOK ==
    /\ conf \in Configs
    /\ breaker \in [state : {"closed", "half-open", "open"}, left : Int,
                    requests : Nat, failures : Nat, successes : Nat,
                    begun : SUBSET Calls]
    /\ breaker.left >= -1
    /\ pc \in [Calls -> {"idle", "send", "sleep", "won", "lost"}]
    /\ attempt \in [Calls -> Nat]
    /\ \A c \in Calls : attempt[c] <= conf.retries
    /\ nap \in [Calls -> Nat]
    /\ spent \subseteq WithBody
    /\ kept \in BOOLEAN
    /\ received \in [WithBody -> Nat]

\* The sleeps of a call that fails outlast the window of the breaker.
Slow(k) == k.interval # 0 /\ k.retries * k.backoff > k.interval

\* The breaker wraps the whole loop of attempts, so with the retries and the window
\* of config.yaml no failure is ever counted, and however many calls fail, of
\* however many goroutines, the breaker never leaves closed.
NeverTrips == Slow(conf) => breaker.state = "closed"

\* Attempts are made again for requests with a body too, the POST and DELETE of the
\* bot.  To repeat one that the server has had whole takes an answer, to this call or
\* another, that left a connection open: with a server that takes requests in and
\* does not answer, each arrives once at most.
RepeatNeedsAnswer == \A c \in WithBody : received[c] > 1 => kept

\* With the threshold of config.yaml, 100, the breaker opens only on a generation of
\* nothing but failures: a call that is on its way counts against opening.
OpensUnanimously ==
    [][ breaker.state = "closed" /\ breaker'.state = "open" /\ conf.threshold >= 100
        => /\ \E c \in Calls : breaker.begun = {c} /\ pc[c] = "lost"
           /\ breaker.failures + 1 = breaker.requests ]_vars

\* A half-open breaker that admits no more calls does not stay so: what it let in
\* returns, and its results are counted.
HalfOpenDecides ==
    (breaker.state = "half-open" /\ breaker.requests >= conf.permitted)
    ~> (breaker.state # "half-open")
=============================================================================
