------------------------- MODULE ReliabilityProofs -------------------------
(***************************************************************************)
(* For every set of goroutines and of configurations: the types of         *)
(* Reliability, that a request with a body repeats only after an answer,   *)
(* that a breaker whose window is shorter than the sleeps of a call never  *)
(* opens, and that with a threshold of 100 only failures open one.         *)
(***************************************************************************)
EXTENDS Reliability, FiniteSetTheorems, TLAPS

States == {"closed", "half-open", "open"}

Breakers == [state : States, left : Int, requests : Nat, failures : Nat,
             successes : Nat, begun : SUBSET Calls]

-----------------------------------------------------------------------------
(* The operators of gobreaker. *)

\* A new generation is a breaker in the state asked for, with no call in it.
LEMMA NewGenerationType ==
    ASSUME conf \in Configs, NEW s \in States
    PROVE  /\ NewGeneration(s) \in Breakers
           /\ NewGeneration(s).left >= -1
           /\ NewGeneration(s).state = s
           /\ NewGeneration(s).begun = {}
<1>1. IsConfig(conf)
  BY ReliabilityConstants
<1>2. conf.interval \in Nat /\ conf.wait \in Nat
  BY <1>1 DEF IsConfig
<1>. QED
  BY <1>2 DEF NewGeneration, Breakers, States

\* What the operations do to a breaker leaves it a breaker.
LEMMA UpdateType ==
    ASSUME NEW b \in Breakers, b.left >= -1
    PROVE  /\ \A c \in Calls :
                /\ [b EXCEPT !.begun = @ \ {c}] \in Breakers
                /\ [b EXCEPT !.begun = @ \ {c}].left >= -1
                /\ [b EXCEPT !.requests = @ + 1, !.begun = @ \cup {c}] \in Breakers
                /\ [b EXCEPT !.requests = @ + 1, !.begun = @ \cup {c}].left >= -1
           /\ [b EXCEPT !.successes = @ + 1] \in Breakers
           /\ [b EXCEPT !.successes = @ + 1].left >= -1
           /\ [b EXCEPT !.failures = @ + 1] \in Breakers
           /\ [b EXCEPT !.failures = @ + 1].left >= -1
<1>1. ASSUME NEW c \in Calls
      PROVE  /\ [b EXCEPT !.begun = @ \ {c}] \in Breakers
             /\ [b EXCEPT !.begun = @ \ {c}].left = b.left
  BY DEF Breakers
<1>2. ASSUME NEW c \in Calls
      PROVE  /\ [b EXCEPT !.requests = @ + 1, !.begun = @ \cup {c}] \in Breakers
             /\ [b EXCEPT !.requests = @ + 1, !.begun = @ \cup {c}].left = b.left
  <2>. DEFINE e == [b EXCEPT !.requests = @ + 1]
  <2>1. e \in Breakers /\ e.left = b.left /\ e.begun = b.begun
    BY DEF Breakers
  <2>. HIDE DEF e
  <2>2. /\ [e EXCEPT !.begun = b.begun \cup {c}] \in Breakers
        /\ [e EXCEPT !.begun = b.begun \cup {c}].left = b.left
    BY <2>1 DEF Breakers
  <2>. QED
    BY <2>2 DEF e
<1>3. /\ [b EXCEPT !.successes = @ + 1] \in Breakers
      /\ [b EXCEPT !.successes = @ + 1].left = b.left
  BY DEF Breakers
<1>4. /\ [b EXCEPT !.failures = @ + 1] \in Breakers
      /\ [b EXCEPT !.failures = @ + 1].left = b.left
  BY DEF Breakers
<1>. QED
  BY <1>1, <1>2, <1>3, <1>4

\* currentState keeps the types.
LEMMA CurrentType ==
    ASSUME conf \in Configs, breaker \in Breakers, breaker.left >= -1
    PROVE  Current \in Breakers /\ Current.left >= -1
<1>1. NewGeneration("half-open") \in Breakers /\ NewGeneration("half-open").left >= -1
  BY NewGenerationType DEF States
<1>2. NewGeneration("closed") \in Breakers /\ NewGeneration("closed").left >= -1
  BY NewGenerationType DEF States
<1>. QED
  BY <1>1, <1>2 DEF Current

\* afterRequest keeps the types.
LEMMA AfterType ==
    ASSUME conf \in Configs, NEW b \in Breakers, b.left >= -1, NEW c \in Calls,
           NEW success \in BOOLEAN
    PROVE  After(b, c, success) \in Breakers /\ After(b, c, success).left >= -1
<1>1. /\ NewGeneration("closed") \in Breakers /\ NewGeneration("closed").left >= -1
      /\ NewGeneration("open") \in Breakers /\ NewGeneration("open").left >= -1
  BY NewGenerationType DEF States
<1>2. ASSUME NEW d \in Breakers, d.left >= -1
      PROVE  /\ OnSuccess(d) \in Breakers /\ OnSuccess(d).left >= -1
             /\ OnFailure(d) \in Breakers /\ OnFailure(d).left >= -1
  BY <1>1, <1>2, UpdateType DEF OnSuccess, OnFailure
<1>3. /\ [b EXCEPT !.begun = @ \ {c}] \in Breakers
      /\ [b EXCEPT !.begun = @ \ {c}].left >= -1
  BY UpdateType
<1>. QED
  BY <1>2, <1>3 DEF After

-----------------------------------------------------------------------------
(* Types. *)

\* A call that sleeps has an attempt left, and a goroutine begins with the first.
Inv ==
    /\ TypeOK
    /\ \A c \in Calls : /\ pc[c] = "sleep" => attempt[c] < conf.retries
                        /\ pc[c] = "idle" => attempt[c] = 0

LEMMA InitInv == Init => Inv
<1>. SUFFICES ASSUME Init PROVE Inv
  OBVIOUS
<1>1. NewGeneration("closed") \in Breakers /\ NewGeneration("closed").left >= -1
  BY NewGenerationType DEF Init, States
<1>2. IsConfig(conf)
  BY ReliabilityConstants DEF Init
<1>3. kept \in BOOLEAN
  BY Zenon DEF Init
<1>. QED
  BY <1>1, <1>2, <1>3 DEF Init, Inv, TypeOK, Breakers, States, IsConfig

LEMMA AnswerKeeps == ASSUME Inv, NEW c \in Calls, Answer(c) PROVE kept' \in BOOLEAN
<1>1. kept \in BOOLEAN /\ (kept' = kept \/ kept' = TRUE)
  BY Zenon DEF Inv, TypeOK, Answer
<1>. QED
  BY <1>1, Zenon

LEMMA NextInv == Inv /\ [Next]_vars => Inv'
<1>. SUFFICES ASSUME Inv, [Next]_vars PROVE Inv'
  OBVIOUS
<1>0. IsConfig(conf) /\ WithBody \subseteq Calls
  BY ReliabilityConstants DEF Inv, TypeOK
<1>a. breaker \in Breakers /\ breaker.left >= -1 /\ conf \in Configs
  BY DEF Inv, TypeOK, Breakers, States
<1>b. Current \in Breakers /\ Current.left >= -1
  BY <1>a, CurrentType
<1>1. ASSUME NEW c \in Calls, Enter(c) PROVE Inv'
  <2>1. breaker' \in Breakers /\ breaker'.left >= -1
    BY <1>1, <1>b, UpdateType DEF Enter
  <2>. QED
    BY <1>1, <2>1 DEF Enter, Inv, TypeOK, Breakers, States
<1>2. ASSUME NEW c \in Calls, Answered(c) PROVE Inv'
  <2>1. kept' \in BOOLEAN
    BY <1>2, AnswerKeeps DEF Answered
  <2>. QED
    BY <1>2, <2>1 DEF Answered, Answer, Received, Inv, TypeOK
<1>3. ASSUME NEW c \in Calls, Retryable(c) \/ Failed(c) PROVE Inv'
  <2>1. spent' \subseteq WithBody /\ received' \in [WithBody -> Nat]
    <3>1. Received(c) \/ NotReceived(c)
      BY <1>3 DEF Retryable, Answer, Failed
    <3>. QED
      BY <3>1 DEF Received, NotReceived, Inv, TypeOK
  <2>3. kept' \in BOOLEAN
    <3>1. CASE Retryable(c)
      BY <3>1, AnswerKeeps DEF Retryable
    <3>2. CASE Failed(c)
      BY <3>2 DEF Failed, Inv, TypeOK
    <3>. QED
      BY <1>3, <3>1, <3>2
  <2>2. conf.backoff \in Nat
    BY <1>0 DEF IsConfig
  <2>. QED
    BY <1>3, <2>1, <2>2, <2>3 DEF Retryable, Failed, Again, Inv, TypeOK
<1>4. ASSUME NEW c \in Calls, Retry(c) PROVE Inv'
  <2>1. conf.retries \in Nat
    BY <1>0 DEF IsConfig
  <2>. QED
    BY <1>4, <2>1 DEF Retry, Inv, TypeOK
<1>5. ASSUME NEW c \in Calls, Return(c) PROVE Inv'
  <2>1. breaker' \in Breakers /\ breaker'.left >= -1
    BY <1>5, <1>a, <1>b, AfterType DEF Return
  <2>2. conf.retries \in Nat
    BY <1>0 DEF IsConfig
  <2>. QED
    BY <1>5, <2>1, <2>2 DEF Return, Forget, Inv, TypeOK, Breakers, States
<1>6. CASE Tick
  <2>1. breaker' \in Breakers /\ breaker'.left >= -1
    BY <1>6, <1>a DEF Tick, Breakers
  <2>2. nap' \in [Calls -> Nat]
    BY <1>6 DEF Tick, Inv, TypeOK
  <2>. QED
    BY <1>6, <2>1, <2>2 DEF Tick, Inv, TypeOK, Breakers, States
<1>7. CASE UNCHANGED vars
  BY <1>7 DEF vars, Inv, TypeOK
<1>. QED
  BY <1>1, <1>2, <1>3, <1>4, <1>5, <1>6, <1>7 DEF Next, Step

\* The variables have their types: the time left of a generation never falls below
\* -1, and no call makes more attempts than RetryConfig allows.
THEOREM TypeCorrect == Spec => []TypeOK
<1>1. Inv => TypeOK
  BY DEF Inv
<1>. QED
  BY <1>1, InitInv, NextInv, PTL DEF Spec

-----------------------------------------------------------------------------
(* Bodies. *)

\* Until an answer leaves a connection open, what the server has had whole was read
\* to its end, and was had once.
BodyInv ==
    ~kept => \A c \in WithBody : received[c] \in {0, 1} /\ (received[c] = 1 => c \in spent)

LEMMA NextBody == Inv /\ BodyInv /\ [Next]_vars => BodyInv'
<1>. SUFFICES ASSUME Inv, BodyInv, [Next]_vars PROVE BodyInv'
  OBVIOUS
<1>1. ASSUME NEW c \in Calls, Received(c), kept' \in {kept, TRUE} PROVE BodyInv'
  <2>1. kept' = kept \/ kept' = TRUE
    BY <1>1, Zenon
  <2>2. CASE kept' = TRUE
    BY <2>2, Zenon DEF BodyInv
  <2>3. CASE kept' = kept
    BY <1>1, <2>3 DEF Received, Sendable, BodyInv, Inv, TypeOK
  <2>. QED
    BY <2>1, <2>2, <2>3
<1>2. ASSUME NEW c \in Calls, NotReceived(c), UNCHANGED kept PROVE BodyInv'
  BY <1>2 DEF NotReceived, BodyInv
<1>3. ASSUME NEW c \in Calls, Step(c) PROVE BodyInv'
  <2>1. CASE Answered(c) \/ Retryable(c)
    BY <1>1, <2>1 DEF Answered, Retryable, Answer
  <2>2. CASE Failed(c)
    BY <1>1, <1>2, <2>2 DEF Failed
  <2>3. CASE Retry(c)
    BY <2>3 DEF Retry, BodyInv
  <2>4. CASE Return(c)
    BY <2>4 DEF Return, Forget, BodyInv
  <2>. QED
    BY <1>3, <2>1, <2>2, <2>3, <2>4 DEF Step
<1>4. ASSUME NEW c \in Calls, Enter(c) PROVE BodyInv'
  BY <1>4 DEF Enter, BodyInv
<1>5. CASE Tick \/ UNCHANGED vars
  BY <1>5 DEF Tick, vars, BodyInv
<1>. QED
  BY <1>3, <1>4, <1>5 DEF Next

\* However often the loop of Do sends a request with a body, the server gets it whole
\* a second time only after an answer has left a connection open for reuse.
THEOREM RepeatAfterAnswer == Spec => []RepeatNeedsAnswer
<1>1. Init => BodyInv
  BY DEF Init, BodyInv
<1>2. Inv /\ BodyInv => RepeatNeedsAnswer
  BY DEF BodyInv, RepeatNeedsAnswer, Inv, TypeOK
<1>. QED
  BY <1>1, <1>2, InitInv, NextInv, NextBody, PTL DEF Spec

-----------------------------------------------------------------------------
(* The breaker that never opens. *)

\* The time that the sleeps before its failure take a call at least.
Ahead(c) ==
    IF pc[c] = "send" THEN (conf.retries - attempt[c]) * conf.backoff
    ELSE IF pc[c] = "sleep" THEN nap[c] + (conf.retries - attempt[c] - 1) * conf.backoff
    ELSE 0

\* A call that may still fail outlasts the generation it began in.
SlowInv ==
    Slow(conf) =>
        /\ breaker.state = "closed"
        /\ breaker.left <= conf.interval
        /\ \A c \in breaker.begun :
             /\ pc[c] # "idle"
             /\ pc[c] # "won" => Ahead(c) > breaker.left

\* One sleep less.
LEMMA OneLess ==
    ASSUME NEW n \in Int, NEW d \in Int
    PROVE  n * d = d + (n - 1) * d
OBVIOUS

LEMMA ProductNat ==
    ASSUME NEW n \in Nat, NEW d \in Nat
    PROVE  n * d \in Nat
OBVIOUS

\* currentState in a breaker that is closed.
LEMMA ClosedCurrent ==
    ASSUME Inv, breaker.state = "closed"
    PROVE  /\ Current.state = "closed"
           /\ \/ Current = breaker /\ ~Expired
              \/ Current.begun = {} /\ Current.left = conf.interval
<1>1. NewGeneration("closed").state = "closed" /\ NewGeneration("closed").begun = {}
  BY NewGenerationType DEF Inv, TypeOK, States
<1>2. NewGeneration("closed").left = conf.interval
  BY DEF NewGeneration
<1>. QED
  BY <1>1, <1>2 DEF Current

LEMMA InitSlow == Init => SlowInv
<1>. SUFFICES ASSUME Init PROVE SlowInv
  OBVIOUS
<1>1. IsConfig(conf) /\ NewGeneration("closed").left = conf.interval
  BY ReliabilityConstants DEF Init, NewGeneration
<1>2. NewGeneration("closed").state = "closed" /\ NewGeneration("closed").begun = {}
  BY NewGenerationType DEF Init, States
<1>. QED
  BY <1>1, <1>2 DEF Init, SlowInv, IsConfig

\* Nothing changes the configuration.
LEMMA ConfStays == [Next]_vars => conf' = conf
<1>1. ASSUME NEW c \in Calls, Step(c) PROVE conf' = conf
  BY <1>1 DEF Step, Answered, Retryable, Failed, Retry, Return
<1>2. ASSUME NEW c \in Calls, Enter(c) PROVE conf' = conf
  BY <1>2 DEF Enter
<1>. QED
  BY <1>1, <1>2 DEF Next, Tick, vars

LEMMA NextSlow == Inv /\ Inv' /\ SlowInv /\ [Next]_vars => SlowInv'
<1>. SUFFICES ASSUME Inv, Inv', SlowInv, [Next]_vars, Slow(conf)
              PROVE  SlowInv'
  BY ConfStays DEF SlowInv, Slow
<1>a. /\ conf.retries \in Nat /\ conf.backoff \in Nat /\ conf.interval \in Nat
      /\ conf.interval # 0
      /\ conf.retries * conf.backoff > conf.interval
      /\ conf' = conf
  BY ReliabilityConstants, ConfStays DEF Inv, TypeOK, IsConfig, Slow
<1>b. /\ breaker.state = "closed"
      /\ breaker.left \in Int /\ breaker.left >= -1 /\ breaker.left <= conf.interval
  BY DEF SlowInv, Inv, TypeOK
<1>c. /\ Current.state = "closed"
      /\ \/ Current = breaker /\ ~Expired
         \/ Current.begun = {} /\ Current.left = conf.interval
  BY <1>b, ClosedCurrent
<1>d. \A c \in breaker.begun :
        c \in Calls /\ pc[c] # "idle" /\ (pc[c] # "won" => Ahead(c) > breaker.left)
  BY DEF SlowInv, Inv, TypeOK
<1>1. ASSUME NEW c \in Calls, Enter(c) PROVE SlowInv'
  <2>1. CASE Admits(Current)
    <3>1. /\ breaker'.state = "closed"
          /\ breaker'.begun = Current.begun \cup {c}
          /\ breaker'.left = Current.left
      BY <1>1, <1>c, <1>a, <2>1, CurrentType DEF Enter, Breakers, Inv, TypeOK, States
    <3>2. pc' = [pc EXCEPT ![c] = "send"] /\ UNCHANGED <<attempt, nap>>
      BY <1>1, <2>1 DEF Enter
    <3>3. pc[c] = "idle" /\ c \notin breaker.begun
      BY <1>1, <1>d DEF Enter
    <3>4. breaker'.left \in Int /\ breaker'.left <= conf.interval
      BY <1>a, <1>b, <1>c, <3>1
    <3>5. attempt[c] = 0
      BY <3>3 DEF Inv
    <3>6. Ahead(c)' > breaker'.left
      <4>1. Ahead(c)' = conf.retries * conf.backoff
        BY <1>a, <3>2, <3>5 DEF Ahead, Inv, TypeOK
      <4>. QED
        BY <1>a, <1>b, <4>1, <3>4
    <3>7. ASSUME NEW d \in Current.begun, d # c
          PROVE  pc'[d] # "idle" /\ (pc'[d] # "won" => Ahead(d)' > breaker'.left)
      BY <1>a, <1>c, <1>d, <3>1, <3>2, <3>7 DEF Ahead, Inv, TypeOK
    <3>8. pc'[c] = "send"
      BY <3>2 DEF Inv, TypeOK
    <3>. QED
      BY <3>1, <3>6, <3>7, <3>4, <3>8, <1>a DEF SlowInv
  <2>2. CASE ~Admits(Current)
    BY <1>1, <1>a, <1>c, <1>d, <2>2 DEF Enter, SlowInv, Ahead
  <2>. QED
    BY <2>1, <2>2
<1>2. ASSUME NEW c \in Calls, Answered(c) PROVE SlowInv'
  <2>1. \A d \in breaker.begun :
          pc'[d] # "idle" /\ (pc'[d] # "won" => d # c /\ Ahead(d)' = Ahead(d))
    BY <1>2, <1>a, <1>d DEF Answered, Ahead, Inv, TypeOK
  <2>. QED
    BY <1>2, <1>b, <1>d, <2>1, <1>a DEF Answered, SlowInv
<1>3. ASSUME NEW c \in Calls, Retryable(c) \/ Failed(c) PROVE SlowInv'
  <2>1. \A d \in breaker.begun : d # c => pc'[d] = pc[d] /\ Ahead(d)' = Ahead(d)
    BY <1>3, <1>a, <1>d DEF Retryable, Failed, Again, Ahead, Inv, TypeOK
  <2>2. pc'[c] # "idle" /\ Ahead(c)' = Ahead(c)
    <3>1. attempt[c] \in Nat /\ attempt[c] <= conf.retries /\ pc[c] = "send"
      BY <1>3 DEF Retryable, Failed, Inv, TypeOK
    <3>2. Ahead(c) = (conf.retries - attempt[c]) * conf.backoff
      BY <3>1 DEF Ahead
    <3>3. CASE attempt[c] < conf.retries
      <4>1. Ahead(c)' = conf.backoff + (conf.retries - attempt[c] - 1) * conf.backoff
        BY <1>3, <1>a, <3>3 DEF Retryable, Failed, Again, Ahead, Inv, TypeOK
      <4>2. (conf.retries - attempt[c]) * conf.backoff
              = conf.backoff + (conf.retries - attempt[c] - 1) * conf.backoff
        BY <1>a, <3>1, OneLess
      <4>3. pc'[c] = "sleep"
        BY <1>3, <3>3 DEF Retryable, Failed, Again, Inv, TypeOK
      <4>. QED
        BY <3>2, <4>1, <4>2, <4>3
    <3>4. CASE attempt[c] = conf.retries
      <4>1. pc'[c] = "lost"
        BY <1>3, <1>a, <3>4 DEF Retryable, Failed, Again, Inv, TypeOK
      <4>2. Ahead(c)' = 0 /\ Ahead(c) = 0
        BY <1>a, <3>2, <3>4, <4>1 DEF Ahead
      <4>. QED
        BY <4>1, <4>2
    <3>. QED
      BY <1>a, <3>1, <3>3, <3>4
  <2>3. pc[c] = "send" /\ breaker' = breaker
    BY <1>3 DEF Retryable, Failed
  <2>. QED
    BY <1>a, <1>b, <1>d, <2>1, <2>2, <2>3 DEF SlowInv
<1>4. ASSUME NEW c \in Calls, Retry(c) PROVE SlowInv'
  <2>1. \A d \in breaker.begun : d # c => pc'[d] = pc[d] /\ Ahead(d)' = Ahead(d)
    BY <1>4, <1>a, <1>d DEF Retry, Ahead, Inv, TypeOK
  <2>2. pc[c] = "sleep" /\ pc'[c] = "send" /\ breaker' = breaker
    BY <1>4 DEF Retry, Inv, TypeOK
  <2>3. Ahead(c)' = (conf.retries - (attempt[c] + 1)) * conf.backoff
    BY <1>4, <1>a, <2>2 DEF Retry, Ahead, Inv, TypeOK
  <2>4. Ahead(c) = (conf.retries - attempt[c] - 1) * conf.backoff
    <3>1. (conf.retries - attempt[c] - 1) * conf.backoff \in Int
      BY <1>a DEF Inv, TypeOK
    <3>. QED
      BY <1>4, <2>2, <3>1 DEF Retry, Ahead
  <2>5. conf.retries - (attempt[c] + 1) = conf.retries - attempt[c] - 1
    BY <1>a DEF Inv, TypeOK
  <2>6. Ahead(c)' = Ahead(c)
    BY <2>3, <2>4, <2>5
  <2>. QED
    BY <1>a, <1>b, <1>d, <2>1, <2>2, <2>6 DEF SlowInv
<1>5. ASSUME NEW c \in Calls, Return(c) PROVE SlowInv'
  <2>1. \A d \in Calls : d # c => pc'[d] = pc[d] /\ Ahead(d)' = Ahead(d)
    BY <1>5, <1>a DEF Return, Forget, Ahead, Inv, TypeOK
  <2>2. CASE c \notin Current.begun
    <3>1. breaker' = Current
      BY <1>5, <2>2 DEF Return, After
    <3>. QED
      BY <1>a, <1>b, <1>c, <1>d, <2>1, <2>2, <3>1 DEF SlowInv
  <2>3. CASE c \in Current.begun
    <3>1. Current = breaker /\ ~Expired /\ c \in breaker.begun
      BY <1>c, <2>3
    <3>2. pc[c] = "won"
      <4>. SUFFICES ASSUME pc[c] = "lost" PROVE FALSE
        BY <1>5 DEF Return
      <4>1. 0 > breaker.left
        BY <1>d, <3>1 DEF Ahead
      <4>. QED
        BY <1>a, <1>b, <3>1, <4>1 DEF Expired
    <3>3. breaker' = [breaker EXCEPT !.begun = @ \ {c}]
      BY <1>5, <1>b, <3>1, <3>2 DEF Return, After, OnSuccess, TypeOK, Inv
    <3>4. /\ breaker'.state = "closed" /\ breaker'.left = breaker.left
          /\ breaker'.begun = breaker.begun \ {c}
      BY <1>b, <3>3 DEF TypeOK, Inv
    <3>. QED
      BY <1>a, <1>b, <1>d, <2>1, <3>4 DEF SlowInv
  <2>. QED
    BY <2>2, <2>3
<1>6. CASE Tick
  <2>1. /\ breaker'.state = "closed" /\ breaker'.begun = breaker.begun
        /\ breaker'.left = IF breaker.left < 0 THEN breaker.left ELSE breaker.left - 1
    BY <1>6, <1>b DEF Tick, Inv, TypeOK
  <2>2. ASSUME NEW d \in breaker.begun, pc[d] # "won" PROVE Ahead(d)' > breaker'.left
    <3>1. d \in Calls /\ Ahead(d) > breaker.left
      BY <1>d, <2>2
    <3>2. CASE pc[d] = "sleep"
      <4>. DEFINE later == (conf.retries - attempt[d] - 1) * conf.backoff
      <4>1. conf.retries - attempt[d] - 1 \in Nat
        BY <1>a, <3>1, <3>2 DEF Inv, TypeOK
      <4>2. later \in Nat
        BY <1>a, <4>1, ProductNat
      <4>3. Ahead(d) = nap[d] + later
        BY <3>2 DEF Ahead
      <4>4. Ahead(d)' = nap'[d] + later
        BY <1>6, <1>a, <3>2 DEF Tick, Ahead
      <4>5. nap[d] \in Nat /\ nap'[d] = IF nap[d] = 0 THEN 0 ELSE nap[d] - 1
        BY <1>6, <3>1 DEF Tick, Inv, TypeOK
      <4>. HIDE DEF later
      <4>. QED
        BY <1>b, <2>1, <3>1, <4>2, <4>3, <4>4, <4>5
    <3>3. CASE pc[d] # "sleep"
      <4>1. Ahead(d)' = Ahead(d)
        BY <1>6, <1>a, <3>3 DEF Tick, Ahead
      <4>2. Ahead(d) \in Int
        BY <1>a, <3>1, <3>3 DEF Ahead, Inv, TypeOK
      <4>. QED
        BY <1>b, <2>1, <3>1, <4>1, <4>2
    <3>. QED
      BY <3>2, <3>3
  <2>3. pc' = pc
    BY <1>6 DEF Tick
  <2>. QED
    BY <1>a, <1>b, <1>d, <2>1, <2>2, <2>3 DEF SlowInv
<1>7. CASE UNCHANGED vars
  BY <1>7, <1>a, <1>b, <1>d DEF vars, SlowInv, Ahead
<1>. QED
  BY <1>1, <1>2, <1>3, <1>4, <1>5, <1>6, <1>7 DEF Next, Step

\* When the sleeps of a call that fails outlast the window, as they do with
\* config.yaml, the breaker never leaves closed, whatever the other settings,
\* however many goroutines call and whatever the server answers.
THEOREM SlowNeverTrips == Spec => []NeverTrips
<1>1. SlowInv => NeverTrips
  BY DEF SlowInv, NeverTrips
<1>. QED
  BY <1>1, InitInv, NextInv, InitSlow, NextSlow, PTL DEF Spec

-----------------------------------------------------------------------------
(* What opens the breaker. *)

\* The calls of a generation that go on, and those that have failed, are among
\* the calls it has let in.
Counted(b) ==
    /\ IsFiniteSet(b.begun)
    /\ b.failures + Cardinality(b.begun) <= b.requests

LEMMA NewGenerationCounted ==
    ASSUME NEW s \in States
    PROVE  Counted(NewGeneration(s))
BY FS_EmptySet DEF NewGeneration, Counted

\* currentState keeps the count, and so does a call that is let in.
LEMMA CurrentCounted ==
    ASSUME Counted(breaker)
    PROVE  Counted(Current)
BY NewGenerationCounted DEF Current, States

LEMMA AdmittedCounted ==
    ASSUME NEW b \in Breakers, Counted(b), NEW c \in Calls
    PROVE  Counted([b EXCEPT !.requests = @ + 1, !.begun = @ \cup {c}])
<1>. DEFINE e == [b EXCEPT !.requests = @ + 1, !.begun = @ \cup {c}]
<1>1. /\ e.begun = b.begun \cup {c} /\ e.failures = b.failures /\ e.requests = b.requests + 1
      /\ b.failures \in Nat /\ b.requests \in Nat
  BY DEF Breakers
<1>. HIDE DEF e
<1>2. /\ IsFiniteSet(b.begun \cup {c}) /\ Cardinality(b.begun) \in Nat
      /\ Cardinality(b.begun \cup {c}) \in {Cardinality(b.begun), Cardinality(b.begun) + 1}
  BY FS_AddElement, FS_CardinalityType DEF Counted
<1>3. e.failures + Cardinality(e.begun) <= e.requests
  BY <1>1, <1>2 DEF Counted
<1>. QED
  BY <1>1, <1>2, <1>3 DEF Counted, e

\* One call fewer goes on.
LEMMA OneFewer ==
    ASSUME NEW b \in Breakers, Counted(b), NEW c \in b.begun
    PROVE  LET others == [b EXCEPT !.begun = @ \ {c}] IN
           /\ others \in Breakers /\ IsFiniteSet(others.begun)
           /\ others.begun = b.begun \ {c} /\ others.state = b.state
           /\ others.failures = b.failures /\ others.requests = b.requests
           /\ Cardinality(others.begun) \in Nat
           /\ others.failures + 1 + Cardinality(others.begun) <= others.requests
<1>1. /\ IsFiniteSet(b.begun \ {c}) /\ Cardinality(b.begun) \in Nat
      /\ Cardinality(b.begun \ {c}) = Cardinality(b.begun) - 1
      /\ Cardinality(b.begun \ {c}) \in Nat
  BY FS_RemoveElement, FS_CardinalityType DEF Counted
<1>. QED
  BY <1>1 DEF Breakers, Counted

\* afterRequest keeps the count: a call that fails goes on no longer.
LEMMA AfterCounted ==
    ASSUME NEW b \in Breakers, Counted(b), NEW c \in Calls, NEW success \in BOOLEAN
    PROVE  Counted(After(b, c, success))
<1>1. CASE c \notin b.begun
  BY <1>1 DEF After
<1>2. CASE c \in b.begun
  <2>. DEFINE others == [b EXCEPT !.begun = @ \ {c}]
  <2>1. /\ others \in Breakers /\ IsFiniteSet(others.begun) /\ Cardinality(others.begun) \in Nat
        /\ others.failures + 1 + Cardinality(others.begun) <= others.requests
    BY <1>2, OneFewer
  <2>2. After(b, c, success) = IF success THEN OnSuccess(others) ELSE OnFailure(others)
    BY <1>2 DEF After
  <2>. HIDE DEF others
  <2>3. /\ Counted(NewGeneration("open")) /\ Counted(NewGeneration("closed"))
    BY NewGenerationCounted DEF States
  <2>4. Counted(OnSuccess(others))
    <3>. DEFINE counted == [others EXCEPT !.successes = @ + 1]
    <3>1. /\ counted.begun = others.begun /\ counted.failures = others.failures
          /\ counted.requests = others.requests /\ others.failures \in Nat
          /\ others.requests \in Nat
      BY <2>1 DEF Breakers
    <3>2. Counted(counted) /\ Counted(others)
      BY <2>1, <3>1 DEF Counted
    <3>. QED
      BY <2>3, <3>2 DEF OnSuccess
  <2>5. Counted(OnFailure(others))
    <3>. DEFINE counted == [others EXCEPT !.failures = @ + 1]
    <3>1. /\ counted.begun = others.begun /\ counted.failures = others.failures + 1
          /\ counted.requests = others.requests /\ others.failures \in Nat
          /\ others.requests \in Nat
      BY <2>1 DEF Breakers
    <3>2. Counted(counted)
      BY <2>1, <3>1 DEF Counted
    <3>. QED
      BY <2>3, <3>2 DEF OnFailure
  <2>. QED
    BY <2>2, <2>4, <2>5
<1>. QED
  BY <1>1, <1>2

LEMMA InitCounted == Init => Counted(breaker)
BY NewGenerationCounted DEF Init, States

LEMMA NextCounted == Inv /\ Counted(breaker) /\ [Next]_vars => Counted(breaker')
<1>. SUFFICES ASSUME Inv, Counted(breaker), [Next]_vars PROVE Counted(breaker')
  OBVIOUS
<1>1. breaker \in Breakers /\ breaker.left >= -1 /\ conf \in Configs
  BY DEF Inv, TypeOK, Breakers, States
<1>2. Current \in Breakers /\ Counted(Current)
  BY <1>1, CurrentType, CurrentCounted
<1>3. ASSUME NEW c \in Calls, Enter(c) PROVE Counted(breaker')
  BY <1>2, <1>3, AdmittedCounted DEF Enter
<1>4. ASSUME NEW c \in Calls, Step(c) PROVE Counted(breaker')
  <2>1. CASE Return(c)
    BY <1>2, <2>1, AfterCounted DEF Return
  <2>2. CASE Answered(c) \/ Retryable(c) \/ Failed(c) \/ Retry(c)
    BY <2>2 DEF Answered, Retryable, Failed, Retry
  <2>. QED
    BY <1>4, <2>1, <2>2 DEF Step
<1>5. CASE Tick
  <2>1. /\ breaker'.begun = breaker.begun /\ breaker'.failures = breaker.failures
        /\ breaker'.requests = breaker.requests
    BY <1>1, <1>5 DEF Tick, Breakers
  <2>. QED
    BY <2>1 DEF Counted
<1>6. CASE UNCHANGED vars
  BY <1>6 DEF vars
<1>. QED
  BY <1>3, <1>4, <1>5, <1>6 DEF Next

\* A threshold of a hundred per cent leaves no room for a call that did not fail.
LEMMA Hundredths ==
    ASSUME NEW t \in Nat, t >= 100, NEW n \in Nat, NEW f \in Nat, f * 100 >= t * n
    PROVE  f >= n
<1>1. t * n = 100 * n + (t - 100) * n
  OBVIOUS
<1>2. t - 100 \in Nat
  OBVIOUS
<1>3. (t - 100) * n \in Nat
  BY <1>2, ProductNat
<1>. QED
  BY <1>1, <1>3

\* The step that opens a closed breaker is the return of a call that has failed,
\* of this generation.
LEMMA OpenedBy ==
    ASSUME Inv, Counted(breaker), [Next]_vars,
           breaker.state = "closed", breaker'.state = "open", conf.threshold >= 100
    PROVE  /\ \E c \in Calls : breaker.begun = {c} /\ pc[c] = "lost"
           /\ breaker.failures + 1 = breaker.requests
<1>1. /\ breaker \in Breakers /\ breaker.left >= -1 /\ conf \in Configs
      /\ conf.threshold \in Nat
  BY ReliabilityConstants DEF Inv, TypeOK, Breakers, States, IsConfig
<1>2. /\ Current \in Breakers /\ Current.state = "closed"
      /\ Current = breaker \/ Current.begun = {}
  BY <1>1, CurrentType, ClosedCurrent
<1>3. PICK c \in Calls : Return(c)
  <2>1. ASSUME NEW c \in Calls, Enter(c) PROVE FALSE
    BY <1>2, <2>1 DEF Enter, Breakers
  <2>2. ASSUME NEW c \in Calls, Answered(c) \/ Retryable(c) \/ Failed(c) \/ Retry(c) PROVE FALSE
    BY <2>2 DEF Answered, Retryable, Failed, Retry
  <2>3. ~Tick /\ ~(UNCHANGED vars)
    BY <1>1 DEF Tick, vars, Breakers
  <2>. QED
    BY <2>1, <2>2, <2>3 DEF Next, Step
<1>4. pc[c] \in {"won", "lost"} /\ breaker' = After(Current, c, pc[c] = "won")
  BY <1>3 DEF Return
<1>5. c \in Current.begun /\ Current = breaker
  BY <1>2, <1>4 DEF After
<1>. DEFINE others == [breaker EXCEPT !.begun = @ \ {c}]
<1>6. /\ others \in Breakers /\ others.begun = breaker.begun \ {c} /\ others.state = "closed"
      /\ others.failures = breaker.failures /\ others.requests = breaker.requests
      /\ IsFiniteSet(others.begun) /\ Cardinality(others.begun) \in Nat
      /\ others.failures + 1 + Cardinality(others.begun) <= others.requests
  BY <1>1, <1>2, <1>5, OneFewer
<1>7. breaker' = IF pc[c] = "won" THEN OnSuccess(others) ELSE OnFailure(others)
  BY <1>4, <1>5 DEF After
<1>. HIDE DEF others
<1>8. pc[c] = "lost"
  BY <1>4, <1>6, <1>7 DEF OnSuccess
<1>. DEFINE counted == [others EXCEPT !.failures = @ + 1]
<1>9. /\ counted.failures = breaker.failures + 1 /\ counted.requests = breaker.requests
      /\ counted.state = "closed" /\ breaker.failures \in Nat /\ breaker.requests \in Nat
  BY <1>1, <1>6 DEF Breakers
<1>10. ReadyToTrip(counted)
  BY <1>6, <1>7, <1>8, <1>9 DEF OnFailure
<1>. HIDE DEF counted
<1>11. (breaker.failures + 1) * 100 >= conf.threshold * breaker.requests
  BY <1>9, <1>10 DEF ReadyToTrip
<1>12. breaker.failures + 1 >= breaker.requests
  BY <1>1, <1>9, <1>11, Hundredths
<1>13. breaker.failures + 1 = breaker.requests /\ Cardinality(others.begun) = 0
  BY <1>6, <1>9, <1>12
<1>14. breaker.begun \ {c} = {}
  BY <1>6, <1>13, FS_EmptySet
<1>. QED
  BY <1>5, <1>8, <1>13, <1>14

\* With a threshold of 100 the breaker opens only when every call the generation
\* has let in has failed: none succeeded, and none is still on its way.
THEOREM OpensOnFailuresOnly == Spec => OpensUnanimously
<1>1. Inv /\ Counted(breaker) /\ [Next]_vars =>
        (breaker.state = "closed" /\ breaker'.state = "open" /\ conf.threshold >= 100
         => /\ \E c \in Calls : breaker.begun = {c} /\ pc[c] = "lost"
            /\ breaker.failures + 1 = breaker.requests)
  BY OpenedBy
<1>2. Inv /\ Counted(breaker) /\ [Next]_vars => Counted(breaker)'
  BY NextCounted DEF Counted
<1>. QED
  BY <1>1, <1>2, InitInv, NextInv, InitCounted, PTL DEF Spec, OpensUnanimously
=============================================================================
