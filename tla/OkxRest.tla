------------------------------- MODULE OkxRest -------------------------------
(***************************************************************************)
(* truefix-okx-client over HTTP: the requests the services build,          *)
(* execute_with_metadata with its single retry, the RateLimiter the        *)
(* callers share, and the decoding of the answer.  OKX is external.        *)
(***************************************************************************)
EXTENDS Integers, Sequences

CONSTANTS
  RestCallers,
  RestPrograms,   \* [calls: caller -> request or <<>>, credentials]
  MaxClock        \* bound: the last instant considered

VARIABLES
  rest_program,   \* constant
  clock,          \* in units of 100 ms
  next_allowed,   \* RateLimiter.next_allowed
  call,           \* the callers
  throttler       \* history: who set next_allowed last

RestVars == <<rest_program, clock, next_allowed, call, throttler>>

-----------------------------------------------------------------------------
\* What the services' helpers build.  An order write looks at each item's sCode.
PrivateRead == [method |-> "GET", safety |-> "ReadOnly", auth |-> TRUE, items |-> FALSE]
PublicRead == [PrivateRead EXCEPT !.auth = FALSE]
Write == [method |-> "POST", safety |-> "NeverReplay", auth |-> TRUE, items |-> FALSE]
OrderWrite == [Write EXCEPT !.items = TRUE]

\* The requests each service makes; paths, queries and bodies are left out.
AccountService == {PrivateRead, Write}
FinanceService == {PrivateRead, PublicRead, Write}
FundingService == {PrivateRead, Write}
MarketService == {PublicRead}
ProfessionalService == {PrivateRead, PublicRead, Write}
PublicDataService == {PublicRead}
StrategyService == {PrivateRead, Write}
SubaccountService == {PrivateRead, Write}
TradeService == {PrivateRead, Write, OrderWrite}

\* execute_baseline_operation: the class comes from the manifest's entry, which
\* has a GET for every read and a POST for every write; a GET has no body and a
\* POST needs one, or is one of two that take an empty one.
BaselineClass(method) == IF method = "GET" THEN "ReadOnly" ELSE "NeverReplay"
BaselineOperation(method, auth, body, accepts_empty) ==
  IF (method = "GET" /\ body) \/ (method = "POST" /\ ~body /\ ~accepts_empty) THEN {}
  ELSE {[method |-> method, safety |-> BaselineClass(method), auth |-> auth, items |-> FALSE]}

Requests ==
  AccountService \cup FinanceService \cup FundingService \cup MarketService
  \cup ProfessionalService \cup PublicDataService \cup StrategyService
  \cup SubaccountService \cup TradeService
  \cup UNION {BaselineOperation(m, a, b, e) :
                m \in {"GET", "POST"}, a \in BOOLEAN, b \in BOOLEAN, e \in BOOLEAN}

-----------------------------------------------------------------------------
RestIdle == [pc |-> "done", request |-> <<>>, tries |-> 0, deadline |-> 0, got |-> "none",
             after |-> 0, until |-> 0, effects |-> <<>>]

RestInit ==
  /\ rest_program \in RestPrograms
  /\ \A p \in RestCallers : rest_program.calls[p] \in {<<>>} \cup {<<q>> : q \in Requests}
  /\ clock = 0 /\ next_allowed = 0 /\ throttler = "nobody"
  /\ call = [p \in RestCallers |->
               IF rest_program.calls[p] = <<>> THEN RestIdle
               ELSE [RestIdle EXCEPT !.pc = "reserve", !.request = rest_program.calls[p]]]

\* RateLimiter::reserve: the deadline is read under the lock, the sleep is not.
Reserve(p) ==
  /\ call[p].pc = "reserve"
  /\ call' = [call EXCEPT ![p].pc = "sleep", ![p].deadline = next_allowed]
  /\ UNCHANGED <<rest_program, clock, next_allowed, throttler>>

\* HttpTransport::execute up to send; what cannot be signed is an error.
Transmit(p) ==
  /\ call[p].pc = "sleep" /\ clock >= call[p].deadline
  /\ call' = [call EXCEPT ![p].pc = IF call[p].request[1].auth /\ ~rest_program.credentials
                                    THEN "failed" ELSE "sent",
                          ![p].tries = @ + 1, ![p].got = "credentials"]
  /\ UNCHANGED <<rest_program, clock, next_allowed, throttler>>

(***************************************************************************)
(* OKX (external) acts on the request or not, and the caller hears of it   *)
(* or not.  effects: per time it acted, whether all items succeeded.        *)
(***************************************************************************)
Outcomes ==
  [got : {"transport"}, acts : {<<>>, <<"all">>}, after : {0}]                  \* lost
  \cup [got : {"rate"}, acts : {<<>>}, after : {0, 2}]        \* 429, or code 50011
  \cup [got : {"http", "exchange", "skew"}, acts : {<<>>}, after : {0}]
  \cup [got : {"envelope"}, acts : {<<"all">>, <<"part">>}, after : {0}]

RestAnswer(p) ==
  /\ call[p].pc = "sent"
  /\ \E o \in Outcomes :
       call' = [call EXCEPT ![p].pc = IF o.got \in {"envelope", "exchange", "skew"}
                                      THEN "decode" ELSE "failed",
                            ![p].got = o.got, ![p].effects = @ \o o.acts, ![p].after = o.after]
  /\ UNCHANGED <<rest_program, clock, next_allowed, throttler>>

\* Faulty variant: any request is sent again after a transient error.
may_retry_any(safety, error) == error \in {"transport", "rate"}

may_retry(safety, error) == safety = "ReadOnly" /\ error \in {"transport", "rate"}

\* retry_after, or 100 ms
DelayOf(after) == IF after = 0 THEN 1 ELSE after

\* execute_with_metadata after an error: one retry of what may be retried, after
\* throttle_for when OKX asked for it.
RestFailed(p) ==
  LET retry == call[p].tries = 1 /\ may_retry(call[p].request[1].safety, call[p].got)
      until == clock + DelayOf(call[p].after)
  IN  /\ call[p].pc = "failed"
      /\ IF retry /\ call[p].got = "rate"
         THEN next_allowed' = until /\ throttler' = p
         ELSE UNCHANGED <<next_allowed, throttler>>
      /\ call' = [call EXCEPT ![p].pc = IF retry THEN "reserve" ELSE "done",
                              ![p].until = IF retry /\ call[p].got = "rate"
                                           THEN clock + call[p].after ELSE @]
      /\ UNCHANGED <<rest_program, clock>>

\* require_successful_acknowledgements
require_successful_acknowledgements(effects) ==
  IF effects[Len(effects)] = "all" THEN "ok" ELSE "partial"

\* decode_envelope_with_metadata, and the items of an order write.
Decode(p) ==
  /\ call[p].pc = "decode"
  /\ call' = [call EXCEPT ![p].pc = "done",
                          ![p].got = IF @ # "envelope" THEN @
                                     ELSE IF call[p].request[1].items
                                     THEN require_successful_acknowledgements(call[p].effects)
                                     ELSE "ok"]
  /\ UNCHANGED <<rest_program, clock, next_allowed, throttler>>

RestTick ==
  /\ clock < MaxClock /\ \E p \in RestCallers : call[p].pc = "sleep" /\ call[p].deadline > clock
  /\ clock' = clock + 1
  /\ UNCHANGED <<rest_program, next_allowed, call, throttler>>

RestNext ==
  \/ \E p \in RestCallers : Reserve(p)
  \/ \E p \in RestCallers : Transmit(p)
  \/ \E p \in RestCallers : RestAnswer(p)
  \/ \E p \in RestCallers : RestFailed(p)
  \/ \E p \in RestCallers : Decode(p)
  \/ RestTick

RestSpec == RestInit /\ [][RestNext]_RestVars

-----------------------------------------------------------------------------
\* "All write operations are non-replaying": OKX acts on a write at most once,
\* whatever is lost on the way, and whichever entry point built the request.
WriteActsOnce ==
  \A p \in RestCallers :
    (call[p].request # <<>> /\ call[p].request[1].method = "POST") => Len(call[p].effects) <= 1

\* An order call that returns Ok was carried out, in every item.
OkMeansDone ==
  \A p \in RestCallers :
    (call[p].pc = "done" /\ call[p].got = "ok" /\ call[p].request[1].items) =>
      call[p].effects = <<"all">>

\* A retry waits for the delay OKX asked this caller for, unless another answer
\* has moved the shared limit since.
RetryWaits ==
  \A p \in RestCallers :
    (call[p].pc = "sent" /\ call[p].tries = 2 /\ throttler = p) => clock >= call[p].until

\* What a caller of the REST client may rely on: a write acts once, Ok means that
\* all of it was done, and a retry waits as long as OKX asked for.
RestHonest == WriteActsOnce /\ OkMeansDone /\ RetryWaits
=============================================================================
