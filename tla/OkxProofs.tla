----------------------------- MODULE OkxProofs -----------------------------
(***************************************************************************)
(* Proofs about the OKX client.  Over HTTP, for any number of callers, any *)
(* programs and any sequence of losses: a write is sent once, because      *)
(* every request with a POST is of the class that is never replayed; and   *)
(* the sleeps of the callers respect the limit they share.  Over a         *)
(* WebSocket, for every set of keys and any sequence of commands, acks,    *)
(* errors and losses: the session is honest (StreamInv, at the end).       *)
(***************************************************************************)
EXTENDS OkxRest, OkxStream, TLAPS

\* The time a leaf may take, in seconds; most take a fraction of one.
USE SMTT(30), ZenonT(30)

(***************************************************************************)
(* Requests.                                                               *)
(***************************************************************************)
Effect == {"all", "part"}
RequestOrNone == {<<>>} \cup {<<q>> : q \in Requests}
Places == {"reserve", "sleep", "sent", "failed", "decode", "done"}
Got == {"none", "credentials", "transport", "rate", "http", "exchange", "skew", "envelope",
        "ok", "partial"}
CallType ==
  [pc : Places,
   request : RequestOrNone,
   tries : Nat, deadline : Nat,
   got : Got,
   after : Nat, until : Nat, effects : Seq(Effect)]

RestType ==
  /\ clock \in Nat /\ next_allowed \in Nat
  /\ call \in [RestCallers -> CallType]

\* What a write has done, by the place of its call.
WriteSound(c) ==
  (c.request # <<>> /\ c.request[1].method = "POST") =>
    /\ c.pc \in {"reserve", "sleep", "sent"} => c.effects = <<>>
    /\ c.pc = "failed" => c.effects \in {<<>>, <<"all">>}
    /\ c.pc = "decode" => c.effects \in {<<>>, <<"all">>, <<"part">>}
    /\ c.pc = "done" => c.effects \in {<<>>, <<"all">>, <<"part">>}
    /\ (c.pc = "decode" /\ c.got = "envelope") => c.effects \in {<<"all">>, <<"part">>}
    /\ (c.pc = "done" /\ c.got = "ok" /\ c.request[1].items) => c.effects = <<"all">>

\* A call that is under way has a request, and only decoding makes it succeed.
CallSound(c) ==
  /\ c.pc # "done" => c.request # <<>>
  /\ c.pc # "done" => c.got # "ok"
  /\ c.request = <<>> => c.got = "none"

RInv ==
  /\ RestType
  /\ \A p \in RestCallers : CallSound(call[p]) /\ WriteSound(call[p])

\* Every request of the services and of execute_baseline_operation that is a
\* POST is of the class that is never replayed; only a POST has items.
LEMMA PostNeverReplays ==
  ASSUME NEW q \in Requests
  PROVE  /\ q.method = "POST" => q.safety = "NeverReplay"
         /\ q.items => q.method = "POST"
  BY DEF Requests, AccountService, FinanceService, FundingService, MarketService,
         ProfessionalService, PublicDataService, StrategyService, SubaccountService,
         TradeService, BaselineOperation, BaselineClass, PrivateRead, PublicRead, Write,
         OrderWrite

\* The request of a call, when it has one.
LEMMA RequestOf ==
  ASSUME NEW c \in CallType, c.request # <<>>
  PROVE  c.request[1] \in Requests
  BY DEF CallType, RequestOrNone

\* A step of one caller: it is enough that its own record stays sound.
LEMMA CallStep ==
  ASSUME RInv, NEW p \in RestCallers, NEW c \in CallType,
         call' = [call EXCEPT ![p] = c],
         CallSound(c), WriteSound(c),
         clock' \in Nat, next_allowed' \in Nat
  PROVE  RInv'
<1>1. RestType'
  BY DEF RInv, RestType
<1>2. \A r \in RestCallers : call'[r] = IF r = p THEN c ELSE call[r]
  BY DEF RInv, RestType
<1>3. \A r \in RestCallers : CallSound(call'[r]) /\ WriteSound(call'[r])
  BY <1>2 DEF RInv
<1> QED
  BY ZenonT(30), <1>1, <1>3 DEF RInv, CallSound, WriteSound

\* The records the steps make are calls.
LEMMA SentCall ==
  ASSUME NEW o \in CallType, NEW pc \in Places, NEW tries \in Nat, NEW got \in Got
  PROVE  [o EXCEPT !.pc = pc, !.tries = tries, !.got = got] \in CallType
  BY ZenonT(30) DEF CallType

LEMMA AnsweredCall ==
  ASSUME NEW o \in CallType, NEW pc \in Places, NEW got \in Got,
         NEW effects \in Seq(Effect), NEW after \in Nat
  PROVE  [o EXCEPT !.pc = pc, !.got = got, !.effects = effects, !.after = after] \in CallType
  BY ZenonT(30) DEF CallType

LEMMA FailedCall ==
  ASSUME NEW o \in CallType, NEW pc \in Places, NEW until \in Nat
  PROVE  [o EXCEPT !.pc = pc, !.until = until] \in CallType
  BY ZenonT(30) DEF CallType

LEMMA ReserveInv ==
  ASSUME RInv, NEW p \in RestCallers, Reserve(p)
  PROVE  RInv'
<1> PICK o \in CallType : o = call[p]
  BY DEF RInv, RestType
<1> DEFINE c == [o EXCEPT !.pc = "sleep", !.deadline = next_allowed]
<1>0. o \in CallType /\ CallSound(o) /\ WriteSound(o)
      /\ next_allowed \in Nat /\ clock \in Nat
  BY DEF RInv, RestType
<1>1. c \in CallType
  BY ZenonT(30), <1>0 DEF CallType, Places
<1>2. call' = [call EXCEPT ![p] = c]
  BY ZenonT(30) DEF Reserve
<1>3. CallSound(c) /\ WriteSound(c)
  BY <1>0 DEF Reserve, CallSound, WriteSound, CallType
<1> HIDE DEF c
<1> QED
  BY ZenonT(30), <1>0, <1>1, <1>2, <1>3, CallStep DEF Reserve

LEMMA TransmitInv ==
  ASSUME RInv, NEW p \in RestCallers, Transmit(p)
  PROVE  RInv'
<1> PICK o \in CallType : o = call[p]
  BY DEF RInv, RestType
<1> DEFINE c == [o EXCEPT !.pc = IF o.request[1].auth /\ ~rest_program.credentials
                                       THEN "failed" ELSE "sent",
                                !.tries = @ + 1, !.got = "credentials"]
<1>0. o \in CallType /\ CallSound(o) /\ WriteSound(o)
      /\ next_allowed \in Nat /\ clock \in Nat
  BY DEF RInv, RestType
<1>1. c \in CallType
  <2> DEFINE place == IF o.request[1].auth /\ ~rest_program.credentials
                      THEN "failed" ELSE "sent"
             n == o.tries + 1
  <2>1. place \in Places /\ "credentials" \in Got /\ n \in Nat
    BY DEF CallType, Places, Got
  <2>2. c = [o EXCEPT !.pc = place, !.tries = n, !.got = "credentials"]
    OBVIOUS
  <2> HIDE DEF c, place, n
  <2> QED
    BY ZenonT(30), <2>1, <2>2, SentCall
<1>2. call' = [call EXCEPT ![p] = c]
  BY ZenonT(30) DEF Transmit
<1>3. CallSound(c) /\ WriteSound(c)
  BY <1>0 DEF Transmit, CallSound, WriteSound, CallType
<1> HIDE DEF c
<1> QED
  BY ZenonT(30), <1>0, <1>1, <1>2, <1>3, CallStep DEF Transmit

LEMMA AnswerInv ==
  ASSUME RInv, NEW p \in RestCallers, RestAnswer(p)
  PROVE  RInv'
<1> PICK o \in CallType : o = call[p]
  BY DEF RInv, RestType
<1>0. o \in CallType /\ CallSound(o) /\ WriteSound(o)
      /\ next_allowed \in Nat /\ clock \in Nat /\ o.pc = "sent"
  BY DEF RInv, RestType, RestAnswer
<1>1. PICK x \in Outcomes :
        call' = [call EXCEPT ![p].pc = IF x.got \in {"envelope", "exchange", "skew"}
                                       THEN "decode" ELSE "failed",
                             ![p].got = x.got, ![p].effects = @ \o x.acts,
                             ![p].after = x.after]
  BY ZenonT(30) DEF RestAnswer
<1> DEFINE c == [o EXCEPT !.pc = IF x.got \in {"envelope", "exchange", "skew"}
                                       THEN "decode" ELSE "failed",
                                !.got = x.got, !.effects = @ \o x.acts, !.after = x.after]
<1>2. /\ x.acts \in {<<>>, <<"all">>, <<"part">>} /\ x.after \in Nat
      /\ x.got \in {"transport", "rate", "http", "exchange", "skew", "envelope"}
      /\ x.got = "envelope" => x.acts # <<>>
      /\ x.got \notin {"envelope", "exchange", "skew"} => x.acts \in {<<>>, <<"all">>}
  <2>1. CASE x \in [got : {"transport"}, acts : {<<>>, <<"all">>}, after : {0}]
    BY <2>1
  <2>2. CASE x \in [got : {"rate"}, acts : {<<>>}, after : {0, 2}]
    BY <2>2
  <2>3. CASE x \in [got : {"http", "exchange", "skew"}, acts : {<<>>}, after : {0}]
    BY <2>3
  <2>4. CASE x \in [got : {"envelope"}, acts : {<<"all">>, <<"part">>}, after : {0}]
    <3>1. <<"all">> # <<>> /\ <<"part">> # <<>>
      OBVIOUS
    <3>2. x.got = "envelope" /\ x.acts \in {<<"all">>, <<"part">>} /\ x.after \in Nat
      BY <2>4
    <3> QED
      BY ZenonT(30), <3>1, <3>2
  <2> QED
    BY <2>1, <2>2, <2>3, <2>4 DEF Outcomes
<1>3. x.acts \in Seq(Effect) /\ o.effects \in Seq(Effect)
  <2>1. <<>> \in Seq(Effect) /\ <<"all">> \in Seq(Effect) /\ <<"part">> \in Seq(Effect)
    BY DEF Effect
  <2> QED
    BY ZenonT(30), <1>2, <2>1 DEF CallType
<1>4. o.effects = <<>> => o.effects \o x.acts = x.acts
  BY <1>3
<1>5. c \in CallType
  <2> DEFINE place == IF x.got \in {"envelope", "exchange", "skew"}
                      THEN "decode" ELSE "failed"
             done == o.effects \o x.acts
  <2>1. place \in Places /\ x.got \in Got /\ x.after \in Nat
    BY <1>2 DEF Places, Got
  <2>2. done \in Seq(Effect)
    BY <1>3
  <2>3. c = [o EXCEPT !.pc = place, !.got = x.got, !.effects = done, !.after = x.after]
    OBVIOUS
  <2> HIDE DEF c, place, done
  <2> QED
    BY ZenonT(30), <2>1, <2>2, <2>3, AnsweredCall
<1>6. call' = [call EXCEPT ![p] = c]
  BY ZenonT(30), <1>1
<1>7. /\ c.request = o.request /\ c.got = x.got
      /\ c.effects = o.effects \o x.acts
      /\ c.pc = IF x.got \in {"envelope", "exchange", "skew"} THEN "decode" ELSE "failed"
  BY ZenonT(30), <1>0 DEF CallType
<1> HIDE DEF c
<1>8. CallSound(c)
  BY <1>0, <1>2, <1>7 DEF CallSound
<1>9. WriteSound(c)
  BY ZenonT(30), <1>0, <1>2, <1>4, <1>7 DEF WriteSound
<1> QED
  BY ZenonT(30), <1>0, <1>5, <1>6, <1>8, <1>9, CallStep DEF RestAnswer

LEMMA FailedInv ==
  ASSUME RInv, NEW p \in RestCallers, RestFailed(p)
  PROVE  RInv'
<1> PICK o \in CallType : o = call[p]
  BY DEF RInv, RestType
<1> DEFINE retry == o.tries = 1 /\ may_retry(o.request[1].safety, o.got)
           c == [o EXCEPT !.pc = IF retry THEN "reserve" ELSE "done",
                                !.until = IF retry /\ o.got = "rate"
                                          THEN clock + o.after ELSE @]
<1>0. o \in CallType /\ CallSound(o) /\ WriteSound(o)
      /\ next_allowed \in Nat /\ clock \in Nat /\ o.pc = "failed"
  BY DEF RInv, RestType, RestFailed
<1>1. o.request[1].method = "POST" => ~retry
  BY <1>0, PostNeverReplays, RequestOf DEF may_retry, CallSound
<1>2. c \in CallType
  <2> DEFINE place == IF retry THEN "reserve" ELSE "done"
             u == IF retry /\ o.got = "rate" THEN clock + o.after ELSE o.until
  <2>1. place \in Places /\ u \in Nat
    BY <1>0 DEF CallType, Places
  <2>2. c = [o EXCEPT !.pc = place, !.until = u]
    OBVIOUS
  <2> HIDE DEF c, place, u
  <2> QED
    BY ZenonT(30), <2>1, <2>2, FailedCall
<1>3. call' = [call EXCEPT ![p] = c]
  BY ZenonT(30) DEF RestFailed
<1>4. /\ c.request = o.request /\ c.got = o.got /\ c.effects = o.effects
      /\ c.pc = IF retry THEN "reserve" ELSE "done"
  BY <1>0 DEF CallType
<1>5. clock' \in Nat /\ next_allowed' \in Nat
  BY <1>0 DEF RestFailed, DelayOf, CallType
<1> HIDE DEF c, retry
<1>6. CallSound(c)
  BY <1>0, <1>4 DEF CallSound
<1>7. WriteSound(c)
  BY <1>0, <1>1, <1>4 DEF WriteSound, CallSound
<1> QED
  BY ZenonT(30), <1>2, <1>3, <1>5, <1>6, <1>7, CallStep

LEMMA DecodedCall ==
  ASSUME NEW o \in CallType, NEW pc \in Places, NEW got \in Got
  PROVE  [o EXCEPT !.pc = pc, !.got = got] \in CallType
  BY ZenonT(30) DEF CallType

LEMMA DecodeInv ==
  ASSUME RInv, NEW p \in RestCallers, Decode(p)
  PROVE  RInv'
<1> PICK o \in CallType : o = call[p]
  BY DEF RInv, RestType
<1> DEFINE verdict == IF o.got # "envelope" THEN o.got
                      ELSE IF o.request[1].items
                      THEN require_successful_acknowledgements(o.effects)
                      ELSE "ok"
           c == [o EXCEPT !.pc = "done", !.got = verdict]
<1>0. CallSound(o) /\ WriteSound(o) /\ next_allowed \in Nat /\ clock \in Nat /\ o.pc = "decode"
  BY DEF RInv, RestType, Decode
<1>1. verdict \in Got
  BY DEF require_successful_acknowledgements, CallType, Got
<1>2. c \in CallType
  BY ZenonT(30), <1>1, DecodedCall DEF Places
<1>3. call' = [call EXCEPT ![p] = c]
  BY ZenonT(30) DEF Decode
<1>4. c.request = o.request /\ c.got = verdict /\ c.effects = o.effects /\ c.pc = "done"
  BY DEF CallType
<1>5. verdict = "ok" /\ o.request[1].items /\ o.effects \in {<<"all">>, <<"part">>} =>
        o.effects = <<"all">>
  <2>1. <<"part">>[Len(<<"part">>)] = "part"
    OBVIOUS
  <2>2. require_successful_acknowledgements(<<"part">>) = "partial"
    BY <2>1 DEF require_successful_acknowledgements
  <2> QED
    BY <1>0, <2>2 DEF CallSound
<1>6. verdict = "ok" => o.got = "envelope"
  BY <1>0 DEF CallSound
<1> HIDE DEF c, verdict
<1>7. CallSound(c)
  BY <1>0, <1>4 DEF CallSound
<1>8. WriteSound(c)
  BY <1>0, <1>4, <1>5, <1>6 DEF WriteSound, CallSound
<1> QED
  BY ZenonT(30), <1>0, <1>2, <1>3, <1>7, <1>8, CallStep DEF Decode

LEMMA RInvInit == RestInit => RInv
<1> SUFFICES ASSUME RestInit PROVE RInv
  OBVIOUS
<1>1. \A p \in RestCallers : call[p] \in CallType /\ CallSound(call[p]) /\ WriteSound(call[p])
  <2> TAKE p \in RestCallers
  <2>1. RestIdle \in CallType
    BY DEF RestIdle, CallType, Places, Got, RequestOrNone, Effect
  <2>2. CASE rest_program.calls[p] = <<>>
    <3>1. call[p] = RestIdle
      BY ZenonT(30), <2>2 DEF RestInit
    <3> QED
      BY <2>1, <3>1 DEF CallSound, WriteSound, RestIdle
  <2>3. CASE rest_program.calls[p] # <<>>
    <3> DEFINE q == rest_program.calls[p]
    <3>1. q \in RequestOrNone
      BY ZenonT(30) DEF RestInit, RequestOrNone
    <3>2. call[p] = [pc |-> "reserve", request |-> q, tries |-> 0, deadline |-> 0,
                     got |-> "none", after |-> 0, until |-> 0, effects |-> <<>>]
      BY ZenonT(30), <2>3 DEF RestInit, RestIdle
    <3> HIDE DEF q
    <3>3. call[p] \in CallType
      BY <3>1, <3>2 DEF CallType, Places, Got
    <3> QED
      BY <2>3, <3>2, <3>3 DEF CallSound, WriteSound, q
  <2> QED
    BY <2>2, <2>3
<1> QED
  BY ZenonT(30), <1>1 DEF RestInit, RInv, RestType

LEMMA RInvStep == RInv /\ [RestNext]_RestVars => RInv'
<1> SUFFICES ASSUME RInv, [RestNext]_RestVars PROVE RInv'
  OBVIOUS
<1>1. ASSUME NEW p \in RestCallers, Reserve(p) PROVE RInv'
  BY <1>1, ReserveInv
<1>2. ASSUME NEW p \in RestCallers, Transmit(p) PROVE RInv'
  BY <1>2, TransmitInv
<1>3. ASSUME NEW p \in RestCallers, RestAnswer(p) PROVE RInv'
  BY <1>3, AnswerInv
<1>4. ASSUME NEW p \in RestCallers, RestFailed(p) PROVE RInv'
  BY <1>4, FailedInv
<1>5. ASSUME NEW p \in RestCallers, Decode(p) PROVE RInv'
  BY <1>5, DecodeInv
<1>6. CASE RestTick
  BY <1>6 DEF RestTick, RInv, RestType, CallSound, WriteSound
<1>7. CASE UNCHANGED RestVars
  BY <1>7 DEF RestVars, RInv, RestType, CallSound, WriteSound
<1> QED
  BY <1>1, <1>2, <1>3, <1>4, <1>5, <1>6, <1>7 DEF RestNext

\* What a caller has done and been told, by the place of its call, stays sound.
THEOREM RestInvariant == RestSpec => []RInv
  BY RInvInit, RInvStep, PTL DEF RestSpec

-----------------------------------------------------------------------------
(***************************************************************************)
(* Waiting.  As long as nobody else has moved the limit, a caller that was *)
(* asked to wait finds it behind the instant it was given, and takes it    *)
(* along as its deadline.                                                  *)
(***************************************************************************)
Patient(c, mine, limit, t) ==
  /\ mine => /\ c.pc = "reserve" => limit >= c.until
             /\ c.pc = "sleep" => c.deadline >= c.until
             /\ c.pc = "sent" => t >= c.until
  /\ c.tries = 0 => c.until = 0
  /\ (c.tries = 1 /\ c.pc \in {"sent", "failed"}) => c.until = 0
AllPatient ==
  \A p \in RestCallers : Patient(call[p], throttler = p, next_allowed, clock)

\* A step of one caller: it is enough that it stays patient itself.
LEMMA PatientStep ==
  ASSUME RInv, AllPatient, NEW p \in RestCallers, NEW c \in CallType,
         call' = [call EXCEPT ![p] = c], clock' = clock,
         throttler' = p \/ UNCHANGED <<throttler, next_allowed>>,
         Patient(c, throttler' = p, next_allowed', clock)
  PROVE  AllPatient'
<1>1. \A r \in RestCallers : call'[r] = IF r = p THEN c ELSE call[r]
  BY DEF RInv, RestType
<1>2. ASSUME NEW r \in RestCallers
      PROVE  Patient(call'[r], throttler' = r, next_allowed', clock')
  <2>1. CASE r = p
    BY <1>1, <2>1
  <2>2. CASE r # p
    BY <1>1, <2>2 DEF AllPatient, Patient
  <2> QED
    BY <2>1, <2>2
<1> QED
  BY <1>2 DEF AllPatient

LEMMA ReservePatient ==
  ASSUME RInv, AllPatient, NEW p \in RestCallers, Reserve(p)
  PROVE  AllPatient'
<1> PICK o \in CallType : o = call[p]
  BY DEF RInv, RestType
<1> DEFINE c == [o EXCEPT !.pc = "sleep", !.deadline = next_allowed]
<1>1. c \in CallType
  BY ZenonT(30) DEF RInv, RestType, CallType, Places
<1>2. call' = [call EXCEPT ![p] = c]
  BY ZenonT(30) DEF Reserve
<1>3. o.pc = "reserve" /\ Patient(o, throttler = p, next_allowed, clock)
  BY DEF Reserve, AllPatient
<1>4. c.pc = "sleep" /\ c.deadline = next_allowed /\ c.until = o.until /\ c.tries = o.tries
  BY DEF CallType
<1> HIDE DEF c
<1>5. Patient(c, throttler' = p, next_allowed', clock)
  BY <1>3, <1>4 DEF Patient, Reserve
<1> QED
  BY ZenonT(30), <1>1, <1>2, <1>5, PatientStep DEF Reserve

LEMMA TransmitPatient ==
  ASSUME RInv, AllPatient, NEW p \in RestCallers, Transmit(p)
  PROVE  AllPatient'
<1> PICK o \in CallType : o = call[p]
  BY DEF RInv, RestType
<1> DEFINE place == IF o.request[1].auth /\ ~rest_program.credentials THEN "failed" ELSE "sent"
           n == o.tries + 1
           c == [o EXCEPT !.pc = place, !.tries = n, !.got = "credentials"]
<1>1. place \in {"failed", "sent"} /\ n \in Nat /\ n = o.tries + 1 /\ o.tries \in Nat
  BY DEF CallType
<1>2. call' = [call EXCEPT ![p] = c]
  BY ZenonT(30) DEF Transmit
<1>3. /\ o.pc = "sleep" /\ clock >= o.deadline /\ clock \in Nat
      /\ o.deadline \in Nat /\ o.until \in Nat
      /\ Patient(o, throttler = p, next_allowed, clock)
  BY DEF Transmit, AllPatient, RInv, RestType, CallType
<1> HIDE DEF place, n
<1>4. c \in CallType
  BY ZenonT(30), <1>1, SentCall DEF Places, Got
<1>5. c.pc = place /\ c.until = o.until /\ c.tries = n
  BY DEF CallType
<1> HIDE DEF c
<1>6. Patient(c, throttler' = p, next_allowed', clock)
  BY <1>1, <1>3, <1>5 DEF Patient, Transmit
<1> QED
  BY ZenonT(30), <1>2, <1>4, <1>6, PatientStep DEF Transmit

LEMMA AnswerPatient ==
  ASSUME RInv, AllPatient, NEW p \in RestCallers, RestAnswer(p), RInv'
  PROVE  AllPatient'
<1> PICK o \in CallType : o = call[p]
  BY DEF RInv, RestType
<1>1. PICK x \in Outcomes :
        call' = [call EXCEPT ![p].pc = IF x.got \in {"envelope", "exchange", "skew"}
                                       THEN "decode" ELSE "failed",
                             ![p].got = x.got, ![p].effects = @ \o x.acts,
                             ![p].after = x.after]
  BY ZenonT(30) DEF RestAnswer
<1> DEFINE place == IF x.got \in {"envelope", "exchange", "skew"} THEN "decode" ELSE "failed"
           posts == o.effects \o x.acts
           c == [o EXCEPT !.pc = place, !.got = x.got, !.effects = posts, !.after = x.after]
<1>2. call' = [call EXCEPT ![p] = c]
  BY ZenonT(30), <1>1
<1>3. o.pc = "sent" /\ Patient(o, throttler = p, next_allowed, clock)
  BY DEF RestAnswer, AllPatient
<1>4. place \in {"decode", "failed"}
  OBVIOUS
<1> HIDE DEF place, posts
<1>5. c.pc = place /\ c.until = o.until /\ c.tries = o.tries
  BY DEF CallType
<1>6. c \in CallType
  <2>1. call'[p] = c
    BY <1>2 DEF RInv, RestType
  <2> QED
    BY <2>1 DEF RInv, RestType
<1> HIDE DEF c
<1>7. Patient(c, throttler' = p, next_allowed', clock)
  BY <1>3, <1>4, <1>5 DEF Patient
<1> QED
  BY ZenonT(30), <1>2, <1>6, <1>7, PatientStep DEF RestAnswer

LEMMA FailedPatient ==
  ASSUME RInv, AllPatient, NEW p \in RestCallers, RestFailed(p)
  PROVE  AllPatient'
<1> PICK o \in CallType : o = call[p]
  BY DEF RInv, RestType
<1> DEFINE retry == o.tries = 1 /\ may_retry(o.request[1].safety, o.got)
           place == IF retry THEN "reserve" ELSE "done"
           u == IF retry /\ o.got = "rate" THEN clock + o.after ELSE o.until
           c == [o EXCEPT !.pc = place, !.until = u]
<1>1. call' = [call EXCEPT ![p] = c] /\ clock' = clock
  BY ZenonT(30) DEF RestFailed
<1>2. /\ o.pc = "failed" /\ clock \in Nat /\ next_allowed \in Nat
      /\ o.after \in Nat /\ o.until \in Nat /\ o.tries \in Nat
      /\ Patient(o, throttler = p, next_allowed, clock)
  BY DEF RestFailed, AllPatient, RInv, RestType, CallType
<1>3. /\ retry /\ o.got = "rate" => throttler' = p /\ next_allowed' >= u
      /\ ~(retry /\ o.got = "rate") => UNCHANGED <<throttler, next_allowed>> /\ u = o.until
  BY <1>2 DEF RestFailed, DelayOf
<1>4. /\ place \in {"reserve", "done"} /\ u \in Nat
      /\ retry => o.tries = 1
      /\ ~retry => place = "done"
  BY <1>2
<1> HIDE DEF retry, place, u
<1>5. c \in CallType
  BY ZenonT(30), <1>4, FailedCall DEF Places
<1>6. c.pc = place /\ c.until = u /\ c.tries = o.tries
  BY DEF CallType
<1> HIDE DEF c
<1>7. Patient(c, throttler' = p, next_allowed', clock)
  <2>1. CASE retry /\ o.got = "rate"
    BY <1>2, <1>3, <1>4, <1>6, <2>1 DEF Patient
  <2>2. CASE ~(retry /\ o.got = "rate")
    BY <1>2, <1>3, <1>4, <1>6, <2>2 DEF Patient
  <2> QED
    BY <2>1, <2>2
<1> QED
  BY ZenonT(30), <1>1, <1>3, <1>5, <1>7, PatientStep

LEMMA DecodePatient ==
  ASSUME RInv, AllPatient, NEW p \in RestCallers, Decode(p), RInv'
  PROVE  AllPatient'
<1> PICK o \in CallType : o = call[p]
  BY DEF RInv, RestType
<1> DEFINE verdict == IF o.got # "envelope" THEN o.got
                      ELSE IF o.request[1].items
                      THEN require_successful_acknowledgements(o.effects)
                      ELSE "ok"
           c == [o EXCEPT !.pc = "done", !.got = verdict]
<1>1. call' = [call EXCEPT ![p] = c]
  BY ZenonT(30) DEF Decode
<1> HIDE DEF verdict
<1>2. c.pc = "done" /\ c.until = o.until /\ c.tries = o.tries
  BY DEF CallType
<1>3. c \in CallType
  <2>1. call'[p] = c
    BY <1>1 DEF RInv, RestType
  <2> QED
    BY <2>1 DEF RInv, RestType
<1>4. Patient(o, throttler = p, next_allowed, clock)
  BY DEF AllPatient
<1> HIDE DEF c
<1>5. Patient(c, throttler' = p, next_allowed', clock)
  BY <1>2, <1>4 DEF Patient
<1> QED
  BY ZenonT(30), <1>1, <1>3, <1>5, PatientStep DEF Decode

LEMMA AllPatientStep == RInv /\ AllPatient /\ [RestNext]_RestVars => AllPatient'
<1> SUFFICES ASSUME RInv, AllPatient, [RestNext]_RestVars PROVE AllPatient'
  OBVIOUS
<1>0. RInv'
  BY RInvStep
<1>1. ASSUME NEW p \in RestCallers, Reserve(p) PROVE AllPatient'
  BY <1>1, ReservePatient
<1>2. ASSUME NEW p \in RestCallers, Transmit(p) PROVE AllPatient'
  BY <1>2, TransmitPatient
<1>3. ASSUME NEW p \in RestCallers, RestAnswer(p) PROVE AllPatient'
  BY <1>0, <1>3, AnswerPatient
<1>4. ASSUME NEW p \in RestCallers, RestFailed(p) PROVE AllPatient'
  BY <1>4, FailedPatient
<1>5. ASSUME NEW p \in RestCallers, Decode(p) PROVE AllPatient'
  BY <1>0, <1>5, DecodePatient
<1>6. CASE RestTick
  <2> SUFFICES ASSUME NEW p \in RestCallers
               PROVE  Patient(call'[p], throttler' = p, next_allowed', clock')
    BY DEF AllPatient
  <2> PICK o \in CallType : o = call[p]
    BY DEF RInv, RestType
  <2>1. /\ clock \in Nat /\ clock' = clock + 1 /\ o.until \in Nat
        /\ UNCHANGED <<call, throttler, next_allowed>>
        /\ Patient(o, throttler = p, next_allowed, clock)
    BY <1>6 DEF RestTick, RInv, RestType, CallType, AllPatient
  <2> QED
    BY <2>1 DEF Patient
<1>7. CASE UNCHANGED RestVars
  BY <1>7 DEF RestVars, AllPatient, Patient
<1> QED
  BY <1>1, <1>2, <1>3, <1>4, <1>5, <1>6, <1>7 DEF RestNext

-----------------------------------------------------------------------------
\* execute_with_metadata: OKX acts on a write at most once.
LEMMA WriteOnce == RInv => WriteActsOnce
<1> SUFFICES ASSUME RInv, NEW p \in RestCallers,
                    call[p].request # <<>>, call[p].request[1].method = "POST"
             PROVE  Len(call[p].effects) <= 1
  BY DEF WriteActsOnce
<1>1. call[p].effects \in {<<>>, <<"all">>, <<"part">>}
  BY DEF RInv, RestType, CallType, Places, WriteSound
<1>2. Len(<<>>) <= 1 /\ Len(<<"all">>) <= 1 /\ Len(<<"part">>) <= 1
  OBVIOUS
<1> QED
  BY ZenonT(30), <1>1, <1>2

\* require_successful_acknowledgements: an order write that returns Ok has been
\* carried out, once and in every item.
LEMMA OkIsDone == RInv => OkMeansDone
<1> SUFFICES ASSUME RInv, NEW p \in RestCallers,
                    call[p].pc = "done", call[p].got = "ok", call[p].request[1].items
             PROVE  call[p].effects = <<"all">>
  BY DEF OkMeansDone
<1>1. call[p] \in CallType /\ CallSound(call[p]) /\ WriteSound(call[p])
  BY DEF RInv, RestType
<1>2. call[p].request # <<>>
  BY <1>1 DEF CallSound
<1>3. call[p].request[1].method = "POST"
  BY <1>1, <1>2, RequestOf, PostNeverReplays
<1> QED
  BY <1>1, <1>2, <1>3 DEF WriteSound

\* For any number of callers sharing the limiter, any requests of the services and
\* whatever is lost on the way: a write acts at most once, an order call that
\* returns Ok was carried out in every item, and a retry waits for the delay OKX
\* asked for.
THEOREM RestCallsHonest == RestSpec => []RestHonest
<1>1. RestInit => AllPatient
  <2> SUFFICES ASSUME RestInit, NEW p \in RestCallers
               PROVE  Patient(call[p], throttler = p, next_allowed, clock)
    BY ZenonT(30) DEF AllPatient
  <2>1. call[p].until = 0 /\ call[p].tries = 0 /\ call[p].deadline = 0
    <3>1. CASE rest_program.calls[p] = <<>>
      BY ZenonT(30), <3>1 DEF RestInit, RestIdle
    <3>2. CASE rest_program.calls[p] # <<>>
      <4>1. call[p] = [pc |-> "reserve", request |-> rest_program.calls[p], tries |-> 0,
                       deadline |-> 0, got |-> "none", after |-> 0, until |-> 0,
                       effects |-> <<>>]
        BY ZenonT(30), <3>2 DEF RestInit, RestIdle
      <4> QED
        BY <4>1
    <3> QED
      BY <3>1, <3>2
  <2>2. clock = 0 /\ next_allowed = 0
    BY ZenonT(30) DEF RestInit
  <2> QED
    BY <2>1, <2>2 DEF Patient
<1>2. RInv /\ AllPatient => RestHonest
  BY WriteOnce, OkIsDone DEF RestHonest, RetryWaits, AllPatient, Patient
<1> QED
  BY <1>1, <1>2, RestInvariant, AllPatientStep, PTL DEF RestSpec

-----------------------------------------------------------------------------
(***************************************************************************)
(* The stream session.                                                     *)
(***************************************************************************)
Commands ==
  [op : {"login", "ping"}] \cup [op : {"order"}, logged : BOOLEAN]
  \cup [op : {"subscribe"}, id : Nat, key : Keys] \cup [op : {"unsubscribe"}, key : Keys]
Events ==
  [event : {"login", "error", "subscribe", "unsubscribe", "pong", "notice"}, id : Nat,
   ok : BOOLEAN]

Away == {"Disconnected", "Connecting", "Backoff"}

Sessions ==
  [state : Away \cup {"Authenticating", "Resubscribing", "Active"},
   authentication_required : BOOLEAN, authenticated : BOOLEAN, next_request_id : Nat,
   deadline : Seq(Nat), awaiting_pong : BOOLEAN]
Nets ==
  [open : BOOLEAN, logged : BOOLEAN, held : SUBSET Keys, out : Seq(Commands),
   in : Seq(Events), broken : BOOLEAN]

StreamTyped ==
  /\ ws \in Sessions /\ net \in Nets
  /\ subs = [desired |-> subs.desired, active |-> subs.active, pending |-> subs.pending]
  /\ subs.pending = [i \in DOMAIN subs.pending |-> subs.pending[i]]
  /\ polled \in BOOLEAN /\ quiet \in Nat

\* A session that is not in use has forgotten its login and its deadline, and
\* one that is in use has a connection.
AwayIsBlank ==
  /\ ws.state \in Away => ~ws.authenticated /\ ws.deadline = <<>> /\ ~ws.awaiting_pong
  /\ ws.state \in {"Disconnected", "Connecting"} => ~net.open
  /\ ws.state \notin Away => net.open
  /\ ~net.open => subs.active = {} /\ DOMAIN subs.pending = {}

\* What the session knows of its login, and what it will hear, OKX has said.
LoginTaken ==
  /\ ws.authenticated => net.logged
  /\ \A i \in DOMAIN net.in : (net.in[i].event = "login" /\ net.in[i].ok) => net.logged

\* A key that OKX holds, with no cancellation of it on the way.
Firm(key) ==
  /\ key \in net.held
  /\ \A i \in DOMAIN net.out : net.out[i].op = "unsubscribe" => net.out[i].key # key

\* Request ids are never used again.
IdsUsed ==
  /\ \A id \in DOMAIN subs.pending : id \in Nat /\ id <= ws.next_request_id
  /\ \A i \in DOMAIN net.out : net.out[i].op = "subscribe" => net.out[i].id <= ws.next_request_id
  /\ \A i \in DOMAIN net.in : net.in[i].event = "subscribe" => net.in[i].id <= ws.next_request_id

\* A request that is on its way is for the key it is remembered for, and no
\* cancellation of that key follows it.
AskedLast ==
  \A i \in DOMAIN net.out : 
    (net.out[i].op = "subscribe" /\ net.out[i].id \in DOMAIN subs.pending) =>
      /\ net.out[i].key = subs.pending[net.out[i].id]
      /\ \A j \in DOMAIN net.out :
           (i < j /\ net.out[j].op = "unsubscribe") => net.out[j].key # net.out[i].key

SubscriptionsFirm ==
  /\ \A key \in subs.active : Firm(key)
  /\ \A i \in DOMAIN net.in :
       (net.in[i].event = "subscribe" /\ net.in[i].id \in DOMAIN subs.pending) =>
         Firm(subs.pending[net.in[i].id])

\* The deadline counts from when something was last received: one interval to
\* the ping, one from there; the poll that sets it may be an instant late.
DeadlineCounts ==
  ws.state \notin Away =>
    /\ \/ /\ ws.deadline = <<>> /\ ~ws.awaiting_pong
          /\ quiet <= (IF polled THEN 0 ELSE 1)
       \/ /\ Len(ws.deadline) = 1
          /\ polled => ws.deadline[1] > 0
          /\ LET due == quiet + ws.deadline[1]
                 from == IF ws.awaiting_pong THEN 2 * HEARTBEAT_INTERVAL ELSE HEARTBEAT_INTERVAL
             IN  from <= due /\ due <= from + 1

BookKept == IdsUsed /\ AskedLast /\ SubscriptionsFirm /\ OrdersLoggedIn

StreamInv ==
  /\ StreamTyped /\ AwayIsBlank /\ LoginTaken /\ BookKept /\ DeadlineCounts /\ PongSaves

-----------------------------------------------------------------------------
(***************************************************************************)
(* Queues, commands and events.                                            *)
(***************************************************************************)
LEMMA Appended ==
  ASSUME NEW S, NEW q \in Seq(S), NEW x \in S
  PROVE  /\ Append(q, x) \in Seq(S)
         /\ DOMAIN Append(q, x) = DOMAIN q \cup {Len(q) + 1}
         /\ \A i \in DOMAIN q : Append(q, x)[i] = q[i] /\ i < Len(q) + 1 /\ i \in Nat
         /\ Append(q, x)[Len(q) + 1] = x /\ Len(q) + 1 \in Nat
OBVIOUS

LEMMA Taken ==
  ASSUME NEW S, NEW q \in Seq(S), q # <<>>
  PROVE  /\ Tail(q) \in Seq(S) /\ Head(q) \in S /\ 1 \in DOMAIN q /\ Head(q) = q[1]
         /\ \A i \in DOMAIN Tail(q) : i + 1 \in DOMAIN q /\ Tail(q)[i] = q[i + 1] /\ i \in Nat
                                      /\ i > 0
OBVIOUS

LEMMA CommandsMade ==
  /\ [op |-> "login"] \in Commands /\ [op |-> "ping"] \in Commands
  /\ \A b \in BOOLEAN : [op |-> "order", logged |-> b] \in Commands
  /\ \A id \in Nat, key \in Keys : [op |-> "subscribe", id |-> id, key |-> key] \in Commands
  /\ \A key \in Keys : [op |-> "unsubscribe", key |-> key] \in Commands
BY DEF Commands

LEMMA CommandFields ==
  ASSUME NEW c \in Commands
  PROVE  /\ c.op = "subscribe" => c.id \in Nat /\ c.key \in Keys
         /\ c.op = "unsubscribe" => c.key \in Keys
BY DEF Commands

LEMMA EventsMade ==
  ASSUME NEW event \in {"login", "error", "subscribe", "unsubscribe", "pong", "notice"},
         NEW id \in Nat, NEW ok \in BOOLEAN
  PROVE  /\ Ack(event, id, ok) \in Events
         /\ Ack(event, id, ok).event = event /\ Ack(event, id, ok).id = id
         /\ Ack(event, id, ok).ok = ok
BY DEF Ack, Events

-----------------------------------------------------------------------------
(***************************************************************************)
(* The moves of Session.                                                   *)
(***************************************************************************)
SameClock(s, t) == t.deadline = s.deadline /\ t.awaiting_pong = s.awaiting_pong
Blank(s) == ~s.authenticated /\ s.deadline = <<>> /\ ~s.awaiting_pong

LEMMA Moves ==
  ASSUME NEW s \in Sessions
  PROVE  /\ login_required(s) \in Sessions /\ login_required(s).state = "Authenticating"
         /\ ~login_required(s).authenticated /\ SameClock(s, login_required(s))
         /\ login_required(s).next_request_id = s.next_request_id
BY ZenonT(30) DEF Sessions, Away, login_required, SameClock

LEMMA EndMoves ==
  ASSUME NEW s \in Sessions
  PROVE  /\ disconnected(s) \in Sessions /\ disconnected(s).state = "Backoff"
         /\ Blank(disconnected(s)) /\ disconnected(s).next_request_id = s.next_request_id
<1>1. <<>> \in Seq(Nat)
  OBVIOUS
<1>2. QED BY ZenonT(30), <1>1 DEF Sessions, Away, disconnected, Blank

LEMMA PongMoves ==
  ASSUME NEW s \in Sessions
  PROVE  /\ pong_received(s) \in Sessions /\ pong_received(s).state = s.state
         /\ pong_received(s).authenticated = s.authenticated
         /\ pong_received(s).deadline = <<>> /\ ~pong_received(s).awaiting_pong
         /\ pong_received(s).next_request_id = s.next_request_id
<1>1. <<>> \in Seq(Nat)
  OBVIOUS
<1>2. QED BY ZenonT(30), <1>1 DEF Sessions, pong_received

LEMMA MessageMoves ==
  ASSUME NEW s \in Sessions
  PROVE  /\ message_received(s) \in Sessions /\ message_received(s).state = s.state
         /\ message_received(s).authenticated = s.authenticated
         /\ message_received(s).deadline = <<HEARTBEAT_INTERVAL>>
         /\ ~message_received(s).awaiting_pong
         /\ message_received(s).next_request_id = s.next_request_id
<1>1. <<HEARTBEAT_INTERVAL>> \in Seq(Nat)
  BY OkxStreamAssumption
<1>2. QED BY ZenonT(30), <1>1 DEF Sessions, message_received

LEMMA Acknowledged ==
  ASSUME NEW s \in Sessions, NEW ok \in BOOLEAN
  PROVE  /\ login_acknowledged(s, ok) \in Sessions /\ login_acknowledged(s, ok).state \notin Away
         /\ login_acknowledged(s, ok).authenticated = ok
         /\ SameClock(s, login_acknowledged(s, ok))
         /\ login_acknowledged(s, ok).next_request_id = s.next_request_id
BY ZenonT(30) DEF Sessions, Away, login_acknowledged, SameClock

LEMMA ReplayedMoves ==
  ASSUME NEW s \in Sessions
  PROVE  /\ subscriptions_replayed(s) \in Sessions
         /\ subscriptions_replayed(s).state \in {s.state, "Active"}
         /\ subscriptions_replayed(s).authenticated = s.authenticated
         /\ SameClock(s, subscriptions_replayed(s))
         /\ subscriptions_replayed(s).next_request_id = s.next_request_id
BY DEF Sessions, Away, subscriptions_replayed, SameClock

LEMMA ConnectedMoves ==
  ASSUME NEW s \in Sessions, ~s.authenticated
  PROVE  /\ connected(s) \in Sessions /\ connected(s).state \notin Away
         /\ ~connected(s).authenticated /\ SameClock(s, connected(s))
         /\ connected(s).next_request_id = s.next_request_id
<1>1. ASSUME NEW t \in Sessions, ~t.authenticated
      PROVE  /\ session_connected(t) \in Sessions /\ session_connected(t).state \notin Away
             /\ ~session_connected(t).authenticated /\ SameClock(t, session_connected(t))
             /\ session_connected(t).next_request_id = t.next_request_id
  <2>1. CASE t.authentication_required
    BY <1>1, <2>1, Moves DEF session_connected, Away
  <2>2. CASE ~t.authentication_required
    BY ZenonT(30), <1>1, <2>2 DEF session_connected, subscriptions_replayed, Away, Sessions, SameClock
  <2>3. QED BY <2>1, <2>2
<1>2. QED BY <1>1, Moves DEF connected, SameClock

-----------------------------------------------------------------------------
(***************************************************************************)
(* What steps leave alone.                                                 *)
(***************************************************************************)
LEMMA SameWatch ==
  ASSUME DeadlineCounts, PongSaves, SameClock(ws, ws'), UNCHANGED <<polled, quiet, dropped>>,
         ws'.state \notin Away => ws.state \notin Away
  PROVE  DeadlineCounts' /\ PongSaves'
BY DEF DeadlineCounts, PongSaves, SameClock

LEMMA SameBook ==
  ASSUME StreamTyped, BookKept, UNCHANGED <<subs, net>>, ws' \in Sessions,
         ws'.next_request_id = ws.next_request_id
  PROVE  BookKept'
<1>1. IdsUsed'
  BY DEF BookKept, IdsUsed
<1>2. AskedLast' /\ OrdersLoggedIn'
  BY DEF BookKept, AskedLast, OrdersLoggedIn
<1>3. SubscriptionsFirm'
  BY DEF BookKept, SubscriptionsFirm, Firm
<1>4. QED BY <1>1, <1>2, <1>3 DEF BookKept

LEMMA Types ==
  ASSUME StreamTyped
  PROVE  /\ ws.next_request_id \in Nat /\ net.out \in Seq(Commands) /\ net.in \in Seq(Events)
         /\ \A i \in DOMAIN net.in : net.in[i] \in Events /\ net.in[i].id \in Nat
         /\ \A i \in DOMAIN net.out :
              net.out[i] \in Commands /\ (net.out[i].op = "subscribe" => net.out[i].id \in Nat)
<1>1. ws.next_request_id \in Nat /\ net.out \in Seq(Commands) /\ net.in \in Seq(Events)
  BY DEF StreamTyped, Sessions, Nets
<1>2. \A i \in DOMAIN net.in : net.in[i] \in Events
  BY <1>1
<1>3. \A e \in Events : e.id \in Nat
  BY DEF Events
<1>4. \A i \in DOMAIN net.out : net.out[i] \in Commands
  BY <1>1
<1>5. QED BY <1>1, <1>2, <1>3, <1>4, CommandFields

\* A command that is not about a subscription goes out.
LEMMA CommandSent ==
  ASSUME StreamTyped, BookKept, LoginTaken, UNCHANGED subs, ws' \in Sessions,
         ws'.next_request_id >= ws.next_request_id, ws'.authenticated => ws.authenticated,
         NEW c \in Commands, c.op \notin {"subscribe", "unsubscribe"},
         c.op = "order" => c.logged, net' = PutCommand(c)
  PROVE  BookKept' /\ LoginTaken' /\ net' \in Nets /\ net'.open = net.open
<1>1. /\ net' \in Nets /\ net'.open = net.open /\ net'.logged = net.logged
      /\ net'.held = net.held /\ net'.in = net.in /\ net'.out = Append(net.out, c)
      /\ net.out \in Seq(Commands)
  BY ZenonT(30), Appended DEF StreamTyped, Nets, PutCommand
<1>2. \A i \in DOMAIN net'.out : \/ i \in DOMAIN net.out /\ net'.out[i] = net.out[i]
                                 \/ net'.out[i] = c
  BY <1>1, Appended
<1>3. ws'.next_request_id \in Nat
  BY DEF Sessions
<1>4. IdsUsed'
  <2>1. \A n \in Nat : n <= ws.next_request_id => n <= ws'.next_request_id
    BY <1>3, Types
  <2>2. \A i \in DOMAIN net'.out : net'.out[i].op = "subscribe" =>
                                    net'.out[i].id <= ws'.next_request_id
    BY <1>2, <2>1, Types DEF BookKept, IdsUsed
  <2>3. \A i \in DOMAIN net'.in : net'.in[i].event = "subscribe" =>
                                   net'.in[i].id <= ws'.next_request_id
    BY <1>1, <2>1, Types DEF BookKept, IdsUsed
  <2>4. QED BY <2>1, <2>2, <2>3 DEF BookKept, IdsUsed
<1>5. AskedLast'
  BY <1>1, <1>2 DEF BookKept, AskedLast
<1>6. OrdersLoggedIn'
  BY <1>1, <1>2 DEF BookKept, OrdersLoggedIn
<1>7. \A key : Firm(key) => Firm(key)'
  BY <1>1, <1>2 DEF Firm
<1>8. SubscriptionsFirm'
  BY <1>1, <1>7 DEF BookKept, SubscriptionsFirm
<1>9. LoginTaken'
  BY <1>1 DEF LoginTaken
<1>10. QED BY <1>1, <1>4, <1>5, <1>6, <1>8, <1>9 DEF BookKept

-----------------------------------------------------------------------------
(***************************************************************************)
(* The steps.                                                              *)
(***************************************************************************)

\* Steps of the session alone, apart from its clock.
LEMMA SessionAlone ==
  ASSUME StreamInv, Connecting \/ ConnectionRefused \/ Replayed \/ ReceiveFails
  PROVE  StreamInv'
<1>1. /\ StreamTyped /\ AwayIsBlank /\ LoginTaken /\ BookKept /\ DeadlineCounts /\ PongSaves
      /\ UNCHANGED <<subs, net, polled, quiet, dropped>> /\ ws \in Sessions
  BY DEF StreamInv, StreamTyped, Connecting, ConnectionRefused, Replayed, ReceiveFails
<1>2. /\ ws' \in Sessions /\ ws'.next_request_id = ws.next_request_id
      /\ ws'.authenticated => ws.authenticated
      /\ ws'.state \in Away => Blank(ws')
      /\ ws'.state \notin Away => ws.state \notin Away /\ SameClock(ws, ws')
      /\ ws'.state \in {"Disconnected", "Connecting"} => ~net.open
  <2>1. CASE Connecting
    BY <1>1, <2>1 DEF Connecting, Sessions, Away, Blank, SameClock, AwayIsBlank
  <2>2. CASE ConnectionRefused \/ ReceiveFails
    BY <1>1, <2>2, EndMoves DEF ConnectionRefused, ReceiveFails, Away, Blank
  <2>3. CASE Replayed
    BY <1>1, <2>3, ReplayedMoves DEF Replayed, Away
  <2>4. QED BY <2>1, <2>2, <2>3
<1>3. StreamTyped'
  BY <1>1, <1>2 DEF StreamTyped
<1>4. BookKept'
  BY <1>1, <1>2, SameBook
<1>5. AwayIsBlank'
  BY <1>1, <1>2 DEF AwayIsBlank, Blank
<1>6. LoginTaken'
  BY <1>1, <1>2 DEF LoginTaken
<1>7. DeadlineCounts' /\ PongSaves'
  BY <1>1, <1>2 DEF DeadlineCounts, PongSaves, SameClock
<1>8. QED BY <1>3, <1>4, <1>5, <1>6, <1>7 DEF StreamInv

\* A connection with nothing on it.
LEMMA EmptyNet ==
  ASSUME NEW b \in BOOLEAN, subs'.active = {}, DOMAIN subs'.pending = {},
         net' = [open |-> b, logged |-> FALSE, held |-> {}, out |-> <<>>, in |-> <<>>,
                 broken |-> FALSE]
  PROVE  net' \in Nets /\ net'.open = b /\ net'.in = <<>> /\ BookKept'
<1>1. <<>> \in Seq(Commands) /\ <<>> \in Seq(Events)
  OBVIOUS
<1>2. net' \in Nets /\ net'.open = b /\ net'.in = <<>> /\ net'.out = <<>>
  BY <1>1 DEF Nets
<1>3. DOMAIN net'.in = {} /\ DOMAIN net'.out = {}
  BY <1>2
<1>4. QED BY <1>2, <1>3
          DEF BookKept, IdsUsed, AskedLast, SubscriptionsFirm, OrdersLoggedIn

LEMMA ConnectionEnds ==
  ASSUME StreamInv, ConnectionMade \/ GiveUpConnection
  PROVE  StreamInv'
<1>1. /\ StreamTyped /\ AwayIsBlank /\ LoginTaken /\ BookKept /\ DeadlineCounts /\ PongSaves
      /\ UNCHANGED dropped /\ ws \in Sessions
  BY DEF StreamInv, StreamTyped, ConnectionMade, GiveUpConnection
<1>2. CASE ConnectionMade
  <2>1. ~net.open /\ Blank(ws) /\ subs.active = {} /\ DOMAIN subs.pending = {}
    BY <1>1, <1>2 DEF ConnectionMade, AwayIsBlank, Away, Blank
  <2>2. /\ ws' \in Sessions /\ ws'.state \notin Away /\ ~ws'.authenticated
        /\ ws'.deadline = <<>> /\ ~ws'.awaiting_pong
    BY <1>1, <1>2, <2>1, ConnectedMoves DEF ConnectionMade, Blank, SameClock
  <2>3. net' \in Nets /\ net'.open /\ net'.in = <<>> /\ BookKept'
    <3>1. /\ subs'.active = {} /\ DOMAIN subs'.pending = {}
          /\ net' = [open |-> TRUE, logged |-> FALSE, held |-> {}, out |-> <<>>, in |-> <<>>,
                     broken |-> FALSE]
      BY ZenonT(30), <1>2, <2>1 DEF ConnectionMade, NoNet
    <3>2. QED BY ZenonT(30), <2>1, <3>1, EmptyNet
  <2>4. QED BY <1>1, <1>2, <2>2, <2>3
            DEF StreamInv, StreamTyped, AwayIsBlank, LoginTaken, DeadlineCounts, PongSaves,
                ConnectionMade, Away
<1>3. CASE GiveUpConnection
  <2>1. /\ subs'.active = {} /\ DOMAIN subs'.pending = {} /\ ws' = ws /\ ws.state = "Backoff"
        /\ subs' = [desired |-> subs'.desired, active |-> subs'.active, pending |-> subs'.pending]
        /\ subs'.pending = [i \in DOMAIN subs'.pending |-> subs'.pending[i]]
        /\ UNCHANGED <<polled, quiet>>
    <3>1. DOMAIN <<>> = {} /\ <<>> = [i \in DOMAIN <<>> |-> <<>>[i]]
      OBVIOUS
    <3>2. QED BY ZenonT(30), <1>1, <1>3, <3>1 DEF GiveUpConnection, disconnect, StreamTyped
  <2>2. net' \in Nets /\ ~net'.open /\ net'.in = <<>> /\ BookKept'
    <3>1. net' = [open |-> FALSE, logged |-> FALSE, held |-> {}, out |-> <<>>, in |-> <<>>,
                  broken |-> FALSE]
      BY ZenonT(30), <1>3 DEF GiveUpConnection, NoNet
    <3>2. QED BY ZenonT(30), <2>1, <3>1, EmptyNet
  <2>3. QED BY <1>1, <2>1, <2>2
            DEF StreamInv, StreamTyped, AwayIsBlank, LoginTaken, DeadlineCounts, PongSaves, Away
<1>4. QED BY <1>2, <1>3

\* Login, and the commands of PrivateSession and BusinessSession.
LEMMA CommandsKeep ==
  ASSUME StreamInv, Login \/ WriteCommand
  PROVE  StreamInv'
<1>1. /\ StreamTyped /\ AwayIsBlank /\ LoginTaken /\ BookKept /\ DeadlineCounts /\ PongSaves
      /\ UNCHANGED <<subs, polled, quiet, dropped>> /\ ws \in Sessions /\ net.open
      /\ ws.state \notin Away
  BY DEF StreamInv, StreamTyped, Login, WriteCommand, Up, AwayIsBlank, Away
<1>2. /\ ws' \in Sessions /\ ws'.next_request_id >= ws.next_request_id
      /\ ws'.authenticated => ws.authenticated
      /\ ws'.state \notin Away /\ SameClock(ws, ws')
  <2>1. CASE Login
    BY <1>1, <2>1, Moves, Types DEF Login, Away
  <2>2. CASE WriteCommand
    <3>1. ws' = [ws EXCEPT !.next_request_id = ws.next_request_id + 1]
      BY <2>2 DEF WriteCommand
    <3>2. ws.next_request_id + 1 \in Nat /\ ws.next_request_id + 1 >= ws.next_request_id
      BY <1>1, Types
    <3>3. QED BY <1>1, <3>1, <3>2 DEF Sessions, SameClock
  <2>3. QED BY <2>1, <2>2
<1>3. BookKept' /\ LoginTaken' /\ net' \in Nets /\ net'.open = net.open
  <2>1. CASE Login
    <3>1. net' = PutCommand([op |-> "login"])
      BY <2>1 DEF Login
    <3>2. QED BY ZenonT(30), <1>1, <1>2, <3>1, CommandsMade, CommandSent
  <2>2. CASE WriteCommand
    <3>1. net' = PutCommand([op |-> "order", logged |-> net.logged]) /\ net.logged
      BY <1>1, <2>2 DEF WriteCommand, can_write, LoginTaken
    <3>2. [op |-> "order", logged |-> net.logged] \in Commands
      BY ZenonT(30), <3>1, CommandsMade
    <3>3. QED BY ZenonT(30), <1>1, <1>2, <3>1, <3>2, CommandSent
  <2>3. QED BY <2>1, <2>2
<1>4. DeadlineCounts' /\ PongSaves'
  BY <1>1, <1>2, SameWatch
<1>5. QED BY <1>1, <1>2, <1>3, <1>4 DEF StreamInv, StreamTyped, AwayIsBlank, Away

\* The clock is not all there is.
LEMMA SameRest ==
  ASSUME StreamTyped, AwayIsBlank, LoginTaken, PongSaves, UNCHANGED <<subs, net, dropped>>,
         ws' \in Sessions, ws'.state = ws.state, ws'.authenticated = ws.authenticated,
         ws.state \notin Away, polled' \in BOOLEAN, quiet' \in Nat
  PROVE  StreamTyped' /\ AwayIsBlank' /\ LoginTaken' /\ PongSaves'
<1>1. StreamTyped'
  BY DEF StreamTyped
<1>2. AwayIsBlank'
  BY DEF AwayIsBlank, Away
<1>3. LoginTaken'
  BY DEF LoginTaken
<1>4. PongSaves'
  BY DEF PongSaves
<1>5. QED BY <1>1, <1>2, <1>3, <1>4

\* An instant passes: the deadline comes nearer, from where the last poll left it.
LEMMA TickKeeps == StreamInv /\ StreamTick => StreamInv'
<1> SUFFICES ASSUME StreamInv, StreamTick PROVE StreamInv'
  OBVIOUS
<1>1. /\ StreamTyped /\ AwayIsBlank /\ LoginTaken /\ BookKept /\ DeadlineCounts /\ PongSaves
      /\ UNCHANGED <<subs, net, dropped>> /\ ws \in Sessions /\ net.open
      /\ ws.state \notin Away /\ polled /\ ~polled' /\ quiet' = quiet + 1
      /\ ws.deadline \in Seq(Nat) /\ quiet \in Nat /\ quiet' \in Nat
  BY DEF StreamInv, StreamTyped, StreamTick, Up, AwayIsBlank, Away, Sessions
<1>0. polled' \in BOOLEAN
  BY ZenonT(30) DEF StreamTick
<1>2. CASE ws.deadline = <<>>
  <2>1. ws' = [ws EXCEPT !.deadline = <<>>]
    BY <1>2 DEF StreamTick
  <2>2. /\ ws' \in Sessions /\ ws'.state = ws.state /\ ws'.authenticated = ws.authenticated
        /\ ws'.next_request_id = ws.next_request_id /\ SameClock(ws, ws')
    BY <1>1, <1>2, <2>1 DEF Sessions, SameClock
  <2>3. quiet = 0 /\ ~ws.awaiting_pong
    BY <1>1, <1>2 DEF DeadlineCounts
  <2>4. DeadlineCounts'
    BY <1>1, <1>2, <2>2, <2>3 DEF DeadlineCounts, SameClock
  <2>5. BookKept'
    BY <1>1, <2>2, SameBook
  <2>6. StreamTyped' /\ AwayIsBlank' /\ LoginTaken' /\ PongSaves'
    BY <1>0, <1>1, <2>2, SameRest DEF SameClock
  <2>7. QED BY <2>4, <2>5, <2>6 DEF StreamInv
<1>3. CASE ws.deadline # <<>>
  <2>1. /\ ws.deadline[1] > 0 /\ ws.deadline[1] \in Nat
        /\ LET due == quiet + ws.deadline[1]
               from == IF ws.awaiting_pong THEN 2 * HEARTBEAT_INTERVAL ELSE HEARTBEAT_INTERVAL
           IN  from <= due /\ due <= from + 1
    BY <1>1, <1>3 DEF DeadlineCounts
  <2>2. ws' = [ws EXCEPT !.deadline = <<ws.deadline[1] - 1>>]
    BY <1>3, <2>1 DEF StreamTick
  <2>3. /\ <<ws.deadline[1] - 1>> \in Seq(Nat) /\ Len(<<ws.deadline[1] - 1>>) = 1
        /\ <<ws.deadline[1] - 1>>[1] = ws.deadline[1] - 1
    BY <2>1
  <2>4. /\ ws' \in Sessions /\ ws'.state = ws.state /\ ws'.authenticated = ws.authenticated
        /\ ws'.next_request_id = ws.next_request_id /\ ws'.awaiting_pong = ws.awaiting_pong
        /\ ws'.deadline = <<ws.deadline[1] - 1>>
    BY ZenonT(30), <1>1, <2>2, <2>3 DEF Sessions
  <2>5. quiet' + ws'.deadline[1] = quiet + ws.deadline[1]
    <3>1. ws'.deadline[1] = ws.deadline[1] - 1
      BY <2>3, <2>4
    <3>2. quiet' = quiet + 1 /\ quiet \in Nat /\ ws.deadline[1] \in Nat
      BY <1>1, <2>1
    <3>3. QED BY <3>1, <3>2
  <2>6. DeadlineCounts'
    BY <1>1, <2>1, <2>3, <2>4, <2>5 DEF DeadlineCounts
  <2>7. BookKept'
    BY <1>1, <2>4, SameBook
  <2>8. StreamTyped' /\ AwayIsBlank' /\ LoginTaken' /\ PongSaves'
    BY <1>0, <1>1, <2>4, SameRest
  <2>9. QED BY <2>6, <2>7, <2>8 DEF StreamInv
<1>4. QED BY <1>2, <1>3

\* The poll: it sets a deadline, waits, pings, or gives up.
LEMMA HeartbeatKeeps == StreamInv /\ Heartbeat => StreamInv'
<1> SUFFICES ASSUME StreamInv, Heartbeat PROVE StreamInv'
  OBVIOUS
<1>1. /\ StreamTyped /\ AwayIsBlank /\ LoginTaken /\ BookKept /\ DeadlineCounts /\ PongSaves
      /\ UNCHANGED <<subs, quiet>> /\ ws \in Sessions /\ net.open
      /\ ws.state \notin Away /\ ~polled /\ polled'
      /\ ws.deadline \in Seq(Nat) /\ quiet \in Nat
  BY DEF StreamInv, StreamTyped, Heartbeat, Up, AwayIsBlank, Away, Sessions
<1>2. HEARTBEAT_INTERVAL \in Nat /\ HEARTBEAT_INTERVAL > 0
  BY OkxStreamAssumption
<1>3. ASSUME ws' \in Sessions, ws'.next_request_id = ws.next_request_id,
             ws'.authenticated => ws.authenticated,
             \/ ws'.state = "Backoff" /\ Blank(ws')
             \/ ws'.state = ws.state,
             net' = net, DeadlineCounts', PongSaves'
      PROVE  StreamInv'
  <2>1. BookKept'
    BY <1>1, <1>3, SameBook
  <2>2. AwayIsBlank'
    BY <1>1, <1>3 DEF AwayIsBlank, Away, Blank
  <2>3. QED BY <1>1, <1>3, <2>1, <2>2 DEF StreamInv, StreamTyped, LoginTaken
<1>4. CASE ws.deadline = <<>>
  <2>1. ping_due(ws) = [ping |-> FALSE, s |-> [ws EXCEPT !.deadline = <<HEARTBEAT_INTERVAL>>]]
    BY <1>4 DEF ping_due
  <2>2. /\ ws' = [ws EXCEPT !.deadline = <<HEARTBEAT_INTERVAL>>] /\ net' = net
        /\ dropped' = IF ws'.state = "Backoff" THEN <<quiet>> ELSE dropped
    BY <2>1 DEF Heartbeat
  <2>3. <<HEARTBEAT_INTERVAL>> \in Seq(Nat) /\ Len(<<HEARTBEAT_INTERVAL>>) = 1
    BY <1>2
  <2>4. /\ ws' \in Sessions /\ ws'.state = ws.state /\ ws'.authenticated = ws.authenticated
        /\ ws'.next_request_id = ws.next_request_id /\ ws'.awaiting_pong = ws.awaiting_pong
        /\ ws'.deadline = <<HEARTBEAT_INTERVAL>>
    BY ZenonT(30), <1>1, <2>2, <2>3 DEF Sessions
  <2>5. dropped' = dropped
    BY <1>1, <2>2, <2>4 DEF Away
  <2>6. ~ws.awaiting_pong /\ quiet <= 1
    BY <1>1, <1>4 DEF DeadlineCounts
  <2>7. DeadlineCounts'
    BY <1>1, <1>2, <2>3, <2>4, <2>6 DEF DeadlineCounts
  <2>8. QED BY ZenonT(30), <1>1, <1>3, <2>2, <2>4, <2>5, <2>7 DEF PongSaves
<1>5. CASE ws.deadline # <<>>
  <2>1. /\ ws.deadline[1] \in Nat
        /\ LET due == quiet + ws.deadline[1]
               from == IF ws.awaiting_pong THEN 2 * HEARTBEAT_INTERVAL ELSE HEARTBEAT_INTERVAL
           IN  from <= due /\ due <= from + 1
    BY <1>1, <1>5 DEF DeadlineCounts
  <2>2. CASE ws.deadline[1] > 0
    <3>1. ping_due(ws) = [ping |-> FALSE, s |-> ws]
      BY <1>5, <2>2 DEF ping_due
    <3>2. ws' = ws /\ net' = net /\ dropped' = dropped
      BY <1>1, <3>1 DEF Heartbeat, Away
    <3>3. DeadlineCounts'
      BY <1>1, <1>5, <2>2, <3>2 DEF DeadlineCounts
    <3>4. QED BY <1>1, <1>3, <3>2, <3>3 DEF PongSaves
  <2>3. CASE ws.deadline[1] = 0 /\ ws.awaiting_pong
    <3>1. ping_due(ws) = [ping |-> FALSE, s |-> disconnected(ws)]
      BY <1>5, <2>3 DEF ping_due
    <3>2. ws' = disconnected(ws) /\ net' = net /\ dropped' = <<quiet>>
      BY <1>1, <3>1, EndMoves DEF Heartbeat
    <3>3. quiet >= 2 * HEARTBEAT_INTERVAL
      BY <1>1, <1>2, <2>1, <2>3
    <3>4. PongSaves'
      BY <1>1, <3>2, <3>3 DEF PongSaves
    <3>5. DeadlineCounts'
      BY <1>1, <3>2, EndMoves DEF DeadlineCounts, Away
    <3>6. QED BY <1>1, <1>3, <3>2, <3>4, <3>5, EndMoves DEF Blank
  <2>4. CASE ws.deadline[1] = 0 /\ ~ws.awaiting_pong
    <3> DEFINE pinged == [ws EXCEPT !.awaiting_pong = TRUE, !.deadline = <<HEARTBEAT_INTERVAL>>]
    <3>1. ping_due(ws) = [ping |-> TRUE, s |-> pinged]
      BY <1>5, <2>4 DEF ping_due
    <3>2. /\ <<HEARTBEAT_INTERVAL>> \in Seq(Nat) /\ Len(<<HEARTBEAT_INTERVAL>>) = 1
          /\ <<HEARTBEAT_INTERVAL>>[1] = HEARTBEAT_INTERVAL
      BY <1>2
    <3>3. /\ pinged \in Sessions /\ pinged.state = ws.state
          /\ pinged.authenticated = ws.authenticated /\ pinged.awaiting_pong
          /\ pinged.next_request_id = ws.next_request_id
          /\ pinged.deadline = <<HEARTBEAT_INTERVAL>>
      BY ZenonT(30), <1>1, <3>2 DEF Sessions
    <3>4. dropped' = dropped
      BY <3>1 DEF Heartbeat
    <3> HIDE DEF pinged
    <3>5. CASE net.broken
      <4>1. ws' = disconnected(pinged) /\ net' = net
        BY <3>1, <3>5 DEF Heartbeat
      <4>2. DeadlineCounts'
        BY <3>3, <4>1, EndMoves DEF DeadlineCounts, Away
      <4>3. QED BY <1>1, <1>3, <3>3, <3>4, <4>1, <4>2, EndMoves DEF PongSaves, Blank
    <3>6. CASE ~net.broken
      <4>1. ws' = pinged /\ net' = PutCommand([op |-> "ping"])
        BY <3>1, <3>6 DEF Heartbeat
      <4>2. BookKept' /\ LoginTaken' /\ net' \in Nets /\ net'.open = net.open
        <5>1. /\ ws' \in Sessions /\ ws'.next_request_id >= ws.next_request_id
              /\ ws'.authenticated => ws.authenticated
          BY <1>1, <3>3, <4>1, Types
        <5>2. QED BY ZenonT(30), <1>1, <4>1, <5>1, CommandsMade, CommandSent
      <4>3. DeadlineCounts'
        <5>1. HEARTBEAT_INTERVAL <= quiet /\ quiet <= HEARTBEAT_INTERVAL + 1
          BY <1>1, <1>2, <2>1, <2>4
        <5>2. ws'.deadline[1] = HEARTBEAT_INTERVAL /\ Len(ws'.deadline) = 1 /\ ws'.awaiting_pong
          BY <3>2, <3>3, <4>1
        <5>3. QED BY <1>1, <1>2, <5>1, <5>2 DEF DeadlineCounts
      <4>4. QED BY ZenonT(30), <1>1, <3>3, <3>4, <4>1, <4>2, <4>3
                DEF StreamInv, StreamTyped, AwayIsBlank, PongSaves, Away
    <3>7. QED BY <3>5, <3>6
  <2>5. QED BY <2>1, <2>2, <2>3, <2>4
<1>6. QED BY <1>4, <1>5

-----------------------------------------------------------------------------
(***************************************************************************)
(* Commands are served and events read in order.  NoWorse is what all of   *)
(* these steps have in common: d commands leave the front of the queue,    *)
(* the events are among the old ones and one that may be new, requests are *)
(* forgotten, and what is firm stays held.                                 *)
(***************************************************************************)
NoWorse(d, m) ==
  /\ \A i \in DOMAIN net'.out : i \in Nat /\ i + d \in DOMAIN net.out
                                /\ net'.out[i] = net.out[i + d]
  /\ \A i \in DOMAIN net'.in : (\E k \in DOMAIN net.in : net'.in[i] = net.in[k]) \/ net'.in[i] = m
  /\ \A key : Firm(key) => key \in net'.held
  /\ DOMAIN subs'.pending \subseteq DOMAIN subs.pending
  /\ \A id \in DOMAIN subs'.pending : subs'.pending[id] = subs.pending[id]
  /\ \A key \in subs'.active : Firm(key)
  /\ ws'.next_request_id \in {ws.next_request_id, ws.next_request_id + 1}

LEMMA NoWorseKeeps ==
  ASSUME StreamTyped, BookKept, NEW d \in {0, 1}, NEW m, NoWorse(d, m),
         m.event = "subscribe" => m.id \in Nat /\ m.id <= ws.next_request_id,
         \A key : (m.event = "subscribe" /\ m.id \in DOMAIN subs.pending
                  /\ key = subs.pending[m.id]) => Firm(key)'
  PROVE  BookKept'
<1>1. \A i \in DOMAIN net'.out : i \in Nat /\ i + d \in DOMAIN net.out
                                 /\ net'.out[i] = net.out[i + d]
  BY ZenonT(30) DEF NoWorse
<1>2. \A i \in DOMAIN net'.in : (\E k \in DOMAIN net.in : net'.in[i] = net.in[k]) \/ net'.in[i] = m
  BY DEF NoWorse
<1>3. \A key : Firm(key) => Firm(key)'
  BY <1>1 DEF NoWorse, Firm
<1>4. IdsUsed'
  <2>0. \A n \in Nat : n <= ws.next_request_id => n <= ws'.next_request_id
    BY Types DEF NoWorse
  <2>1. \A id \in DOMAIN subs'.pending : id \in Nat /\ id <= ws'.next_request_id
    BY <2>0 DEF NoWorse, BookKept, IdsUsed
  <2>2. \A i \in DOMAIN net'.out : net'.out[i].op = "subscribe" =>
                                    net'.out[i].id <= ws'.next_request_id
    BY <1>1, <2>0, Types DEF BookKept, IdsUsed
  <2>3. \A i \in DOMAIN net'.in : net'.in[i].event = "subscribe" =>
                                   net'.in[i].id <= ws'.next_request_id
    BY <1>2, <2>0, Types DEF BookKept, IdsUsed
  <2>4. QED BY <2>1, <2>2, <2>3 DEF IdsUsed
<1>5. AskedLast'
  <2> SUFFICES ASSUME NEW i \in DOMAIN net'.out, net'.out[i].op = "subscribe",
                      net'.out[i].id \in DOMAIN subs'.pending
               PROVE  /\ net'.out[i].key = subs'.pending[net'.out[i].id]
                      /\ \A j \in DOMAIN net'.out :
                           (i < j /\ net'.out[j].op = "unsubscribe") =>
                             net'.out[j].key # net'.out[i].key
    BY ZenonT(30) DEF AskedLast
  <2>1. /\ i \in Nat /\ i + d \in DOMAIN net.out /\ net'.out[i] = net.out[i + d]
        /\ net'.out[i].id \in DOMAIN subs.pending
        /\ subs'.pending[net'.out[i].id] = subs.pending[net'.out[i].id]
    BY ZenonT(30), <1>1 DEF NoWorse
  <2>2. /\ net.out[i + d].key = subs.pending[net.out[i + d].id]
        /\ \A j \in DOMAIN net.out : (i + d < j /\ net.out[j].op = "unsubscribe") =>
                                        net.out[j].key # net.out[i + d].key
    BY ZenonT(30), <2>1 DEF BookKept, AskedLast
  <2>3. ASSUME NEW j \in DOMAIN net'.out, i < j, net'.out[j].op = "unsubscribe"
        PROVE  net'.out[j].key # net'.out[i].key
    <3>1. j \in Nat /\ j + d \in DOMAIN net.out /\ net'.out[j] = net.out[j + d]
      BY <1>1
    <3>2. i + d < j + d
      BY <2>1, <2>3, <3>1
    <3>3. QED BY ZenonT(30), <2>1, <2>2, <2>3, <3>1, <3>2
  <2>4. QED BY ZenonT(30), <2>1, <2>2, <2>3
<1>6. OrdersLoggedIn'
  BY <1>1 DEF BookKept, OrdersLoggedIn
<1>7. SubscriptionsFirm'
  <2>1. \A key \in subs'.active : Firm(key)'
    BY <1>3 DEF NoWorse
  <2>2. ASSUME NEW i \in DOMAIN net'.in, net'.in[i].event = "subscribe",
               net'.in[i].id \in DOMAIN subs'.pending,
               NEW key, key = subs'.pending[net'.in[i].id]
        PROVE  Firm(key)'
    <3>1. net'.in[i].id \in DOMAIN subs.pending /\ key = subs.pending[net'.in[i].id]
      BY ZenonT(30), <2>2 DEF NoWorse
    <3>2. QED BY ZenonT(30), <1>2, <1>3, <2>2, <3>1 DEF BookKept, SubscriptionsFirm
  <2>3. QED BY <2>1, <2>2 DEF SubscriptionsFirm
<1>8. QED BY ZenonT(30), <1>4, <1>5, <1>6, <1>7 DEF BookKept

\* OKX announces the end, or the connection breaks.
LEMMA EndsKeep ==
  ASSUME StreamInv, Notice \/ StreamBreak
  PROVE  StreamInv'
<1> DEFINE m == Ack("notice", 0, TRUE)
<1>1. /\ StreamTyped /\ AwayIsBlank /\ LoginTaken /\ BookKept /\ DeadlineCounts /\ PongSaves
      /\ UNCHANGED <<ws, subs, polled, quiet, dropped>> /\ net \in Nets
  BY ZenonT(30) DEF StreamInv, StreamTyped, Notice, StreamBreak
<1>2. m \in Events /\ m.event = "notice"
  BY ZenonT(30), EventsMade
<1> HIDE DEF m
<1>3. /\ net' \in Nets /\ net'.open = net.open /\ net'.logged = net.logged
      /\ net'.held = net.held /\ net'.out = net.out
      /\ net'.in \in {<<>>, net.in, Append(net.in, m)}
  <2>1. CASE Notice
    <3>1. net' = [net EXCEPT !.in = Append(net.in, m)] /\ Append(net.in, m) \in Seq(Events)
      BY ZenonT(30), <1>1, <1>2, <2>1, Appended DEF Notice, Say, m, Nets
    <3>2. QED BY ZenonT(30), <1>1, <3>1 DEF Nets
  <2>2. CASE StreamBreak
    <3>1. PICK lost \in BOOLEAN :
            net' = [net EXCEPT !.broken = TRUE, !.in = IF lost THEN <<>> ELSE net.in]
      BY ZenonT(30), <2>2 DEF StreamBreak
    <3>2. <<>> \in Seq(Events)
      OBVIOUS
    <3>3. QED BY ZenonT(30), <1>1, <3>1, <3>2 DEF Nets
  <2>3. QED BY <2>1, <2>2
<1>4. \A i \in DOMAIN net'.in : (\E k \in DOMAIN net.in : net'.in[i] = net.in[k]) \/ net'.in[i] = m
  <2>1. CASE net'.in = <<>>
    BY <2>1
  <2>2. CASE net'.in = net.in
    BY <2>2
  <2>3. CASE net'.in = Append(net.in, m)
    BY <1>1, <1>2, <2>3, Appended, Types
  <2>4. QED BY <1>3, <2>1, <2>2, <2>3
<1>5. NoWorse(0, m)
  <2>1. \A i \in DOMAIN net'.out : i \in Nat /\ i + 0 \in DOMAIN net.out
                                  /\ net'.out[i] = net.out[i + 0]
    BY <1>1, <1>3, Types
  <2>2. \A key \in subs'.active : Firm(key)
    BY <1>1 DEF BookKept, SubscriptionsFirm
  <2>3. QED BY ZenonT(30), <1>1, <1>3, <1>4, <2>1, <2>2 DEF NoWorse, Firm
<1>6. BookKept'
  BY <1>1, <1>2, <1>5, NoWorseKeeps
<1>7. LoginTaken'
  BY <1>1, <1>2, <1>3, <1>4 DEF LoginTaken
<1>8. DeadlineCounts' /\ PongSaves'
  BY <1>1 DEF DeadlineCounts, PongSaves
<1>9. StreamTyped' /\ AwayIsBlank'
  BY <1>1, <1>3 DEF StreamTyped, AwayIsBlank
<1>10. QED BY <1>6, <1>7, <1>8, <1>9 DEF StreamInv

\* What WsStateCoordinator makes of an acknowledgement.
LEMMA BookApplied ==
  ASSUME StreamTyped, NEW m \in Events, subs' = ApplySubs(subs, m)
  PROVE  /\ subs' = [desired |-> subs'.desired, active |-> subs'.active, pending |-> subs'.pending]
         /\ subs'.pending = [i \in DOMAIN subs'.pending |-> subs'.pending[i]]
         /\ DOMAIN subs'.pending \subseteq DOMAIN subs.pending
         /\ \A id \in DOMAIN subs'.pending : subs'.pending[id] = subs.pending[id]
         /\ \A key \in subs'.active :
              \/ key \in subs.active
              \/ m.event = "subscribe" /\ m.id \in DOMAIN subs.pending /\ key = subs.pending[m.id]
<1>1. /\ subs = [desired |-> subs.desired, active |-> subs.active, pending |-> subs.pending]
      /\ subs.pending = [i \in DOMAIN subs.pending |-> subs.pending[i]]
  BY DEF StreamTyped
<1>2. CASE subs' = subs
  BY <1>1, <1>2
<1>3. CASE m.event = "notice"
  <2>1. subs' = [subs EXCEPT !.active = {}, !.pending = <<>>]
    BY <1>3 DEF ApplySubs, disconnect
  <2>2. DOMAIN <<>> = {} /\ <<>> = [i \in DOMAIN <<>> |-> <<>>[i]]
    OBVIOUS
  <2>3. QED BY ZenonT(30), <1>1, <2>1, <2>2
<1>4. ASSUME m.event \in {"subscribe", "error"}, m.id \in DOMAIN subs.pending,
             NEW ok \in BOOLEAN, ok => m.event = "subscribe",
             subs' = acknowledge_id(subs, m.id, ok)
      PROVE  /\ subs' = [desired |-> subs'.desired, active |-> subs'.active,
                         pending |-> subs'.pending]
             /\ subs'.pending = [i \in DOMAIN subs'.pending |-> subs'.pending[i]]
             /\ DOMAIN subs'.pending \subseteq DOMAIN subs.pending
             /\ \A id \in DOMAIN subs'.pending : subs'.pending[id] = subs.pending[id]
             /\ \A key \in subs'.active :
                  \/ key \in subs.active
                  \/ m.event = "subscribe" /\ m.id \in DOMAIN subs.pending
                     /\ key = subs.pending[m.id]
  <2> DEFINE left == Without(subs.pending, {m.id})
             on == subs.active \cup (IF ok THEN {subs.pending[m.id]} \cap subs.desired ELSE {})
  <2>1. subs' = [subs EXCEPT !.pending = left, !.active = on]
    BY <1>4 DEF acknowledge_id
  <2>2. /\ DOMAIN left \subseteq DOMAIN subs.pending
        /\ left = [i \in DOMAIN left |-> left[i]]
        /\ \A id \in DOMAIN left : left[id] = subs.pending[id]
    <3>1. /\ left = [i \in DOMAIN subs.pending \ {m.id} |-> subs.pending[i]]
          /\ DOMAIN left = DOMAIN subs.pending \ {m.id}
      BY DEF Without
    <3> HIDE DEF left
    <3>2. \A id \in DOMAIN left : left[id] = subs.pending[id]
      BY <3>1
    <3>3. QED BY <3>1, <3>2
  <2>3. \A key \in on : \/ key \in subs.active
                        \/ m.event = "subscribe" /\ key = subs.pending[m.id]
    <3>1. CASE ok
      BY ZenonT(30), <1>4, <3>1
    <3>2. CASE ~ok
      BY <3>2
    <3>3. QED BY ZenonT(30), <3>1, <3>2
  <2> HIDE DEF left, on
  <2>4. subs'.pending = left /\ subs'.active = on
        /\ subs' = [desired |-> subs'.desired, active |-> subs'.active, pending |-> subs'.pending]
    BY ZenonT(30), <1>1, <2>1
  <2>5. QED BY <1>4, <2>2, <2>3, <2>4
<1>5. CASE m.event \in {"subscribe", "error"} /\ m.id \in DOMAIN subs.pending
  <2>1. m.ok \in BOOLEAN /\ FALSE \in BOOLEAN
    BY DEF Events
  <2>2. CASE m.event = "subscribe"
    BY <1>4, <1>5, <2>1, <2>2 DEF ApplySubs
  <2>3. CASE m.event = "error"
    BY ZenonT(30), <1>4, <1>5, <2>1, <2>3 DEF ApplySubs
  <2>4. QED BY ZenonT(30), <1>5, <2>2, <2>3
<1>6. CASE m.event \in {"subscribe", "error"} /\ m.id \notin DOMAIN subs.pending
  BY ZenonT(30), <1>2, <1>6 DEF ApplySubs, acknowledge_id
<1>7. QED BY ZenonT(30), <1>2, <1>3, <1>5, <1>6 DEF ApplySubs

\* receive_for_session.
LEMMA SessionApplied ==
  ASSUME StreamTyped, LoginTaken, ws.state \notin Away, NEW m \in Events,
         m.event = "login" /\ m.ok => net.logged,
         ws' = IF m.event = "pong" THEN pong_received(ws)
               ELSE ApplySession(message_received(ws), m)
  PROVE  /\ ws' \in Sessions /\ ws'.next_request_id = ws.next_request_id
         /\ ws'.authenticated => net.logged
         /\ \/ ws'.state = "Backoff" /\ Blank(ws')
            \/ /\ ws'.state \notin Away /\ ~ws'.awaiting_pong
               /\ ws'.deadline \in {<<>>, <<HEARTBEAT_INTERVAL>>}
<1>1. ws \in Sessions /\ m.ok \in BOOLEAN
  BY ZenonT(30) DEF StreamTyped, Events
<1>2. CASE m.event = "pong"
  BY ZenonT(30), <1>1, <1>2, PongMoves DEF LoginTaken
<1>3. CASE m.event # "pong"
  <2> DEFINE s == message_received(ws)
  <2>1. /\ s \in Sessions /\ s.state = ws.state /\ s.authenticated = ws.authenticated
        /\ s.deadline = <<HEARTBEAT_INTERVAL>> /\ ~s.awaiting_pong
        /\ s.next_request_id = ws.next_request_id
    BY ZenonT(30), <1>1, MessageMoves
  <2>2. ws' = ApplySession(s, m)
    BY <1>3
  <2> HIDE DEF s
  <2>3. \/ ws' = login_acknowledged(s, m.ok) /\ m.event = "login"
        \/ ws' = login_acknowledged(s, FALSE)
        \/ ws' = disconnected(s)
        \/ ws' = s
    <3>1. CASE m.event = "login"
      BY ZenonT(30), <2>2, <3>1 DEF ApplySession
    <3>2. CASE m.event = "error" /\ m.id \notin DOMAIN subs.pending /\ s.state = "Authenticating"
      BY ZenonT(30), <2>2, <3>2 DEF ApplySession
    <3>3. CASE m.event = "notice"
      BY <2>2, <3>3 DEF ApplySession
    <3>4. QED BY ZenonT(30), <2>2, <3>1, <3>2, <3>3 DEF ApplySession
  <2>4. CASE ws' = login_acknowledged(s, m.ok) /\ m.event = "login"
    <3>1. /\ ws' \in Sessions /\ ws'.next_request_id = ws.next_request_id
          /\ ws'.state \notin Away /\ SameClock(s, ws') /\ ws'.authenticated = m.ok
      <4>1. m.ok \in BOOLEAN
        BY <1>1, <2>4 DEF Events
      <4>2. QED BY ZenonT(30), <2>1, <2>4, <4>1, Acknowledged
    <3>2. ws'.authenticated => net.logged
      BY ZenonT(30), <2>4, <3>1
    <3>3. QED BY ZenonT(30), <2>1, <3>1, <3>2 DEF SameClock
  <2>5. CASE ws' = login_acknowledged(s, FALSE)
    <3>1. FALSE \in BOOLEAN
      OBVIOUS
    <3>2. QED BY ZenonT(30), <2>1, <2>5, <3>1, Acknowledged DEF SameClock
  <2>6. CASE ws' = disconnected(s)
    BY ZenonT(30), <2>1, <2>6, EndMoves DEF Blank
  <2>7. CASE ws' = s
    BY ZenonT(30), <2>1, <2>7 DEF LoginTaken
  <2>8. QED BY ZenonT(30), <2>3, <2>4, <2>5, <2>6, <2>7
<1>4. QED BY ZenonT(30), <1>2, <1>3

LEMMA ReceiveKeeps == StreamInv /\ StreamReceive => StreamInv'
<1> SUFFICES ASSUME StreamInv, StreamReceive PROVE StreamInv'
  OBVIOUS
<1> DEFINE m == Head(net.in)
<1>1. /\ StreamTyped /\ AwayIsBlank /\ LoginTaken /\ BookKept /\ DeadlineCounts /\ PongSaves
      /\ UNCHANGED <<polled, dropped>> /\ quiet' = 0 /\ net \in Nets /\ net.open
      /\ ws.state \notin Away /\ net.in # <<>> /\ net' = [net EXCEPT !.in = Tail(net.in)]
      /\ subs' = ApplySubs(subs, m)
      /\ ws' = IF m.event = "pong" THEN pong_received(ws)
               ELSE ApplySession(message_received(ws), m)
  BY DEF StreamInv, StreamTyped, StreamReceive, Up, AwayIsBlank, Away
<1>2. /\ Tail(net.in) \in Seq(Events) /\ m \in Events /\ 1 \in DOMAIN net.in /\ m = net.in[1]
      /\ \A i \in DOMAIN Tail(net.in) : i + 1 \in DOMAIN net.in /\ Tail(net.in)[i] = net.in[i + 1]
  BY <1>1, Types, Taken
<1> HIDE DEF m
<1>3. /\ net' \in Nets /\ net'.open /\ net'.logged = net.logged /\ net'.held = net.held
      /\ net'.out = net.out /\ net'.in = Tail(net.in)
  BY ZenonT(30), <1>1, <1>2 DEF Nets
<1>4. /\ ws' \in Sessions /\ ws'.next_request_id = ws.next_request_id
      /\ ws'.authenticated => net.logged
      /\ \/ ws'.state = "Backoff" /\ Blank(ws')
         \/ /\ ws'.state \notin Away /\ ~ws'.awaiting_pong
            /\ ws'.deadline \in {<<>>, <<HEARTBEAT_INTERVAL>>}
  <2>1. m.event = "login" /\ m.ok => net.logged
    BY <1>1, <1>2 DEF LoginTaken
  <2>2. QED BY <1>1, <1>2, <2>1, SessionApplied
<1>5. /\ subs' = [desired |-> subs'.desired, active |-> subs'.active, pending |-> subs'.pending]
      /\ subs'.pending = [i \in DOMAIN subs'.pending |-> subs'.pending[i]]
      /\ DOMAIN subs'.pending \subseteq DOMAIN subs.pending
      /\ \A id \in DOMAIN subs'.pending : subs'.pending[id] = subs.pending[id]
      /\ \A key \in subs'.active :
           \/ key \in subs.active
           \/ m.event = "subscribe" /\ m.id \in DOMAIN subs.pending /\ key = subs.pending[m.id]
  BY <1>1, <1>2, BookApplied
<1>6. NoWorse(0, Ack("notice", 0, TRUE))
  <2>1. \A i \in DOMAIN net'.out : i \in Nat /\ i + 0 \in DOMAIN net.out
                                  /\ net'.out[i] = net.out[i + 0]
    BY <1>1, <1>3, Types
  <2>2. \A i \in DOMAIN net'.in : \E k \in DOMAIN net.in : net'.in[i] = net.in[k]
    BY <1>2, <1>3
  <2>3. \A key \in subs'.active : Firm(key)
    BY <1>1, <1>2, <1>5 DEF BookKept, SubscriptionsFirm
  <2>4. QED BY ZenonT(30), <1>3, <1>4, <1>5, <2>1, <2>2, <2>3 DEF NoWorse, Firm
<1>7. BookKept'
  BY ZenonT(30), <1>1, <1>6, NoWorseKeeps, EventsMade
<1>8. LoginTaken'
  BY <1>1, <1>2, <1>3, <1>4 DEF LoginTaken
<1>9. DeadlineCounts'
  <2>1. HEARTBEAT_INTERVAL \in Nat /\ HEARTBEAT_INTERVAL > 0
        /\ Len(<<HEARTBEAT_INTERVAL>>) = 1 /\ <<HEARTBEAT_INTERVAL>>[1] = HEARTBEAT_INTERVAL
    BY OkxStreamAssumption
  <2>2. QED BY <1>1, <1>4, <2>1 DEF DeadlineCounts, Away
<1>10. StreamTyped' /\ AwayIsBlank' /\ PongSaves'
  <2>1. StreamTyped'
    BY <1>1, <1>3, <1>4, <1>5 DEF StreamTyped
  <2>2. AwayIsBlank'
    BY ZenonT(30), <1>3, <1>4 DEF AwayIsBlank, Away, Blank
  <2>3. QED BY <1>1, <2>1, <2>2 DEF PongSaves
<1>11. QED BY <1>7, <1>8, <1>9, <1>10 DEF StreamInv

\* What serving a command leaves, by what the command asks for and the answer.
Answered(c, held, logged, m) ==
  /\ net.out # <<>> /\ c = Head(net.out) /\ m \in Events
  /\ net' = [open |-> net.open, logged |-> logged, held |-> held, out |-> Tail(net.out),
             in |-> Append(net.in, m), broken |-> net.broken]

LEMMA AnsweredKeeps ==
  ASSUME StreamInv, UNCHANGED <<ws, subs, polled, quiet, dropped>>,
         NEW c, NEW held \in SUBSET Keys, NEW logged \in BOOLEAN, NEW m,
         Answered(c, held, logged, m), net.logged => logged,
         \A key \in net.held \ held : c.op = "unsubscribe" /\ c.key = key,
         m.event = "login" => logged \/ ~m.ok,
         m.event = "subscribe" => c.op = "subscribe" /\ m.id = c.id /\ c.key \in held
  PROVE  StreamInv'
<1>1. /\ StreamTyped /\ AwayIsBlank /\ LoginTaken /\ BookKept /\ DeadlineCounts /\ PongSaves
      /\ net \in Nets /\ net.out # <<>> /\ c = Head(net.out) /\ m \in Events
  BY ZenonT(30) DEF StreamInv, StreamTyped, Answered
<1>2. /\ Tail(net.out) \in Seq(Commands) /\ 1 \in DOMAIN net.out /\ c = net.out[1]
      /\ \A i \in DOMAIN Tail(net.out) : i + 1 \in DOMAIN net.out /\ i \in Nat /\ i > 0
                                         /\ Tail(net.out)[i] = net.out[i + 1]
  BY ZenonT(30), <1>1, Types, Taken
<1>3. /\ Append(net.in, m) \in Seq(Events)
      /\ \A i \in DOMAIN Append(net.in, m) :
           (\E k \in DOMAIN net.in : Append(net.in, m)[i] = net.in[k]) \/ Append(net.in, m)[i] = m
  BY <1>1, Types, Appended
<1>4. /\ net' \in Nets /\ net'.open = net.open /\ net'.logged = logged /\ net'.held = held
      /\ net'.out = Tail(net.out) /\ net'.in = Append(net.in, m)
  BY ZenonT(30), <1>1, <1>2, <1>3 DEF Nets, Answered
<1>5. NoWorse(1, m)
  <2>1. \A key : Firm(key) => key \in net'.held
    BY ZenonT(30), <1>2, <1>4 DEF Firm
  <2>2. \A key \in subs'.active : Firm(key)
    BY ZenonT(30), <1>1 DEF BookKept, SubscriptionsFirm
  <2>3. QED BY ZenonT(30), <1>2, <1>3, <1>4, <2>1, <2>2 DEF NoWorse
<1>6. ASSUME m.event = "subscribe"
      PROVE  /\ m.id \in Nat /\ m.id <= ws.next_request_id
             /\ \A key : (m.id \in DOMAIN subs.pending /\ key = subs.pending[m.id]) => Firm(key)'
  <2>1. m.id \in Nat /\ m.id <= ws.next_request_id
    BY ZenonT(30), <1>1, <1>2, <1>6 DEF BookKept, IdsUsed, Events
  <2>2. ASSUME m.id \in DOMAIN subs.pending, NEW key, key = subs.pending[m.id]
        PROVE  Firm(key)'
    <3>1. /\ c.key = key
          /\ \A j \in DOMAIN net.out : (1 < j /\ net.out[j].op = "unsubscribe") =>
                                          net.out[j].key # key
      <4>1. /\ 1 \in DOMAIN net.out /\ net.out[1] = c /\ c.op = "subscribe"
            /\ c.id \in DOMAIN subs.pending /\ subs.pending[c.id] = key
        BY ZenonT(30), <1>2, <1>6, <2>2
      <4>2. QED BY ZenonT(30), <1>1, <4>1 DEF BookKept, AskedLast
    <3>2. ASSUME NEW i \in DOMAIN net'.out, net'.out[i].op = "unsubscribe"
          PROVE  net'.out[i].key # key
      <4>1. i \in Nat /\ i > 0 /\ i + 1 \in DOMAIN net.out /\ net'.out[i] = net.out[i + 1]
        <5>1. net'.out = Tail(net.out)
          BY ZenonT(30), <1>4
        <5>2. i \in DOMAIN Tail(net.out)
          BY ZenonT(30), <5>1
        <5>3. i + 1 \in DOMAIN net.out /\ i \in Nat /\ i > 0 /\ Tail(net.out)[i] = net.out[i + 1]
          BY ZenonT(30), <1>2, <5>2
        <5>4. QED BY ZenonT(30), <5>1, <5>3
      <4>2. 1 < i + 1
        <5>1. \A n \in Nat : n > 0 => 1 < n + 1
          OBVIOUS
        <5>2. QED BY ZenonT(30), <4>1, <5>1
      <4>3. QED BY ZenonT(30), <3>1, <3>2, <4>1, <4>2
    <3>3. key \in net'.held
      BY <1>4, <1>6, <3>1
    <3>4. QED BY <3>2, <3>3 DEF Firm
  <2>3. QED BY ZenonT(30), <2>1, <2>2
<1>7. BookKept'
  BY ZenonT(30), <1>1, <1>5, <1>6, NoWorseKeeps
<1>8. LoginTaken'
  BY <1>1, <1>3, <1>4 DEF LoginTaken
<1>9. DeadlineCounts' /\ PongSaves'
  BY ZenonT(30), <1>1 DEF DeadlineCounts, PongSaves
<1>10. StreamTyped' /\ AwayIsBlank'
  BY ZenonT(30), <1>1, <1>4 DEF StreamTyped, AwayIsBlank
<1>11. QED BY <1>7, <1>8, <1>9, <1>10 DEF StreamInv

\* OKX serves the commands of a connection.
LEMMA ServeKeeps == StreamInv /\ Serve => StreamInv'
<1> SUFFICES ASSUME StreamInv, Serve PROVE StreamInv'
  OBVIOUS
<1> DEFINE c == Head(net.out)
<1>1. /\ StreamTyped /\ net \in Nets /\ net.out # <<>> /\ net.logged \in BOOLEAN
      /\ net.held \in SUBSET Keys /\ UNCHANGED <<ws, subs, polled, quiet, dropped>>
  BY DEF StreamInv, StreamTyped, Serve, Nets
<1>2. c \in Commands
  BY <1>1, Types, Taken
<1>3. /\ c.op = "subscribe" => c.id \in Nat /\ c.key \in Keys
      /\ c.op = "unsubscribe" => c.key \in Keys
  BY <1>2, CommandFields
<1>4. CASE c.op = "order" /\ net' = [net EXCEPT !.out = Tail(net.out)]
  <2>1. /\ StreamTyped /\ AwayIsBlank /\ LoginTaken /\ BookKept /\ DeadlineCounts /\ PongSaves
    BY DEF StreamInv
  <2>2. /\ Tail(net.out) \in Seq(Commands)
        /\ \A i \in DOMAIN Tail(net.out) : i + 1 \in DOMAIN net.out /\ i \in Nat
                                           /\ Tail(net.out)[i] = net.out[i + 1]
    BY ZenonT(30), <1>1, Types, Taken
  <2>3. /\ net' \in Nets /\ net'.open = net.open /\ net'.logged = net.logged
        /\ net'.held = net.held /\ net'.out = Tail(net.out) /\ net'.in = net.in
    BY ZenonT(30), <1>1, <1>4, <2>2 DEF Nets
  <2>4. NoWorse(1, Ack("notice", 0, TRUE))
    <3>1. \A key \in subs'.active : Firm(key)
      BY ZenonT(30), <1>1, <2>1 DEF BookKept, SubscriptionsFirm
    <3>2. QED BY ZenonT(30), <1>1, <2>2, <2>3, <3>1 DEF NoWorse, Firm
  <2>5. BookKept'
    BY ZenonT(30), <2>1, <2>4, NoWorseKeeps, EventsMade
  <2>6. QED BY ZenonT(30), <1>1, <2>1, <2>3, <2>5
            DEF StreamInv, StreamTyped, AwayIsBlank, LoginTaken, DeadlineCounts, PongSaves
<1>5. ASSUME NEW held \in SUBSET Keys, NEW logged \in BOOLEAN,
             NEW event \in {"login", "error", "subscribe", "unsubscribe", "pong"},
             NEW id \in Nat, NEW ok \in BOOLEAN,
             net' = [open |-> net.open, logged |-> logged, held |-> held,
                     out |-> Tail(net.out), in |-> Append(net.in, Ack(event, id, ok)),
                     broken |-> net.broken],
             net.logged => logged,
             \A key \in net.held \ held : c.op = "unsubscribe" /\ c.key = key,
             event = "login" => logged \/ ~ok,
             event = "subscribe" => c.op = "subscribe" /\ id = c.id /\ c.key \in held
      PROVE  StreamInv'
  <2> DEFINE m == Ack(event, id, ok)
  <2>1. m \in Events /\ m.event = event /\ m.id = id /\ m.ok = ok
    BY EventsMade
  <2>2. Answered(c, held, logged, m)
    BY ZenonT(30), <1>1, <1>5, <2>1 DEF Answered
  <2> HIDE DEF m, c
  <2>3. /\ m.event = "login" => logged \/ ~m.ok
        /\ m.event = "subscribe" => c.op = "subscribe" /\ m.id = c.id /\ c.key \in held
    BY ZenonT(30), <1>5, <2>1
  <2>4. QED BY ZenonT(30), <1>1, <1>5, <2>2, <2>3, AnsweredKeeps
<1>6. net = [open |-> net.open, logged |-> net.logged, held |-> net.held, out |-> net.out,
             in |-> net.in, broken |-> net.broken]
  BY <1>1 DEF Nets
<1>7. CASE c.op = "login" /\ net' = Say([[net EXCEPT !.out = Tail(@)] EXCEPT !.logged = TRUE],
                                       Ack("login", 0, TRUE))
  <2>1. net' = [open |-> net.open, logged |-> TRUE, held |-> net.held, out |-> Tail(net.out),
                in |-> Append(net.in, Ack("login", 0, TRUE)), broken |-> net.broken]
    BY ZenonT(30), <1>6, <1>7 DEF Say
  <2>2. QED BY ZenonT(30), <1>1, <1>5, <2>1
<1>8. ASSUME NEW event \in {"login", "error"}, c.op = "login",
             net' = Say([net EXCEPT !.out = Tail(@)], Ack(event, 0, FALSE))
      PROVE  StreamInv'
  <2>1. net' = [open |-> net.open, logged |-> net.logged, held |-> net.held,
                out |-> Tail(net.out), in |-> Append(net.in, Ack(event, 0, FALSE)),
                broken |-> net.broken]
    BY ZenonT(30), <1>6, <1>8 DEF Say
  <2>2. QED BY ZenonT(30), <1>1, <1>5, <2>1
<1>9. CASE /\ c.op = "subscribe"
           /\ net' = Say([[net EXCEPT !.out = Tail(@)] EXCEPT !.held = @ \cup {c.key}],
                         Ack("subscribe", c.id, TRUE))
  <2>1. net' = [open |-> net.open, logged |-> net.logged, held |-> net.held \cup {c.key},
                out |-> Tail(net.out), in |-> Append(net.in, Ack("subscribe", c.id, TRUE)),
                broken |-> net.broken]
    BY ZenonT(30), <1>6, <1>9 DEF Say
  <2>2. net.held \cup {c.key} \in SUBSET Keys /\ c.id \in Nat /\ c.op = "subscribe"
    BY <1>1, <1>3, <1>9
  <2> HIDE DEF c
  <2>3. QED BY ZenonT(30), <1>1, <1>5, <2>1, <2>2
<1>10. CASE c.op = "subscribe" /\ net' = Say([net EXCEPT !.out = Tail(@)], Ack("error", c.id, FALSE))
  <2>1. net' = [open |-> net.open, logged |-> net.logged, held |-> net.held,
                out |-> Tail(net.out), in |-> Append(net.in, Ack("error", c.id, FALSE)),
                broken |-> net.broken]
    BY ZenonT(30), <1>6, <1>10 DEF Say
  <2>2. c.id \in Nat
    BY <1>3, <1>10
  <2> HIDE DEF c
  <2>3. QED BY ZenonT(30), <1>1, <1>5, <2>1, <2>2
<1>11. CASE /\ c.op = "unsubscribe"
            /\ net' = Say([[net EXCEPT !.out = Tail(@)] EXCEPT !.held = @ \ {c.key}],
                          Ack("unsubscribe", 0, TRUE))
  <2>1. net' = [open |-> net.open, logged |-> net.logged, held |-> net.held \ {c.key},
                out |-> Tail(net.out), in |-> Append(net.in, Ack("unsubscribe", 0, TRUE)),
                broken |-> net.broken]
    BY ZenonT(30), <1>6, <1>11 DEF Say
  <2>2. net.held \ {c.key} \in SUBSET Keys /\ c.op = "unsubscribe"
    BY <1>1, <1>11
  <2> HIDE DEF c
  <2>3. QED BY ZenonT(30), <1>1, <1>5, <2>1, <2>2
<1>12. CASE c.op = "ping" /\ net' = Say([net EXCEPT !.out = Tail(@)], Ack("pong", 0, TRUE))
  <2>1. net' = [open |-> net.open, logged |-> net.logged, held |-> net.held,
                out |-> Tail(net.out), in |-> Append(net.in, Ack("pong", 0, TRUE)),
                broken |-> net.broken]
    BY ZenonT(30), <1>6, <1>12 DEF Say
  <2>2. QED BY ZenonT(30), <1>1, <1>5, <2>1
<1>13. QED BY ZenonT(30), <1>4, <1>7, <1>8, <1>9, <1>10, <1>11, <1>12 DEF Serve

\* The next request id.
LEMMA Counted ==
  ASSUME NEW s \in Sessions
  PROVE  /\ [s EXCEPT !.next_request_id = @ + 1] \in Sessions
         /\ [s EXCEPT !.next_request_id = @ + 1].state = s.state
         /\ [s EXCEPT !.next_request_id = @ + 1].authenticated = s.authenticated
         /\ SameClock(s, [s EXCEPT !.next_request_id = @ + 1])
         /\ [s EXCEPT !.next_request_id = @ + 1].next_request_id = s.next_request_id + 1
         /\ s.next_request_id \in Nat
<1>1. s.next_request_id \in Nat /\ s.next_request_id + 1 \in Nat
  BY DEF Sessions
<1>2. QED BY ZenonT(30), <1>1 DEF Sessions, SameClock

\* A command about a subscription changes nothing but the queue and the book.
LEMMA BookStep ==
  ASSUME StreamInv, UNCHANGED <<polled, quiet, dropped>>,
         ws' \in Sessions, ws'.state = ws.state, ws'.authenticated = ws.authenticated,
         SameClock(ws, ws'), net' \in Nets, net'.open = net.open, net'.logged = net.logged,
         net'.in = net.in, BookKept',
         subs' = [desired |-> subs'.desired, active |-> subs'.active, pending |-> subs'.pending],
         subs'.pending = [i \in DOMAIN subs'.pending |-> subs'.pending[i]],
         ~net.open => subs'.active = {} /\ DOMAIN subs'.pending = {}
  PROVE  StreamInv'
<1>1. StreamTyped /\ AwayIsBlank /\ LoginTaken /\ DeadlineCounts /\ PongSaves
  BY DEF StreamInv
<1>2. StreamTyped'
  BY <1>1 DEF StreamTyped
<1>3. AwayIsBlank'
  BY <1>1 DEF AwayIsBlank, SameClock
<1>4. LoginTaken'
  BY ZenonT(30), <1>1 DEF LoginTaken
<1>5. DeadlineCounts' /\ PongSaves'
  BY <1>1, SameWatch
<1>6. QED BY <1>2, <1>3, <1>4, <1>5 DEF StreamInv

\* unsubscribe: the key is forgotten before the command goes out.
LEMMA UnsubscribeKeeps ==
  ASSUME StreamInv, NEW key \in Keys, Unsubscribe(key)
  PROVE  StreamInv'
<1> DEFINE left == Without(subs.pending, {i \in DOMAIN subs.pending : subs.pending[i] = key})
           c == [op |-> "unsubscribe", key |-> key]
<1>1. /\ StreamTyped /\ AwayIsBlank /\ BookKept /\ net \in Nets /\ ws \in Sessions
      /\ UNCHANGED <<polled, quiet, dropped>>
      /\ subs = [desired |-> subs.desired, active |-> subs.active, pending |-> subs.pending]
  BY DEF StreamInv, StreamTyped, Unsubscribe
<1>2. /\ subs' = [desired |-> subs'.desired, active |-> subs'.active, pending |-> subs'.pending]
      /\ subs'.active = subs.active \ {key} /\ subs'.pending = left
  BY ZenonT(30), <1>1 DEF Unsubscribe, cancel
<1>3. /\ left = [i \in DOMAIN left |-> left[i]] /\ DOMAIN left \subseteq DOMAIN subs.pending
      /\ \A i \in DOMAIN left : left[i] = subs.pending[i] /\ left[i] # key
  <2>1. /\ left = [i \in DOMAIN subs.pending \ {j \in DOMAIN subs.pending : subs.pending[j] = key}
                     |-> subs.pending[i]]
        /\ DOMAIN left = DOMAIN subs.pending \ {j \in DOMAIN subs.pending : subs.pending[j] = key}
    BY DEF Without
  <2> HIDE DEF left
  <2>2. \A i \in DOMAIN left : left[i] = subs.pending[i]
    BY <2>1
  <2>3. QED BY <2>1, <2>2
<1>4. ~net.open => subs'.active = {} /\ DOMAIN subs'.pending = {}
  BY ZenonT(30), <1>1, <1>2, <1>3 DEF AwayIsBlank
<1>5. c \in Commands /\ c.op = "unsubscribe" /\ c.key = key
  BY ZenonT(30), CommandsMade
<1> HIDE DEF left, c
<1>6. /\ \A id \in DOMAIN subs'.pending : /\ id \in DOMAIN subs.pending
                                          /\ subs'.pending[id] = subs.pending[id]
                                          /\ subs'.pending[id] # key
      /\ \A k \in subs'.active : k \in subs.active /\ k # key
  BY <1>2, <1>3
<1>7. CASE Up /\ ws.state = "Active"
  <2>1. net' = PutCommand(c) /\ ws' = [ws EXCEPT !.next_request_id = @ + 1]
    BY <1>7 DEF Unsubscribe, c
  <2>2. /\ ws' \in Sessions /\ ws'.state = ws.state /\ ws'.authenticated = ws.authenticated
        /\ SameClock(ws, ws') /\ ws'.next_request_id = ws.next_request_id + 1
        /\ ws.next_request_id \in Nat
    BY <1>1, <2>1, Counted
  <2>3. /\ net' \in Nets /\ net'.open = net.open /\ net'.logged = net.logged
        /\ net'.held = net.held /\ net'.in = net.in /\ net'.out = Append(net.out, c)
    BY ZenonT(30), <1>1, <1>5, <2>1, Appended, Types DEF Nets, PutCommand
  <2>4. \A i \in DOMAIN net'.out : \/ i \in DOMAIN net.out /\ net'.out[i] = net.out[i]
                                  \/ net'.out[i] = c
    BY <1>1, <1>5, <2>3, Appended, Types
  <2>5. \A k : Firm(k) /\ k # key => Firm(k)'
    BY ZenonT(30), <1>5, <2>3, <2>4 DEF Firm
  <2>6. IdsUsed'
    <3>1. \A n \in Nat : n <= ws.next_request_id => n <= ws'.next_request_id
      BY <2>2
    <3>2. \A id \in DOMAIN subs'.pending : id \in Nat /\ id <= ws'.next_request_id
      BY ZenonT(30), <1>1, <1>6, <3>1 DEF BookKept, IdsUsed
    <3>3. \A i \in DOMAIN net'.out : net'.out[i].op = "subscribe" =>
                                      net'.out[i].id <= ws'.next_request_id
      BY ZenonT(30), <1>1, <1>5, <2>4, <3>1, Types DEF BookKept, IdsUsed
    <3>4. \A i \in DOMAIN net'.in : net'.in[i].event = "subscribe" =>
                                     net'.in[i].id <= ws'.next_request_id
      BY ZenonT(30), <1>1, <2>3, <3>1, Types DEF BookKept, IdsUsed
    <3>5. QED BY <3>2, <3>3, <3>4 DEF IdsUsed
  <2>7. AskedLast'
    <3> SUFFICES ASSUME NEW i \in DOMAIN net'.out, net'.out[i].op = "subscribe",
                        net'.out[i].id \in DOMAIN subs'.pending
                 PROVE  /\ net'.out[i].key = subs'.pending[net'.out[i].id]
                        /\ \A j \in DOMAIN net'.out :
                             (i < j /\ net'.out[j].op = "unsubscribe") =>
                               net'.out[j].key # net'.out[i].key
      BY ZenonT(30) DEF AskedLast
    <3>1. i \in DOMAIN net.out /\ net'.out[i] = net.out[i]
      BY ZenonT(30), <1>5, <2>4
    <3>2. /\ net'.out[i].key = subs'.pending[net'.out[i].id] /\ net'.out[i].key # key
          /\ \A j \in DOMAIN net.out : (i < j /\ net.out[j].op = "unsubscribe") =>
                                          net.out[j].key # net'.out[i].key
      BY <1>1, <1>6, <3>1 DEF BookKept, AskedLast
    <3>3. QED BY ZenonT(30), <1>5, <2>4, <3>2
  <2>8. OrdersLoggedIn'
    BY <1>1, <1>5, <2>4 DEF BookKept, OrdersLoggedIn
  <2>9. SubscriptionsFirm'
    <3>1. \A k \in subs'.active : Firm(k)'
      BY ZenonT(30), <1>1, <1>6, <2>5 DEF BookKept, SubscriptionsFirm
    <3>2. ASSUME NEW i \in DOMAIN net'.in, net'.in[i].event = "subscribe",
                 net'.in[i].id \in DOMAIN subs'.pending, NEW k, k = subs'.pending[net'.in[i].id]
          PROVE  Firm(k)'
      BY ZenonT(30), <1>1, <1>6, <2>3, <2>5, <3>2 DEF BookKept, SubscriptionsFirm
    <3>3. QED BY ZenonT(30), <3>1, <3>2 DEF SubscriptionsFirm
  <2>10. BookKept'
    BY <2>6, <2>7, <2>8, <2>9 DEF BookKept
  <2>11. QED BY ZenonT(30), <1>1, <1>2, <1>3, <1>4, <2>2, <2>3, <2>10, BookStep
<1>8. CASE ~(Up /\ ws.state = "Active")
  <2>1. net' = net /\ ws' = ws
    BY <1>8 DEF Unsubscribe
  <2>2. NoWorse(0, Ack("notice", 0, TRUE))
    <3>1. \A i \in DOMAIN net'.out : i \in Nat /\ i + 0 \in DOMAIN net.out
                                    /\ net'.out[i] = net.out[i + 0]
      BY <1>1, <2>1, Types
    <3>2. \A k \in subs'.active : Firm(k)
      BY ZenonT(30), <1>1, <1>6 DEF BookKept, SubscriptionsFirm
    <3>3. QED BY ZenonT(30), <1>6, <2>1, <3>1, <3>2 DEF NoWorse, Firm
  <2>3. BookKept'
    BY ZenonT(30), <1>1, <2>2, NoWorseKeeps, EventsMade
  <2>4. QED BY ZenonT(30), <1>1, <1>2, <1>3, <1>4, <2>1, <2>3, BookStep DEF SameClock
<1>9. QED BY <1>7, <1>8

\* request: a key is wanted, and asked for under a new id where it may be.
LEMMA SubscribeKeeps ==
  ASSUME StreamInv, NEW key \in Keys, Subscribe(key)
  PROVE  StreamInv'
<1> DEFINE b == [subs EXCEPT !.desired = @ \cup {key}]
           id == ws.next_request_id + 1
           c == [op |-> "subscribe", id |-> id, key |-> key]
           sends == /\ Up /\ ws.state = "Active" /\ correlates(b, key)
                    /\ key \notin {b.pending[i] : i \in DOMAIN b.pending}
           more == [i \in DOMAIN b.pending \cup {id} |-> IF i = id THEN key ELSE b.pending[i]]
<1>1. /\ StreamTyped /\ AwayIsBlank /\ BookKept /\ net \in Nets /\ ws \in Sessions
      /\ UNCHANGED <<polled, quiet, dropped>>
      /\ subs = [desired |-> subs.desired, active |-> subs.active, pending |-> subs.pending]
      /\ subs.pending = [i \in DOMAIN subs.pending |-> subs.pending[i]]
  BY DEF StreamInv, StreamTyped, Subscribe
<1>2. /\ b = [desired |-> b.desired, active |-> b.active, pending |-> b.pending]
      /\ b.active = subs.active /\ b.pending = subs.pending
  BY <1>1
<1>3. /\ subs' = IF sends THEN correlate(b, id, key) ELSE b
      /\ ws' = IF Up /\ ws.state = "Active" THEN [ws EXCEPT !.next_request_id = id] ELSE ws
      /\ net' = IF sends THEN PutCommand(c) ELSE net
  BY ZenonT(30) DEF Subscribe
<1>4. c \in Commands /\ c.op = "subscribe" /\ c.key = key /\ c.id = id /\ id \in Nat
  <2>1. id \in Nat
    BY <1>1, Types
  <2> HIDE DEF id
  <2>2. QED BY ZenonT(30), <2>1, CommandsMade
<1> HIDE DEF c, id, b
<1>5. CASE sends
  <2>1. subs' = [b EXCEPT !.pending = more] /\ net' = PutCommand(c)
    BY <1>3, <1>5 DEF correlate
  <2>2. ws' = [ws EXCEPT !.next_request_id = @ + 1] /\ Up
    BY <1>3, <1>5 DEF id
  <2>3. /\ ws' \in Sessions /\ ws'.state = ws.state /\ ws'.authenticated = ws.authenticated
        /\ SameClock(ws, ws') /\ ws'.next_request_id = ws.next_request_id + 1
        /\ ws.next_request_id \in Nat
    BY <1>1, <2>2, Counted
  <2>4. /\ more = [i \in DOMAIN more |-> more[i]] /\ DOMAIN more = DOMAIN subs.pending \cup {id}
        /\ more[id] = key
        /\ \A i \in DOMAIN subs.pending : i # id => more[i] = subs.pending[i]
    BY ZenonT(30), <1>2
  <2> HIDE DEF more, sends
  <2>5. /\ subs' = [desired |-> subs'.desired, active |-> subs'.active, pending |-> subs'.pending]
        /\ subs'.active = subs.active /\ subs'.pending = more
    BY <1>2, <2>1
  <2>6. \A n \in Nat : n <= ws.next_request_id => n <= ws'.next_request_id /\ n # id
    BY <2>3 DEF id
  <2>7. \A i \in DOMAIN subs.pending : i \in Nat /\ i <= ws.next_request_id /\ i # id
    BY ZenonT(30), <1>1, <2>6 DEF BookKept, IdsUsed
  <2>8. /\ net' \in Nets /\ net'.open = net.open /\ net'.logged = net.logged
        /\ net'.held = net.held /\ net'.in = net.in /\ net'.out = Append(net.out, c)
    BY ZenonT(30), <1>1, <1>4, <2>1, Appended, Types DEF Nets, PutCommand
  <2>9. \A i \in DOMAIN net'.out :
          \/ i \in DOMAIN net.out /\ net'.out[i] = net.out[i]
          \/ net'.out[i] = c /\ i = Len(net.out) + 1
    BY <1>1, <1>4, <2>8, Appended, Types
  <2>10. \A i \in DOMAIN net.out : i \in Nat /\ i < Len(net.out) + 1
    BY <1>1, Types
  <2>11. \A k : Firm(k) => Firm(k)'
    BY ZenonT(30), <1>4, <2>8, <2>9 DEF Firm
  <2>12. IdsUsed'
    <3>1. \A i \in DOMAIN subs'.pending : i \in Nat /\ i <= ws'.next_request_id
      BY <1>4, <2>3, <2>4, <2>5, <2>6, <2>7 DEF id
    <3>2. \A i \in DOMAIN net'.out : net'.out[i].op = "subscribe" =>
                                      net'.out[i].id <= ws'.next_request_id
      <4>1. c.id <= ws'.next_request_id
        <5>1. c.id = ws'.next_request_id /\ c.id \in Nat
          BY ZenonT(30), <1>4, <2>3 DEF id
        <5>2. \A n \in Nat : n <= n
          OBVIOUS
        <5>3. QED BY ZenonT(30), <5>1, <5>2
      <4>2. QED BY ZenonT(30), <1>1, <2>6, <2>9, <4>1, Types DEF BookKept, IdsUsed
    <3>3. \A i \in DOMAIN net'.in : net'.in[i].event = "subscribe" =>
                                     net'.in[i].id <= ws'.next_request_id
      BY ZenonT(30), <1>1, <2>6, <2>8, Types DEF BookKept, IdsUsed
    <3>4. QED BY ZenonT(30), <3>1, <3>2, <3>3 DEF IdsUsed
  <2>13. AskedLast'
    <3> SUFFICES ASSUME NEW i \in DOMAIN net'.out, net'.out[i].op = "subscribe",
                        net'.out[i].id \in DOMAIN subs'.pending
                 PROVE  /\ net'.out[i].key = subs'.pending[net'.out[i].id]
                        /\ \A j \in DOMAIN net'.out :
                             (i < j /\ net'.out[j].op = "unsubscribe") =>
                               net'.out[j].key # net'.out[i].key
      BY ZenonT(30) DEF AskedLast
    <3>1. \A j \in DOMAIN net'.out : net'.out[j].op = "unsubscribe" =>
                                      j \in DOMAIN net.out /\ net'.out[j] = net.out[j]
      BY ZenonT(30), <1>4, <2>9
    <3>2. CASE i \in DOMAIN net.out /\ net'.out[i] = net.out[i]
      <4>1. net.out[i].id # id /\ net.out[i].id \in DOMAIN subs.pending
        <5>1. net.out[i].op = "subscribe" /\ net.out[i].id <= ws.next_request_id
          BY ZenonT(30), <1>1, <3>2 DEF BookKept, IdsUsed
        <5>2. net.out[i].id \in DOMAIN subs.pending \cup {id}
          BY ZenonT(30), <2>4, <2>5, <3>2
        <5>3. \A n \in DOMAIN subs.pending : n # id
          BY ZenonT(30), <2>7
        <5>4. net.out[i].id \in Nat
          BY ZenonT(30), <1>4, <2>7, <5>2
        <5>5. QED BY ZenonT(30), <2>6, <5>1, <5>2, <5>4
      <4>2. subs'.pending[net.out[i].id] = subs.pending[net.out[i].id]
        BY ZenonT(30), <2>4, <2>5, <4>1
      <4>3. /\ net.out[i].key = subs.pending[net.out[i].id]
            /\ \A j \in DOMAIN net.out : (i < j /\ net.out[j].op = "unsubscribe") =>
                                            net.out[j].key # net.out[i].key
        BY ZenonT(30), <1>1, <3>2, <4>1 DEF BookKept, AskedLast
      <4>4. QED BY ZenonT(30), <3>1, <3>2, <4>2, <4>3
    <3>3. CASE net'.out[i] = c /\ i = Len(net.out) + 1
      <4>1. net'.out[i].key = subs'.pending[net'.out[i].id]
        BY <1>4, <2>4, <2>5, <3>3
      <4>2. \A j \in DOMAIN net.out : ~(i < j)
        BY <1>1, <2>10, <3>3, Types
      <4>3. QED BY ZenonT(30), <3>1, <4>1, <4>2
    <3>4. QED BY ZenonT(30), <2>9, <3>2, <3>3
  <2>14. OrdersLoggedIn'
    BY <1>1, <1>4, <2>9 DEF BookKept, OrdersLoggedIn
  <2>15. SubscriptionsFirm'
    <3>1. \A k \in subs'.active : Firm(k)'
      BY <1>1, <2>5, <2>11 DEF BookKept, SubscriptionsFirm
    <3>2. ASSUME NEW i \in DOMAIN net'.in, net'.in[i].event = "subscribe",
                 net'.in[i].id \in DOMAIN subs'.pending, NEW k, k = subs'.pending[net'.in[i].id]
          PROVE  Firm(k)'
      <4>1. net'.in[i].id # id /\ i \in DOMAIN net.in /\ net'.in[i] = net.in[i]
        BY ZenonT(30), <1>1, <2>6, <2>8, <3>2, Types DEF BookKept, IdsUsed
      <4>2. net.in[i].id \in DOMAIN subs.pending /\ k = subs.pending[net.in[i].id]
        BY ZenonT(30), <2>4, <2>5, <3>2, <4>1
      <4>3. QED BY ZenonT(30), <1>1, <2>11, <3>2, <4>1, <4>2 DEF BookKept, SubscriptionsFirm
    <3>3. QED BY <3>1, <3>2 DEF SubscriptionsFirm
  <2>16. BookKept'
    BY <2>12, <2>13, <2>14, <2>15 DEF BookKept
  <2>17. net.open
    BY <2>2 DEF Up
  <2>18. QED BY ZenonT(30), <1>1, <2>3, <2>4, <2>5, <2>8, <2>16, <2>17, BookStep
<1>6. CASE ~sends
  <2>1. net' = net /\ subs' = b
    BY <1>3, <1>6
  <2> HIDE DEF sends, more
  <2>2. /\ ws' \in Sessions /\ ws'.state = ws.state /\ ws'.authenticated = ws.authenticated
        /\ SameClock(ws, ws')
        /\ ws'.next_request_id \in {ws.next_request_id, ws.next_request_id + 1}
    <3>1. ws' = [ws EXCEPT !.next_request_id = @ + 1] \/ ws' = ws
      BY <1>3 DEF id
    <3>2. QED BY ZenonT(30), <1>1, <3>1, Counted DEF SameClock
  <2>3. NoWorse(0, Ack("notice", 0, TRUE))
    <3>1. \A i \in DOMAIN net'.out : i \in Nat /\ i + 0 \in DOMAIN net.out
                                    /\ net'.out[i] = net.out[i + 0]
      BY <1>1, <2>1, Types
    <3>2. \A k \in subs'.active : Firm(k)
      BY <1>1, <1>2, <2>1 DEF BookKept, SubscriptionsFirm
    <3>3. QED BY ZenonT(30), <1>2, <2>1, <2>2, <3>1, <3>2 DEF NoWorse, Firm
  <2>4. BookKept'
    BY ZenonT(30), <1>1, <2>3, NoWorseKeeps, EventsMade
  <2>5. QED BY ZenonT(30), <1>1, <1>2, <2>1, <2>2, <2>4, BookStep DEF AwayIsBlank
<1>7. QED BY <1>5, <1>6

-----------------------------------------------------------------------------
(***************************************************************************)
(* The stream session is honest.                                           *)
(***************************************************************************)
LEMMA StreamBegins == StreamInit => StreamInv
<1> SUFFICES ASSUME StreamInit PROVE StreamInv
  OBVIOUS
<1>1. /\ ws = DefaultSession /\ net = NoNet /\ polled = TRUE /\ quiet = 0 /\ dropped = <<>>
      /\ subs = [desired |-> {}, active |-> {}, pending |-> <<>>]
  BY ZenonT(30) DEF StreamInit
<1>2. <<>> \in Seq(Nat) /\ <<>> \in Seq(Commands) /\ <<>> \in Seq(Events)
  OBVIOUS
<1>3. ws \in Sessions /\ ws.state = "Disconnected" /\ ~ws.authenticated /\ ~ws.awaiting_pong
      /\ ws.deadline = <<>>
  BY ZenonT(30), <1>1, <1>2 DEF DefaultSession, Sessions, Away
<1>4. /\ net \in Nets /\ ~net.open /\ net.out = <<>> /\ net.in = <<>>
      /\ subs.active = {} /\ subs.pending = <<>>
  BY ZenonT(30), <1>1, <1>2 DEF NoNet, Nets
<1>5. StreamTyped
  BY <1>1, <1>3, <1>4 DEF StreamTyped
<1>6. AwayIsBlank /\ LoginTaken /\ DeadlineCounts
  BY <1>3, <1>4 DEF AwayIsBlank, LoginTaken, DeadlineCounts, Away
<1>7. BookKept
  BY <1>4 DEF BookKept, IdsUsed, AskedLast, SubscriptionsFirm, OrdersLoggedIn
<1>8. PongSaves
  BY <1>1 DEF PongSaves
<1>9. QED BY <1>5, <1>6, <1>7, <1>8 DEF StreamInv

LEMMA StreamSteps == StreamInv /\ [StreamNext]_StreamVars => StreamInv'
<1>1. ASSUME StreamInv, StreamNext PROVE StreamInv'
  <2>1. CASE Connecting \/ ConnectionRefused \/ Replayed \/ ReceiveFails
    BY <1>1, <2>1, SessionAlone
  <2>2. CASE ConnectionMade \/ GiveUpConnection
    BY <1>1, <2>2, ConnectionEnds
  <2>3. CASE Login \/ WriteCommand
    BY <1>1, <2>3, CommandsKeep
  <2>4. CASE Heartbeat \/ StreamTick
    BY <1>1, <2>4, HeartbeatKeeps, TickKeeps
  <2>5. CASE StreamReceive \/ Serve
    BY <1>1, <2>5, ReceiveKeeps, ServeKeeps
  <2>6. CASE Notice \/ StreamBreak
    BY <1>1, <2>6, EndsKeep
  <2>7. CASE \E key \in Keys : Subscribe(key)
    BY <1>1, <2>7, SubscribeKeeps
  <2>8. CASE \E key \in Keys : Unsubscribe(key)
    BY <1>1, <2>8, UnsubscribeKeeps
  <2>9. QED BY <1>1, <2>1, <2>2, <2>3, <2>4, <2>5, <2>6, <2>7, <2>8 DEF StreamNext
<1>2. ASSUME StreamInv, UNCHANGED StreamVars PROVE StreamInv'
  <2>1. /\ StreamTyped /\ AwayIsBlank /\ LoginTaken /\ BookKept /\ DeadlineCounts /\ PongSaves
        /\ UNCHANGED <<ws, subs, net, polled, quiet, dropped>>
    BY <1>2 DEF StreamInv, StreamVars
  <2>2. StreamTyped' /\ AwayIsBlank' /\ LoginTaken' /\ PongSaves'
    BY ZenonT(30), <2>1 DEF StreamTyped, AwayIsBlank, LoginTaken, PongSaves
  <2>3. DeadlineCounts'
    BY ZenonT(30), <2>1 DEF DeadlineCounts
  <2>4. BookKept'
    <3>1. IdsUsed' /\ OrdersLoggedIn'
      BY ZenonT(30), <2>1 DEF BookKept, IdsUsed, OrdersLoggedIn
    <3>2. AskedLast'
      BY <2>1 DEF BookKept, AskedLast
    <3>3. SubscriptionsFirm'
      BY ZenonT(30), <2>1 DEF BookKept, SubscriptionsFirm, Firm
    <3>4. QED BY <3>1, <3>2, <3>3 DEF BookKept
  <2>5. QED BY <2>2, <2>3, <2>4 DEF StreamInv
<1>3. QED BY <1>1, <1>2

LEMMA StreamInvHonest == StreamInv => StreamHonest
<1> SUFFICES ASSUME StreamInv PROVE StreamHonest
  OBVIOUS
<1>1. StreamTyped /\ AwayIsBlank /\ BookKept /\ DeadlineCounts /\ PongSaves
  BY DEF StreamInv
<1>2. ActiveIsHeld
  BY ZenonT(30), <1>1 DEF ActiveIsHeld, BookKept, SubscriptionsFirm, Firm
<1>3. ASSUME Up PROVE quiet <= 2 * HEARTBEAT_INTERVAL + 1
  <2>1. ws.state \notin Away /\ quiet \in Nat /\ ws.deadline \in Seq(Nat)
    BY <1>1, <1>3 DEF Up, AwayIsBlank, Away, StreamTyped, Sessions
  <2>2. /\ HEARTBEAT_INTERVAL \in Nat
        /\ Len(ws.deadline) = 1 => ws.deadline[1] \in Nat
    BY <2>1, OkxStreamAssumption
  <2>3. CASE quiet <= (IF polled THEN 0 ELSE 1)
    BY <2>1, <2>2, <2>3
  <2>4. CASE /\ Len(ws.deadline) = 1
             /\ quiet + ws.deadline[1] <= 2 * HEARTBEAT_INTERVAL + 1
    BY <2>1, <2>2, <2>4
  <2>5. CASE /\ Len(ws.deadline) = 1
             /\ quiet + ws.deadline[1] <= HEARTBEAT_INTERVAL + 1
    BY <2>1, <2>2, <2>5
  <2>6. QED BY <1>1, <2>1, <2>3, <2>4, <2>5 DEF DeadlineCounts
<1>4. StreamSilenceEnds
  BY <1>3 DEF StreamSilenceEnds
<1>5. OrdersLoggedIn
  BY <1>1 DEF BookKept
<1>6. QED BY <1>1, <1>2, <1>4, <1>5 DEF StreamHonest

\* On every connection: an order is sent only where OKX has taken the login; a
\* subscription the session counts as active is one OKX holds; a connection
\* that receives nothing is given up by the first poll after the ping and the
\* pong have both had an interval, and never sooner.
THEOREM StreamIsHonest == StreamSpec => []StreamHonest
BY StreamBegins, StreamSteps, StreamInvHonest, PTL DEF StreamSpec
=============================================================================
