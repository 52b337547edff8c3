------------------------------- MODULE MCFutu -------------------------------
(***************************************************************************)
(* What callers of FutuClient do and what happens to them meanwhile.       *)
(***************************************************************************)
EXTENDS FutuCalls

MaxSerial == 9

Call(request) == <<request>>
Special(does) == <<[Request("TEST_CMD") EXCEPT !.does = does]>>
Query == Call(Request("QOT_GET_BASIC_QOT"))

\* Calm: one caller, an OpenD that answers everything.
Calm(first, second) ==
  [calls |-> [a |-> first, b |-> second], auto |-> TRUE, serial |-> 1,
   split |-> FALSE, answers |-> {"ok"}, patient |-> TRUE,
   chances |-> [breaks |-> 0, pushes |-> 0, beats |-> 0]]
Breaking(first, second) == [Calm(first, second) EXCEPT !.chances.breaks = 1]

QuietProgram == Calm(<<>>, <<>>)
MCPrograms ==
  {QuietProgram}
  \* every request, answered in each way
  \cup {[Calm(<<Call(q)>>, <<>>) EXCEPT !.answers = {"ok", "error", "empty"}] : q \in Queries}
  \cup {[Calm(<<c>>, <<>>) EXCEPT !.answers = {"ok", "error", "empty"}] :
          c \in {Call(cancel_all_order(FALSE)), Call(cancel_all_order(TRUE)),
                 Call(modify_order), unsubscribe({}), unlock_trade(FALSE)}}
  \* pushes, keep-alives up to the last number, frames in parts, late answers
  \cup {[Calm(<<Query>>, <<>>) EXCEPT !.chances.pushes = 2],
        [Calm(<<Call(place_order)>>, <<>>) EXCEPT !.chances.pushes = 1],
        [Calm(<<Query>>, <<>>) EXCEPT !.chances.beats = 2, !.serial = MaxSerial - 2],
        [Calm(<<Query>>, <<Query>>) EXCEPT !.split = TRUE, !.auto = FALSE],
        [Calm(<<Query, Query>>, <<>>) EXCEPT !.patient = FALSE],
        [Calm(<<subscribe({"x"})>>, <<Special("reconnect")>>) EXCEPT !.patient = FALSE]}
  \* a socket that fails
  \cup {Breaking(<<Query>>, <<Call(place_order)>>), Breaking(<<subscribe({"x"})>>, <<>>),
        Breaking(<<subscribe({"x"}), unlock_trade(TRUE)>>, <<>>),
        Breaking(<<sub_acc_push({"acc"})>>, <<>>), Breaking(<<unsubscribe({"x"})>>, <<>>),
        Breaking(<<subscribe({"x"}), unsubscribe_all>>, <<>>)}
  \* reconnect() and close() beside other calls
  \cup {Calm(<<Query, Query>>, <<Special("reconnect")>>),
        Calm(<<Call(place_order)>>, <<Special("reconnect")>>),
        [Calm(<<Query>>, <<Special("close")>>) EXCEPT !.chances.breaks = 1],
        Calm(<<Special("reconnect")>>, <<Special("close")>>)}

\* For the liveness properties: few states, every way to wait.
ShortPrograms ==
  {QuietProgram, Breaking(<<subscribe({"x"})>>, <<>>),
   [Calm(<<Query, Query>>, <<>>) EXCEPT !.patient = FALSE],
   [Calm(<<subscribe({"x"})>>, <<Special("reconnect")>>) EXCEPT !.patient = FALSE],
   Calm(<<Special("reconnect")>>, <<Special("close")>>),
   \* frames the caller does not wait for, and frames in parts
   [Calm(<<Query>>, <<>>) EXCEPT !.chances.pushes = 1, !.chances.beats = 1],
   [Calm(<<Query>>, <<>>) EXCEPT !.split = TRUE, !.auto = FALSE]}
=============================================================================
