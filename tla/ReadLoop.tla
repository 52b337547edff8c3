------------------------------ MODULE ReadLoop ------------------------------
(***************************************************************************)
(* The reader task of a connection (read_loop, classify_buffered,          *)
(* classify_binary_buffered), its two bounded channels, and the select     *)
(* loop of run_connection that empties them (truefix-transport).           *)
(*                                                                         *)
(* The byte stream is a sequence of pieces.  A frame has three: the byte   *)
(* "8", then "=" with the rest of its header, then its remainder, so a     *)
(* read can end inside "8=", inside the header or inside the body.  The    *)
(* kinds are those framing and decoding tell apart:                        *)
(*   admin, app   a message of that class                                  *)
(*   garbled      a frame of the right length that does not decode         *)
(*   badlen       a frame whose BodyLength reaches into what follows       *)
(*   huge         a BodyLength of zero or beyond MAX_BODY_LEN              *)
(*   noise, junk  bytes that are no frame, without and with a SOH (one     *)
(*                piece)                                                   *)
(***************************************************************************)
EXTENDS Naturals, Sequences, SequencesExt, FiniteSets

CONSTANTS
  Readers,       \* the connections considered, by name
  StreamsOf,     \* the frames each may be sent: a set of sequences of kinds
  AppCapOf,      \* in_chan_capacity; 0 is None
  BinaryOf,      \* FAST or SBE instead of SOH-delimited messages
  AdminCap,      \* ADMIN_CHANNEL_CAPACITY
  Chunk,         \* pieces one read may return
  MaxHookFails   \* bound: handlers that ask for the end of the connection

Kinds == {"admin", "app", "garbled", "badlen", "huge", "noise", "junk"}
Good == {"admin", "app", "garbled"}

ASSUME ReadLoopAssumption ==
  /\ \A r \in Readers : /\ StreamsOf[r] \subseteq Seq(Kinds)
                        /\ AppCapOf[r] \in Nat
                        /\ BinaryOf[r] \in BOOLEAN
  /\ AdminCap \in Nat \ {0} /\ Chunk \in Nat \ {0} /\ MaxHookFails \in Nat

VARIABLES
  reader,      \* the connection; it never changes
  frames,      \* all the peer sends, as kinds; it never changes
  wire,        \* the pieces not read yet; the peer closes after the last one
  buf,         \* the reader's buffer
  rpc,         \* the reader: "classify", "loop" or "done"
  admin, app,  \* the channels
  pending_app, \* application messages staged by the reader
  busy,        \* the item the connection's task handles, or 0
  admin_done, app_done,
  tick_due,    \* the ticker has fired
  cpc,         \* the connection's task: "loop", "closing" or "ended"
  hook_fails,
  handled,     \* history: the frames the task has taken, in order
  cut          \* history: a read ended between "8" and "=" of a frame

readVars == <<rpc, buf, wire, pending_app, cut>>
connVars == <<busy, admin_done, app_done, tick_due, cpc, hook_fails, handled>>
ReadLoopVars ==
  <<reader, frames, readVars, admin, app, connVars>>

AppCap == AppCapOf[reader]
HasApp == AppCap > 0
Binary == BinaryOf[reader]

Pieces(n, kind) ==
  IF kind \in {"noise", "junk"} THEN <<[n |-> n, part |-> 0]>>
  ELSE [p \in 1..3 |-> [n |-> n, part |-> p]]

Bytes(kinds) ==
  FlattenSeq([n \in DOMAIN kinds |-> Pieces(n, kinds[n])])

KindOf(piece) == frames[piece.n]

ReadLoopTypeOK ==
  /\ reader \in Readers /\ frames \in StreamsOf[reader]
  /\ rpc \in {"classify", "loop", "done"} /\ cpc \in {"loop", "closing", "ended"}
  /\ Len(admin) <= AdminCap /\ Len(app) <= AppCap
  /\ \A q \in {admin, app, pending_app, handled} :
       \A i \in DOMAIN q : q[i] \in DOMAIN frames
  /\ busy \in {0} \cup DOMAIN frames
  /\ {admin_done, app_done, tick_due, cut} \subseteq BOOLEAN
  /\ hook_fails \in 0..MaxHookFails

ReadLoopInit ==
  /\ reader \in Readers
  /\ frames \in StreamsOf[reader]
  /\ wire = Bytes(frames) /\ buf = <<>>
  /\ rpc = "classify"
  /\ admin = <<>> /\ app = <<>> /\ pending_app = <<>>
  /\ busy = 0 /\ admin_done = FALSE /\ app_done = FALSE
  /\ tick_due = FALSE /\ cpc = "loop"
  /\ hook_fails = 0 /\ handled = <<>> /\ cut = FALSE

-----------------------------------------------------------------------------
(***************************************************************************)
(* Framing.                                                                *)
(***************************************************************************)

\* The first i > 1 at which the buffer holds both bytes of "8=".
next_frame_start(b) ==
  LET starts == {i \in 2..(Len(b) - 1) : b[i].part = 1 /\ b[i + 1].part = 2}
  IN  IF starts = {} THEN 0
      ELSE CHOOSE i \in starts : \A j \in starts : i <= j

\* Faulty variant: the whole buffer goes (what B14 fixed).
ResyncClears(b) == <<>>

\* The buffer without the prefix that cannot be framed.
Resync(b) ==
  LET i == next_frame_start(b)
  IN  IF i = 0 THEN <<>> ELSE SubSeq(b, i, Len(b))

HasSoh(b) == \E i \in DOMAIN b : b[i].part \in {2, 3} \/ KindOf(b[i]) = "junk"

\* frame_length: "more" (not enough bytes), "fatal", "bad" or "frame".  The
\* trailer is looked for where BodyLength says, so badlen shows only then.
frame_length(b) ==
  IF ~HasSoh(b) THEN "more"
  ELSE IF Head(b).part # 1 THEN "bad"
  ELSE CASE KindOf(Head(b)) = "huge" -> "fatal"
         [] KindOf(Head(b)) = "badlen" -> IF Len(b) < 4 THEN "more" ELSE "bad"
         [] OTHER -> IF Len(b) < 3 THEN "more" ELSE "frame"

-----------------------------------------------------------------------------
(***************************************************************************)
(* The reader task.                                                        *)
(***************************************************************************)
Reading == UNCHANGED <<reader, frames, connVars>>

\* A decoded or garbled item leaves the buffer; sending to the admin channel
\* waits for room.
Forward(n, rest) ==
  LET staged == HasApp /\ frames[n] = "app"
  IN  /\ buf' = rest
      /\ IF staged
         THEN pending_app' = Append(pending_app, n) /\ UNCHANGED admin
         ELSE /\ Len(admin) < AdminCap
              /\ admin' = Append(admin, n) /\ UNCHANGED pending_app

ReaderEnds == rpc' = "done" /\ UNCHANGED <<buf, admin, pending_app>>

\* One turn of classify_buffered's loop.
ClassifyBuffered ==
  /\ rpc = "classify" /\ ~Binary
  /\ LET outcome == frame_length(buf)
     IN  \/ outcome = "more" /\ rpc' = "loop" /\ UNCHANGED <<buf, admin, pending_app>>
         \/ outcome = "fatal" /\ ReaderEnds
         \/ /\ outcome = "bad"
            /\ buf' = Resync(buf)
            /\ rpc' = IF buf' = <<>> THEN "loop" ELSE "classify"
            /\ UNCHANGED <<admin, pending_app>>
         \/ /\ outcome = "frame"
            /\ Forward(Head(buf).n, SubSeq(buf, 4, Len(buf)))
            /\ UNCHANGED rpc
  /\ UNCHANGED <<app, wire, cut>> /\ Reading

\* classify_binary_buffered: one message is decoded from the front of the
\* buffer, which is then cleared; what does not decode ends the reader.
ClassifyBinary ==
  /\ rpc = "classify" /\ Binary
  /\ LET complete == /\ Len(buf) >= 3 /\ Head(buf).part = 1
                     /\ KindOf(Head(buf)) \in {"admin", "app"}
     IN  \/ buf = <<>> /\ rpc' = "loop" /\ UNCHANGED <<buf, admin, pending_app>>
         \/ buf # <<>> /\ ~complete /\ ReaderEnds
         \/ complete /\ Forward(Head(buf).n, <<>>) /\ rpc' = "loop"
  /\ UNCHANGED <<app, wire, cut>> /\ Reading

MayReserve == HasApp /\ pending_app # <<>> /\ Len(app) < AppCap

\* read_loop's first branch: a permit for the application channel.
Reserve ==
  /\ rpc = "loop" /\ MayReserve
  /\ app' = Append(app, Head(pending_app))
  /\ pending_app' = Tail(pending_app)
  /\ UNCHANGED <<rpc, buf, wire, admin, cut>> /\ Reading

\* The second branch, while fewer messages are staged than the channel holds.
MayRead ==
  /\ rpc = "loop" /\ ~MayReserve
  /\ HasApp => Len(pending_app) < AppCap

Read ==
  /\ MayRead /\ wire # <<>>
  /\ \E k \in 1..Chunk :
       /\ k <= Len(wire)
       /\ buf' = buf \o SubSeq(wire, 1, k)
       /\ wire' = SubSeq(wire, k + 1, Len(wire))
       /\ cut' = (cut \/ wire[k].part = 1)
  /\ rpc' = "classify"
  /\ UNCHANGED <<admin, app, pending_app>> /\ Reading

\* End of file or a read error: the task returns with what it had staged.
ReadEof ==
  /\ MayRead /\ wire = <<>>
  /\ rpc' = "done"
  /\ UNCHANGED <<buf, wire, admin, app, pending_app, cut>> /\ Reading

-----------------------------------------------------------------------------
(***************************************************************************)
(* The connection's task: a biased select over the two channels, the       *)
(* ticker and the control channel.  A channel is ready when it holds an    *)
(* item or its sender is gone; without in_chan_capacity the application    *)
(* channel never had one.                                                  *)
(***************************************************************************)
AdminReady == ~admin_done /\ (admin # <<>> \/ rpc = "done")
AppReady == ~app_done /\ (app # <<>> \/ rpc = "done" \/ ~HasApp)

AtSelect == cpc = "loop" /\ busy = 0 /\ ~(admin_done /\ app_done)
Handling == UNCHANGED <<reader, frames, readVars>>

RecvAdmin ==
  /\ AtSelect /\ AdminReady
  /\ IF admin # <<>>
     THEN /\ busy' = Head(admin) /\ admin' = Tail(admin)
          /\ UNCHANGED admin_done
     ELSE admin_done' = TRUE /\ UNCHANGED <<busy, admin>>
  /\ UNCHANGED <<app, app_done, tick_due, cpc, hook_fails, handled>> /\ Handling

\* Faulty variant: the newest item of the channel is taken first.
RecvAppNewest ==
  /\ AtSelect /\ ~AdminReady /\ AppReady
  /\ IF app # <<>>
     THEN /\ busy' = Last(app) /\ app' = Front(app)
          /\ UNCHANGED app_done
     ELSE app_done' = TRUE /\ UNCHANGED <<busy, app>>
  /\ UNCHANGED <<admin, admin_done, tick_due, cpc, hook_fails, handled>>
  /\ Handling

RecvApp ==
  /\ AtSelect /\ ~AdminReady /\ AppReady
  /\ IF app # <<>>
     THEN /\ busy' = Head(app) /\ app' = Tail(app)
          /\ UNCHANGED app_done
     ELSE app_done' = TRUE /\ UNCHANGED <<busy, app>>
  /\ UNCHANGED <<admin, admin_done, tick_due, cpc, hook_fails, handled>>
  /\ Handling

\* handle_inbound returns; its Err ends the loop.
Handled ==
  /\ cpc = "loop" /\ busy # 0
  /\ handled' = Append(handled, busy)
  /\ busy' = 0
  /\ \/ UNCHANGED <<cpc, hook_fails>>
     \/ /\ hook_fails < MaxHookFails
        /\ hook_fails' = hook_fails + 1
        /\ cpc' = "closing"
  /\ UNCHANGED <<admin, app, admin_done, app_done, tick_due>> /\ Handling

TickDue ==
  /\ cpc = "loop" /\ ~tick_due
  /\ tick_due' = TRUE
  /\ UNCHANGED <<admin, app, busy, admin_done, app_done, cpc, hook_fails, handled>>
  /\ Handling

\* The ticker's branch.  The control channel's is below it in the same way and
\* changes nothing here.
ServeTick ==
  /\ AtSelect /\ ~AdminReady /\ ~AppReady /\ tick_due
  /\ tick_due' = FALSE
  /\ UNCHANGED <<admin, app, busy, admin_done, app_done, cpc, hook_fails, handled>>
  /\ Handling

\* Both channels are drained and closed.
LoopOver ==
  /\ cpc = "loop" /\ busy = 0 /\ admin_done /\ app_done
  /\ cpc' = "closing"
  /\ UNCHANGED <<admin, app, busy, admin_done, app_done, tick_due, hook_fails,
                 handled>> /\ Handling

\* The last dispatch and the return: AbortReaderOnDrop ends the reader.
Teardown ==
  /\ cpc = "closing"
  /\ cpc' = "ended"
  /\ rpc' = "done"
  /\ UNCHANGED <<reader, frames, buf, wire, pending_app, cut, admin, app, busy,
                 admin_done, app_done, tick_due, hook_fails, handled>>

ReadLoopNext ==
  \/ ClassifyBuffered
  \/ ClassifyBinary
  \/ Reserve
  \/ Read
  \/ ReadEof
  \/ RecvAdmin
  \/ RecvApp
  \/ Handled
  \/ TickDue
  \/ ServeTick
  \/ LoopOver
  \/ Teardown

ReadLoopSpec == ReadLoopInit /\ [][ReadLoopNext]_ReadLoopVars

ReaderStep == ClassifyBuffered \/ ClassifyBinary \/ Reserve \/ Read \/ ReadEof
ConnectionStep == RecvAdmin \/ RecvApp \/ Handled \/ ServeTick \/ LoopOver \/ Teardown

-----------------------------------------------------------------------------
(***************************************************************************)
(* Properties.                                                             *)
(***************************************************************************)
Of(kinds) == {n \in DOMAIN frames : frames[n] \in kinds}
Taken == Range(handled) \cup ({busy} \ {0})
Classes == IF HasApp THEN {{"app"}, {"admin", "garbled"}} ELSE {Good}

\* What the session sees of each channel is in wire order, whatever the reads,
\* the junk in between and the room in the channels; without in_chan_capacity
\* there is one order for everything.
WireOrder ==
  \A class \in Classes : \A i, j \in DOMAIN handled :
    (i < j /\ {frames[handled[i]], frames[handled[j]]} \subseteq class)
      => handled[i] < handled[j]

\* A message is never passed over for a later one of its channel: what is lost
\* when the connection ends is a suffix, which the numbering of the next
\* connection shows as a gap.  (SOH encoding; a read that ended between the two
\* bytes of "8=" behind junk loses that frame.)
LostIsSuffix ==
  (~Binary /\ ~cut) =>
    \A class \in Classes : \A n \in Taken \cap Of(class) :
      \A m \in Of(class) : m < n => m \in Taken

\* Without in_chan_capacity a loop that ends because both channels ran dry has
\* handled every frame that was sent before a fatal one: the comment at the loop
\* calls this "the natural, no-message-lost way" to detect the end.
Fatal == Of({"huge"})
Before(n) == \A f \in Fatal : n < f
Drained == admin_done /\ app_done /\ busy = 0
AllHandled == \A n \in Of(Good) : Before(n) => n \in Taken
DrainLosesNothing == (Drained /\ ~HasApp /\ ~Binary /\ ~cut) => AllHandled

\* NEW-150: what waits between the socket and the session is bounded by the
\* configured capacity and the messages one read can complete, however slow the
\* application is.
StagingBounded ==
  HasApp => Len(pending_app) <= AppCap - 1 + (Chunk + 2) \div 3

\* A connection whose peer sends what it has and closes, whose stream becomes
\* unreadable or whose handler fails ends, and its reader with it (BUG-50):
\* nobody waits for ever on a full channel or on a task that is gone.
ConnectionTerminates == rpc = "loop" ~> (cpc = "ended" /\ rpc = "done")

\* What the reader may lose, and how much it may hold: a suffix of each channel
\* at the end of a connection, nothing when it drains, and a bounded staging area.
ReaderSound == ReadLoopTypeOK /\ LostIsSuffix /\ DrainLosesNothing /\ StagingBounded
=============================================================================
