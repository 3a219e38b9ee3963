---------------------------- MODULE BusExchange ----------------------------
(***************************************************************************)
(* internal/serial: what travels on the wire during the transactions       *)
(* (serial.go Transact, Send, transmit) and how the frame reader takes it  *)
(* apart (framing.go).                                                     *)
(*                                                                         *)
(* The bus is shared: the unit answers our reads, late or never, and the   *)
(* panel holds conversations of its own.  A frame is two tokens, its head  *)
(* with the "<node> <register>" prefix and its tail with the value and the *)
(* line end, so that it can be cut, spliced and lost.  txMu leaves one     *)
(* transaction at a time (SerialPort); port errors are SerialPort's too.   *)
(***************************************************************************)
EXTENDS Integers, FiniteSets, SequencesExt

CONSTANTS
  Registers,
  MaxFrameLen,      \* maxFrameLen, in tokens
  ResponseTimeout, BusQuietGap, BusQuietMaxWait,   \* in clock steps
  InputSize,        \* bound: tokens the port buffers before they are read
  MaxAsked,         \* bound: questions the unit has yet to answer at a time
  MaxLosses         \* bound: tokens lost on the line in a behaviour

ASSUME LimitsPositive ==
  /\ MaxFrameLen \in Nat \ {0} /\ InputSize \in Nat \ {0}
  /\ MaxAsked \in Nat \ {0}
  /\ ResponseTimeout \in Nat \ {0}
  /\ BusQuietGap \in Nat /\ BusQuietMaxWait \in Nat /\ MaxLosses \in Nat

VARIABLES
  line,     \* tokens under way to us
  asked,    \* reads that reached the unit and have not been answered
  input,    \* received by the port, not read yet
  buf,      \* frameReader.buf
  phase,    \* where Transact or Send is
  want,     \* the register asked for, or sent to
  reading,  \* Transact, which waits for a reply, as opposed to Send
  silence,  \* waitQuiet: clock steps since lastByte
  deadline, \* clock steps left to the deadline of the phase
  outcome,  \* what the last transaction returned, "none" during one
  losses,   \* counted against the bound
  answered  \* history: the reply to the exchange under way has been read

bus == <<line, asked, losses>>
exchange == <<phase, want, reading, silence, deadline, outcome>>
busVars == <<bus, input, buf, exchange, answered>>

(***************************************************************************)
(* to: whose frame it is, an answer to the exchange under way ("now"), to  *)
(* one of ours before ("earlier"), or part of somebody else's conversation *)
(* ("other").  left: received before the exchange under way began.         *)
(***************************************************************************)
Tokens == [to : {"now", "earlier", "other"}, reg : Registers,
           part : {"head", "tail"}, left : BOOLEAN]

Frame(to, r) ==
  <<[to |-> to, reg |-> r, part |-> "head", left |-> FALSE],
    [to |-> to, reg |-> r, part |-> "tail", left |-> FALSE]>>

BusInit ==
  /\ line = <<>> /\ asked = {} /\ input = <<>> /\ buf = <<>>
  /\ phase = "idle"
  /\ want \in Registers
  /\ reading = FALSE
  /\ silence = 0 /\ deadline = 0
  /\ outcome = "none"
  /\ losses = 0
  /\ answered = FALSE

(***************************************************************************)
(* The bus (external).                                                     *)
(***************************************************************************)
\* The unit answers a read when the line is free, or it never does.
UnitAnswers(a) ==
  /\ a \in asked
  /\ line = <<>>
  /\ asked' = asked \ {a}
  /\ line' = Frame(a.to, a.reg)
  /\ UNCHANGED <<losses, input, buf, exchange, answered>>

\* The panel asks the unit for a register of its own.
PanelTalks(r) ==
  /\ line = <<>>
  /\ line' = Frame("other", r)
  /\ UNCHANGED <<asked, losses, input, buf, exchange, answered>>

Arrives ==
  /\ line # <<>>
  /\ Len(input) < InputSize
  /\ line' = Tail(line)
  /\ input' = Append(input, Head(line))
  /\ UNCHANGED <<asked, losses, buf, exchange, answered>>

\* A collision.
GetsLost ==
  /\ line # <<>>
  /\ losses < MaxLosses
  /\ line' = Tail(line)
  /\ losses' = losses + 1
  /\ UNCHANGED <<asked, input, buf, exchange, answered>>

(***************************************************************************)
(* transmit.                                                               *)
(***************************************************************************)
Aged(to) == IF to = "now" THEN "earlier" ELSE to
AgedTokens(s, left) ==
  [i \in DOMAIN s |-> [s[i] EXCEPT !.to = Aged(@), !.left = @ \/ left]]

\* Back to the caller.
Conclude(result) ==
  /\ phase' = "idle"
  /\ outcome' = result
  /\ reading' = FALSE
  /\ silence' = 0
  /\ deadline' = 0

Begin(r, kind) ==
  /\ phase = "idle"
  /\ phase' = "quiet"
  /\ want' = r
  /\ reading' = kind
  /\ silence' = 0
  /\ deadline' = BusQuietMaxWait
  /\ outcome' = "none"
  \* nothing happens to the bus: its tokens have become older
  /\ asked' = {[a EXCEPT !.to = "earlier"] : a \in asked}
  /\ line' = AgedTokens(line, FALSE)
  /\ input' = AgedTokens(input, TRUE)
  /\ buf' = AgedTokens(buf, TRUE)
  /\ answered' = FALSE
  /\ UNCHANGED losses

\* waitQuiet reads into its scratch buffer and throws away.
HearNoise ==
  /\ phase = "quiet"
  /\ silence < BusQuietGap /\ deadline > 0
  /\ input # <<>>
  /\ input' = <<>>
  /\ silence' = 0
  /\ UNCHANGED <<bus, buf, phase, want, reading, deadline, outcome, answered>>

\* Quiet for a gap, or waited long enough.
GoAhead ==
  /\ phase = "quiet"
  /\ silence >= BusQuietGap \/ deadline = 0
  /\ phase' = "reset"
  /\ silence' = 0 /\ deadline' = 0
  /\ UNCHANGED <<bus, input, buf, want, reading, outcome, answered>>

\* Bug: what the frame reader has buffered is kept.
DiscardNothing ==
  /\ phase = "reset"
  /\ phase' = "flush"
  /\ UNCHANGED <<bus, input, buf, want, reading, silence, deadline,
                 outcome, answered>>

\* fr.reset ...
DiscardBuffered ==
  /\ phase = "reset"
  /\ buf' = <<>>
  /\ phase' = "flush"
  /\ UNCHANGED <<bus, input, want, reading, silence, deadline, outcome,
                 answered>>

\* Bug: only the frame reader's own buffer is discarded.
FlushNothing ==
  /\ phase = "flush"
  /\ phase' = "write"
  /\ UNCHANGED <<bus, input, buf, want, reading, silence, deadline,
                 outcome, answered>>

\* ... and ResetInputBuffer.
FlushInput ==
  /\ phase = "flush"
  /\ input' = <<>>
  /\ phase' = "write"
  /\ UNCHANGED <<bus, buf, want, reading, silence, deadline, outcome,
                 answered>>

\* Write and Drain: the unit gets the command, or a collision garbles it.
WriteCommand(heard) ==
  /\ phase = "write"
  /\ heard => reading /\ Cardinality(asked) < MaxAsked
  /\ asked' = IF heard THEN asked \cup {[to |-> "now", reg |-> want]}
              ELSE asked
  /\ IF reading
     THEN /\ phase' = "look"
          /\ deadline' = ResponseTimeout
          /\ UNCHANGED <<reading, silence, outcome>>
     ELSE Conclude("sent")
  /\ UNCHANGED <<line, losses, input, buf, want, answered>>

(***************************************************************************)
(* Transact's loop around readFrame.                                       *)
(***************************************************************************)
FrameEnd(s) == SelectInSeq(s, LAMBDA t : t.part = "tail")
HasFrame == FrameEnd(buf) > 0
NextFrame == SubSeq(buf, 1, FrameEnd(buf))

\* ParseResponse: exactly a prefix, the wanted one, and a value.
Matches(frame) ==
  /\ Len(frame) = 2
  /\ frame[1].part = "head"
  /\ frame[1].reg = want

\* Bug: every frame restarts the wait.
TakeFrameAnew ==
  /\ phase = "await"
  /\ HasFrame
  /\ buf' = SubSeq(buf, FrameEnd(buf) + 1, Len(buf))
  /\ IF Matches(NextFrame)
     THEN Conclude("reply")
     ELSE /\ phase' = "look"
          /\ deadline' = ResponseTimeout
          /\ UNCHANGED <<reading, silence, outcome>>
  /\ UNCHANGED <<bus, input, want, answered>>

\* Bug: what was read along with a frame goes with it.
TakeFrameAlone ==
  /\ phase = "await"
  /\ HasFrame
  /\ buf' = <<>>
  /\ IF Matches(NextFrame)
     THEN Conclude("reply")
     ELSE /\ phase' = "look"
          /\ UNCHANGED <<reading, silence, deadline, outcome>>
  /\ UNCHANGED <<bus, input, want, answered>>

\* A buffered frame is served first; one that does not match is discarded.
TakeFrame ==
  /\ phase = "await"
  /\ HasFrame
  /\ buf' = SubSeq(buf, FrameEnd(buf) + 1, Len(buf))
  /\ IF Matches(NextFrame)
     THEN Conclude("reply")
     ELSE /\ phase' = "look"
          /\ UNCHANGED <<reading, silence, deadline, outcome>>
  /\ UNCHANGED <<bus, input, want, answered>>

\* ErrFrameOverflow: the stream is taken to be out of step, the read fails.
Overflow ==
  /\ phase = "await"
  /\ ~HasFrame
  /\ Len(buf) > MaxFrameLen
  /\ buf' = <<>>
  /\ Conclude("overflow")
  /\ UNCHANGED <<bus, input, want, answered>>

\* The last token of the unit's answer to the exchange under way.
EndsReply(t) == t.to = "now" /\ t.part = "tail"

ReadMore ==
  /\ phase = "await"
  /\ ~HasFrame
  /\ Len(buf) <= MaxFrameLen
  /\ deadline > 0
  /\ input # <<>>
  /\ buf' = buf \o input
  /\ input' = <<>>
  /\ answered' = (answered \/ \E i \in DOMAIN input : EndsReply(input[i]))
  /\ UNCHANGED <<bus, exchange>>

\* ErrReadTimeout: a partial frame stays in buf.
TimeOut ==
  /\ phase = "await"
  /\ ~HasFrame
  /\ Len(buf) <= MaxFrameLen
  /\ deadline = 0
  /\ Conclude("timeout")
  /\ UNCHANGED <<bus, input, buf, want, answered>>

\* The context is looked at between two frames and while listening.
LookOn ==
  /\ phase = "look"
  /\ phase' = "await"
  /\ UNCHANGED <<bus, input, buf, want, reading, silence, deadline,
                 outcome, answered>>

\* It has ended.
Cancelled ==
  /\ phase \in {"quiet", "look"}
  /\ Conclude("cancelled")
  /\ UNCHANGED <<bus, input, buf, want, answered>>

TimePasses ==
  /\ phase \in {"quiet", "look", "await"}
  /\ deadline > 0
  /\ deadline' = deadline - 1
  /\ silence' = IF phase = "quiet" /\ silence < BusQuietGap THEN silence + 1
                                                            ELSE silence
  /\ UNCHANGED <<bus, input, buf, phase, want, reading, outcome, answered>>

Proceed ==
  \/ HearNoise \/ GoAhead \/ DiscardBuffered \/ FlushInput
  \/ \E heard \in BOOLEAN : WriteCommand(heard)
  \/ LookOn \/ TakeFrame \/ Overflow \/ ReadMore \/ TimeOut

BusNext ==
  \/ Proceed \/ Cancelled \/ TimePasses \/ Arrives \/ GetsLost
  \/ \E r \in Registers, kind \in BOOLEAN : Begin(r, kind)
  \/ \E r \in Registers : PanelTalks(r)
  \/ \E a \in asked : UnitAnswers(a)

BusSpec == BusInit /\ [][BusNext]_busVars

\* The goroutine runs and time passes; the bus promises nothing.
FairBusSpec == BusSpec /\ WF_busVars(Proceed) /\ WF_busVars(TimePasses)
-----------------------------------------------------------------------------
BusTypeOK ==
  /\ line \in Seq(Tokens)
  /\ asked \in SUBSET [to : {"now", "earlier"}, reg : Registers]
  /\ input \in Seq(Tokens) /\ Len(input) <= InputSize
  /\ buf \in Seq(Tokens) /\ Len(buf) <= MaxFrameLen + InputSize
  /\ phase \in {"idle", "quiet", "reset", "flush", "write", "look", "await"}
  /\ want \in Registers
  /\ reading \in BOOLEAN
  /\ silence \in 0..BusQuietGap
  /\ deadline \in Nat
  /\ outcome \in {"none", "reply", "sent", "timeout", "overflow", "cancelled"}
  /\ losses \in 0..MaxLosses
  /\ answered \in BOOLEAN

\* NextFrame becomes the reply.
Accepts == phase = "await" /\ outcome' = "reply"

(***************************************************************************)
(* No byte received before an exchange began becomes part of its reply:    *)
(* the frame reader's buffer and the port's are discarded together         *)
(* (transmit, "so the two stay consistent").                               *)
(***************************************************************************)
NothingLeftOver ==
  [][Accepts => \A i \in DOMAIN NextFrame : ~NextFrame[i].left]_busVars

(***************************************************************************)
(* A prefix and a value of two different frames only come together on a    *)
(* line that has lost something before: a time-out, a discarded frame, a   *)
(* flush or an overflow never splices two frames (readFrame).              *)
(***************************************************************************)
SplicedOnlyByLoss ==
  [][Accepts =>
       \/ losses > 0
       \/ /\ NextFrame[1].reg = NextFrame[2].reg
          /\ NextFrame[1].to = NextFrame[2].to]_busVars

(***************************************************************************)
(* A reply that has been read is not overlooked: unless the line lost      *)
(* something, an exchange that got its answer, in a burst or in pieces,    *)
(* with foreign frames around it and however late, does not end as one     *)
(* without a reply (readFrame, "so a burst containing several frames is    *)
(* delivered one at a time").                                              *)
(***************************************************************************)
NoReplyOverlooked ==
  [][phase = "await" /\ outcome' \in {"timeout", "overflow"}
     => ~answered \/ losses > 0]_busVars

(***************************************************************************)
(* Every exchange ends, even on a bus that is never quiet and whose other  *)
(* frames never cease (waitQuiet's maxWait, Transact's single deadline).   *)
(***************************************************************************)
ExchangeEnds == phase # "idle" ~> phase = "idle"
=============================================================================
