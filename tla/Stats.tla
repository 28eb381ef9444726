--------------------------------- MODULE Stats ---------------------------------
(***************************************************************************)
(* The link statistics (internal/verbose/verbose.go): one Logger for the    *)
(* whole process, whose atomic counters the callbacks of every receiver     *)
(* session add to, and one goroutine per session (runStatsLogger in         *)
(* internal/ingest/ingest.go) that loads them every ten seconds, one by     *)
(* one, and writes a line with hints about what is wrong with the stream.   *)
(*                                                                          *)
(* The order in which a session calls back is the receiver library's        *)
(* (external): bytes, then for each frame in them the frame, its packet or  *)
(* the error, and what was in the packet.                                   *)
(***************************************************************************)
EXTENDS Naturals, Sequences

CONSTANTS
  Levels,     \* levels the process may be started with
  Conns,      \* receiver connections: one that was replaced may still be ending
  Watched,    \* the one whose lines are looked at (they only read the counters)
  MaxReads,   \* bound on the chunks of bytes counted
  MaxFrames   \* bound on the frames counted

ASSUME StatsAssumption ==
  /\ Levels \subseteq 0 .. 3
  /\ Watched \in Conns
  /\ MaxReads \in Nat /\ MaxFrames \in Nat

VARIABLES
  level,      \* Logger.Level
  counters,   \* its counters
  link,       \* runOnce of this connection is between Dial and its return
  stage,      \* the callback its session is in or has just left
  ticker,     \* its runStatsLogger: "none", "waiting" or "loading"
  line        \* what LogStats of Watched has loaded: whether each counter is positive

vars == <<level, counters, link, stage, ticker, line>>

Off == 0
Info == 1
Debug == 2
Trace == 3

Counter == {"bytesRead", "frames", "packets", "rawPages", "genoutPages", "rawMessages",
            "gsofRecords", "decodeErrors", "rawPageErrors", "otherPackets"}

\* Mutant: a counter that must be zero is loaded before the other one.
FramesFirst == <<"frames", "bytesRead", "rawPages", "genoutPages", "rawMessages">>

\* The order of the loads, of the counters that are not only printed.
Snapshot == <<"bytesRead", "frames", "rawPages", "genoutPages", "rawMessages">>

Kinds == {"rawPages", "genoutPages", "otherPackets"}
Stage == {"quiet", "parsing", "frame"} \cup Kinds \cup {"rawPage", "records"}

Init ==
  /\ level \in Levels
  /\ counters = [n \in Counter |-> 0]
  /\ link = [c \in Conns |-> FALSE]
  /\ stage = [c \in Conns |-> "quiet"]
  /\ ticker = [c \in Conns |-> "none"]
  /\ line = <<>>

-----------------------------------------------------------------------------
(* The callbacks, as SessionConfig wires them.                              *)

Wired(n) ==
  level >= IF n \in {"gsofRecords", "decodeErrors", "rawPageErrors"} THEN Debug ELSE Info

\* One atomic Add, if the callback is wired
Count(n) == counters' = IF Wired(n) THEN [counters EXCEPT ![n] = @ + 1] ELSE counters

Goto(c, s) == stage' = [stage EXCEPT ![c] = s]

LoggerKeeps == UNCHANGED <<level, link, ticker, line>>

\* A chunk of bytes arrives: onBytes.
Bytes(c) ==
  /\ link[c] /\ stage[c] = "quiet"
  /\ counters["bytesRead"] < MaxReads
  /\ Count("bytesRead")
  /\ Goto(c, "parsing")
  /\ LoggerKeeps

\* The decoder found a frame: onFrame.
Frame(c) ==
  /\ stage[c] = "parsing"
  /\ counters["frames"] < MaxFrames
  /\ Count("frames")
  /\ Goto(c, "frame")
  /\ LoggerKeeps

\* No frame is left in the bytes.
Parsed(c) ==
  /\ stage[c] = "parsing"
  /\ Goto(c, "quiet")
  /\ UNCHANGED counters /\ LoggerKeeps

\* onDecodeError
DecodeError(c) ==
  /\ stage[c] = "frame"
  /\ Count("decodeErrors")
  /\ Goto(c, "parsing")
  /\ LoggerKeeps

\* onPacketCount: first l.packets
Packet(c) ==
  /\ stage[c] = "frame"
  /\ Count("packets")
  /\ \E kind \in Kinds : Goto(c, kind)
  /\ LoggerKeeps

After(kind) ==
  CASE kind = "rawPages" -> "rawPage"
    [] kind = "genoutPages" -> "records"
    [] OTHER -> "parsing"

\* Mutant: the switch has no default.
NoDefault(c) ==
  /\ stage[c] \in Kinds
  /\ IF stage[c] = "otherPackets" THEN UNCHANGED counters ELSE Count(stage[c])
  /\ Goto(c, After(stage[c]))
  /\ LoggerKeeps

\* Then the counter of the packet's type, and base.OnPacket
PacketKind(c) ==
  /\ stage[c] \in Kinds
  /\ Count(stage[c])
  /\ Goto(c, After(stage[c]))
  /\ LoggerKeeps

\* A page of RAWDATA completes a message (OnRAWDATA), is rejected
\* (onRAWPageError), or neither: it is of another record type or not the last page.
Page(c) ==
  /\ stage[c] = "rawPage"
  /\ \/ Count("rawMessages")
     \/ Count("rawPageErrors")
     \/ UNCHANGED counters
  /\ Goto(c, "parsing")
  /\ LoggerKeeps

\* The record of a GSOF page, if it completes one: onGSOF
Records(c) ==
  /\ stage[c] = "records"
  /\ Count("gsofRecords") \/ UNCHANGED counters
  /\ Goto(c, "parsing")
  /\ LoggerKeeps

-----------------------------------------------------------------------------
(* runOnce and runStatsLogger.                                              *)

\* Mutant: the level is not tested.
LogsAlways == TRUE

Logs == level >= Info

\* session.Dial, then go runStatsLogger if there is a Logger of level info or more;
\* c is used for another link when nothing of the last one is left
LinkUp(c) ==
  /\ ~link[c] /\ stage[c] = "quiet" /\ ticker[c] = "none"
  /\ link' = [link EXCEPT ![c] = TRUE]
  /\ ticker' = [ticker EXCEPT ![c] = IF Logs THEN "waiting" ELSE "none"]
  /\ UNCHANGED <<level, counters, stage, line>>

\* The link ends or the connection is replaced: statsCancel, client.Close; a
\* callback that has begun goes on.
LinkEnds(c) ==
  /\ link[c]
  /\ link' = [link EXCEPT ![c] = FALSE]
  /\ UNCHANGED <<level, counters, stage, ticker, line>>

\* case <-tick.C: LogStats begins
Tick(c) ==
  /\ ticker[c] = "waiting"
  /\ ticker' = [ticker EXCEPT ![c] = "loading"]
  /\ UNCHANGED <<level, counters, link, stage, line>>

GSOFOnly == <<"genoutPages", "rawPages">>

\* The hints, each as the counter that must be positive and the one that must be zero.
Hint == {<<"bytesRead", "frames">>, <<"rawPages", "rawMessages">>, GSOFOnly}

Loaded == Len(line) = Len(Snapshot)

\* The next Load of Snapshot
Load ==
  /\ ticker[Watched] = "loading" /\ ~Loaded
  /\ line' = Append(line, counters[Snapshot[Len(line) + 1]] > 0)
  /\ UNCHANGED <<level, counters, link, stage, ticker>>

\* The loaded values say that n is positive, or that it is not.
Shows(n, positive) == \E i \in 1 .. Len(line) : Snapshot[i] = n /\ line[i] = positive

\* The hints that the values loaded so far raise
Raised == {h \in Hint : Shows(h[1], TRUE) /\ Shows(h[2], FALSE)}

\* The line and its hints are written.
Logged(c) ==
  /\ ticker[c] = "loading"
  /\ c = Watched => Loaded
  /\ ticker' = [ticker EXCEPT ![c] = "waiting"]
  /\ line' = IF c = Watched THEN <<>> ELSE line
  /\ UNCHANGED <<level, counters, link, stage>>

\* Mutant: the goroutine is given ctx, which the end of a link does not cancel.
NeverCancelled(c) == FALSE

Cancelled(c) == ~link[c]

\* case <-ctx.Done()
TickerReturns(c) ==
  /\ ticker[c] = "waiting" /\ Cancelled(c)
  /\ ticker' = [ticker EXCEPT ![c] = "none"]
  /\ UNCHANGED <<level, counters, link, stage, line>>

Callback(c) ==
  \/ Frame(c) \/ Parsed(c) \/ DecodeError(c) \/ Packet(c) \/ PacketKind(c)
  \/ Page(c) \/ Records(c)

Statistics(c) == Tick(c) \/ Logged(c) \/ TickerReturns(c)

Next ==
  \/ \E c \in Conns : Bytes(c) \/ Callback(c) \/ LinkUp(c) \/ LinkEnds(c) \/ Statistics(c)
  \/ Load

Spec == Init /\ [][Next]_vars

(***************************************************************************)
(* A goroutine that writes a line goes on, and since select chooses at      *)
(* random when ticker and cancellation are both ready, it cannot prefer the *)
(* ticker for ever.  Nothing makes a link come up, bring bytes or end.      *)
(***************************************************************************)
FairSpec ==
  /\ Spec /\ WF_vars(Load)
  /\ \A c \in Conns : WF_vars(Logged(c)) /\ SF_vars(TickerReturns(c))

-----------------------------------------------------------------------------
(* Properties.                                                              *)

\* Types; with the level off nothing is counted and no goroutine writes lines.
TypeOK ==
  /\ level \in Off .. Trace
  /\ counters \in [Counter -> Nat]
  /\ link \in [Conns -> BOOLEAN]
  /\ stage \in [Conns -> Stage]
  /\ ticker \in [Conns -> {"none", "waiting", "loading"}]
  /\ line \in Seq(BOOLEAN) /\ Len(line) <= Len(Snapshot)
  /\ level = Off => \A c \in Conns : ticker[c] = "none" /\ \A n \in Counter : counters[n] = 0

(***************************************************************************)
(* Although the counters are loaded one by one while callbacks add to them, *)
(* a hint that no frames or no messages arrive is true at a moment of the   *)
(* line it belongs to, that of the load which raises it: the counter that   *)
(* must be zero is loaded last.  (Not so the hint about GSOF, whose zero    *)
(* counter is loaded first: pages of both kinds may arrive between the two  *)
(* loads.)                                                                  *)
(***************************************************************************)
True(h) == counters[h[1]] > 0 /\ counters[h[2]] = 0

NoFalseHint ==
  [][\A h \in Raised' \ Raised : h = GSOFOnly \/ True(h)]_vars

(***************************************************************************)
(* Whatever sessions overlapped, when no callback is running the counters   *)
(* agree: every packet was counted under its kind, and from debug level on, *)
(* every frame as a packet or an error, and no more messages and errors     *)
(* than pages.                                                              *)
(***************************************************************************)
Reconciles ==
  (\A c \in Conns : stage[c] = "quiet") =>
    /\ counters["packets"]
         = counters["rawPages"] + counters["genoutPages"] + counters["otherPackets"]
    /\ counters["rawMessages"] + counters["rawPageErrors"] <= counters["rawPages"]
    /\ level >= Debug => counters["frames"] = counters["packets"] + counters["decodeErrors"]

(***************************************************************************)
(* The goroutine that writes the lines of a link ends with the link, so     *)
(* reconnecting every two seconds does not pile them up.                    *)
(***************************************************************************)
LinesEndWithLink == \A c \in Conns : ~link[c] ~> ticker[c] = "none"
=============================================================================
