----------------------------- MODULE AgentSink ------------------------------
(***************************************************************************)
(* Delivery from the network agent to the collector (ree0xq_net.rs, Sink;  *)
(* spool.rs, Spool).  An event that cannot be POSTed is appended to an     *)
(* NDJSON file; each run of the agent drains the file before it observes   *)
(* anything new.  The process may stop between any two steps, the POST may *)
(* take effect without its answer arriving, and file operations may fail   *)
(* half way.                                                               *)
(*                                                                         *)
(* The file is a sequence of lines.  A line is an event or Junk, which is  *)
(* text that does not parse as one event.  tail is TRUE when the last line *)
(* lacks its newline: what is appended next continues that line.           *)
(***************************************************************************)
EXTENDS Integers, Sequences, SequencesExt

CONSTANTS
  Event,       (* the events the agent will observe, each once               *)
  Poison,      (* those the collector refuses whenever it is asked           *)
  NoEvent,
  Junk,
  MaxFaults,   (* bound: file operations that fail                           *)
  MaxCrashes   (* bound: times the process is killed                         *)

ASSUME SinkAssumption ==
  /\ Poison \subseteq Event
  /\ NoEvent \notin Event
  /\ Junk \notin Event
  /\ MaxFaults \in Nat
  /\ MaxCrashes \in Nat

VARIABLES
  mode,     (* where the operator sends events: stdout, post, or post+spool  *)
  pc,       (* where the agent stands                                        *)
  file,     (* the spool file; empty and absent are the same                 *)
  tail,     (* its last line lacks the newline                               *)
  rest,     (* drain: the lines still to read                                *)
  kept,     (* drain: the lines written to the temporary file                *)
  current,  (* the event being sent or appended                              *)
  fresh,    (* events not yet observed                                       *)
  stored,   (* the collector: how often each event was ingested, 2 for more  *)
  unanswered, (* history: events ingested by a POST that seemed to fail      *)
  spooled,  (* history: events for which append returned Ok                  *)
  glued,    (* history: a line was appended to an open line                  *)
  halted,   (* history: a drain stopped at a line it could not read          *)
  faults,   (* file operations that failed                                   *)
  crashes   (* times the process was killed                                  *)

server == <<stored, unanswered>>
vars == <<mode, pc, file, tail, rest, kept, current, fresh, server, spooled,
          glued, halted, faults, crashes>>

Line == Event \union {Junk}

TypeOK ==
  /\ mode \in {"stdout", "post", "spool"}
  /\ pc \in {"down", "drain", "swap", "run", "post", "append", "newline"}
  /\ file \in Seq(Line)
  /\ tail \in BOOLEAN
  /\ rest \in Seq(Line)
  /\ kept \in Seq(Event)
  /\ current \in Event \union {NoEvent}
  /\ fresh \subseteq Event
  /\ stored \in [Event -> 0..2]
  /\ unanswered \subseteq Event
  /\ spooled \subseteq Event
  /\ glued \in BOOLEAN /\ halted \in BOOLEAN
  /\ faults \in 0..MaxFaults
  /\ crashes \in 0..MaxCrashes
  /\ tail => file # << >>
  /\ pc \in {"post", "append", "newline"} <=> current # NoEvent

Init ==
  /\ mode \in {"stdout", "post", "spool"}
  /\ pc = "down"
  /\ file = << >>
  /\ tail = FALSE
  /\ rest = << >>
  /\ kept = << >>
  /\ current = NoEvent
  /\ fresh = Event
  /\ stored = [e \in Event |-> 0]
  /\ unanswered = {}
  /\ spooled = {}
  /\ glued = FALSE /\ halted = FALSE
  /\ faults = 0
  /\ crashes = 0

(* A file operation fails.                                                 *)
Fault ==
  /\ faults < MaxFaults
  /\ faults' = faults + 1

-----------------------------------------------------------------------------
(* The collector's side of a POST (external to the agent).                 *)

Ingested(e) == stored' = [stored EXCEPT ![e] = IF @ < 2 THEN @ + 1 ELSE @]

(* 2xx.                                                                    *)
PostAccepted(e) == e \notin Poison /\ Ingested(e) /\ UNCHANGED unanswered

(* Refused, unreachable, or ingested without the answer arriving in time.  *)
PostFailed(e) ==
  \/ UNCHANGED server
  \/ /\ e \notin Poison
     /\ Ingested(e)
     /\ unanswered' = unanswered \union {e}

-----------------------------------------------------------------------------
(* Sink::new, drain_spool and Spool::drain.                                *)

Start ==
  /\ pc = "down"
  /\ IF mode = "spool" /\ file # << >>
     THEN pc' = "drain" /\ rest' = file
     ELSE pc' = "run" /\ rest' = << >>
  /\ kept' = << >>
  /\ UNCHANGED <<mode, file, tail, current, fresh, server, spooled,
                 glued, halted, faults, crashes>>

DrainNext(e) ==
  /\ pc = "drain"
  /\ rest # << >>
  /\ Head(rest) = e
  /\ rest' = Tail(rest)
  /\ UNCHANGED <<mode, pc, file, tail, current, fresh, spooled,
                 glued, halted, faults, crashes>>

(* Mutant of DrainDelivered: the line stays in the spool.                  *)
DrainDeliveredKept(e) == DrainNext(e) /\ PostAccepted(e) /\ kept' = Append(kept, e)

DrainDelivered(e) == DrainNext(e) /\ PostAccepted(e) /\ UNCHANGED kept

(* Mutant of DrainRetained: the first event that is not taken ends the     *)
(* drain, with everything behind it retained.                              *)
DrainRetainedBlocking(e) ==
  /\ pc = "drain"
  /\ rest # << >>
  /\ Head(rest) = e
  /\ PostFailed(e)
  /\ kept' = kept \o SelectSeq(rest, LAMBDA line : line # Junk)
  /\ rest' = << >>
  /\ UNCHANGED <<mode, pc, file, tail, current, fresh, spooled,
                 glued, halted, faults, crashes>>

DrainRetained(e) == DrainNext(e) /\ PostFailed(e) /\ kept' = Append(kept, e)

DrainCorrupt == DrainNext(Junk) /\ UNCHANGED <<server, kept>>

(* A line that cannot be read (an I/O error, or bytes that are not UTF-8)  *)
(* ends the loop, and the drain goes on to its end as if the file had      *)
(* ended there.                                                            *)
DrainHalted ==
  /\ Fault
  /\ pc = "drain"
  /\ rest # << >>
  /\ rest' = << >>
  /\ halted' = TRUE
  /\ UNCHANGED <<mode, pc, file, tail, kept, current, fresh, server, spooled,
                 glued, crashes>>

(* The temporary file is flushed and synced.                               *)
DrainEnd ==
  /\ pc = "drain"
  /\ rest = << >>
  /\ pc' = "swap"
  /\ UNCHANGED <<mode, file, tail, rest, kept, current, fresh, server, spooled,
                 glued, halted, faults, crashes>>

(* The spool is removed, or replaced atomically by the retained lines.     *)
Swap ==
  /\ pc = "swap"
  /\ pc' = "run"
  /\ file' = kept
  /\ tail' = FALSE
  /\ kept' = << >>
  /\ UNCHANGED <<mode, rest, current, fresh, server, spooled,
                 glued, halted, faults, crashes>>

(* Mutant of DrainFailed: the temporary file replaces the spool on the     *)
(* error path too.                                                         *)
DrainFailedSwapping ==
  /\ Fault
  /\ pc \in {"drain", "swap"}
  /\ pc' = "run"
  /\ file' = kept
  /\ tail' = FALSE
  /\ rest' = << >>
  /\ kept' = << >>
  /\ UNCHANGED <<mode, current, fresh, server, spooled, glued, halted, crashes>>

(* Opening, writing, syncing, removing or renaming failed: the drain is    *)
(* given up, the file stays as it was, and the agent goes on to observe.   *)
DrainFailed ==
  /\ Fault
  /\ pc \in {"drain", "swap"}
  /\ pc' = "run"
  /\ rest' = << >>
  /\ kept' = << >>
  /\ UNCHANGED <<mode, file, tail, current, fresh, server, spooled,
                 glued, halted, crashes>>

-----------------------------------------------------------------------------
(* Sink::send and Spool::append.                                           *)

Observe(e) ==
  /\ pc = "run"
  /\ e \in fresh
  /\ fresh' = fresh \ {e}
  /\ IF mode = "stdout" THEN UNCHANGED <<pc, current>>
     ELSE pc' = "post" /\ current' = e
  /\ UNCHANGED <<mode, file, tail, rest, kept, server, spooled,
                 glued, halted, faults, crashes>>

SendDelivered ==
  /\ pc = "post"
  /\ PostAccepted(current)
  /\ pc' = "run"
  /\ current' = NoEvent
  /\ UNCHANGED <<mode, file, tail, rest, kept, fresh, spooled,
                 glued, halted, faults, crashes>>

(* Without a spool the event is logged and dropped.                        *)
SendFailed ==
  /\ pc = "post"
  /\ PostFailed(current)
  /\ IF mode = "spool" THEN pc' = "append" /\ UNCHANGED current
     ELSE pc' = "run" /\ current' = NoEvent
  /\ UNCHANGED <<mode, file, tail, rest, kept, fresh, spooled,
                 glued, halted, faults, crashes>>

(* Text appended to a file whose last line is open continues that line.    *)
Written(line) ==
  IF ~tail THEN Append(file, line)
  ELSE Append(Front(file), Junk)

AppendLine ==
  /\ pc = "append"
  /\ file' = Written(current)
  /\ glued' = (glued \/ tail)
  /\ tail' = TRUE
  /\ pc' = "newline"
  /\ UNCHANGED <<mode, rest, kept, current, fresh, server, spooled, halted,
                 faults, crashes>>

(* The newline and the fsync: append returns Ok.                           *)
AppendNewline ==
  /\ pc = "newline"
  /\ tail' = FALSE
  /\ spooled' = spooled \union {current}
  /\ pc' = "run"
  /\ current' = NoEvent
  /\ UNCHANGED <<mode, file, rest, kept, fresh, server,
                 glued, halted, faults, crashes>>

(* append returns an error, before or after some of the line was written:  *)
(* the event is logged and dropped.                                        *)
AppendFailed ==
  /\ Fault
  /\ \/ pc = "append" /\ UNCHANGED <<file, tail, glued>>
     \/ /\ pc = "append"
        /\ file' = Written(Junk)
        /\ glued' = (glued \/ tail)
        /\ tail' = TRUE
     \/ pc = "newline" /\ UNCHANGED <<file, tail, glued>>
  /\ pc' = "run"
  /\ current' = NoEvent
  /\ UNCHANGED <<mode, rest, kept, fresh, server, spooled, halted, crashes>>

-----------------------------------------------------------------------------
Stop ==
  /\ pc' = "down"
  /\ rest' = << >>
  /\ kept' = << >>
  /\ current' = NoEvent
  /\ UNCHANGED <<mode, fresh, server, spooled, glued, halted, faults>>

(* The capture ends.                                                       *)
Exit ==
  /\ pc = "run"
  /\ Stop
  /\ UNCHANGED <<file, tail, crashes>>

(* The process is killed.  A line that is not synced yet is on disk        *)
(* whole, torn, or not at all.                                             *)
Crash ==
  /\ crashes < MaxCrashes
  /\ pc # "down"
  /\ Stop
  /\ crashes' = crashes + 1
  /\ \/ UNCHANGED <<file, tail>>
     \/ /\ pc = "newline"
        /\ file' = Append(Front(file), Junk)
        /\ tail' = TRUE
     \/ /\ pc = "newline"
        /\ Last(file) # Junk
        /\ file' = Front(file)
        /\ tail' = FALSE

AgentStep ==
  \/ \E e \in Event : DrainDelivered(e) \/ DrainRetained(e)
  \/ DrainCorrupt \/ DrainHalted \/ DrainEnd \/ Swap \/ DrainFailed
  \/ SendDelivered \/ SendFailed
  \/ AppendLine \/ AppendNewline \/ AppendFailed

Next ==
  \/ Start \/ AgentStep \/ Exit \/ Crash
  \/ \E e \in Event : Observe(e)

(* A run of the agent comes to its end and is started again, and the       *)
(* collector does not refuse a retried event for ever.                     *)
Spec ==
  /\ Init /\ [][Next]_vars
  /\ WF_vars(Start) /\ WF_vars(AgentStep) /\ WF_vars(Exit)
  /\ \A e \in Event \ Poison : SF_vars(DrainDelivered(e))

-----------------------------------------------------------------------------
(* An event whose append returned Ok is in the collector or in the spool   *)
(* as a line of its own, at every moment.                                  *)
Safe(e) == stored[e] > 0 \/ e \in Range(file)

(* As long as no file operation fails, draining, being killed in the       *)
(* middle of a drain or of a later append, and starting over do not lose   *)
(* an event that was spooled.  When one does fail, a spooled event is lost *)
(* only where a line was appended to an open one or a drain could not read *)
(* on: a drain that is given up, and an append that fails, lose nothing by *)
(* themselves (spool.rs, append and drain).                                *)
SpooledIsSafe ==
  (\A e \in spooled : Safe(e)) \/ (faults > 0 /\ (glued \/ halted))

(* An event that the agent has spooled, and that the collector does not    *)
(* refuse, reaches the collector unless a line was lost to a bad one       *)
(* (spool.rs, module documentation).                                       *)
SpooledIsDelivered ==
  \A e \in Event \ Poison : e \in spooled ~> stored[e] > 0 \/ glued \/ halted

(* Retrying sends an event twice only where the collector's answer did not *)
(* arrive, or a drain was broken off after it had delivered something: the *)
(* collector keeps a row for each (spool.rs, "worst case, a few lines get  *)
(* retried next pass").                                                    *)
RepeatedOnlyIfDisturbed ==
  \A e \in Event :
    stored[e] > 1 => e \in unanswered \/ crashes > 0 \/ faults > 0

(* What the documentation of drain says: a line leaves the spool only      *)
(* when the collector took it, every other valid line is retried.          *)
ValidLinesAreRetried ==
  [][\A e \in Event : pc = "swap" /\ e \in Range(file) /\ stored[e] = 0
       => e \in Range(file')]_vars

=============================================================================
