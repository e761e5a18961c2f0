---------------------------- MODULE HelperProcess ----------------------------
(***************************************************************************)
(* One supervised helper (crates/helper/src/process.rs): a child that      *)
(* leads a process group of its own, watched by the thread that runs it    *)
(* until it exits, its deadline passes or the observer stops it, and read  *)
(* by a thread that keeps a bounded part of its output.                    *)
(*                                                                         *)
(* The group is known by the leader's number.  The operating system may    *)
(* give that number to somebody else once the leader is reaped and the     *)
(* group is empty.  One captured stream stands for both.  A descendant of  *)
(* the leader is in its group; one that left the group holds the pipe all  *)
(* the same.  The output is the numbers 1, 2, 3 and so on.                 *)
(***************************************************************************)
EXTENDS Integers, Sequences, SequencesExt

CONSTANTS
  HpLimits,     \* CaptureConfig.limit
  HpRetentions, \* "Head", "Tail"
  HpChunk,      \* most that one read returns
  HpPipe,       \* what a pipe holds
  HpStopReads,  \* CAPTURE_STOP_DRAIN_MAX_READS
  HpBytes       \* bound: what the processes write

ASSUME HpAssumption ==
  /\ HpLimits \subseteq Nat /\ HpRetentions \subseteq {"Head", "Tail"}
  /\ HpChunk \in Nat /\ HpStopReads \in Nat

VARIABLES
  hpConfig,  \* CaptureConfig: limit and retention
  hpRun,     \* the thread in wait_until: pc, outcome
  hpLate,    \* the deadline has passed
  hpProc,    \* the processes
  hpForeign, \* the group's number is somebody else's
  hpWritten, \* how much was written to the pipe
  hpRead,    \* how much was read from it
  hpStop,    \* capture_stop
  hpCapture  \* drain_bounded

hpVars == <<hpConfig, hpRun, hpLate, hpProc, hpForeign, hpWritten, hpRead, hpStop, hpCapture>>

HpNobody == [leader |-> "none", child |-> "none", escaped |-> "none"]
Running(p) == hpProc[p] = "running"
\* Who holds the writing end of the pipe.
Writers == {p \in DOMAIN hpProc : Running(p)}
HpAt(pc) == hpRun.pc = pc
HpGo(pc) == hpRun' = [hpRun EXCEPT !.pc = pc]
HpEnd(pc, outcome) == hpRun' = [pc |-> pc, outcome |-> outcome]

-----------------------------------------------------------------------------
(* The supervising thread.                                                 *)

\* run_until_impl: cancelled or late work never starts a process.
HpNotStarted ==
  /\ HpAt("start")
  /\ HpEnd("returned", IF hpLate THEN "deadline" ELSE "not started")
  /\ UNCHANGED <<hpConfig, hpLate, hpProc, hpForeign, hpWritten, hpRead, hpStop, hpCapture>>

\* spawn: when the capture cannot start the child is terminated again.
HpSpawn ==
  /\ HpAt("start") /\ ~hpLate
  /\ hpProc' = [hpProc EXCEPT !.leader = "running"]
  /\ \/ HpGo("observe") /\ hpCapture' = [hpCapture EXCEPT !.pc = "read"]
     \/ HpEnd("term", "error") /\ UNCHANGED hpCapture
  /\ UNCHANGED <<hpConfig, hpLate, hpForeign, hpWritten, hpRead, hpStop>>

\* The observer wants to go on, stops the helper, or panics (the child is dropped).
HpObserve ==
  /\ HpAt("observe")
  /\ \/ HpGo("exited")
     \/ \E why \in {"stopped", "panicked"} : HpEnd("term", why)
  /\ UNCHANGED <<hpConfig, hpLate, hpProc, hpForeign, hpWritten, hpRead, hpStop, hpCapture>>

\* leader_has_exited looks without reaping; a stop may still be asked for then.
HpLook ==
  /\ HpAt("exited")
  /\ \/ hpLate /\ HpEnd("term", "deadline")
     \/ ~hpLate /\ hpProc.leader = "running" /\ HpGo("observe")
     \/ ~hpLate /\ hpProc.leader = "zombie" /\ HpEnd("kill", "exited")
     \/ ~hpLate /\ hpProc.leader = "zombie" /\ HpEnd("term", "stopped")
  /\ UNCHANGED <<hpConfig, hpLate, hpProc, hpForeign, hpWritten, hpRead, hpStop, hpCapture>>

\* What a signal to the group ends: a process may ignore SIGTERM.
Killed(p) == IF hpProc[p] # "running" THEN hpProc[p] ELSE IF p = "leader" THEN "zombie" ELSE "gone"
Group == {"leader", "child"}

\* terminate_raw_child: SIGTERM, then the whole grace, whoever exits in it.
HpTerm ==
  /\ HpAt("term")
  /\ \E S \in SUBSET Group :
       hpProc' = [p \in DOMAIN hpProc |-> IF p \in S THEN Killed(p) ELSE hpProc[p]]
  /\ HpGo("grace")
  /\ UNCHANGED <<hpConfig, hpLate, hpForeign, hpWritten, hpRead, hpStop, hpCapture>>

\* Mutant: a leader that has exited is reaped within the grace.
HpGrace_reaps ==
  /\ HpAt("grace") /\ HpGo("kill")
  /\ hpProc' = [hpProc EXCEPT !.leader = IF @ = "zombie" THEN "gone" ELSE @]
  /\ UNCHANGED <<hpConfig, hpLate, hpForeign, hpWritten, hpRead, hpStop, hpCapture>>

HpGrace ==
  /\ HpAt("grace") /\ HpGo("kill")
  /\ UNCHANGED <<hpConfig, hpLate, hpProc, hpForeign, hpWritten, hpRead, hpStop, hpCapture>>

\* Mutant: after the grace the leader is waited for.
HpKill_forgotten ==
  /\ HpAt("kill") /\ HpGo("reap")
  /\ UNCHANGED <<hpConfig, hpLate, hpProc, hpForeign, hpWritten, hpRead, hpStop, hpCapture>>

\* SIGKILL to the group, before the leader is reaped (collect_exited too).
HpKill ==
  /\ HpAt("kill")
  /\ hpProc' = [p \in DOMAIN hpProc |-> IF p \in Group THEN Killed(p) ELSE hpProc[p]]
  /\ HpGo("reap")
  /\ UNCHANGED <<hpConfig, hpLate, hpForeign, hpWritten, hpRead, hpStop, hpCapture>>

\* Child::wait, then the reader is told to stop.
HpReap ==
  /\ HpAt("reap") /\ hpProc.leader # "running"
  /\ hpProc' = [hpProc EXCEPT !.leader = "gone"]
  /\ hpStop' = TRUE /\ HpGo("join")
  /\ UNCHANGED <<hpConfig, hpLate, hpForeign, hpWritten, hpRead, hpCapture>>

HpJoin ==
  /\ HpAt("join") /\ hpCapture.pc \in {"off", "done"}
  /\ HpGo("returned")
  /\ UNCHANGED <<hpConfig, hpLate, hpProc, hpForeign, hpWritten, hpRead, hpStop, hpCapture>>

-----------------------------------------------------------------------------
(* The reading thread (drain_bounded).                                     *)

SetCapture(f) == hpCapture' = f
CaptureUnchanged == UNCHANGED <<hpConfig, hpRun, hpLate, hpProc, hpForeign, hpWritten, hpStop>>

\* Mutant: the end is kept whatever was asked for.
Retain_end(kept, new) ==
  LET all == kept \o new
      n == IF Len(all) < hpConfig.limit THEN Len(all) ELSE hpConfig.limit
  IN SubSeq(all, Len(all) - n + 1, Len(all))

\* What is kept of the output: its beginning or its end.
Retain(kept, new) ==
  LET all == kept \o new
      n == IF Len(all) < hpConfig.limit THEN Len(all) ELSE hpConfig.limit
  IN IF hpConfig.retention = "Head" THEN SubSeq(all, 1, n)
     ELSE SubSeq(all, Len(all) - n + 1, Len(all))

\* Told to stop, it reads a little longer: so many reads, and not for long.
CaptureStops ==
  /\ hpCapture.pc = "read" /\ hpStop
  /\ SetCapture([hpCapture EXCEPT !.pc = "done", !.why = "cut"])
  /\ UNCHANGED hpRead /\ CaptureUnchanged

CaptureReads ==
  /\ hpCapture.pc = "read" /\ hpRead < hpWritten
  /\ hpStop => hpCapture.reads < HpStopReads
  /\ \E n \in 1 .. HpChunk :
       LET new == [i \in 1 .. n |-> hpRead + i]
           room == hpConfig.limit - Len(hpCapture.kept)
       IN /\ hpRead + n <= hpWritten /\ hpRead' = hpRead + n
          /\ SetCapture([hpCapture EXCEPT !.kept = Retain(@, new), !.over = @ \/ n > room,
                          !.reads = IF hpStop THEN @ + 1 ELSE @])
  /\ CaptureUnchanged

\* Nothing to read: the end when nobody can write any more.
CaptureEmpty ==
  /\ hpCapture.pc = "read" /\ hpRead = hpWritten
  /\ hpStop => hpCapture.reads < HpStopReads
  /\ SetCapture(IF Writers = {} THEN [hpCapture EXCEPT !.pc = "done", !.why = "end"]
                ELSE [hpCapture EXCEPT !.pc = "blocked", !.seen = hpWritten])
  /\ UNCHANGED hpRead /\ CaptureUnchanged

\* WouldBlock: only then is the flag looked at again.
CaptureBlocked ==
  /\ hpCapture.pc = "blocked"
  /\ SetCapture(IF hpStop \/ hpCapture.terminal THEN [hpCapture EXCEPT !.pc = "done", !.why = "dry"]
                ELSE [hpCapture EXCEPT !.pc = "poll"])
  /\ UNCHANGED hpRead /\ CaptureUnchanged

\* wait_for_capture_readiness: input, nobody left to write, or 50 ms.
CapturePolls ==
  /\ hpCapture.pc = "poll"
  /\ SetCapture([hpCapture EXCEPT !.pc = "read", !.terminal = @ \/ Writers = {}])
  /\ UNCHANGED hpRead /\ CaptureUnchanged

-----------------------------------------------------------------------------
(* The helper's processes, the clock and the operating system.             *)

OutsideUnchanged == UNCHANGED <<hpConfig, hpRun, hpRead, hpStop, hpCapture>>

HpWrite ==
  /\ Writers # {} /\ hpWritten < HpBytes /\ hpWritten - hpRead < HpPipe
  /\ hpWritten' = hpWritten + 1
  /\ UNCHANGED <<hpLate, hpProc, hpForeign>> /\ OutsideUnchanged

\* A process starts another one, in its group or out of it.
HpFork(p) ==
  /\ p # "leader" /\ hpProc[p] = "none"
  /\ Running("leader") \/ (p = "escaped" /\ Running("child"))
  /\ hpProc' = [hpProc EXCEPT ![p] = "running"]
  /\ UNCHANGED <<hpLate, hpForeign, hpWritten>> /\ OutsideUnchanged

HpExit(p) ==
  /\ Running(p) /\ hpProc' = [hpProc EXCEPT ![p] = Killed(p)]
  /\ UNCHANGED <<hpLate, hpForeign, hpWritten>> /\ OutsideUnchanged

HpDeadline ==
  /\ ~hpLate /\ hpLate' = TRUE
  /\ UNCHANGED <<hpProc, hpForeign, hpWritten>> /\ OutsideUnchanged

\* The number is free once the leader is reaped and the group is empty.
HpReuse ==
  /\ ~hpForeign /\ hpProc.leader = "gone" /\ ~Running("child")
  /\ hpForeign' = TRUE
  /\ UNCHANGED <<hpLate, hpProc, hpWritten>> /\ OutsideUnchanged

-----------------------------------------------------------------------------
HpInit ==
  /\ hpConfig \in [limit : HpLimits, retention : HpRetentions]
  /\ hpRun = [pc |-> "start", outcome |-> "none"]
  /\ hpLate = FALSE /\ hpProc = HpNobody /\ hpForeign = FALSE
  /\ hpWritten = 0 /\ hpRead = 0 /\ hpStop = FALSE
  /\ hpCapture = [pc |-> "off", kept |-> <<>>, over |-> FALSE, terminal |-> FALSE,
                  reads |-> 0, seen |-> 0, why |-> "none"]

HpSupervise ==
  \/ HpNotStarted \/ HpSpawn \/ HpObserve \/ HpLook
  \/ HpTerm \/ HpGrace \/ HpKill \/ HpReap \/ HpJoin
HpCaptureStep ==
  \/ CaptureStops \/ CaptureReads \/ CaptureEmpty \/ CaptureBlocked \/ CapturePolls
HpOutside ==
  \/ HpWrite \/ HpDeadline \/ HpReuse
  \/ \E p \in DOMAIN hpProc : HpFork(p) \/ HpExit(p)
HpNext == HpSupervise \/ HpCaptureStep \/ HpOutside

HpSpec == HpInit /\ [][HpNext]_hpVars

-----------------------------------------------------------------------------
(* Properties.                                                             *)

(* A signal to the group reaches the helper's own processes only: while    *)
(* one may still be sent, the leader keeps the group's number (the comment *)
(* on signal_group).  And when the run returns nobody of the group is left.*)
Contained ==
  /\ hpRun.pc \in {"observe", "exited", "term", "grace", "kill", "reap"} =>
       ~hpForeign /\ hpProc.leader \in {"running", "zombie"}
  /\ HpAt("returned") => \A p \in Group : ~Running(p)

(* What is kept is the beginning, or the end, of what was read, nothing    *)
(* left out; too much is reported.  A reader that was not cut short has    *)
(* read everything if it saw the end, and everything that was there at its *)
(* last attempt to read if it did not (CAPTURE_STOP_DRAIN_TIMEOUT's        *)
(* comment).                                                               *)
Captured ==
  LET n == Len(hpCapture.kept)
      from == IF hpConfig.retention = "Head" THEN 0 ELSE hpRead - n
  IN /\ hpCapture.kept = [i \in 1 .. n |-> from + i]
     /\ n = IF hpRead < hpConfig.limit THEN hpRead ELSE hpConfig.limit
     /\ hpCapture.over <=> hpRead > hpConfig.limit
     /\ hpCapture.why = "end" => hpRead = hpWritten
     /\ hpCapture.why = "dry" => hpRead >= hpCapture.seen

HelpersKept == Contained /\ Captured

(* A run that was begun returns, though the helper ignores SIGTERM, hangs, *)
(* or leaves a process behind that writes for ever.                        *)
RunsReturn == []<>(HpAt("start") \/ HpAt("returned"))
=============================================================================
