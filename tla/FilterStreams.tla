----------------------------- MODULE FilterStreams -----------------------------
(***************************************************************************)
(* One video stream of the OpenCV page (pages/opencv): the request that    *)
(* starts it, the goroutine that takes its frames through a filter, the    *)
(* requests that change the filter, and the two ffmpeg processes around    *)
(* them.  The page never names a stream, so every start makes its own.     *)
(*                                                                         *)
(* What a filter does to a frame, the encoders and the negotiation are     *)
(* left out.                                                               *)
(***************************************************************************)
EXTENDS Naturals, Sequences, FiniteSets

CONSTANTS
  Switchers,   \* requests that change the filter
  MaxFilters,  \* bound: filters ever made
  MaxFrames    \* bound: frames of the stream

ASSUME StreamsAssumption == MaxFilters \in Nat \ {0} /\ MaxFrames \in Nat

VARIABLES
  start,      \* what the request that starts the stream is at
  registered, \* whether the stream is in Manager.streams
  conn,       \* its peer connection: "none", "open" or "closed"
  ffmpeg,     \* its two processes: "none", "up", "over" or "killed"
  filters,    \* how often every filter that was made has been closed
  active,     \* the session's filter
  switcher,   \* what every request that changes the filter is at
  worker,     \* "none", "wait", "filter", "write", "clean" or "gone"
  using,      \* the filter the worker has put its frame through
  slot,       \* frameChan: whether a frame waits
  given       \* frames ffmpeg has given so far

streamVars ==
  <<start, registered, conn, ffmpeg, filters, active, switcher, worker, using, slot, given>>
frames == <<worker, using, slot, given>>

StreamInit ==
  /\ start = "idle" /\ registered = FALSE /\ conn = "none" /\ ffmpeg = "none"
  /\ filters = <<>> /\ active = 0
  /\ switcher = [s \in Switchers |-> "idle"]
  /\ worker = "none" /\ using = 0 /\ slot = FALSE /\ given = 0

-----------------------------------------------------------------------------
(* Start: both processes, or none.                                          *)
Launch ==
  /\ start = "idle"
  /\ \/ start' = "setup" /\ ffmpeg' = "up"
     \/ start' = "failed" /\ ffmpeg' \in {"none", "killed"}
  /\ UNCHANGED <<registered, conn, filters, active, switcher, frames>>

(* createWebRTCConn up to Register, and the rest of it.  A set-up that      *)
(* fails leaves the stream registered.                                      *)
Register ==
  /\ start = "setup" /\ start' = "registered"
  /\ conn' = "open" /\ registered' = TRUE
  /\ filters' = <<0>> /\ active' = 1
  /\ UNCHANGED <<ffmpeg, switcher, frames>>

SetupFails ==
  /\ \/ start = "setup" /\ conn' = conn
     \/ start = "registered" /\ conn' = "closed"
  /\ start' = "failed" /\ ffmpeg' = "killed"
  /\ UNCHANGED <<registered, filters, active, switcher, frames>>

Run ==
  /\ start = "registered" /\ start' = "running"
  /\ worker' = "wait"
  /\ UNCHANGED <<registered, conn, ffmpeg, filters, active, switcher, using, slot, given>>

-----------------------------------------------------------------------------
(* The reader: a frame that finds another waiting is dropped.               *)
Give ==
  /\ worker \in {"wait", "filter", "write"} /\ ffmpeg = "up" /\ given < MaxFrames
  /\ given' = given + 1 /\ slot' = TRUE
  /\ UNCHANGED <<start, registered, conn, ffmpeg, filters, active, switcher, worker, using>>

Take ==
  /\ worker = "wait" /\ slot
  /\ slot' = FALSE /\ worker' = "filter" /\ using' = active
  /\ UNCHANGED <<start, registered, conn, ffmpeg, filters, active, switcher, given>>

(* The filter is done with, under the session's lock for reading.           *)
Filtered ==
  /\ worker = "filter" /\ worker' = "write" /\ using' = 0
  /\ UNCHANGED <<start, registered, conn, ffmpeg, filters, active, switcher, slot, given>>

Written ==
  /\ worker = "write" /\ ffmpeg \in {"up", "over"} /\ worker' = "wait"
  /\ UNCHANGED <<start, registered, conn, ffmpeg, filters, active, switcher, using, slot, given>>

(* One of the processes ends: no more frames come, or none can be written.  *)
(* A peer that leaves does not end them.                                    *)
ProcessEnds ==
  /\ start = "running" /\ ffmpeg = "up" /\ ffmpeg' = "over"
  /\ UNCHANGED <<start, registered, conn, filters, active, switcher, frames>>

Finish ==
  /\ ffmpeg = "over"
  /\ worker = "write" \/ (worker = "wait" /\ ~slot)
  /\ worker' = "clean" /\ ffmpeg' = "killed"
  /\ UNCHANGED <<start, registered, conn, filters, active, switcher, using, slot, given>>

(* Manager.Remove.  Mutant: the filter is left to whoever changes it next.  *)
RemoveKeepsFilter ==
  /\ worker = "clean" /\ worker' = "gone"
  /\ conn' = "closed" /\ registered' = FALSE
  /\ UNCHANGED <<start, ffmpeg, filters, active, switcher, using, slot, given>>

RemoveStream ==
  /\ worker = "clean" /\ worker' = "gone"
  /\ filters' = [filters EXCEPT ![active] = @ + 1]
  /\ conn' = "closed" /\ registered' = FALSE
  /\ UNCHANGED <<start, ffmpeg, active, switcher, using, slot, given>>

-----------------------------------------------------------------------------
(* UpdateFilter: the stream is looked up under the manager's lock; the      *)
(* change is made under the session's, which a frame in the filter holds.   *)
Find(s) ==
  /\ switcher[s] = "idle" /\ registered
  /\ switcher' = [switcher EXCEPT ![s] = "found"]
  /\ UNCHANGED <<start, registered, conn, ffmpeg, filters, active, frames>>

SwitchAnyTime(s) ==
  /\ switcher[s] = "found" /\ Len(filters) < MaxFilters
  /\ filters' = Append([filters EXCEPT ![active] = @ + 1], 0)
  /\ active' = Len(filters) + 1
  /\ switcher' = [switcher EXCEPT ![s] = "idle"]
  /\ UNCHANGED <<start, registered, conn, ffmpeg, frames>>

Switch(s) ==
  /\ switcher[s] = "found" /\ Len(filters) < MaxFilters
  /\ worker # "filter"
  /\ filters' = Append([filters EXCEPT ![active] = @ + 1], 0)
  /\ active' = Len(filters) + 1
  /\ switcher' = [switcher EXCEPT ![s] = "idle"]
  /\ UNCHANGED <<start, registered, conn, ffmpeg, frames>>

-----------------------------------------------------------------------------
Streaming == Run \/ Give \/ Take \/ Filtered \/ Written \/ ProcessEnds \/ Finish \/ RemoveStream
StreamNext ==
  \/ Launch \/ Register \/ SetupFails \/ Streaming
  \/ \E s \in Switchers : Find(s) \/ Switch(s)

StreamSpec == StreamInit /\ [][StreamNext]_streamVars

-----------------------------------------------------------------------------
(* Properties.                                                             *)

OpenFilters == {f \in DOMAIN filters : filters[f] = 0}

(* No frame is in a filter that is closed, whoever changes it when (the     *)
(* session's lock in startGoCVProcessing and UpdateFilter).                 *)
NoClosedFilter == worker = "filter" => filters[using] = 0

(* A stream that has ended keeps nothing: neither process nor connection,   *)
(* and, but for a change that found it before it was removed, no filter,    *)
(* each having been closed once (Remove).                                   *)
NothingKept ==
  worker = "gone" => /\ ffmpeg = "killed" /\ conn = "closed" /\ ~registered
                     /\ OpenFilters = {} /\ \A f \in DOMAIN filters : filters[f] = 1
================================================================================
