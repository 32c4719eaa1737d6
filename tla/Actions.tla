-------------------------------- MODULE Actions --------------------------------
(***************************************************************************)
(* One registered action (controllers/actions) and the terminal the page   *)
(* shows of it.  An action is run by requests and by the tickers of its    *)
(* schedules; it either runs a function, and its caller waits, or starts a *)
(* command, whose end is recorded by a goroutine of its own.               *)
(*                                                                         *)
(* Bytes of output are numbered from 1 in each run of the command.         *)
(* Results, times and the log are left out.                                *)
(***************************************************************************)
EXTENDS Naturals, FiniteSets, Sequences, Functions

CONSTANTS
  Admins,        \* requests that run the action
  Polls,         \* requests for output that may be under way at once
  MaxBuffer,     \* bytes of output that are kept
  MaxSchedules,  \* bound: schedules ever set
  MaxRuns,       \* bound: runs of the command
  MaxOutput      \* bound: bytes of output of a run

Tickers == 1..MaxSchedules
NoTicker == 0
Callers == Admins \cup Tickers

ASSUME ActionsAssumption ==
  /\ MaxBuffer \in Nat \ {0} /\ MaxSchedules \in Nat /\ MaxRuns \in Nat /\ MaxOutput \in Nat
  /\ Admins \cap Tickers = {}

VARIABLES
  interactive, \* whether the action is a command
  running,
  stop,        \* the ticker of the schedule; NoTicker when there is none
  tickers,     \* goroutines of schedules that have not returned
  schedules,   \* schedules set so far
  caller,      \* what each caller is at: "idle", "run" or "start"
  process,     \* the last run of the command: [run, at, base, out]
  terminal,    \* what the page holds: [run, next, text]
  poll         \* each request for output: <<the offset it asks from>>, or NoPoll

actionsVars ==
  <<interactive, running, stop, tickers, schedules, caller, process, terminal, poll>>
schedule == <<stop, tickers, schedules>>
page == <<terminal, poll>>

NoPoll == <<>>
NoProcess == [run |-> 0, at |-> "over", base |-> 0, out |-> 0]
Opened(run) == [run |-> run, next |-> 0, text |-> <<>>]

ActionsInit ==
  /\ interactive \in BOOLEAN
  /\ running = FALSE
  /\ stop = NoTicker /\ tickers = {} /\ schedules = 0
  /\ caller = [c \in Callers |-> "idle"]
  /\ process = NoProcess
  /\ terminal = Opened(0) /\ poll = [p \in Polls |-> NoPoll]

-----------------------------------------------------------------------------
(* RunNow; a second run is refused and changes nothing.                     *)
RunNow(c) ==
  /\ caller[c] = "idle" /\ ~running
  /\ process.run < MaxRuns
  /\ running' = TRUE
  /\ caller' = [caller EXCEPT ![c] = IF interactive THEN "start" ELSE "run"]
  /\ UNCHANGED <<interactive, schedule, process, page>>

(* Run returns, and record.                                                 *)
Return(c) ==
  /\ caller[c] = "run"
  /\ running' = FALSE
  /\ caller' = [caller EXCEPT ![c] = "idle"]
  /\ UNCHANGED <<interactive, schedule, process, page>>

(* startProcess.  Mutant: the run is recorded when the command has started. *)
StartedIsOver(c) ==
  /\ caller[c] = "start"
  /\ process' = [run |-> process.run + 1, at |-> "up", base |-> 0, out |-> 0]
  /\ running' = FALSE
  /\ caller' = [caller EXCEPT ![c] = "idle"]
  /\ UNCHANGED <<interactive, schedule, page>>

Started(c) ==
  /\ caller[c] = "start"
  /\ process' = [run |-> process.run + 1, at |-> "up", base |-> 0, out |-> 0]
  /\ caller' = [caller EXCEPT ![c] = "idle"]
  /\ UNCHANGED <<interactive, running, schedule, page>>

StartFails(c) ==
  /\ caller[c] = "start"
  /\ running' = FALSE
  /\ caller' = [caller EXCEPT ![c] = "idle"]
  /\ UNCHANGED <<interactive, schedule, process, page>>

(* A Run that panics.  The server recovers a request and goes on; a ticker  *)
(* has nothing that recovers it, and the server ends with it.               *)
Panic(c) ==
  /\ caller[c] = "run" /\ c \in Admins
  /\ caller' = [caller EXCEPT ![c] = "idle"]
  /\ UNCHANGED <<interactive, running, schedule, process, page>>

-----------------------------------------------------------------------------
(* SetSchedule closes the channel of the ticker before; a ticker that finds *)
(* both its tick and its channel ready takes either.                        *)
SetSchedule(on) ==
  /\ schedules < MaxSchedules
  /\ schedules' = schedules + 1
  /\ stop' = IF on THEN schedules + 1 ELSE NoTicker
  /\ tickers' = tickers \cup (IF on THEN {schedules + 1} ELSE {})
  /\ UNCHANGED <<interactive, running, caller, process, page>>

Tick(t) == t \in tickers /\ RunNow(t)

Quit(t) ==
  /\ t \in tickers /\ t # stop /\ caller[t] = "idle"
  /\ tickers' = tickers \ {t}
  /\ UNCHANGED <<interactive, running, stop, schedules, caller, process, page>>

-----------------------------------------------------------------------------
(* process.append: what is past the buffer goes from its front.             *)
Base ==
  IF process.out + 1 - process.base > MaxBuffer THEN process.out + 1 - MaxBuffer ELSE process.base

Emit ==
  /\ process.at = "up" /\ process.out < MaxOutput
  /\ process' = [process EXCEPT !.out = @ + 1, !.base = Base]
  /\ UNCHANGED <<interactive, running, schedule, caller, page>>

(* The command exits, by itself or by Stop: done is set first, the run      *)
(* recorded later.                                                          *)
Exit ==
  /\ process.at = "up"
  /\ process' = [process EXCEPT !.at = "done"]
  /\ UNCHANGED <<interactive, running, schedule, caller, page>>

Record ==
  /\ process.at = "done"
  /\ process' = [process EXCEPT !.at = "over"]
  /\ running' = FALSE
  /\ UNCHANGED <<interactive, schedule, caller, page>>

-----------------------------------------------------------------------------
(* The terminal of the page.  It polls every 0.8 s and after every input,   *)
(* without waiting for the answer to the poll before.  Opening it, as the   *)
(* page does when it has run the action, drops what it was waiting for.     *)
Ask(p) ==
  /\ poll[p] = NoPoll
  /\ poll' = [poll EXCEPT ![p] = <<terminal.next>>]
  /\ UNCHANGED <<interactive, running, schedule, caller, process, terminal>>

(* Output: where the text asked for starts in the buffer, and the text.     *)
Length == process.out - process.base

\* Mutant: the offset is taken as an index into the buffer.
StartAtOffset(from) == IF from > Length THEN Length ELSE from

Start(from) ==
  LET start == IF from < process.base THEN 0 ELSE from - process.base
  IN  IF start > Length THEN Length ELSE start
Text(from) == [i \in 1..Length - Start(from) |-> process.base + Start(from) + i]

Answer(p) ==
  /\ poll[p] # NoPoll
  /\ terminal' = [terminal EXCEPT !.text = @ \o Text(poll[p][1]), !.next = process.out]
  /\ poll' = [poll EXCEPT ![p] = NoPoll]
  /\ UNCHANGED <<interactive, running, schedule, caller, process>>

Open ==
  /\ terminal' = Opened(process.run)
  /\ poll' = [p \in Polls |-> NoPoll]
  /\ UNCHANGED <<interactive, running, schedule, caller, process>>

-----------------------------------------------------------------------------
Running == \E c \in Callers : Return(c) \/ Started(c) \/ StartFails(c)
Scheduling ==
  \/ \E on \in BOOLEAN : SetSchedule(on)
  \/ \E t \in Tickers : Tick(t) \/ Quit(t)
Commanding == Emit \/ Exit \/ Record
Watching == interactive /\ (Open \/ \E p \in Polls : Ask(p) \/ Answer(p))

ActionsNext ==
  \/ Running \/ Scheduling \/ Commanding \/ Watching
  \/ \E c \in Admins : RunNow(c) \/ Panic(c)

ActionsSpec == ActionsInit /\ [][ActionsNext]_actionsVars

-----------------------------------------------------------------------------
(* Properties.                                                             *)

UnderWay ==
  Cardinality({c \in Callers : caller[c] # "idle"}) + (IF process.at # "over" THEN 1 ELSE 0)

(* Whatever is asked for by pages and by the tickers of this schedule and   *)
(* of earlier ones, the action is run once at a time (RunNow, record).      *)
RunsApart == UnderWay <= 1

(* An action that is marked as running is being run: were it not, nothing   *)
(* would ever clear the mark (record).                                      *)
MarkIsTrue == running <=> UnderWay = 1

(* What a terminal shows are bytes of its run in their order, each once, up *)
(* to where it will ask next; one it misses was dropped (append, Output).   *)
TerminalTrue ==
  terminal.run = process.run =>
  /\ \A i, j \in DOMAIN terminal.text : i < j => terminal.text[i] < terminal.text[j]
  /\ \A b \in 1..terminal.next : b \in Range(terminal.text) \/ b <= process.base
================================================================================
