---------------------------- MODULE SnifferProcess ----------------------------
(***************************************************************************)
(* The life of a sniffer application, from its command line to its exit    *)
(* (cli.py, and main of the applications): the FIFO is made sure of, the   *)
(* setup of SnifferSetup is done, the output is opened, and the flow graph *)
(* runs until Enter is pressed or a signal arrives.                        *)
(*                                                                         *)
(* The environment is the user, who presses Enter or closes the standard   *)
(* input and sends signals, the reader of the FIFO, who opens it and may   *)
(* stop reading at any time, and another sniffer that makes the same FIFO. *)
(* Python runs a signal handler between two steps of the program, also of  *)
(* another handler.                                                        *)
(*                                                                         *)
(* Definitions named Op_fault are seeded faults of Op, used by no action.  *)
(***************************************************************************)
EXTENDS SnifferSetup

CONSTANT MaxSignals   \* bound: number of signals sent

ASSUME SignalBound == MaxSignals \in Nat

VARIABLES
  path,      \* what is at the output path: "none", "fifo" or "file"
  graph,     \* the flow graph: "idle", "running", "stopping", "stopped"
  sink,      \* the file sink's thread: "idle", "writing", "blocked" in a full FIFO
  handler,   \* what handle_signal does next, "none" when it is not running
  signals,   \* history: number of signals that have arrived
  quit       \* history: the prompt was answered

processVars == <<path, graph, sink, handler, signals, quit>>
vars == <<command, stage, status, setupVars, processVars>>

Init ==
  /\ command \in CommandLines
  /\ stage = "checking" /\ status = "none"
  /\ InitSetup
  /\ path \in {"none", "fifo", "file"}
  /\ graph = "idle"
  /\ sink = "idle"
  /\ handler = "none"
  /\ signals = 0
  /\ quit = FALSE

Goto(from, to) == stage = from /\ stage' = to /\ UNCHANGED status

-----------------------------------------------------------------------------
(* ensure_fifo: the check and mkfifo are two calls                          *)

CheckPath_exists ==
  /\ stage = "checking"
  /\ stage' = IF path = "none" THEN "creating" ELSE "configuring"
  /\ UNCHANGED <<command, status, setupVars, processVars>>
CheckPath ==
  /\ stage = "checking"
  /\ CASE path = "file" -> End("rejected")
       [] path = "fifo" -> stage' = "configuring" /\ UNCHANGED status
       [] path = "none" -> stage' = "creating" /\ UNCHANGED status
  /\ UNCHANGED <<command, setupVars, processVars>>

\* mkfifo raises FileExistsError if there is something by now.
MakeFifo ==
  /\ stage = "creating"
  /\ IF path = "none" THEN path' = "fifo" /\ stage' = "configuring" /\ UNCHANGED status
     ELSE End("exists") /\ UNCHANGED path
  /\ UNCHANGED <<command, setupVars, graph, sink, handler, signals, quit>>

OtherMakesFifo ==
  /\ path = "none"
  /\ path' = "fifo"
  /\ UNCHANGED <<command, stage, status, setupVars, graph, sink, handler, signals, quit>>

-----------------------------------------------------------------------------
(* The flow graph                                                           *)

\* The file sink is opened when it is made, which blocks until there is a
\* reader: in front of the receivers of several modes, else behind them.
OpenOutput ==
  /\ Goto("opening", IF command.app = "modes" THEN "building" ELSE "connected")
  /\ UNCHANGED <<command, setupVars, processVars>>

InstallHandlers ==
  /\ Goto("connected", "handling")
  /\ UNCHANGED <<command, setupVars, processVars>>

Start ==
  /\ Goto("handling", "started")
  /\ graph' = "running"
  /\ UNCHANGED <<command, setupVars, path, sink, handler, signals, quit>>

\* after_start writes the flow graph to a file, which may fail.
AfterStart ==
  /\ stage = "started"
  /\ \/ stage' = "prompting" /\ UNCHANGED status
     \/ command.dump /\ End("crashed")
  /\ UNCHANGED <<command, setupVars, processVars>>

Stop == graph' = IF graph = "running" THEN "stopping" ELSE graph

\* wait returns when the threads have ended, the file sink's behind its write.
Wait ==
  /\ graph # "running" /\ sink = "idle"
  /\ graph' = IF graph = "stopping" THEN "stopped" ELSE graph

\* Enter, or the end of the standard input.
Answer ==
  /\ handler = "none"
  /\ Goto("prompting", "stopping")
  /\ quit' = TRUE
  /\ UNCHANGED <<command, setupVars, path, graph, sink, handler, signals>>

StopGraph ==
  /\ Goto("stopping", "waiting")
  /\ Stop
  /\ UNCHANGED <<command, setupVars, path, sink, handler, signals, quit>>

WaitForGraph ==
  /\ stage = "waiting"
  /\ Wait
  /\ End("ok")
  /\ UNCHANGED <<command, setupVars, path, sink, handler, signals, quit>>

-----------------------------------------------------------------------------
(* Signals                                                                  *)

HandlersInstalled == stage \in {"handling", "started", "prompting", "stopping", "waiting"}

Signal ==
  /\ stage # "ended"
  /\ signals < MaxSignals
  /\ signals' = signals + 1
  /\ IF HandlersInstalled
     THEN handler' = "stopping" /\ UNCHANGED <<stage, status>>
     ELSE End("killed") /\ UNCHANGED handler
  /\ UNCHANGED <<command, setupVars, path, graph, sink, quit>>

HandlerStop_exit ==
  /\ handler = "stopping"
  /\ Stop
  /\ handler' = "none"
  /\ End("ok")
  /\ UNCHANGED <<command, setupVars, path, sink, signals, quit>>
HandlerStop ==
  /\ handler = "stopping"
  /\ Stop
  /\ handler' = "waiting"
  /\ UNCHANGED <<command, stage, status, setupVars, path, sink, signals, quit>>

HandlerWait_return ==
  /\ handler = "waiting"
  /\ Wait
  /\ handler' = "none"
  /\ UNCHANGED <<command, stage, status, setupVars, path, sink, signals, quit>>
HandlerWait ==
  /\ handler = "waiting"
  /\ Wait
  /\ handler' = "none"
  /\ End("ok")
  /\ UNCHANGED <<command, setupVars, path, sink, signals, quit>>

-----------------------------------------------------------------------------
(* The file sink writes packets into the FIFO, in a thread of the flow graph *)

Turn(from, to) ==
  /\ stage # "ended"
  /\ sink = from /\ sink' = to
  /\ UNCHANGED <<command, stage, status, setupVars, path, graph, handler, signals, quit>>

Write == graph = "running" /\ Turn("idle", "writing")
Written == Turn("writing", "idle")

\* The reader is behind and the FIFO full: neither stop nor a signal gets the
\* thread out of the write, only the reader, who reads on or closes the FIFO.
Fill == Turn("writing", "blocked")
Drain == Turn("blocked", "idle")

-----------------------------------------------------------------------------
\* What main does next, the opening of the output excepted, which waits for a
\* reader.
Main ==
  \/ CheckPath \/ MakeFifo
  \/ Setup /\ UNCHANGED processVars
  \/ InstallHandlers \/ Start \/ AfterStart \/ StopGraph \/ WaitForGraph

Program == (handler = "none" /\ Main) \/ HandlerStop \/ HandlerWait

FileSink == Written \/ Fill

Next ==
  \/ Program \/ Write \/ FileSink
  \/ OpenOutput \/ Drain \/ OtherMakesFifo \/ Answer \/ Signal

Spec == Init /\ [][Next]_vars

\* The program and the file sink's thread are scheduled: a write ends, or finds the
\* FIFO full.  Nothing makes the user press Enter or send a signal, or anybody open
\* the FIFO or go on reading it, so wait may wait forever.
FairSpec == Spec /\ WF_vars(Program) /\ WF_vars(FileSink)

-----------------------------------------------------------------------------
(* Properties                                                               *)

\* Types of the variables.
TypeOK ==
  /\ SetupTypeOK
  /\ stage \in {"checking", "creating", "configuring", "tuning", "building",
                "opening", "connected", "handling", "started", "prompting",
                "stopping", "waiting", "ended"}
  /\ status \in {"none", "ok", "rejected", "exists", "crashed", "killed"}
  /\ path \in {"none", "fifo", "file"}
  /\ graph \in {"idle", "running", "stopping", "stopped"}
  /\ sink \in {"idle", "writing", "blocked"}
  /\ handler \in {"none", "stopping", "waiting"}
  /\ signals \in 0 .. MaxSignals
  /\ quit \in BOOLEAN

\* What the output is opened as is a FIFO: no packets go to a regular file,
\* whoever else makes the FIFO between the check and mkfifo, and the sniffer that
\* loses this race has done nothing yet (cli.py:135-146).
OutputIsFifo ==
  (stage \notin {"checking", "creating"} /\ status \notin {"rejected", "killed"})
    => path = "fifo"

\* A sniffer that exits without an error has stopped its flow graph and waited
\* for it, whatever signals arrived while it was doing so (cli.py:185-205).
CleanExit == status = "ok" => graph \in {"idle", "stopped"}

\* A signal ends the sniffer at every stage, and so does an answer to the prompt
\* (cli.py:191-205), also while it waits for somebody to open the FIFO.  One thing
\* can keep it from ending: wait (cli.py:193, 205) waits for the file sink, which is
\* stuck in its write as long as whoever opened the FIFO leaves it full.
ReadOn == []<>(sink # "blocked")
Ends == ReadOn => ((signals > 0 \/ quit) ~> stage = "ended")
=============================================================================
