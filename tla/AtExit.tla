------------------------------- MODULE AtExit -------------------------------
(***************************************************************************)
(* The end of the process: lib/atexit.c and the flush of all streams that  *)
(* stdio registers there.                                                  *)
(*                                                                         *)
(* A stream is known here by whether it is open and holds unwritten        *)
(* output.  A handler may do what the program may do: use streams,         *)
(* register handlers.                                                      *)
(***************************************************************************)
EXTENDS Naturals, Sequences, SequencesExt

CONSTANTS Handler,     \* the program's handlers
          File,        \* streams from fopen
          NUM_ATEXIT

ASSUME AtExitAssumption == NUM_ATEXIT \in Nat \ {0}

VARIABLES list,      \* __atexitlist up to atexit_counter
          registered,   \* __stdio_atexit
          root,      \* the open streams: the list __stdio_root
          pending,   \* the streams with unwritten output
          i,         \* i of exit
          stage,     \* "main", "exit", "handler", "done"
          ran,       \* the handlers that were called
          late       \* streams written to when no flush was to come any more

avars == <<list, registered, root, pending, i, stage, ran, late>>

Flush  == "__stdio_flushall"
Stdout == "stdout"

AInit ==
  /\ list = <<>> /\ registered = FALSE /\ root = {} /\ pending = {}
  /\ i = 0 /\ stage = "main" /\ ran = <<>> /\ late = {}

Running == stage \in {"main", "handler"}

(* atexit, which __fflush4 and __stdio_init_file do not ask for a result *)
atexit(l, h) == IF Len(l) < NUM_ATEXIT THEN Append(l, h) ELSE l

Register ==
  /\ registered' = TRUE
  /\ list' = IF registered THEN list ELSE atexit(list, Flush)

(* The flush is still to be called. *)
FlushAhead == \E k \in 1 .. (IF stage = "main" THEN Len(list') ELSE i) : list'[k] = Flush

AtExitCall(h) ==
  /\ Running
  /\ list' = atexit(list, h)
  /\ UNCHANGED <<registered, root, pending, i, stage, ran, late>>

Fopen(s) ==
  /\ Running /\ s \notin root
  /\ Register
  /\ root' = root \cup {s}
  /\ UNCHANGED <<pending, i, stage, ran, late>>

(* fputc or fwrite into the buffer *)
Fput(s) ==
  /\ Running /\ s \in root \cup {Stdout}
  /\ Register
  /\ pending' = pending \cup {s}
  /\ late' = IF FlushAhead THEN late ELSE late \cup {s}
  /\ UNCHANGED <<root, i, stage, ran>>

Fclose(s) ==
  /\ Running /\ s \in root
  /\ root' = root \ {s} /\ pending' = pending \ {s} /\ late' = late \ {s}
  /\ UNCHANGED <<list, registered, i, stage, ran>>

(* exit: the counter is read once. *)
Exit ==
  /\ stage = "main"
  /\ i' = Len(list) /\ stage' = "exit"
  /\ UNCHANGED <<list, registered, root, pending, ran, late>>

(* Mutant: fflush(0) forgets the streams of the list. *)
CallStdout ==
  /\ stage = "exit" /\ i > 0
  /\ i' = i - 1
  /\ ran' = Append(ran, list[i])
  /\ \/ list[i] = Flush /\ pending' = pending \ {Stdout} /\ UNCHANGED stage
     \/ list[i] # Flush /\ stage' = "handler" /\ UNCHANGED pending
  /\ UNCHANGED <<list, registered, root, late>>

(* Mutant: the handlers are called in the order of their registration. *)
CallFifo ==
  /\ stage = "exit" /\ i > 0
  /\ i' = i - 1
  /\ ran' = Append(ran, list[Len(list) + 1 - i])
  /\ \/ ran'[Len(ran')] = Flush /\ pending' = {} /\ UNCHANGED stage
     \/ ran'[Len(ran')] # Flush /\ stage' = "handler" /\ UNCHANGED pending
  /\ UNCHANGED <<list, registered, root, late>>

(* __atexitlist[--i]().  fflush(0) flushes stdout and the list. *)
Call ==
  /\ stage = "exit" /\ i > 0
  /\ i' = i - 1
  /\ ran' = Append(ran, list[i])
  /\ \/ list[i] = Flush /\ pending' = pending \ (root \cup {Stdout}) /\ UNCHANGED stage
     \/ list[i] # Flush /\ stage' = "handler" /\ UNCHANGED pending
  /\ UNCHANGED <<list, registered, root, late>>

HandlerReturns ==
  /\ stage = "handler" /\ stage' = "exit"
  /\ UNCHANGED <<list, registered, root, pending, i, ran, late>>

UnderscoreExit ==
  /\ stage = "exit" /\ i = 0 /\ stage' = "done"
  /\ UNCHANGED <<list, registered, root, pending, i, ran, late>>

ANext ==
  \/ \E h \in Handler : AtExitCall(h)
  \/ \E s \in File : Fopen(s) \/ Fclose(s)
  \/ \E s \in File \cup {Stdout} : Fput(s)
  \/ Exit \/ Call \/ HandlerReturns \/ UnderscoreExit

ASpec == AInit /\ [][ANext]_avars

-----------------------------------------------------------------------------
(* Output is lost at exit only if it was written when the flush of stdio   *)
(* was behind: by a handler registered before the first use of stdio, or   *)
(* when the table of handlers was full at that first use.                  *)
FlushedAtExit == stage = "done" => pending \subseteq late

(* The handlers are called in the reverse order of registration, each      *)
(* once, those registered while exit is under way not at all.              *)
CalledInReverse ==
  stage # "main" => \E n \in 0 .. Len(list) : ran = Reverse(SubSeq(list, i + 1, n)) /\ i <= n

(* exit calls the handlers as registered and loses no output but what came *)
(* too late.                                                               *)
ExitOrderly == FlushedAtExit /\ CalledInReverse
=============================================================================
