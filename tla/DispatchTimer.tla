--------------------------- MODULE DispatchTimer ---------------------------
(***************************************************************************)
(* The timer test program, t.c, over the dispatch timer of                 *)
(* arch/osx/timer.c: main makes a periodic timer, sleeps, removes the      *)
(* timer and prints how often it has ticked, while a queue's thread runs   *)
(* the task tt.  Dispatch itself is external: a timer source runs its      *)
(* handler when it is due and the handler is not running, folds the        *)
(* deadlines it has missed into one run, and when it is cancelled starts   *)
(* no further run but does not wait for one that has begun.                *)
(***************************************************************************)
EXTENDS Integers

CONSTANTS
    Second,     \* units of the clock in a second
    Period      \* the timer's interval, 55ULL * NSEC_IN_MSEC

ASSUME TimerAssumption == Second \in Nat \ {0} /\ Period \in Nat \ {0}

VARIABLES
    now,        \* the system's clock, which get_ts reads
    pc,         \* where main is
    wake,       \* when main's sleep is over
    timer,      \* the source in the slot "at" that t points to; "none" when
                \* MyCreateTimer returned NULL
    due,        \* the source's next deadline
    task,       \* where tt is
    tsn, ts,    \* tt's reading of the clock and the one before
    cnt,        \* ticks counted
    shown,      \* history: the count that main prints,
    began,      \* the first reading,
    lines,      \* the intervals tt has printed
    total       \* and their sum

mainVars == <<pc, wake, timer, shown, began>>
taskVars == <<task, tsn, cnt, lines, total>>
vars == <<now, due, ts, mainVars, taskVars>>

(* The process lives: main has neither returned nor faulted. *)
Alive == pc \notin {"done", "fault"}

(* tt prints differences of tv_nsec, which starts again every second. *)
Nsec(t) == t % Second

Init ==
    /\ now \in 0 .. Second - 1
    /\ pc = "start" /\ wake = 0 /\ timer = "none" /\ due = 0
    /\ task = "idle" /\ tsn = 0 /\ ts = 0 /\ cnt = 0
    /\ shown = 0 /\ began = 0 /\ lines = 0 /\ total = 0

(* SYSTEM_CLOCK or CLOCK_REALTIME; only its difference counts. *)
get_ts == now

Pass == now' = now + 1 /\ UNCHANGED <<due, ts, mainVars, taskVars>>

-----------------------------------------------------------------------------
(* main *)

ReadStart ==
    /\ pc = "start"
    /\ ts' = get_ts /\ began' = get_ts /\ pc' = "create"
    /\ UNCHANGED <<now, due, wake, timer, shown, taskVars>>

(* The source is armed for one interval from now, or cannot be made. *)
MyCreateTimer ==
    /\ pc = "create"
    /\ \/ timer' = "armed" /\ due' = now + Period
       \/ timer' = "none" /\ UNCHANGED due
    /\ pc' = "sleep"
    /\ UNCHANGED <<now, ts, wake, shown, began, taskVars>>

FallAsleep ==
    /\ pc = "sleep"
    /\ wake' = now + Second /\ pc' = "asleep"
    /\ UNCHANGED <<now, due, ts, timer, shown, began, taskVars>>

(* Mutant: the source is released and not cancelled. *)
RemoveOnlyReleases ==
    /\ pc = "asleep" /\ now >= wake
    /\ pc' = IF timer = "none" THEN "fault" ELSE "print"
    /\ UNCHANGED <<now, due, ts, wake, timer, shown, began, taskVars>>

(* A handle that is NULL is dereferenced as well. *)
RemoveDispatchSource ==
    /\ pc = "asleep" /\ now >= wake
    /\ IF timer = "none"
       THEN pc' = "fault" /\ UNCHANGED timer
       ELSE pc' = "print" /\ timer' = "cancelled"
    /\ UNCHANGED <<now, due, ts, wake, shown, began, taskVars>>

PrintCount ==
    /\ pc = "print"
    /\ shown' = cnt /\ pc' = "exit"
    /\ UNCHANGED <<now, due, ts, wake, timer, began, taskVars>>

Return ==
    /\ pc = "exit" /\ pc' = "done"
    /\ UNCHANGED <<now, due, ts, wake, timer, shown, began, taskVars>>

-----------------------------------------------------------------------------
(* The queue's thread *)

(* A run of the handler; the next deadline is the first one to come. *)
Fire ==
    /\ Alive /\ timer = "armed" /\ task = "idle" /\ now >= due
    /\ task' = "read"
    /\ due' = now + Period - ((now - due) % Period)
    /\ UNCHANGED <<now, ts, mainVars, tsn, cnt, lines, total>>

(* Mutant: memcpy before printf. *)
ReadClockCopies ==
    /\ Alive /\ task = "read"
    /\ tsn' = get_ts /\ ts' = get_ts /\ task' = "print"
    /\ UNCHANGED <<now, due, mainVars, cnt, lines, total>>

ReadClock ==
    /\ Alive /\ task = "read"
    /\ tsn' = get_ts /\ task' = "print"
    /\ UNCHANGED <<now, due, ts, mainVars, cnt, lines, total>>

PrintInterval ==
    /\ Alive /\ task = "print"
    /\ total' = total + Nsec(tsn) - Nsec(ts) /\ lines' = lines + 1
    /\ task' = "copy"
    /\ UNCHANGED <<now, due, ts, mainVars, tsn, cnt>>

CopyStamp ==
    /\ Alive /\ task = "copy"
    /\ ts' = tsn /\ task' = "count"
    /\ UNCHANGED <<now, due, mainVars, tsn, cnt, lines, total>>

Count ==
    /\ Alive /\ task = "count"
    /\ cnt' = cnt + 1 /\ task' = "idle"
    /\ UNCHANGED <<now, due, ts, mainVars, tsn, lines, total>>

Next ==
    \/ Pass
    \/ ReadStart \/ MyCreateTimer \/ FallAsleep \/ RemoveDispatchSource
    \/ PrintCount \/ Return
    \/ Fire \/ ReadClock \/ PrintInterval \/ CopyStamp \/ Count

Spec == Init /\ [][Next]_vars

-----------------------------------------------------------------------------
(* Every variable has its type. *)
TypeOK ==
    /\ now \in Nat /\ wake \in Nat /\ due \in Nat
    /\ pc \in {"start", "create", "sleep", "asleep", "print", "exit", "done",
               "fault"}
    /\ timer \in {"none", "armed", "cancelled"}
    /\ task \in {"idle", "read", "print", "copy", "count"}
    /\ tsn \in Nat /\ ts \in Nat /\ began \in Nat
    /\ cnt \in Nat /\ shown \in Nat /\ lines \in Nat /\ total \in Int

(* The intervals that tt prints, positive or negative, add up to the way   *)
(* the clock's fraction of a second has gone from main's first reading to  *)
(* tt's last one, and each of them is counted once: no tick reads a stamp  *)
(* that another one is about to replace, though nothing in t.c locks it.   *)
TickBooks ==
    /\ total = Nsec(IF task = "copy" THEN tsn ELSE ts) - Nsec(began)
    /\ lines = IF task \in {"copy", "count"} THEN cnt + 1 ELSE cnt

(* What main prints after it has removed the timer, with tt perhaps still  *)
(* running, misses at most one tick that was or is printed, and is never   *)
(* more than the periods that have passed, however late the queue ran.     *)
CountPrinted ==
    pc \in {"exit", "done"} =>
        /\ lines - 1 <= shown /\ shown <= lines
        /\ Period * shown <= now - began

=============================================================================
