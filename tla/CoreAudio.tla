----------------------------- MODULE CoreAudio -----------------------------
(***************************************************************************)
(* The Core Audio player: main of core_audio.c reads a file, starts an     *)
(* audio unit through audio.c, sleeps, stops it and frees the file's       *)
(* memory, while the unit's thread asks the render callback cb for sound.  *)
(* None of main's calls is looked at for its result.  The unit is          *)
(* external: any call to it may fail, a call on an instance that was never *)
(* made fails, a stop that succeeds waits for the callback that is         *)
(* running, and the unit reads what it was handed until it asks again.     *)
(***************************************************************************)
EXTENDS Integers

CONSTANTS
    Sizes,      \* sizes a file may have
    Bursts,     \* bytes the unit may ask for in one of its buffers
    Buffers     \* the most buffers of one call

ASSUME AudioAssumption ==
    Sizes \subseteq Nat /\ Bursts \subseteq Nat \ {0} /\ Buffers \in Nat \ {0}

VARIABLES
    pc,         \* where main is
    len, pos,   \* the file's size and the read position
    buf,        \* the file's memory
    unit,       \* how far the output instance has been set up
    running,    \* the unit is started
    cb, i, num, \* where cb is, its loop's counter, the buffers of this call
    held,       \* history: the pieces of buf the unit holds, from and up to,
    burst,      \* the bytes of the last call that handed out any,
    broken      \* and malloc, or the stop, has failed

fileVars == <<len, buf>>
unitVars == <<unit, running>>
callVars == <<cb, i, num, burst>>
vars == <<pc, pos, held, broken, fileVars, unitVars, callVars>>

Init ==
    /\ pc = "open" /\ len = 0 /\ pos = 0 /\ buf = "null"
    /\ unit = "none" /\ running = FALSE
    /\ cb = "idle" /\ i = 0 /\ num = 0 /\ burst = 0
    /\ held = {} /\ broken = FALSE

-----------------------------------------------------------------------------
(* main *)

(* Of a file that cannot be opened lseek makes the length -1, for which    *)
(* malloc has no memory.                                                   *)
OpenFails ==
    /\ pc = "open"
    /\ len' = -1 /\ pc' = "init"
    /\ UNCHANGED <<pos, buf, held, broken, unitVars, callVars>>

(* The length stays when there is no memory for it. *)
ReadFile ==
    /\ pc = "open"
    /\ len' \in Sizes
    /\ \/ buf' = "live" /\ UNCHANGED broken
       \/ broken' = TRUE /\ UNCHANGED buf
    /\ pc' = "init"
    /\ UNCHANGED <<pos, held, unitVars, callVars>>

(* init returns early when there is no device or no instance of it. *)
InitUnit ==
    /\ pc = "init"
    /\ unit' \in {"none", "made"}
    /\ pc' = "initialize"
    /\ UNCHANGED <<pos, held, broken, running, fileVars, callVars>>

(* The calls of open_audio in their order: main's place, the state the     *)
(* call needs and leaves, and main's next place.  One that fails returns   *)
(* to main, which goes to sleep.                                           *)
OpenStep(from, needs, leaves, next) ==
    /\ pc = from
    /\ \/ unit = needs /\ unit' = leaves /\ pc' = next
       \/ pc' = "asleep" /\ UNCHANGED unit
    /\ UNCHANGED <<pos, held, broken, running, fileVars, callVars>>

Initialize == OpenStep("initialize", "made", "initialized", "format")
SetFormat == OpenStep("format", "initialized", "formatted", "callback")
SetCallback == OpenStep("callback", "formatted", "hooked", "begin")

StartUnit ==
    /\ pc = "begin"
    /\ running' \in BOOLEAN
    /\ pc' = "asleep"
    /\ UNCHANGED <<pos, held, broken, unit, fileVars, callVars>>

(* Mutant: the memory is freed while the unit plays. *)
WakeUpFree ==
    /\ pc = "asleep" /\ pc' = "close"
    /\ buf' = IF buf = "live" THEN "freed" ELSE buf
    /\ UNCHANGED <<pos, len, held, broken, unitVars, callVars>>

WakeUp ==
    /\ pc = "asleep" /\ pc' = "close"
    /\ UNCHANGED <<pos, held, broken, fileVars, unitVars, callVars>>

(* close_audio; cleanup does nothing. *)
CloseAudio ==
    /\ pc = "close"
    /\ \/ unit # "none" /\ cb = "idle" /\ running' = FALSE /\ held' = {}
          /\ UNCHANGED broken
       \/ broken' = TRUE /\ UNCHANGED <<running, held>>
    /\ pc' = "free"
    /\ UNCHANGED <<pos, unit, fileVars, callVars>>

FreeBuffer ==
    /\ pc = "free"
    /\ buf' = IF buf = "live" THEN "freed" ELSE buf
    /\ pc' = "return"
    /\ UNCHANGED <<pos, len, held, broken, unitVars, callVars>>

Return ==
    /\ pc = "return" /\ pc' = "done"
    /\ UNCHANGED <<pos, held, broken, fileVars, unitVars, callVars>>

-----------------------------------------------------------------------------
(* The unit's thread, while the process lives *)

Ask ==
    /\ pc # "done" /\ running /\ unit = "hooked" /\ cb = "idle"
    /\ cb' = "asked" /\ num' \in 1 .. Buffers
    /\ held' = {}
    /\ UNCHANGED <<pc, pos, broken, i, burst, fileVars, unitVars>>

(* Mutant: the byte after the last is one of the file's. *)
InFileOrAtEnd == pos <= len

InFile == pos < len

(* Past the end the call asks for silence. *)
BeSilent ==
    /\ pc # "done" /\ cb = "asked" /\ ~InFile
    /\ cb' = "idle"
    /\ UNCHANGED <<pc, pos, held, broken, i, num, burst, fileVars, unitVars>>

BeginLoop ==
    /\ pc # "done" /\ cb = "asked" /\ InFile
    /\ cb' = "loop" /\ i' = 0 /\ burst' = 0
    /\ UNCHANGED <<pc, pos, held, broken, num, fileVars, unitVars>>

HandOut ==
    /\ pc # "done" /\ cb = "loop" /\ i < num
    /\ \E size \in Bursts :
           /\ pos' = pos + size /\ burst' = burst + size
           /\ held' = held \cup {[from |-> pos, to |-> pos + size]}
    /\ i' = i + 1
    /\ UNCHANGED <<pc, broken, cb, num, fileVars, unitVars>>

EndLoop ==
    /\ pc # "done" /\ cb = "loop" /\ ~(i < num)
    /\ cb' = "idle"
    /\ UNCHANGED <<pc, pos, held, broken, i, num, burst, fileVars, unitVars>>

Next ==
    \/ OpenFails \/ ReadFile \/ InitUnit
    \/ Initialize \/ SetFormat \/ SetCallback \/ StartUnit
    \/ WakeUp \/ CloseAudio \/ FreeBuffer \/ Return
    \/ Ask \/ BeSilent \/ BeginLoop \/ HandOut \/ EndLoop

Spec == Init /\ [][Next]_vars

-----------------------------------------------------------------------------
(* Every variable has its type. *)
TypeOK ==
    /\ pc \in {"open", "init", "initialize", "format", "callback", "begin",
               "asleep", "close", "free", "return", "done"}
    /\ len \in Sizes \cup {-1, 0} /\ pos \in Nat
    /\ buf \in {"null", "live", "freed"}
    /\ unit \in {"none", "made", "initialized", "formatted", "hooked"}
    /\ running \in BOOLEAN
    /\ cb \in {"idle", "asked", "loop"} /\ i \in 0 .. Buffers
    /\ num \in 0 .. Buffers /\ burst \in Nat
    /\ held \subseteq [from : Nat, to : Nat] /\ broken \in BOOLEAN

(* The callback looks at the end of the file once a call and not once a    *)
(* buffer: it may hand out more than the file, but only in the one call    *)
(* that reaches the end, which began inside the file; of a file that is    *)
(* empty or could not be opened it hands out nothing.                      *)
OverrunIsLastCall == pos > 0 => pos - burst < len

(* What the unit holds, and may read until it asks again, is the file, in  *)
(* memory that is there and not yet freed, although main looks at no       *)
(* result and the callback at nothing but the length.  It is not so after  *)
(* either of two failures: malloc's, since the length stays, and the       *)
(* stop's, since main frees the memory after it.  And without any failure  *)
(* it is not so of the last call, whose pieces may end behind the file     *)
(* and, after the first, even begin there (core_audio.c:10-13).  The       *)
(* callback hands out nothing after such a call, and the overrun is less   *)
(* than what the unit asked for in it.                                     *)
HoldsLiveFile ==
    \A h \in held :
        /\ buf = "live" \/ broken
        /\ \/ h.to <= len
           \/ pos >= len /\ \E g \in held : g.from < len /\ h.to - g.from <= burst
=============================================================================
