------------------------ MODULE DispatchTimerProofs ------------------------
(***************************************************************************)
(* The timer test program keeps its books, for any period and length of a  *)
(* second, any delay of the queue and any moment of the removal.           *)
(***************************************************************************)
EXTENDS DispatchTimer, TLAPS

(* A task under way is one of a timer that was made, and after main has    *)
(* read the clock.                                                         *)
OrderInv ==
    /\ pc = "start" => total = 0 /\ began = ts
    /\ timer # "none" => pc \notin {"start", "create", "fault"}
    /\ pc \in {"start", "create"} => cnt = 0 /\ task = "idle"
    /\ pc \in {"start", "create"} => timer = "none"
    /\ pc \in {"print", "exit", "done"} => timer = "cancelled"
    /\ pc \notin {"print", "exit", "done"} => timer # "cancelled"
    /\ timer = "none" => cnt = 0 /\ task = "idle"

(* The runs begun, ended or not.                                           *)
Runs == cnt + (IF task = "idle" THEN 0 ELSE 1)

(* A run for every period at most: the deadline is as many periods and one *)
(* more from main's first reading, and a run begins after its deadline.    *)
PeriodInv ==
    /\ began <= now
    /\ timer = "armed" => Period * Runs + Period <= due - began
    /\ timer # "none" => Period * Runs <= now - began

(* Main prints a count that leaves out the run that is under way at most.  *)
ShownInv ==
    pc \in {"exit", "done"} =>
        /\ shown <= cnt /\ cnt <= shown + 1
        /\ task # "idle" => cnt = shown

Inv == TypeOK /\ OrderInv /\ TickBooks /\ PeriodInv /\ ShownInv

-----------------------------------------------------------------------------
(* The rest of a division by a period is below it.                         *)
LEMMA RestOfPeriod ==
    \A x \in Int : x % Period \in Int /\ 0 <= x % Period /\ x % Period < Period
BY TimerAssumption

LEMMA RestOfSecond == \A t \in Int : Nsec(t) \in Int
BY TimerAssumption DEF Nsec

(* The first deadline to come is one period from the old one at least.     *)
LEMMA NextDeadline ==
    ASSUME NEW n \in Nat, NEW d \in Nat, n >= d
    PROVE  /\ n + Period - ((n - d) % Period) \in Nat
           /\ n + Period - ((n - d) % Period) >= d + Period
<1>1. n - d \in Nat
      OBVIOUS
<1>2. (n - d) % Period <= n - d
      BY <1>1, TimerAssumption
<1> QED
    BY <1>1, <1>2, RestOfPeriod, TimerAssumption

(* One run more is one period more.                                        *)
LEMMA OneMore ==
    ASSUME NEW n \in Nat
    PROVE  Period * n \in Nat /\ Period * (n + 1) = Period * n + Period
BY TimerAssumption

-----------------------------------------------------------------------------
(* At first nothing has run.                                               *)
LEMMA InitInv == Init => Inv
<1> SUFFICES ASSUME Init PROVE Inv
    OBVIOUS
<1>1. Second \in Nat /\ Period \in Nat
      BY TimerAssumption
<1>2. TypeOK /\ OrderInv /\ ShownInv
      BY <1>1 DEF Init, TypeOK, OrderInv, ShownInv
<1>3. TickBooks
      BY RestOfSecond DEF Init, TickBooks
<1>4. PeriodInv
      BY <1>1 DEF Init, PeriodInv
<1> QED
    BY <1>2, <1>3, <1>4 DEF Inv

(* Every step of the clock, of main and of the task keeps the invariant.   *)
LEMMA StepInv == Inv /\ [Next]_vars => Inv'
<1> SUFFICES ASSUME Inv, [Next]_vars PROVE Inv'
    OBVIOUS
<1>0. Second \in Nat /\ Period \in Nat /\ Period > 0
      BY TimerAssumption
<1>a. Runs \in Nat /\ Period * Runs \in Nat
      BY OneMore DEF Runs, Inv, TypeOK
<1>b. Nsec(tsn) \in Int /\ Nsec(ts) \in Int /\ Nsec(began) \in Int
          /\ Nsec(now) \in Int
      BY RestOfSecond DEF Inv, TypeOK
<1> USE DEF Inv, TypeOK, mainVars, taskVars
<1>1. CASE Pass
  <2>1. TypeOK' /\ OrderInv' /\ ShownInv'
        BY <1>1 DEF Pass, OrderInv, ShownInv
  <2>2. TickBooks'
        BY <1>1 DEF Pass, TickBooks, Nsec
  <2>3. PeriodInv'
        BY <1>0, <1>a, <1>1 DEF Pass, PeriodInv, Runs
  <2> QED
      BY <2>1, <2>2, <2>3
<1>2. CASE ReadStart
  <2>1. TypeOK' /\ OrderInv' /\ ShownInv'
        BY <1>2 DEF ReadStart, get_ts, OrderInv, ShownInv
  <2>2. TickBooks'
        BY <1>b, <1>2 DEF ReadStart, get_ts, TickBooks, Nsec, OrderInv
  <2>3. PeriodInv'
        BY <1>0, <1>a, <1>2 DEF ReadStart, get_ts, PeriodInv, OrderInv
  <2> QED
      BY <2>1, <2>2, <2>3
<1>3. CASE MyCreateTimer
  <2>1. TypeOK' /\ OrderInv' /\ ShownInv'
        BY <1>0, <1>3 DEF MyCreateTimer, OrderInv, ShownInv
  <2>2. TickBooks'
        BY <1>3 DEF MyCreateTimer, TickBooks, Nsec
  <2>3. Runs = 0 /\ Runs' = 0
        BY <1>3 DEF MyCreateTimer, OrderInv, Runs
  <2>4. Period * 0 = 0
        BY <1>0
  <2>5. PeriodInv'
        BY <1>0, <1>3, <2>3, <2>4 DEF MyCreateTimer, PeriodInv
  <2> QED
      BY <2>1, <2>2, <2>5
<1>4. CASE FallAsleep \/ RemoveDispatchSource \/ Return
  <2> USE DEF FallAsleep, RemoveDispatchSource, Return
  <2>1. TypeOK' /\ OrderInv' /\ ShownInv'
        BY <1>0, <1>4 DEF OrderInv, ShownInv
  <2>2. TickBooks'
        BY <1>4 DEF TickBooks, Nsec
  <2>3. PeriodInv'
        BY <1>4 DEF PeriodInv, Runs
  <2> QED
      BY <2>1, <2>2, <2>3
<1>5. CASE PrintCount
  <2>1. TypeOK' /\ OrderInv' /\ ShownInv'
        BY <1>5 DEF PrintCount, OrderInv, ShownInv
  <2>2. TickBooks'
        BY <1>5 DEF PrintCount, TickBooks, Nsec
  <2>3. PeriodInv'
        BY <1>5 DEF PrintCount, PeriodInv, Runs
  <2> QED
      BY <2>1, <2>2, <2>3
<1>6. CASE Fire
  <2>1. due' \in Nat /\ due' >= due + Period
        BY <1>6, NextDeadline DEF Fire
  <2>2. TypeOK' /\ OrderInv' /\ ShownInv'
        BY <1>6, <2>1 DEF Fire, OrderInv, ShownInv, Alive
  <2>3. TickBooks'
        BY <1>6 DEF Fire, TickBooks, Nsec
  <2>4. Runs' = Runs + 1 /\ Period * Runs' = Period * Runs + Period
        BY <1>6, <1>a, OneMore DEF Fire, Runs
  <2>5. PeriodInv'
        BY <1>0, <1>a, <1>6, <2>1, <2>4 DEF Fire, PeriodInv
  <2> QED
      BY <2>2, <2>3, <2>5
<1>7. CASE ReadClock
  <2>1. TypeOK' /\ OrderInv' /\ ShownInv'
        BY <1>7 DEF ReadClock, get_ts, OrderInv, ShownInv, Alive
  <2>2. TickBooks'
        BY <1>7 DEF ReadClock, get_ts, TickBooks, Nsec
  <2>3. PeriodInv'
        BY <1>7 DEF ReadClock, get_ts, PeriodInv, Runs
  <2> QED
      BY <2>1, <2>2, <2>3
<1>8. CASE PrintInterval
  <2>1. TypeOK' /\ OrderInv' /\ ShownInv'
        BY <1>b, <1>8 DEF PrintInterval, OrderInv, ShownInv, Alive
  <2>2. TickBooks'
        BY <1>b, <1>8 DEF PrintInterval, TickBooks, Nsec
  <2>3. PeriodInv'
        BY <1>8 DEF PrintInterval, PeriodInv, Runs
  <2> QED
      BY <2>1, <2>2, <2>3
<1>9. CASE CopyStamp
  <2>1. TypeOK' /\ OrderInv' /\ ShownInv'
        BY <1>9 DEF CopyStamp, OrderInv, ShownInv, Alive
  <2>2. TickBooks'
        BY <1>9 DEF CopyStamp, TickBooks, Nsec
  <2>3. PeriodInv'
        BY <1>9 DEF CopyStamp, PeriodInv, Runs
  <2> QED
      BY <2>1, <2>2, <2>3
<1>10. CASE Count
  <2>1. TypeOK' /\ OrderInv' /\ ShownInv'
        BY <1>10 DEF Count, OrderInv, ShownInv, Alive
  <2>2. TickBooks'
        BY <1>10 DEF Count, TickBooks, Nsec
  <2>3. Runs' = Runs
        BY <1>10 DEF Count, Runs
  <2>4. PeriodInv'
        BY <1>10, <2>3 DEF Count, PeriodInv
  <2> QED
      BY <2>1, <2>2, <2>4
<1>11. CASE UNCHANGED vars
       BY <1>11 DEF vars, OrderInv, TickBooks, PeriodInv, ShownInv, Runs, Nsec
<1> QED
    BY <1>1, <1>2, <1>3, <1>4, <1>5, <1>6, <1>7, <1>8, <1>9, <1>10, <1>11
    DEF Next

(* The invariant holds at all times.                                       *)
LEMMA Invariant == Spec => []Inv
BY InitInv, StepInv, PTL DEF Spec

-----------------------------------------------------------------------------
(* The program's variables keep their types.                               *)
THEOREM TypeCorrect == Spec => []TypeOK
<1>1. Inv => TypeOK
      BY DEF Inv
<1> QED
    BY <1>1, Invariant, PTL

(* The intervals printed add up, and each is counted once.                 *)
THEOREM BooksKept == Spec => []TickBooks
<1>1. Inv => TickBooks
      BY DEF Inv
<1> QED
    BY <1>1, Invariant, PTL

(* The count printed is the ticks printed, one at most left out, and no    *)
(* more than the periods passed.                                           *)
THEOREM CountSound == Spec => []CountPrinted
<1>1. Inv => CountPrinted
  <2> SUFFICES ASSUME Inv, pc \in {"exit", "done"} PROVE CountPrinted
      BY DEF CountPrinted
  <2>1. shown \in Nat /\ cnt \in Nat /\ lines \in Nat /\ Runs \in Nat
            /\ now \in Nat /\ began \in Nat /\ Period \in Nat
        BY TimerAssumption DEF Inv, TypeOK, Runs
  <2>2. lines - 1 <= shown /\ shown <= lines
        BY <2>1 DEF Inv, TickBooks, ShownInv, TypeOK
  <2>3. shown <= Runs
        BY <2>1 DEF Inv, ShownInv, Runs
  <2>4. Period * shown <= Period * Runs
        BY <2>1, <2>3
  <2>5. Period * Runs <= now - began
        BY DEF Inv, OrderInv, PeriodInv
  <2>6. Period * shown \in Nat /\ Period * Runs \in Nat
        BY <2>1, OneMore
  <2> QED
      BY <2>1, <2>2, <2>4, <2>5, <2>6 DEF CountPrinted
<1> QED
    BY <1>1, Invariant, PTL
=============================================================================
