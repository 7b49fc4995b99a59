-------------------------- MODULE CoreAudioProofs --------------------------
(***************************************************************************)
(* The player hands out the file from live memory, unless malloc or the    *)
(* stop fails, and leaves it only in the call that reaches its end, for    *)
(* any file and any request.                                               *)
(***************************************************************************)
EXTENDS CoreAudio, TLAPS

(* Until main has opened the file it has neither length nor memory, and    *)
(* memory stays until main is past the stop.                               *)
BufferInv ==
    /\ pc = "open" => len = 0 /\ buf = "null"
    /\ buf = "freed" => pc \in {"return", "done"}
    /\ buf = "null" => len <= 0 \/ broken

(* The unit runs only when main has opened it, and after the stop only if  *)
(* the stop has failed.                                                    *)
UnitInv ==
    /\ pc \in {"open", "init", "initialize", "format", "callback", "begin"} =>
           ~running
    /\ pc \in {"free", "return", "done"} => ~running \/ broken

(* A callback that is under way belongs to a unit that runs, and its loop  *)
(* began inside the file, where everything handed out begins.              *)
CallInv ==
    /\ cb # "idle" => running
    /\ held # {} => running /\ cb # "asked"
    /\ burst <= pos
    /\ cb = "loop" \/ held # {} => pos - burst < len /\ len > 0

(* The pieces of a call lie between where it began and where it has got,   *)
(* and one of them is where it began.                                      *)
PieceInv ==
    /\ cb = "loop" /\ held = {} => burst = 0
    /\ \A h \in held : pos - burst <= h.from /\ h.to <= pos
    /\ held # {} => \E g \in held : g.from = pos - burst

Inv == TypeOK /\ BufferInv /\ UnitInv /\ CallInv /\ PieceInv
           /\ OverrunIsLastCall

-----------------------------------------------------------------------------
(* At first nothing is open.                                               *)
LEMMA InitInv == Init => Inv
<1> SUFFICES ASSUME Init PROVE Inv
    OBVIOUS
<1>1. TypeOK
  <2>1. 0 \in 0 .. Buffers
        BY AudioAssumption
  <2>2. /\ running \in BOOLEAN /\ held \subseteq [from : Nat, to : Nat] /\ broken \in BOOLEAN
        BY DEF Init
  <2> QED
      BY <2>1, <2>2 DEF Init, TypeOK
<1>2. BufferInv /\ UnitInv /\ CallInv /\ PieceInv /\ OverrunIsLastCall
      BY DEF Init, BufferInv, UnitInv, CallInv, PieceInv, OverrunIsLastCall
<1> QED
    BY <1>1, <1>2 DEF Inv

(* Every step of main and of the unit's thread keeps the invariant.        *)
LEMMA StepInv == Inv /\ [Next]_vars => Inv'
<1> SUFFICES ASSUME Inv, [Next]_vars PROVE Inv'
    OBVIOUS
<1> USE AudioAssumption
        DEF Inv, TypeOK, BufferInv, UnitInv, CallInv, PieceInv, OverrunIsLastCall,
            fileVars, unitVars, callVars
<1>1. CASE OpenFails
      BY <1>1 DEF OpenFails
<1>2. CASE ReadFile
  <2>1. TypeOK'
        BY <1>2 DEF ReadFile
  <2>2. BufferInv'
        BY <1>2 DEF ReadFile
  <2>3. UnitInv'
        BY <1>2 DEF ReadFile
  <2>4. CallInv'
        BY <1>2 DEF ReadFile
  <2>5. OverrunIsLastCall'
        BY <1>2 DEF ReadFile
  <2>6. PieceInv'
        BY <1>2 DEF ReadFile
  <2> QED
      BY <2>1, <2>2, <2>3, <2>4, <2>5, <2>6
<1>3. CASE InitUnit
      BY <1>3 DEF InitUnit
<1>4. CASE Initialize \/ SetFormat \/ SetCallback
      BY <1>4 DEF Initialize, SetFormat, SetCallback, OpenStep
<1>5. CASE StartUnit
      BY <1>5 DEF StartUnit
<1>6. CASE WakeUp
      BY <1>6 DEF WakeUp
<1>7. CASE CloseAudio
  <2>1. TypeOK'
        BY <1>7 DEF CloseAudio
  <2>2. BufferInv'
        BY <1>7 DEF CloseAudio
  <2>3. UnitInv'
        BY <1>7 DEF CloseAudio
  <2>4. CallInv'
        BY <1>7 DEF CloseAudio
  <2>5. OverrunIsLastCall'
        BY <1>7 DEF CloseAudio
  <2>6. PieceInv'
        BY <1>7 DEF CloseAudio
  <2> QED
      BY <2>1, <2>2, <2>3, <2>4, <2>5, <2>6
<1>8. CASE FreeBuffer \/ Return
      BY <1>8 DEF FreeBuffer, Return
<1>9. CASE Ask
  <2>1. TypeOK'
    <3>1. num' \in 0 .. Buffers
          BY <1>9 DEF Ask
    <3>2. held' \subseteq [from : Nat, to : Nat]
          BY <1>9 DEF Ask
    <3> QED
        BY <1>9, <3>1, <3>2 DEF Ask
  <2>2. BufferInv'
        BY <1>9 DEF Ask
  <2>3. UnitInv'
        BY <1>9 DEF Ask
  <2>4. CallInv'
        BY <1>9 DEF Ask
  <2>5. OverrunIsLastCall'
        BY <1>9 DEF Ask
  <2>6. PieceInv'
        BY <1>9 DEF Ask
  <2> QED
      BY <2>1, <2>2, <2>3, <2>4, <2>5, <2>6
<1>10. CASE BeSilent
       BY <1>10 DEF BeSilent
<1>11. CASE BeginLoop
       BY <1>11 DEF BeginLoop, InFile
<1>12. CASE HandOut
       <2>1. PICK size \in Bursts :
                /\ pos' = pos + size /\ burst' = burst + size
                /\ held' = held \cup {[from |-> pos, to |-> pos + size]}
             BY <1>12 DEF HandOut
       <2>2. size \in Nat /\ size > 0
             OBVIOUS
       <2>3. UNCHANGED <<len, running, buf, unit, broken, cb, num, pc>> /\ i' = i + 1
             /\ i < num /\ cb = "loop"
             BY <1>12 DEF HandOut
       <2>4. TypeOK'
             BY <2>1, <2>2, <2>3
       <2>5. BufferInv' /\ UnitInv' /\ CallInv' /\ OverrunIsLastCall'
             BY <2>1, <2>2, <2>3
       <2>6. PieceInv'
         <3>1. pos' - burst' = pos - burst /\ held' # {}
           <4>1. pos \in Nat /\ burst \in Nat
                 OBVIOUS
           <4>2. (pos + size) - (burst + size) = pos - burst
                 BY <2>2, <4>1
           <4> QED
               BY <2>1, <4>2
         <3>2. \A h \in held' : pos' - burst' <= h.from /\ h.to <= pos'
               BY <2>1, <2>2
         <3>3. \E g \in held' : g.from = pos' - burst'
           <4>1. CASE held = {}
             <5>1. pos = pos' - burst'
                   BY <2>3, <3>1, <4>1
             <5>2. /\ [from |-> pos, to |-> pos + size] \in held'
                   /\ [from |-> pos, to |-> pos + size].from = pos
                   BY <2>1
             <5> QED
                 BY <5>1, <5>2
           <4>2. CASE held # {}
             <5>1. PICK g \in held : g.from = pos - burst
                   BY <4>2
             <5>2. g \in held'
                   BY <2>1
             <5> QED
                 BY <3>1, <5>1, <5>2
           <4> QED
               BY <4>1, <4>2
         <3> QED
             BY <3>1, <3>2, <3>3
       <2> QED
           BY <2>4, <2>5, <2>6
<1>13. CASE EndLoop
       BY <1>13 DEF EndLoop
<1>14. CASE UNCHANGED vars
       BY <1>14 DEF vars
<1> QED
    BY <1>1, <1>2, <1>3, <1>4, <1>5, <1>6, <1>7, <1>8, <1>9, <1>10, <1>11,
       <1>12, <1>13, <1>14 DEF Next

(* The invariant holds at all times.                                       *)
LEMMA Invariant == Spec => []Inv
BY InitInv, StepInv, PTL DEF Spec

-----------------------------------------------------------------------------
(* The player's variables keep their types.                                *)
THEOREM TypeCorrect == Spec => []TypeOK
<1>1. Inv => TypeOK
      BY DEF Inv
<1> QED
    BY <1>1, Invariant, PTL

(* The callback leaves the file only in the call that reaches its end.     *)
THEOREM OverrunBounded == Spec => []OverrunIsLastCall
<1>1. Inv => OverrunIsLastCall
      BY DEF Inv
<1> QED
    BY <1>1, Invariant, PTL

(* What the unit holds is the file in live memory, unless malloc or the    *)
(* stop failed, but for the end of what the last call hands out, which is  *)
(* behind it (cb, main).                                                   *)
THEOREM MemorySafe == Spec => []HoldsLiveFile
<1>1. Inv => HoldsLiveFile
  <2> SUFFICES ASSUME Inv, NEW h \in held
               PROVE  /\ buf = "live" \/ broken
                      /\ \/ h.to <= len
                         \/ /\ pos >= len
                            /\ \E g \in held : g.from < len /\ h.to - g.from <= burst
      BY DEF HoldsLiveFile
  <2>1. buf = "live" \/ broken
    <3>1. running /\ len > 0
          BY DEF Inv, CallInv
    <3>2. len \in Int
          BY AudioAssumption DEF Inv, TypeOK
    <3> QED
        BY <3>1, <3>2 DEF Inv, TypeOK, BufferInv, UnitInv
  <2>2. PICK g \in held : g.from = pos - burst
        BY DEF Inv, PieceInv
  <2>3. /\ pos \in Nat /\ burst \in Nat /\ h.to \in Nat /\ len \in Int
        /\ pos - burst < len /\ h.to <= pos
        BY AudioAssumption DEF Inv, TypeOK, CallInv, PieceInv
  <2> QED
      BY <2>1, <2>2, <2>3
<1> QED
    BY <1>1, Invariant, PTL
=============================================================================
