------------------------ MODULE SomControllerProofs -------------------------
(***************************************************************************)
(* Proofs, for every value of the constants, of the safety properties of   *)
(* SomController.                                                          *)
(***************************************************************************)
EXTENDS SomController, TLAPS

(* Before the handler or stopIoThread releases it, m_worker keeps the      *)
(* service from running out of work.                                       *)
GuardInv ==
  /\ io \in {"sigReset", "sigClear"} => sig = "taken"
  /\ sig # "taken" /\ pc \notin Stopping \cup {"ended"}
       => releases = 0 /\ ~stopped

(* As long as every cancel has caught its operation waiting, a fulfilled   *)
(* promise or a finished call leaves no operation behind.                  *)
CallInv ==
  ~raced =>
    /\ orphans["waiting"] = 0 /\ orphans["partial"] = 0 /\ orphans["ready"] = 0
    /\ io # "orphan" /\ exit # "crash"
    /\ phase = "none" => op = "none" /\ ~promise
    /\ promise => op = "none"
    /\ phase = "unwind" => op \in {"none", "failed"}
    /\ io = "deliver" /\ pc # "ended" => op = "running"

(* Until flush returns there are no orphans, and its promise is fulfilled  *)
(* by its own handler, which then consumes.                                *)
Reading == {"hsRead", "entry", "check"} \cup Loop
Early == {"construct", "startIo", "flush"}

FlushInv ==
  /\ pc \in {"construct", "startIo"} => io = "off" /\ phase = "none"
  /\ pc \in Early =>
       /\ orphans["waiting"] = 0 /\ orphans["partial"] = 0
       /\ orphans["ready"] = 0 /\ io # "orphan"
       /\ phase = "none" => ~promise /\ op = "none" /\ io # "deliver"
       /\ promise => op = "none" /\ (io = "consume" \/ flushed)
  /\ pc = "hsWrite" /\ ~flushed => io = "consume" /\ ~promise
  /\ pc \in Reading => flushed
  /\ pc \in Early /\ (flushed \/ io = "consume") => promise /\ phase # "none"
  /\ flushed => io # "consume"

(* Whatever the two threads do with m_worker, the service stops itself     *)
(* when its work is gone; and the main thread comes to stopIoThread with   *)
(* no operation of its own and, unless the service has stopped, with a     *)
(* failure.                                                                *)
WorkInv ==
  /\ ~stopped => Work >= 1
  /\ ~owns \/ pc \in {"stopClear", "dtor", "join"} \/ io = "sigClear"
       => releases >= 1
  /\ phase = "none" => op = "none"
  /\ io = "deliver" /\ pc # "ended" => op = "running"
  /\ pc \in {"construct", "startIo"} => io = "off"
  /\ pc \notin Calls \cup {"ended"} => phase = "none"
  /\ pc \in Stopping /\ ~stopped => exit = "failure"

(* Work is a sum of counts.                                                *)
Counts ==
  /\ releases \in Nat /\ \A s \in Pending : orphans[s] \in Nat
  /\ Work = 1 - releases + One(sig # "taken") + One(op \in Pending)
              + orphans["waiting"] + orphans["partial"] + orphans["ready"]
              + orphans["failed"] + One(io \in Handling)

(* Every variable has its type, whatever the port and SIGINT do.           *)
THEOREM TypeCorrect == Spec => []TypeOK
<1>1. Init => TypeOK
  <2>1. Init => promise \in BOOLEAN /\ stopped \in BOOLEAN
                /\ flushed \in BOOLEAN /\ raced \in BOOLEAN
    BY Zenon DEF Init
  <2> QED
    BY <2>1 DEF Init, TypeOK, Calls, Loop, Stopping, Pending, Handling
<1>2. TypeOK /\ [Next]_vars => TypeOK'
  <2> SUFFICES ASSUME TypeOK, [Next]_vars
               PROVE  TypeOK'
    OBVIOUS
  <2> USE AttemptsAssumption
      DEF TypeOK, Calls, Loop, Stopping, Pending, Handling,
          mainVars, callVars, guardVars, history, Goto, Exit, Leave
  <2>1. CASE Construct BY <2>1 DEF Construct
  <2>2. CASE StartIoThread BY <2>2 DEF StartIoThread
  <2>3. CASE Entry BY <2>3 DEF Entry
  <2>4. CASE Check BY <2>4 DEF Check
  <2>5. CASE StopReset BY <2>5 DEF StopReset, WorkFinished
  <2>6. CASE StopClear
    <3>1. owns' \in BOOLEAN BY <2>6, Zenon DEF StopClear
    <3> QED BY <2>6, <3>1 DEF StopClear
  <2>7. CASE Destroy
    <3>1. stopped' \in BOOLEAN BY <2>7, Zenon DEF Destroy, WorkFinished
    <3> QED BY <2>7, <3>1 DEF Destroy
  <2>8. CASE Join BY <2>8 DEF Join
  <2>9. CASE StartCall BY <2>9 DEF StartCall, Started, Outcomes, Writes
  <2>10. ASSUME Returns(TRUE) \/ Returns(FALSE)
         PROVE  /\ pc' \in Calls \cup {"entry", "check", "stop", "ended"}
                /\ attempts' \in Nat
                /\ attempts' = 0 \/ attempts' < HandshakeAttempts
                /\ exit' \in {exit, "failure", "assert"}
    BY <2>10 DEF Returns, FlushReturns, HandshakeWriteReturns,
                 HandshakeReadReturns, LoopReturns, NextAttempt
  <2>11. ASSUME DropFrame
         PROVE  /\ phase' = "none" /\ op' = "none" /\ promise' \in BOOLEAN
                /\ orphans' \in [Pending -> Nat]
                /\ io' \in {io, "orphan"}
    <3>1. promise' \in BOOLEAN BY <2>11, Zenon DEF DropFrame
    <3> QED BY <2>11, <3>1 DEF DropFrame
  <2>12. CASE WaitDone
    <3>1. Returns(TRUE) /\ DropFrame BY <2>12 DEF WaitDone
    <3> QED BY <2>10, <2>11, <2>12, <3>1 DEF WaitDone
  <2>13. CASE WaitTimeout BY <2>13 DEF WaitTimeout
  <2>14. CASE CancelOp BY <2>14 DEF CancelOp, Completing
  <2>15. CASE Unwind
    <3>1. Returns(FALSE) /\ DropFrame BY <2>15 DEF Unwind
    <3> QED BY <2>10, <2>11, <2>15, <3>1 DEF Unwind
  <2>16. CASE Completion
    BY <2>16 DEF Completion, Continue, ContinueOrphan, Take, TakeFailed,
                 TakeFailedOrphan, TakeOrphan, TakeSignal, Idle
  <2>17. CASE Deliver BY <2>17 DEF Deliver, Crash
  <2>18. CASE Consume BY <2>18 DEF Consume
  <2>19. CASE Dangling BY <2>19 DEF Dangling, Crash
  <2>20. CASE Finish BY <2>20 DEF Finish, WorkFinished
  <2>21. CASE SigReset
    <3>1. stopped' \in BOOLEAN BY <2>21, Zenon DEF SigReset, WorkFinished
    <3> QED BY <2>21, <3>1 DEF SigReset
  <2>22. CASE SigClear
    <3>1. owns' \in BOOLEAN BY <2>22, Zenon DEF SigClear
    <3> QED BY <2>22, <3>1 DEF SigClear
  <2>23. CASE IoExit BY <2>23 DEF IoExit
  <2>24. CASE PortReady BY <2>24 DEF PortReady, Outcomes, Idle
  <2>25. CASE OrphanPort BY <2>25 DEF OrphanPort, Idle
  <2>26. CASE Sigint BY <2>26 DEF Sigint
  <2>27. CASE UNCHANGED vars BY <2>27 DEF vars
  <2> QED
    BY <2>1, <2>2, <2>3, <2>4, <2>5, <2>6, <2>7, <2>8, <2>9, <2>12, <2>13,
       <2>14, <2>15, <2>16, <2>17, <2>18, <2>19, <2>20, <2>21, <2>22, <2>23,
       <2>24, <2>25, <2>26, <2>27
       DEF Next, Main, Handler, Terminated
<1> QED
  BY <1>1, <1>2, PTL DEF Spec

-----------------------------------------------------------------------------
(* With m_worker and the signal wait outstanding, no other work is the     *)
(* last: finishing it does not stop the service.                           *)
LEMMA NotLastWork ==
  ASSUME TypeOK, releases = 0, sig # "taken"
  PROVE  Work # 1
<1>1. LiveOrphans \in Nat /\ orphans["failed"] \in Nat
  BY DEF TypeOK, LiveOrphans, Pending
<1>2. One(op \in Pending) \in Nat /\ One(io \in Handling) \in Nat
  BY DEF One
<1> QED
  BY <1>1, <1>2 DEF Work, One

(* The service stops only when SIGINT was handled or stopIoThread runs.    *)
THEOREM StopsCorrect == Spec => []StopsOnlyWhenAsked
<1>1. Init => GuardInv
  BY DEF Init, GuardInv
<1>2. TypeOK /\ GuardInv /\ [Next]_vars => GuardInv'
  <2> SUFFICES ASSUME TypeOK, GuardInv, [Next]_vars
               PROVE  GuardInv'
    OBVIOUS
  <2> USE DEF GuardInv, Stopping, mainVars, callVars, guardVars, history,
              Goto, Exit, Leave
  <2>1. CASE Construct \/ StartIoThread \/ Entry \/ Check
    BY <2>1 DEF Construct, StartIoThread, Entry, Check
  <2>2. CASE StopReset \/ StopClear \/ Destroy \/ Join
    BY <2>2 DEF StopReset, StopClear, Destroy, Join
  <2>3. CASE StartCall \/ WaitTimeout \/ CancelOp
    BY <2>3 DEF StartCall, WaitTimeout, CancelOp, Calls, Loop
  <2>4. CASE WaitDone \/ Unwind
    <3>1. /\ pc \notin Stopping \cup {"ended"}
          /\ io' \in {io, "orphan"}
          /\ UNCHANGED <<owns, releases, sig, stopped>>
      BY <2>4 DEF WaitDone, Unwind, Returns, FlushReturns, DropFrame,
                  HandshakeWriteReturns, HandshakeReadReturns, LoopReturns
    <3> QED
      BY <3>1
  <2>5. CASE Completion
    BY <2>5 DEF Completion, Continue, ContinueOrphan, Take, TakeFailed,
                TakeFailedOrphan, TakeOrphan, TakeSignal, Idle
  <2>6. CASE Deliver \/ Consume \/ Dangling
    BY <2>6 DEF Deliver, Consume, Dangling, Crash
  <2>7. CASE Finish
    BY <2>7, NotLastWork DEF Finish, WorkFinished
  <2>8. CASE SigReset \/ SigClear
    BY <2>8 DEF SigReset, SigClear
  <2>9. CASE IoExit \/ PortReady \/ OrphanPort \/ Sigint
    BY <2>9 DEF IoExit, PortReady, OrphanPort, Sigint
  <2>10. CASE UNCHANGED vars
    BY <2>10 DEF vars
  <2> QED
    BY <2>1, <2>2, <2>3, <2>4, <2>5, <2>6, <2>7, <2>8, <2>9, <2>10
       DEF Next, Main, Handler, Terminated
<1>3. TypeOK /\ GuardInv => StopsOnlyWhenAsked
  BY DEF TypeOK, GuardInv, StopsOnlyWhenAsked
<1> QED
  BY <1>1, <1>2, <1>3, TypeCorrect, PTL DEF Spec

-----------------------------------------------------------------------------
(* As long as every cancel has caught its operation waiting, calls end     *)
(* with nothing left of their operations but aborted handlers.             *)
LEMMA CallInvariant == Spec => []CallInv
<1>1. Init => CallInv
  BY DEF Init, CallInv, Pending
<1>2. TypeOK /\ CallInv /\ [Next]_vars => CallInv'
  <2> SUFFICES ASSUME TypeOK, CallInv, [Next]_vars, ~raced'
               PROVE  CallInv'
    BY DEF CallInv
  <2>0. ~raced
    BY DEF Next, Main, Completion, Handler, vars, mainVars, callVars,
           guardVars, history, Construct, StartIoThread, Entry, Check,
           StopReset, StopClear, Destroy, Join, StartCall, WaitDone,
           WaitTimeout, CancelOp, Unwind, Continue, ContinueOrphan, Take,
           TakeFailed, TakeFailedOrphan, TakeOrphan, TakeSignal, Deliver,
           Consume, Dangling, Finish, SigReset, SigClear, IoExit, PortReady,
           OrphanPort, Sigint, Terminated
  <2> USE <2>0 DEF TypeOK, CallInv, Pending, mainVars, callVars, guardVars,
                   history, Goto, Exit, Leave
  <2>1. CASE Construct \/ StartIoThread \/ Entry \/ Check
    BY <2>1 DEF Construct, StartIoThread, Entry, Check
  <2>2. CASE StopReset \/ StopClear \/ Destroy \/ Join
    BY <2>2 DEF StopReset, StopClear, Destroy, Join
  <2>3. CASE StartCall
    BY <2>3 DEF StartCall, Started, Outcomes
  <2>4. CASE WaitDone \/ Unwind
    <3>1. op \in {"none", "failed"}
      BY <2>4 DEF WaitDone, Unwind
    <3>2. /\ phase' = "none" /\ op' = "none" /\ ~promise'
          /\ orphans' \in {orphans, [orphans EXCEPT !["failed"] = @ + 1]}
          /\ io' = io
      BY <2>4, <3>1 DEF WaitDone, Unwind, DropFrame
    <3>3. exit' \in {exit, "failure", "assert"} /\ pc # "ended"
      BY <2>4 DEF WaitDone, Unwind, Returns, FlushReturns,
                  HandshakeWriteReturns, HandshakeReadReturns, LoopReturns,
                  NextAttempt
    <3> QED
      BY <3>1, <3>2, <3>3
  <2>5. CASE WaitTimeout
    BY <2>5 DEF WaitTimeout
  <2>6. CASE CancelOp
    BY <2>6 DEF CancelOp, Completing
  <2>7. CASE Completion
    BY <2>7 DEF Completion, Continue, ContinueOrphan, Take, TakeFailed,
                TakeFailedOrphan, TakeOrphan, TakeSignal, Idle
  <2>8. CASE Deliver
    BY <2>8 DEF Deliver
  <2>9. CASE Consume \/ Finish \/ SigReset \/ SigClear
    BY <2>9 DEF Consume, Finish, SigReset, SigClear
  <2>10. CASE Dangling
    BY <2>10 DEF Dangling
  <2>11. CASE IoExit \/ PortReady \/ OrphanPort \/ Sigint
    BY <2>11 DEF IoExit, PortReady, Outcomes, OrphanPort, Sigint, Idle
  <2>12. CASE UNCHANGED vars
    BY <2>12 DEF vars
  <2> QED
    BY <2>1, <2>2, <2>3, <2>4, <2>5, <2>6, <2>7, <2>8, <2>9, <2>10, <2>11,
       <2>12 DEF Next, Main, Handler, Terminated
<1> QED
  BY <1>1, <1>2, TypeCorrect, PTL DEF Spec

(* A handler meets a frame that is gone only after a lost race.            *)
THEOREM DanglingCorrect == Spec => []DanglingOnlyAfterRace
<1>1. TypeOK /\ CallInv => DanglingOnlyAfterRace
  BY DEF TypeOK, CallInv, DanglingOnlyAfterRace, LiveOrphans, Pending
<1> QED
  BY <1>1, CallInvariant, TypeCorrect, PTL

-----------------------------------------------------------------------------
(* flush's handler consumes before anything needs the buffer again.        *)
LEMMA FlushInvariant == Spec => []FlushInv
<1>1. Init => FlushInv
  BY DEF Init, FlushInv, Early, Reading, Loop, Pending
<1>2. TypeOK /\ FlushInv /\ [Next]_vars => FlushInv'
  <2> SUFFICES ASSUME TypeOK, FlushInv, [Next]_vars
               PROVE  FlushInv'
    OBVIOUS
  <2> USE DEF TypeOK, FlushInv, Early, Reading, Loop, Pending, mainVars,
              callVars, guardVars, history, Goto, Exit, Leave
  <2>1. CASE Construct \/ StartIoThread \/ Entry \/ Check
    BY <2>1 DEF Construct, StartIoThread, Entry, Check
  <2>2. CASE StopReset \/ StopClear \/ Destroy \/ Join
    BY <2>2 DEF StopReset, StopClear, Destroy, Join
  <2>3. CASE StartCall \/ WaitTimeout \/ CancelOp
    BY <2>3 DEF StartCall, WaitTimeout, CancelOp, Calls
  <2>4. CASE WaitDone
    <3>1. CASE pc = "flush"
      <4>1. op = "none" /\ (io = "consume" \/ flushed)
        BY <2>4, <3>1 DEF WaitDone
      <4>2. io' = io /\ ~promise' /\ UNCHANGED flushed
        BY <2>4, <4>1 DEF WaitDone, DropFrame
      <4>3. pc' = "hsWrite"
        BY <2>4, <3>1 DEF WaitDone, Returns, FlushReturns, LoopReturns,
                          HandshakeWriteReturns, HandshakeReadReturns
      <4> QED
        BY <4>1, <4>2, <4>3
    <3>2. CASE pc # "flush"
      <4>1. pc \in {"hsWrite", "hsRead"} \cup Loop
        BY <2>4, <3>2 DEF WaitDone, Returns, FlushReturns, LoopReturns,
                          HandshakeWriteReturns, HandshakeReadReturns
      <4>2. pc' \in Reading \cup {"stop"}
        BY <2>4, <3>2 DEF WaitDone, Returns, FlushReturns, LoopReturns,
                          HandshakeWriteReturns, HandshakeReadReturns,
                          NextAttempt
      <4>3. promise /\ UNCHANGED flushed /\ io' \in {io, "orphan"}
        BY <2>4 DEF WaitDone, DropFrame
      <4>4. flushed' /\ io' # "consume"
        BY <4>1, <4>3
      <4> QED
        BY <4>2, <4>4
    <3> QED
      BY <3>1, <3>2
  <2>5. CASE Unwind
    <3>1. /\ pc \notin {"construct", "startIo"} /\ UNCHANGED flushed
          /\ io' \in {io, "orphan"}
      BY <2>5 DEF Unwind, Returns, FlushReturns, LoopReturns, DropFrame,
                  HandshakeWriteReturns, HandshakeReadReturns
    <3>2. \/ pc' \in {"ended", "stop"}
          \/ pc \in Reading /\ pc' \in Reading
      BY <2>5 DEF Unwind, Returns, FlushReturns, LoopReturns, NextAttempt,
                  HandshakeWriteReturns, HandshakeReadReturns
    <3> QED
      BY <3>1, <3>2
  <2>6. CASE Completion
    BY <2>6 DEF Completion, Continue, ContinueOrphan, Take, TakeFailed,
                TakeFailedOrphan, TakeOrphan, TakeSignal, Idle
  <2>7. CASE Deliver
    <3>1. /\ io = "deliver" /\ op' = "none"
          /\ UNCHANGED <<orphans, flushed>>
          /\ \/ pc' = "ended" /\ io' = io
             \/ /\ io' = IF pc = "flush" THEN "consume" ELSE "finish"
                /\ UNCHANGED <<pc, phase>> /\ ~promise /\ promise' = TRUE
      BY <2>7 DEF Deliver, Crash
    <3>2. pc = "flush" => phase # "none"
      BY <3>1, <2>7
    <3>3. CASE pc' = "ended" /\ io' = io
      BY <3>1, <3>3
    <3>4. CASE pc = "flush" /\ pc' # "ended"
      BY <3>1, <3>2, <3>4
    <3>5. CASE pc # "flush" /\ pc' # "ended"
      BY <3>1, <3>5
    <3> QED
      BY <3>1, <3>3, <3>4, <3>5
  <2>8. CASE Consume
    BY <2>8 DEF Consume
  <2>9. CASE Dangling
    BY <2>9 DEF Dangling, Crash
  <2>10. CASE Finish \/ SigReset \/ SigClear
    BY <2>10 DEF Finish, SigReset, SigClear
  <2>11. CASE IoExit \/ PortReady \/ OrphanPort \/ Sigint
    BY <2>11 DEF IoExit, PortReady, Outcomes, OrphanPort, Sigint, Idle
  <2>12. CASE UNCHANGED vars
    BY <2>12 DEF vars
  <2> QED
    BY <2>1, <2>2, <2>3, <2>4, <2>5, <2>6, <2>7, <2>8, <2>9, <2>10, <2>11,
       <2>12 DEF Next, Main, Handler, Terminated
<1> QED
  BY <1>1, <1>2, TypeCorrect, PTL DEF Spec

(* No packet is read before flush's handler has consumed the buffer.       *)
THEOREM FlushCorrect == Spec => []FlushConsumedBeforeRead
<1>1. FlushInv => FlushConsumedBeforeRead
  BY DEF FlushInv, Reading, FlushConsumedBeforeRead
<1> QED
  BY <1>1, FlushInvariant, PTL

-----------------------------------------------------------------------------
(* A read that is about to start has the stream buffer to itself.          *)
THEOREM ExclusiveCorrect == Spec => []BufferExclusive
<1>1. TypeOK /\ CallInv /\ FlushInv => BufferExclusive
  <2> SUFFICES ASSUME TypeOK, CallInv, FlushInv, ~raced,
                      pc \in Calls \ Writes, phase = "none"
               PROVE  LiveOrphans = 0 /\ io \notin {"deliver", "consume", "orphan"}
    BY DEF BufferExclusive
  <2>1. LiveOrphans = 0 /\ io \notin {"deliver", "orphan"}
    BY DEF CallInv, LiveOrphans, Calls, Writes, Loop
  <2>2. io # "consume"
    BY DEF FlushInv, Reading, Early, Calls, Writes, Loop
  <2> QED
    BY <2>1, <2>2
<1> QED
  BY <1>1, TypeCorrect, CallInvariant, FlushInvariant, PTL

-----------------------------------------------------------------------------
(* The types say so.                                                       *)
LEMMA CountsInvariant == Spec => []Counts
<1>1. TypeOK => Counts
  <2> SUFFICES ASSUME TypeOK PROVE Counts
    OBVIOUS
  <2>1. releases \in Nat /\ \A s \in Pending : orphans[s] \in Nat
    BY DEF TypeOK
  <2>2. One(sig # "taken") \in Nat /\ One(op \in Pending) \in Nat
        /\ One(io \in Handling) \in Nat
    BY DEF One
  <2> QED
    BY <2>1, <2>2 DEF Counts, Work, LiveOrphans, Pending
<1> QED
  BY <1>1, TypeCorrect, PTL

(* A unit of work that ends leaves some, or stops the service.             *)
LEMMA Finished ==
  ASSUME Work \in Int, Work' = Work - 1, WorkFinished, ~stopped => Work >= 1
  PROVE  /\ ~stopped' => Work' >= 1
         /\ ~stopped' => ~stopped
<1>1. ~stopped' => ~stopped /\ Work # 1
  BY ZenonT(20) DEF WorkFinished
<1> DEFINE w == Work  v == Work'
<1>2. /\ w \in Int /\ v = w - 1 /\ (~stopped => w >= 1)
      /\ ~stopped' => ~stopped /\ w # 1
  BY <1>1
<1> HIDE DEF w, v
<1>3. (~stopped' => v >= 1) /\ (~stopped' => ~stopped)
  BY <1>2
<1> QED
  BY <1>3 DEF v

(* With its parts counted, the work outlasts every step of either thread.  *)
LEMMA WorkInvariant == Spec => []WorkInv
<1>1. Init => WorkInv
  BY DEF Init, WorkInv, Work, LiveOrphans, One, Stopping, Pending, Handling
<1>2. TypeOK /\ Counts /\ Counts' /\ WorkInv /\ [Next]_vars => WorkInv'
  <2> SUFFICES ASSUME TypeOK, Counts, Counts', WorkInv, [Next]_vars
               PROVE  WorkInv'
    OBVIOUS
  <2> USE DEF WorkInv, Counts, Stopping, Pending, Handling, mainVars,
              callVars, guardVars, history, Goto, Exit, Leave, One, Calls, Loop
  <2>0. Work \in Int /\ (~stopped => Work >= 1)
    <3>1. One(sig # "taken") \in Int /\ One(op \in Pending) \in Int
          /\ One(io \in Handling) \in Int
      BY DEF One
    <3> QED
      BY <3>1
  <2>1. CASE Construct
    BY <2>1 DEF Construct
  <2>2. CASE StartIoThread
    BY <2>2 DEF StartIoThread
  <2>3. CASE Entry
    BY <2>3 DEF Entry
  <2>4. CASE Check
    <3>1. /\ pc = "check" /\ UNCHANGED <<phase, callVars, io, guardVars>>
          /\ pc' \in {"stop", "ended", "readRc"} /\ (pc' = "stop" => stopped)
          /\ phase = "none"
      BY <2>4 DEF Check
    <3> QED
      BY <3>1
  <2>5. CASE StopReset
    <3>1. CASE ~owns
      BY <2>5, <3>1 DEF StopReset
    <3>2. CASE owns
      <4>1. /\ releases' = releases + 1 /\ WorkFinished
            /\ pc = "stop" /\ pc' = "stopClear"
            /\ UNCHANGED <<phase, exit, op, orphans, io, owns, sig>>
            /\ phase = "none" /\ (~stopped => exit = "failure")
            /\ releases \in Nat
        BY <2>5, <3>2 DEF StopReset
      <4>2. Work' = Work - 1
        BY <4>1
      <4>3. (~stopped' => Work' >= 1) /\ (~stopped' => ~stopped)
        BY <2>0, <4>1, <4>2, Finished
      <4> QED
        BY <4>1, <4>3
    <3> QED
      BY <3>1, <3>2
  <2>6. CASE Destroy
    <3>1. CASE UNCHANGED <<releases, stopped>>
      BY <2>6, <3>1 DEF Destroy
    <3>2. CASE releases' = releases + 1 /\ WorkFinished
      <4>1. /\ pc = "dtor" /\ pc' = "join"
            /\ UNCHANGED <<phase, exit, op, orphans, io, owns, sig>>
            /\ phase = "none" /\ (~stopped => exit = "failure")
            /\ releases \in Nat
        BY <2>6 DEF Destroy
      <4>2. Work' = Work - 1
        BY <3>2, <4>1
      <4>3. (~stopped' => Work' >= 1) /\ (~stopped' => ~stopped)
        BY <2>0, <3>2, <4>2, Finished
      <4> QED
        BY <3>2, <4>1, <4>3
    <3> QED
      BY <2>6, <3>1, <3>2 DEF Destroy
  <2>7. CASE StopClear \/ Join
    BY <2>7 DEF StopClear, Join
  <2>8. CASE StartCall
    BY <2>8 DEF StartCall
  <2>9. CASE WaitTimeout
    BY <2>9 DEF WaitTimeout
  <2>10. CASE CancelOp
    BY <2>10 DEF CancelOp, TypeOK
  <2>11. CASE WaitDone \/ Unwind
    <3>1. /\ pc \notin Stopping \cup {"ended"}
          /\ pc' \in Calls \cup {"entry", "check", "stop", "ended"}
          /\ pc' = "stop" => exit' = "failure"
          /\ DropFrame /\ UNCHANGED <<owns, releases, sig, stopped>>
      BY <2>11 DEF WaitDone, Unwind, Returns, FlushReturns,
                  HandshakeWriteReturns, HandshakeReadReturns, LoopReturns,
                  NextAttempt
    <3>2. Work' >= Work
      BY <3>1 DEF DropFrame, TypeOK
    <3> QED
      BY <3>1, <3>2 DEF DropFrame
  <2>12. CASE Completion
    BY <2>12 DEF Completion, Continue, ContinueOrphan, Take, TakeFailed,
                TakeFailedOrphan, TakeOrphan, TakeSignal, Idle, TypeOK
  <2>13. CASE Deliver \/ Consume \/ Dangling
    <3>1. /\ UNCHANGED <<orphans, owns, releases, sig, stopped, phase>>
          /\ pc # "ended" /\ io \in Handling \ {"sigClear"} /\ io' \in Handling
          /\ op' = op \/ (op' = "none" /\ io = "deliver")
          /\ (UNCHANGED <<pc, exit>> /\ io' # "deliver") \/ pc' = "ended"
          /\ io' # "sigClear"
      BY <2>13 DEF Deliver, Consume, Dangling, Crash
    <3>2. UNCHANGED op \/ (op' = "none" /\ op \notin Pending)
      BY <3>1
    <3>3. Work' = Work
      BY <3>1, <3>2
    <3> QED
      BY <2>0, <3>1, <3>2, <3>3
  <2>14. CASE Finish
    <3>1. /\ WorkFinished /\ io = "finish" /\ io' = "idle"
          /\ UNCHANGED <<mainVars, callVars, owns, releases, sig>>
      BY <2>14 DEF Finish
    <3>2. Work' = Work - 1
      BY <3>1
    <3>3. (~stopped' => Work' >= 1) /\ (~stopped' => ~stopped)
      BY <2>0, <3>1, <3>2, Finished
    <3> QED
      BY <3>1, <3>3
  <2>15. CASE SigReset \/ SigClear
    <3>1. CASE io' = "sigClear"
      <4>1. /\ WorkFinished /\ io = "sigReset" /\ releases' = releases + 1
            /\ UNCHANGED <<mainVars, callVars, owns, sig>> /\ releases \in Nat
        BY <2>15, <3>1 DEF SigReset, SigClear
      <4>2. Work' = Work - 1
        BY <3>1, <4>1
      <4>3. (~stopped' => Work' >= 1) /\ (~stopped' => ~stopped)
        BY <2>0, <4>1, <4>2, Finished
      <4> QED
        BY <3>1, <4>1, <4>3
    <3>2. CASE io' # "sigClear"
      <4>1. /\ io \in {"sigReset", "sigClear"} /\ io' = "finish"
            /\ UNCHANGED <<mainVars, callVars, releases, sig, stopped>>
            /\ (io = "sigReset" => ~owns /\ owns' = owns)
        BY <2>15, <3>2 DEF SigReset, SigClear
      <4>2. Work' = Work
        BY <4>1
      <4>3. io = "sigReset" \/ releases >= 1
        BY <4>1
      <4> QED
        BY <2>0, <4>1, <4>2, <4>3
    <3> QED
      BY <3>1, <3>2
  <2>16. CASE IoExit \/ PortReady \/ Sigint
    BY <2>16 DEF IoExit, PortReady, Sigint, Outcomes, Idle
  <2>17. CASE OrphanPort
    BY <2>17 DEF OrphanPort, Idle, TypeOK
  <2>18. CASE UNCHANGED vars
    BY <2>18 DEF vars
  <2> QED
    BY <2>1, <2>2, <2>3, <2>4, <2>5, <2>6, <2>7, <2>8, <2>9, <2>10, <2>11,
       <2>12, <2>13, <2>14, <2>15, <2>16, <2>17, <2>18
       DEF Next, Main, Handler, Terminated
<1> QED
  BY <1>1, <1>2, TypeCorrect, CountsInvariant, PTL DEF Spec

(* stopIoThread hangs only after a failed handshake, and only because the  *)
(* signal wait is outstanding or a cancel missed an operation.             *)
THEOREM HangCorrect == Spec => []HangExplained
<1>1. TypeOK /\ Counts /\ WorkInv /\ CallInv => HangExplained
  <2> SUFFICES ASSUME TypeOK, Counts, WorkInv, CallInv, HungInJoin
               PROVE  exit = "failure" /\ (sig = "armed" \/ raced)
    BY DEF HangExplained
  <2>1. /\ pc = "join" /\ io = "idle" /\ ~stopped /\ sig # "raised"
        /\ orphans["partial"] = 0 /\ orphans["ready"] = 0
        /\ orphans["failed"] = 0
    BY DEF HungInJoin
  <2>2. exit = "failure" /\ op = "none" /\ releases >= 1 /\ Work >= 1
    BY <2>1 DEF WorkInv, Stopping, Calls, Loop
  <2>3. One(op \in Pending) = 0 /\ One(io \in Handling) = 0
    BY <2>1, <2>2 DEF One, Pending, Handling
  <2>4. One(sig # "taken") + orphans["waiting"] >= 1
    <3>1. /\ releases \in Nat /\ orphans["waiting"] \in Nat
          /\ One(sig # "taken") \in Nat
      BY DEF Counts, Pending, One
    <3> QED
      BY <2>1, <2>2, <2>3, <3>1 DEF Counts
  <2>5. sig # "taken" \/ orphans["waiting"] # 0
    BY <2>4 DEF One
  <2> QED
    BY <2>1, <2>2, <2>5 DEF CallInv, TypeOK
<1> QED
  BY <1>1, TypeCorrect, CountsInvariant, WorkInvariant, CallInvariant, PTL
=============================================================================
