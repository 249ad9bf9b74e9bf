--------------------------- MODULE SomController ---------------------------
(***************************************************************************)
(* The two threads of the SoM process (impl/src/som/main.cpp): the main    *)
(* thread constructs SomController, handshakes with the MCU and runs the   *)
(* control loop; the IO thread runs m_ioService.                           *)
(*                                                                         *)
(* Every call on SerialController (flush, readPacket, writePacket) starts  *)
(* one asynchronous operation and waits, with a timeout, for a promise     *)
(* that lives in the caller's stack frame and that the operation's handler *)
(* captured by reference.  A call that gives up cancels the port, which    *)
(* aborts only operations still waiting in the reactor.  What is left of   *)
(* an operation once its frame is gone is an orphan.                       *)
(*                                                                         *)
(* Boost.Asio is external and modelled from what the code relies on:       *)
(* run() returns once the service is stopped, the service stops itself     *)
(* when its outstanding work drops to zero, stopped is sticky, and the     *)
(* guard, the signal wait and every unfinished operation are work.         *)
(***************************************************************************)
EXTENDS Integers

CONSTANTS
  HandshakeAttempts,  \* c_handshakeAttempts
  MaxOrphans,         \* bound: orphans whose handler can still succeed
  MaxFailed           \* bound: aborted operations queued when a wait expires

ASSUME AttemptsAssumption == HandshakeAttempts \in Nat
ASSUME BoundsAssumption == MaxOrphans \in Nat /\ MaxFailed \in Nat

VARIABLES
  pc,        \* where the main thread is
  phase,     \* how far the current SerialController call has got
  op,        \* the operation the current call started
  promise,   \* the current call's promise is fulfilled
  attempts,  \* i in handshakeMCU
  exit,      \* the status the process ends with, once decided
  io,        \* where the IO thread is
  orphans,   \* operations whose call has returned, counted by state
  owns,      \* m_worker.owns_
  releases,  \* work_finished calls made on behalf of m_worker
  sig,       \* the wait on m_signalSet
  stopped,   \* m_ioService.stopped()
  flushed,   \* history: flush's handler has consumed the stream buffer
  raced      \* history: a cancel met an operation already completing

mainVars == <<pc, phase, attempts, exit>>
callVars == <<op, promise, orphans>>
guardVars == <<owns, releases, sig, stopped>>
history == <<flushed, raced>>
vars == <<mainVars, callVars, io, guardVars, history>>

Writes == {"hsWrite", "writeCs"}
Loop == {"readRc", "readImu", "writeCs"}
Calls == {"flush", "hsWrite", "hsRead"} \cup Loop
Stopping == {"stop", "stopClear", "dtor", "join"}

Pending == {"waiting", "partial", "ready", "failed"}
Completing == {"partial", "ready", "running"}
Handling == {"deliver", "consume", "orphan", "sigReset", "sigClear", "finish"}

LiveOrphans == orphans["waiting"] + orphans["partial"] + orphans["ready"]

One(b) == IF b THEN 1 ELSE 0

(* scheduler::outstanding_work_: m_worker's share is 1 until released, and *)
(* undefined behaviour may release it more than once.                      *)
Work == (1 - releases) + One(sig # "taken") + One(op \in Pending)
          + LiveOrphans + orphans["failed"] + One(io \in Handling)

(* scheduler::work_finished, called with the work still counted.           *)
WorkFinished == stopped' = (stopped \/ Work = 1)

Init ==
  /\ pc = "construct" /\ phase = "none" /\ attempts = 0 /\ exit = "none"
  /\ op = "none" /\ promise = FALSE /\ orphans = [s \in Pending |-> 0]
  /\ io = "off"
  /\ owns = TRUE /\ releases = 0 /\ sig = "armed" /\ stopped = FALSE
  /\ flushed = FALSE /\ raced = FALSE

-----------------------------------------------------------------------------
(* The main thread outside the serial calls.                               *)

Goto(l) == pc' = l /\ UNCHANGED <<attempts, exit>>
Exit(status) == pc' = "ended" /\ exit' = status /\ UNCHANGED attempts
Leave(status) == pc' = "stop" /\ exit' = status /\ attempts' = 0

(* The constructor either reaches its end or fails one of its assertions.  *)
Construct ==
  /\ pc = "construct"
  /\ Goto("startIo") \/ Exit("assert")
  /\ UNCHANGED <<phase, callVars, io, guardVars, history>>

StartIoThread ==
  /\ pc = "startIo"
  /\ io' = "idle"
  /\ Goto("flush")
  /\ UNCHANGED <<phase, callVars, guardVars, history>>

(* Entry of runMainLoop: telemetry, the delay, and the assertion.          *)
Entry ==
  /\ pc = "entry"
  /\ \/ stopped /\ Exit("assert_entry")
     \/ ~stopped /\ Goto("check")
  /\ UNCHANGED <<phase, callVars, io, guardVars, history>>

Check ==
  /\ pc = "check"
  /\ \/ stopped /\ Leave("ok")
     \/ ~stopped /\ Goto("readRc")
  /\ UNCHANGED <<phase, callVars, io, guardVars, history>>

(* Mutant: m_worker is taken to be released by the destructor calls alone. *)
StopReset_Forgets ==
  /\ pc = "stop"
  /\ \/ owns /\ Goto("stopClear")
     \/ ~owns /\ Goto("dtor")
  /\ UNCHANGED <<phase, callVars, io, guardVars, history>>

(* stopIoThread: m_worker.reset() tests owns_, finishes the work, and then *)
(* clears owns_; the signal handler runs the same two steps.               *)
StopReset ==
  /\ pc = "stop"
  /\ \/ owns /\ releases' = releases + 1 /\ WorkFinished /\ Goto("stopClear")
     \/ ~owns /\ Goto("dtor") /\ UNCHANGED <<releases, stopped>>
  /\ UNCHANGED <<phase, callVars, io, owns, sig, history>>

StopClear ==
  /\ pc = "stopClear"
  /\ owns' = FALSE
  /\ Goto("dtor")
  /\ UNCHANGED <<phase, callVars, io, releases, sig, stopped, history>>

(* The first explicit destructor call sees owns_ false.  The second acts   *)
(* on an object whose lifetime has ended: owns_ reads as anything.         *)
Destroy ==
  /\ pc = "dtor"
  /\ \/ releases' = releases + 1 /\ WorkFinished
     \/ UNCHANGED <<releases, stopped>>
  /\ Goto("join")
  /\ UNCHANGED <<phase, callVars, io, owns, sig, history>>

Join ==
  /\ pc = "join"
  /\ io = "ended"
  /\ Goto("ended")
  /\ UNCHANGED <<phase, callVars, io, guardVars, history>>

-----------------------------------------------------------------------------
(* What the caller of each serial call does with its result.               *)

(* Mutant: one attempt too many.                                           *)
NextAttempt_OffByOne(i) ==
  \/ i <= HandshakeAttempts /\ pc' = "hsRead" /\ attempts' = i /\ UNCHANGED exit
  \/ i > HandshakeAttempts /\ Leave("failure")

NextAttempt(i) ==
  \/ i < HandshakeAttempts /\ pc' = "hsRead" /\ attempts' = i /\ UNCHANGED exit
  \/ i >= HandshakeAttempts /\ Leave("failure")

(* Mutant: the acknowledgement is awaited before anything is written.      *)
FlushReturns_ReadsAtOnce(ok) ==
  /\ pc = "flush"
  /\ \/ ok /\ Goto("hsRead")
     \/ ~ok /\ Exit("assert")

FlushReturns(ok) ==
  /\ pc = "flush"
  /\ \/ ok /\ Goto("hsWrite")
     \/ ~ok /\ Exit("assert")

(* Mutant: a failed handshake write is only logged.                        *)
HandshakeWriteReturns_Ignored(ok) == pc = "hsWrite" /\ NextAttempt(0)

HandshakeWriteReturns(ok) ==
  /\ pc = "hsWrite"
  /\ \/ ok /\ NextAttempt(0)
     \/ ~ok /\ Leave("failure")

(* Mutant: a read that fails does not use up an attempt.                   *)
HandshakeReadReturns_NoCount(ok) ==
  /\ pc = "hsRead"
  /\ \/ ok /\ pc' = "entry" /\ attempts' = 0 /\ UNCHANGED exit
     \/ NextAttempt(attempts)

(* A packet that arrives matches or not; a timeout never matches.          *)
HandshakeReadReturns(ok) ==
  /\ pc = "hsRead"
  /\ \/ ok /\ pc' = "entry" /\ attempts' = 0 /\ UNCHANGED exit
     \/ NextAttempt(attempts + 1)

(* The loop counts successes and timeouts and goes on in either case.      *)
LoopReturns ==
  \/ pc = "readRc" /\ Goto("readImu")
  \/ pc = "readImu" /\ Goto("writeCs")
  \/ pc = "writeCs" /\ Goto("check")

Returns(ok) ==
  \/ FlushReturns(ok) \/ HandshakeWriteReturns(ok)
  \/ HandshakeReadReturns(ok) \/ LoopReturns

-----------------------------------------------------------------------------
(* The protocol shared by flush, readPacket and writePacket.               *)

(* What a transfer on a ready port can come to.  A write of a few bytes is *)
(* never cut short.                                                        *)
Outcomes == {"ready", "failed"} \cup IF pc \in Writes THEN {} ELSE {"partial"}

(* The initiating function tries the transfer at once, unless another read *)
(* is already queued in the reactor, and otherwise queues it.              *)
Started ==
  {"waiting"} \cup IF pc \notin Writes /\ orphans["waiting"] > 0
                   THEN {} ELSE Outcomes

StartCall ==
  /\ pc \in Calls /\ phase = "none"
  /\ phase' = "wait"
  /\ op' \in Started
  /\ UNCHANGED <<pc, attempts, exit, promise, orphans, io, guardVars, history>>

(* The frame goes away with the promise: an unfinished operation becomes   *)
(* an orphan, and a handler in mid-run is left with a dangling reference.  *)
DropFrame ==
  /\ phase' = "none" /\ op' = "none" /\ promise' = FALSE
  /\ \/ op \in Pending /\ orphans' = [orphans EXCEPT ![op] = @ + 1]
     \/ op \notin Pending /\ UNCHANGED orphans
  /\ io' = IF op = "running" THEN "orphan" ELSE io

WaitDone ==
  /\ phase = "wait" /\ promise
  /\ DropFrame
  /\ Returns(TRUE)
  /\ UNCHANGED <<guardVars, history>>

(* wait_for gives up.  Bounds: a completion may come too late only while   *)
(* fewer than MaxOrphans of them are about, and by the time a wait of      *)
(* hundreds of milliseconds expires fewer than MaxFailed of the operations *)
(* that earlier cancels aborted are still queued.                          *)
WaitTimeout ==
  /\ phase = "wait" /\ ~promise
  /\ op \in Completing
       => LiveOrphans < MaxOrphans \/ stopped
  /\ orphans["failed"] < MaxFailed \/ stopped
  /\ phase' = "cancel"
  /\ UNCHANGED <<pc, attempts, exit, callVars, io, guardVars, history>>

(* Mutants: the timeout does not cancel; it stops the service instead.     *)
CancelOp_Dropped ==
  /\ phase = "cancel" /\ phase' = "unwind"
  /\ raced' = (raced \/ op \in Completing)
  /\ UNCHANGED <<pc, attempts, exit, callVars, io, guardVars, flushed>>

CancelOp_StopsService ==
  /\ phase = "cancel" /\ phase' = "unwind"
  /\ stopped' = TRUE
  /\ raced' = (raced \/ op \in Completing)
  /\ UNCHANGED <<pc, attempts, exit, callVars, io, owns, releases, sig, flushed>>

(* m_serialPort.cancel() aborts what waits in the reactor and nothing else *)
CancelOp ==
  /\ phase = "cancel"
  /\ phase' = "unwind"
  /\ op' = IF op = "waiting" THEN "failed" ELSE op
  /\ orphans' = [orphans EXCEPT !["waiting"] = 0,
                                !["failed"] = @ + orphans["waiting"]]
  /\ raced' = (raced \/ op \in Completing)
  /\ UNCHANGED <<pc, attempts, exit, promise, io, guardVars, flushed>>

Unwind ==
  /\ phase = "unwind"
  /\ DropFrame
  /\ Returns(FALSE)
  /\ UNCHANGED <<guardVars, history>>

-----------------------------------------------------------------------------
(* The IO thread.                                                          *)

Idle == io = "idle" /\ pc # "ended" /\ ~stopped

(* The reactor finds the port ready: data (all of it or a part), room for  *)
(* a write, or an error.                                                   *)
PortReady ==
  /\ Idle
  /\ op = "waiting"
  /\ phase = "wait" \/ LiveOrphans < MaxOrphans
  /\ op' \in Outcomes
  /\ UNCHANGED <<mainVars, promise, orphans, io, guardVars, history>>

OrphanPort ==
  /\ Idle
  /\ orphans["waiting"] > 0
  /\ \E s \in {"partial", "ready", "failed"} :
       orphans' = [orphans EXCEPT !["waiting"] = @ - 1, ![s] = @ + 1]
  /\ UNCHANGED <<mainVars, op, promise, io, guardVars, history>>

(* A composed read that has only a part waits again for the rest.          *)
Continue ==
  /\ Idle
  /\ op = "partial"
  /\ op' = "waiting"
  /\ UNCHANGED <<mainVars, promise, orphans, io, guardVars, history>>

ContinueOrphan ==
  /\ Idle
  /\ orphans["partial"] > 0
  /\ orphans' = [orphans EXCEPT !["partial"] = @ - 1, !["waiting"] = @ + 1]
  /\ UNCHANGED <<mainVars, op, promise, io, guardVars, history>>

(* The handler is called with success.                                     *)
Take ==
  /\ Idle
  /\ op = "ready"
  /\ op' = "running" /\ io' = "deliver"
  /\ UNCHANGED <<mainVars, promise, orphans, guardVars, history>>

(* The handler is called with an error and returns without a word.         *)
TakeFailed ==
  /\ Idle
  /\ op = "failed"
  /\ op' = "none" /\ io' = "finish"
  /\ UNCHANGED <<mainVars, promise, orphans, guardVars, history>>

TakeFailedOrphan ==
  /\ Idle
  /\ orphans["failed"] > 0
  /\ orphans' = [orphans EXCEPT !["failed"] = @ - 1] /\ io' = "finish"
  /\ UNCHANGED <<mainVars, op, promise, guardVars, history>>

TakeOrphan ==
  /\ Idle
  /\ orphans["ready"] > 0
  /\ orphans' = [orphans EXCEPT !["ready"] = @ - 1] /\ io' = "orphan"
  /\ UNCHANGED <<mainVars, op, promise, guardVars, history>>

Crash == pc' = "ended" /\ exit' = "crash" /\ UNCHANGED <<phase, attempts>>

(* set_value on the caller's live promise.  flush's handler still has to   *)
(* consume; a promise already satisfied throws through run().              *)
Deliver ==
  /\ io = "deliver" /\ pc # "ended"
  /\ op' = "none"
  /\ \/ /\ ~promise /\ promise' = TRUE
        /\ io' = IF pc = "flush" THEN "consume" ELSE "finish"
        /\ UNCHANGED mainVars
     \/ promise /\ Crash /\ UNCHANGED <<promise, io>>
  /\ UNCHANGED <<orphans, guardVars, history>>

Consume ==
  /\ io = "consume" /\ pc # "ended"
  /\ io' = "finish" /\ flushed' = TRUE
  /\ UNCHANGED <<mainVars, callVars, guardVars, raced>>

(* set_value through a dangling reference, undefined: the value is lost,   *)
(* or lands in the promise that now has the frame, or the process dies.    *)
Dangling ==
  /\ io = "orphan" /\ pc # "ended"
  /\ \/ UNCHANGED <<mainVars, promise>> /\ io' = "finish"
     \/ /\ phase # "none" /\ ~promise /\ promise' = TRUE
        /\ io' = "finish" /\ UNCHANGED mainVars
     \/ Crash /\ UNCHANGED <<promise, io>>
  /\ UNCHANGED <<op, orphans, guardVars, history>>

(* The handler has returned; its work is done.                             *)
Finish ==
  /\ io = "finish" /\ pc # "ended"
  /\ io' = "idle" /\ WorkFinished
  /\ UNCHANGED <<mainVars, callVars, owns, releases, sig, history>>

TakeSignal ==
  /\ Idle
  /\ sig = "raised"
  /\ sig' = "taken" /\ io' = "sigReset"
  /\ UNCHANGED <<mainVars, callVars, owns, releases, stopped, history>>

(* Mutant: the signal handler logs and leaves m_worker alone.              *)
SigReset_Dropped ==
  /\ io = "sigReset" /\ pc # "ended"
  /\ io' = "finish"
  /\ UNCHANGED <<mainVars, callVars, guardVars, history>>

(* m_worker.reset() on this thread; once Destroy has run, owns_ reads as   *)
(* anything here as well.                                                  *)
SigReset ==
  /\ io = "sigReset" /\ pc # "ended"
  /\ \/ /\ owns \/ pc = "join"
        /\ releases' = releases + 1 /\ WorkFinished /\ io' = "sigClear"
     \/ ~owns /\ io' = "finish" /\ UNCHANGED <<releases, stopped>>
  /\ UNCHANGED <<mainVars, callVars, owns, sig, history>>

SigClear ==
  /\ io = "sigClear" /\ pc # "ended"
  /\ owns' = FALSE /\ io' = "finish"
  /\ UNCHANGED <<mainVars, callVars, releases, sig, stopped, history>>

IoExit ==
  /\ io = "idle" /\ pc # "ended" /\ stopped
  /\ io' = "ended"
  /\ UNCHANGED <<mainVars, callVars, guardVars, history>>

-----------------------------------------------------------------------------
(* SIGINT.  Only the first one has a handler waiting for it.               *)
Sigint ==
  /\ sig = "armed" /\ pc # "ended"
  /\ sig' = "raised"
  /\ UNCHANGED <<mainVars, callVars, io, owns, releases, stopped, history>>

Terminated == pc = "ended" /\ UNCHANGED vars

Main ==
  \/ Construct \/ StartIoThread \/ Entry \/ Check
  \/ StopReset \/ StopClear \/ Destroy \/ Join
  \/ StartCall \/ WaitDone \/ WaitTimeout \/ CancelOp \/ Unwind

Completion ==
  \/ Continue \/ ContinueOrphan \/ Take \/ TakeFailed
  \/ TakeFailedOrphan \/ TakeOrphan \/ TakeSignal

Handler ==
  \/ Deliver \/ Consume \/ Dangling \/ Finish \/ SigReset \/ SigClear

Next ==
  \/ Main \/ Completion \/ Handler \/ IoExit
  \/ PortReady \/ OrphanPort \/ Sigint \/ Terminated

Spec == Init /\ [][Next]_vars

(* The IO thread has nothing left to run while the main thread is between  *)
(* two operations.                                                         *)
CaughtUp == phase = "none" /\ orphans["failed"] = 0 /\ io \notin Handling

(* Both threads are scheduled, and the service's queue is first-in-first-  *)
(* out, so each completion's turn comes.  Main is strongly fair because    *)
(* only the bounds can keep a call from timing out.  The last conjunct is  *)
(* about real time: between two operations the main thread writes log      *)
(* records and, once in each iteration, sends telemetry, so the IO thread  *)
(* does not stay a whole operation behind for ever.                        *)
Fairness ==
  /\ SF_vars(Main)
  /\ WF_vars(Completion \/ Handler \/ IoExit)
  /\ SF_vars(Continue) /\ SF_vars(Take)
  /\ SF_vars(TakeFailedOrphan) /\ SF_vars(TakeSignal)
  /\ []<>(CaughtUp \/ stopped \/ pc = "ended")

FairSpec == Spec /\ Fairness

-----------------------------------------------------------------------------
TypeOK ==
  /\ pc \in Calls \cup Stopping
            \cup {"construct", "startIo", "entry", "check", "ended"}
  /\ phase \in {"none", "wait", "cancel", "unwind"}
  /\ op \in Pending \cup {"none", "running"}
  /\ promise \in BOOLEAN
  /\ attempts \in Nat /\ (attempts = 0 \/ attempts < HandshakeAttempts)
  /\ exit \in {"none", "ok", "failure", "assert", "assert_entry", "crash"}
  /\ io \in {"off", "idle", "ended"} \cup Handling
  /\ orphans \in [Pending -> Nat]
  /\ owns \in BOOLEAN /\ releases \in Nat
  /\ sig \in {"armed", "raised", "taken"}
  /\ stopped \in BOOLEAN /\ flushed \in BOOLEAN /\ raced \in BOOLEAN

(* A handler runs on a frame that is gone, or the process dies of it, only *)
(* after a timeout whose cancel met an operation already completing: the   *)
(* cancel in readPacket, writePacket and flush covers every other timeout. *)
DanglingOnlyAfterRace ==
  ~raced => /\ LiveOrphans = 0
            /\ io # "orphan"
            /\ exit # "crash"

(* The service stops, and the control loop with it, only because SIGINT    *)
(* was handled or the main thread is inside stopIoThread: no pattern of    *)
(* timeouts, errors or late completions uses up the outstanding work.      *)
StopsOnlyWhenAsked ==
  stopped => sig = "taken" \/ pc \in Stopping \cup {"ended"}

(* flush fulfils its promise before it consumes the buffer, so it may      *)
(* return with the old bytes still there; the handshake write, which needs *)
(* the same IO thread, closes that window before the first packet is read. *)
FlushConsumedBeforeRead ==
  pc \in {"hsRead", "entry", "check"} \cup Loop => flushed

(* m_streamBuffer has no lock: when the main thread is about to start a    *)
(* read, which prepares space in it, no handler on the IO thread is in     *)
(* mid-commit or mid-consume and no earlier read can still get there,      *)
(* unless a cancel has met an operation already completing.                *)
BufferExclusive ==
  ~raced /\ pc \in Calls \ Writes /\ phase = "none"
    => LiveOrphans = 0 /\ io \notin {"deliver", "consume", "orphan"}

(* stopIoThread waits for an IO thread that has nothing left to run and    *)
(* never returns from run(): only after a handshake that failed, and only  *)
(* because the wait for SIGINT is still outstanding, or an operation that  *)
(* a cancel has missed.  However the two threads' releases of m_worker     *)
(* interleave, the work they leave is never lost count of.                 *)
HungInJoin ==
  /\ pc = "join" /\ io = "idle" /\ ~stopped /\ sig # "raised"
  /\ \A s \in {"partial", "ready", "failed"} : orphans[s] = 0

HangExplained == HungInJoin => exit = "failure" /\ (sig = "armed" \/ raced)

(* handshakeMCU comes to a verdict whatever the MCU sends or fails to send *)
HandshakeDecides == pc = "flush" ~> pc \in {"entry", "stop", "ended"}

(* SIGINT ends the process from wherever it is, whether the port answers   *)
(* or not: once the handler has released m_worker, the service runs out of *)
(* work between two operations of the main thread.  Only an orphan that    *)
(* keeps fulfilling the next call's promise can put that off.              *)
SigintEndsProcess == sig = "raised" ~> pc = "ended" \/ raced

(* stopIoThread's doc: it may hang until one loop cycle has completed, so  *)
(* it returns.                                                             *)
StopIoThreadReturns == pc = "join" ~> pc = "ended"
=============================================================================
