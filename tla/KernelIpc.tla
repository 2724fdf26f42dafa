----------------------------- MODULE KernelIpc ------------------------------
(***************************************************************************)
(* Threads, endpoints, notifications, reply caps, faults, interrupts and   *)
(* the scheduler of the seL4 kernel SOS runs on (kernel/src/kernel,        *)
(* kernel/src/object, kernel/src/api), in the build of SOS: one core, one  *)
(* domain, no VM support.                                                  *)
(*                                                                         *)
(* A kernel entry is atomic, so an action is a whole entry: the system     *)
(* call, fault or interrupt, then schedule and activateThread (Exit).  The *)
(* state is one record, ks, and an operator that models a C function takes *)
(* the state and returns the state the function leaves.                    *)
(*                                                                         *)
(* A thread's send caps carry the thread itself as badge.  Message         *)
(* contents and cap transfer are left out.                                 *)
(***************************************************************************)
EXTENDS Naturals, Sequences, FiniteSets

CONSTANTS
  Threads,
  Root,       \* the initial thread: runs at boot, holds the management caps
  Idle,       \* the idle thread, not one of Threads
  None,       \* the null pointer and the null cap
  Prios,      \* priorities
  TopPrio,    \* the priority of Root at boot
  WordBits,   \* priorities per word of the second-level bitmap
  TimeSlice,  \* CONFIG_TIME_SLICE
  Eps,
  Ntfns,
  Irqs,
  Slots,      \* CNode slots for saved reply caps
  Granting,   \* threads whose endpoint caps have Grant or GrantReply
  FaultEp     \* the endpoint of each thread's fault handler, or None

ASSUME KernelIpcAssumption ==
  /\ Root \in Threads /\ Idle \notin Threads
  /\ None \notin Threads \cup {Idle} \cup Eps \cup Ntfns
  /\ Prios \subseteq Nat /\ IsFiniteSet(Prios) /\ TopPrio \in Prios
  /\ WordBits \in Nat \ {0} /\ TimeSlice \in Nat \ {0}
  /\ Granting \subseteq Threads
  /\ FaultEp \in [Threads -> Eps \cup {None}]

VARIABLE
  ks  \* the kernel's state:
      \*   ts      thread states: type, blocking object, isCall and whether the
      \*           cap had Grant or GrantReply
      \*   fault   TRUE when tcbFault is not NullFault
      \*   master  TRUE once the master reply cap is set up
      \*   prio, slice, queued   tcbPriority, tcbTimeSlice, tcbQueued
      \*   queues, l1, l2        ksReadyQueues and its bitmaps
      \*   cur, action           ksCurThread, ksSchedulerAction
      \*   ep, ntfn              state and queue; for ntfn also the word and
      \*                         the bound thread
      \*   bound   tcbBoundNotification
      \*   caller, saved   the reply caps: in the caller slots, in Slots
      \*   irq     state, handler and mask of each line
      \*   owed    (ghost) badges signalled and not yet received
      \*   failed  TRUE when an assertion of the kernel has failed

UserBadge == "user"  \* the badge of the threads' notification caps

Blocked ==
  {"Inactive", "BlockedOnReceive", "BlockedOnSend", "BlockedOnNotification",
   "BlockedOnReply"}

TypeOK ==
  /\ ks.ts \in [Threads -> [type : Blocked \cup {"Running", "Restart"},
                            obj : Eps \cup Ntfns \cup {None},
                            call : BOOLEAN, grants : BOOLEAN]]
  /\ ks.fault \in [Threads -> BOOLEAN] /\ ks.master \in [Threads -> BOOLEAN]
  /\ ks.prio \in [Threads -> Prios] /\ ks.slice \in [Threads -> 1 .. TimeSlice]
  /\ ks.queued \in [Threads -> BOOLEAN]
  /\ \A p \in Prios : ks.queues[p] \in Seq(Threads)
  /\ ks.l2 \subseteq Prios /\ ks.l1 \subseteq {p \div WordBits : p \in Prios}
  /\ ks.cur \in Threads \cup {Idle}
  /\ ks.action = "Resume"
  /\ \A e \in Eps : ks.ep[e].state \in {"Idle", "Send", "Recv"}
  /\ \A n \in Ntfns : /\ ks.ntfn[n].state \in {"Idle", "Waiting", "Active"}
                      /\ ks.ntfn[n].word \subseteq {UserBadge} \cup Irqs
  /\ ks.caller \in [Threads -> Threads \cup {None}]
  /\ ks.saved \in [Slots -> Threads \cup {None}]

-----------------------------------------------------------------------------
(* asserts and calls of fail()                                             *)
kassert(k, cond) == [k EXCEPT !.failed = @ \/ ~cond]

isRunnable(k, t) == t \in Threads /\ k.ts[t].type \in {"Running", "Restart"}
isBlocked(k, t) == k.ts[t].type \in Blocked

Without(q, t) == SelectSeq(q, LAMBDA u : u # t)
Highest(S) == CHOOSE p \in S : \A q \in S : q <= p

(* The ready queues and their two bitmaps.                                 *)
addToBitmap(k, p) ==
  [k EXCEPT !.l1 = @ \cup {p \div WordBits}, !.l2 = @ \cup {p}]

(* mutant: the first-level bit goes with the last thread of a priority     *)
removeFromBitmapEarly(k, p) ==
  [k EXCEPT !.l2 = @ \ {p}, !.l1 = @ \ {p \div WordBits}]

removeFromBitmap(k, p) ==
  LET left == k.l2 \ {p} IN
  [k EXCEPT !.l2 = left,
            !.l1 = IF \E q \in left : q \div WordBits = p \div WordBits
                   THEN @ ELSE @ \ {p \div WordBits}]

getHighestPrio(k) ==
  Highest({p \in k.l2 : p \div WordBits = Highest(k.l1)})

isHighestPrio(k, p) == k.l1 = {} \/ p >= getHighestPrio(k)

enqueue(k, t, q) ==
  LET p == k.prio[t] IN
  [(IF k.queues[p] = <<>> THEN addToBitmap(k, p) ELSE k)
     EXCEPT !.queues[p] = q, !.queued[t] = TRUE]

tcbSchedEnqueue(k, t) ==
  IF k.queued[t] THEN k ELSE enqueue(k, t, <<t>> \o k.queues[k.prio[t]])

(* mutant: the thread is linked behind the head, not behind the end        *)
tcbSchedAppendSecond(k, t) ==
  LET q == k.queues[k.prio[t]] IN
  IF k.queued[t] THEN k
  ELSE enqueue(k, t, IF q = <<>> THEN <<t>> ELSE <<q[1], t>> \o Tail(q))

tcbSchedAppend(k, t) ==
  IF k.queued[t] THEN k ELSE enqueue(k, t, Append(k.queues[k.prio[t]], t))

tcbSchedDequeue(k, t) ==
  IF ~k.queued[t] THEN k
  ELSE LET p == k.prio[t]
           q == Without(k.queues[p], t)
       IN [(IF q = <<>> THEN removeFromBitmap(k, p) ELSE k)
             EXCEPT !.queues[p] = q, !.queued[t] = FALSE]

-----------------------------------------------------------------------------
rescheduleRequired(k) ==
  [(IF k.action \in {"Resume", "ChooseNew"} THEN k ELSE tcbSchedEnqueue(k, k.action))
     EXCEPT !.action = "ChooseNew"]

scheduleTCB(k, t) ==
  IF t = k.cur /\ k.action = "Resume" /\ ~isRunnable(k, t)
  THEN rescheduleRequired(k) ELSE k

(* The code leaves the other fields of the state as they are; they are     *)
(* only read in blocked states, which set them (block).                    *)
setThreadState(k, t, type) ==
  scheduleTCB([k EXCEPT !.ts[t] = [type |-> type, obj |-> None,
                                   call |-> FALSE, grants |-> FALSE]], t)

block(k, t, type, obj, call, grants) ==
  scheduleTCB([k EXCEPT !.ts[t] = [type |-> type, obj |-> obj,
                                   call |-> call, grants |-> grants]], t)

possibleSwitchTo(k, t) ==
  IF k.action # "Resume"
  THEN tcbSchedEnqueue(rescheduleRequired(k), t)
  ELSE [k EXCEPT !.action = t]

switchToThread(k, t) == [tcbSchedDequeue(k, t) EXCEPT !.cur = t]

chooseThread(k) ==
  IF k.l1 = {} THEN [k EXCEPT !.cur = Idle]
  ELSE LET t == Head(k.queues[getHighestPrio(k)]) IN
       switchToThread(kassert(k, isRunnable(k, t)), t)

(* mutant: the candidate runs without a look at the ready queues           *)
scheduleAlwaysSwitch(k) ==
  LET k1 == IF isRunnable(k, k.cur) THEN tcbSchedEnqueue(k, k.cur) ELSE k IN
  [(IF k.action = "Resume" THEN k
    ELSE IF k.action = "ChooseNew" THEN chooseThread(k1)
    ELSE switchToThread(k1, k.action)) EXCEPT !.action = "Resume"]

schedule(k) ==
  LET runnable == isRunnable(k, k.cur)
      k1 == IF runnable THEN tcbSchedEnqueue(k, k.cur) ELSE k
      c == k.action
      fastfail == k.cur = Idle \/ k.prio[c] < k.prio[k.cur]
      k2 == IF k.action = "Resume" THEN k
            ELSE IF k.action = "ChooseNew" THEN chooseThread(k1)
            ELSE IF fastfail /\ ~isHighestPrio(k1, k.prio[c])
                 THEN chooseThread(tcbSchedEnqueue(k1, c))
            ELSE IF runnable /\ k.prio[c] = k.prio[k.cur]
                 THEN chooseThread(tcbSchedAppend(k1, c))
            ELSE switchToThread(kassert(k1, c # k.cur), c)
  IN [k2 EXCEPT !.action = "Resume"]

activateThread(k) ==
  IF k.cur = Idle THEN k
  ELSE IF k.ts[k.cur].type = "Restart" THEN setThreadState(k, k.cur, "Running")
  ELSE kassert(k, k.ts[k.cur].type = "Running")

Exit(k) == activateThread(schedule(k))

(* every thread of q is set to Restart and queued                          *)
restartAll(k, q) ==
  LET upTo[i \in 0 .. Len(q)] ==
        IF i = 0 THEN k
        ELSE tcbSchedEnqueue(setThreadState(upTo[i - 1], q[i], "Restart"), q[i])
  IN upTo[Len(q)]

-----------------------------------------------------------------------------
(* Reply caps.  The reply cap made from the master cap of t is the one     *)
(* that follows it in the derivation list.                                 *)
deleteCallerCap(k, t) == [k EXCEPT !.caller[t] = None]

deleteReplyCapOf(k, t) ==
  IF \E u \in Threads : k.caller[u] = t
  THEN [k EXCEPT !.caller[CHOOSE u \in Threads : k.caller[u] = t] = None]
  ELSE IF \E s \in Slots : k.saved[s] = t
  THEN [k EXCEPT !.saved[CHOOSE s \in Slots : k.saved[s] = t] = None]
  ELSE k

setupCallerCap(k, sender, receiver) ==
  [kassert(setThreadState(k, sender, "BlockedOnReply"),
          k.master[sender] /\ k.caller[receiver] = None)
     EXCEPT !.caller[receiver] = sender]

(* Queues of endpoints and notifications.                                  *)
epAppend(k, e, t, state) ==
  [k EXCEPT !.ep[e].queue = Append(@, t), !.ep[e].state = state]

epDequeue(k, e, t) ==
  LET q == Without(k.ep[e].queue, t) IN
  [k EXCEPT !.ep[e].queue = q, !.ep[e].state = IF q = <<>> THEN "Idle" ELSE @]

ntfnDequeue(k, n, t) ==
  LET q == Without(k.ntfn[n].queue, t) IN
  [k EXCEPT !.ntfn[n].queue = q, !.ntfn[n].state = IF q = <<>> THEN "Idle" ELSE @]

sendIPC(k, blocking, call, grants, t, e) ==
  IF k.ep[e].state # "Recv"
  THEN IF blocking
       THEN epAppend(block(k, t, "BlockedOnSend", e, call, grants), e, t, "Send")
       ELSE k
  ELSE LET dest == Head(k.ep[e].queue)
           k1 == possibleSwitchTo(setThreadState(epDequeue(k, e, dest), dest, "Running"),
                                  dest)
       IN IF ~call THEN k1
          ELSE IF grants THEN setupCallerCap(k1, t, dest)
          ELSE setThreadState(k1, t, "Inactive")

(* t takes the word of n                                                   *)
takeWord(k, n) ==
  [k EXCEPT !.owed[n] = @ \ k.ntfn[n].word,
            !.ntfn[n].state = "Idle", !.ntfn[n].word = {}]

(* mutant: a bound notification is not looked at                           *)
receiveIPCUnbound(k, t, e, blocking) ==
  IF k.ep[e].state # "Send"
  THEN IF blocking
       THEN epAppend(block(k, t, "BlockedOnReceive", e, FALSE, FALSE), e, t, "Recv")
       ELSE k
  ELSE LET sender == Head(k.ep[e].queue)
           k1 == epDequeue(k, e, sender)
       IN IF ~k.ts[sender].call
          THEN possibleSwitchTo(setThreadState(k1, sender, "Running"), sender)
          ELSE IF k.ts[sender].grants THEN setupCallerCap(k1, sender, t)
          ELSE setThreadState(k1, sender, "Inactive")

receiveIPC(k, t, e, blocking) ==
  LET n == k.bound[t] IN
  IF n # None /\ k.ntfn[n].state = "Active" THEN takeWord(k, n)
  ELSE IF k.ep[e].state # "Send"
  THEN IF blocking
       THEN epAppend(block(k, t, "BlockedOnReceive", e, FALSE, FALSE), e, t, "Recv")
       ELSE k
  ELSE LET sender == Head(k.ep[e].queue)
           k1 == epDequeue(k, e, sender)
       IN IF ~k.ts[sender].call
          THEN possibleSwitchTo(setThreadState(k1, sender, "Running"), sender)
          ELSE IF k.ts[sender].grants THEN setupCallerCap(k1, sender, t)
          ELSE setThreadState(k1, sender, "Inactive")

(* mutant: the reply cap of a cancelled call stays                         *)
cancelIPCKeepReply(k, t) ==
  LET s == k.ts[t] IN
  IF s.type \in {"BlockedOnSend", "BlockedOnReceive"}
  THEN setThreadState(epDequeue(k, s.obj, t), t, "Inactive")
  ELSE IF s.type = "BlockedOnNotification"
  THEN setThreadState(ntfnDequeue(k, s.obj, t), t, "Inactive")
  ELSE k

cancelIPC(k, t) ==
  LET s == k.ts[t] IN
  IF s.type \in {"BlockedOnSend", "BlockedOnReceive"}
  THEN setThreadState(epDequeue(kassert(k, k.ep[s.obj].state # "Idle"), s.obj, t),
                      t, "Inactive")
  ELSE IF s.type = "BlockedOnNotification"
  THEN setThreadState(ntfnDequeue(kassert(k, k.ntfn[s.obj].state = "Waiting"), s.obj, t),
                      t, "Inactive")
  ELSE IF s.type = "BlockedOnReply"
  THEN deleteReplyCapOf([k EXCEPT !.fault[t] = FALSE], t)
  ELSE k

cancelAllIPC(k, e) ==
  IF k.ep[e].state = "Idle" THEN k
  ELSE rescheduleRequired(restartAll([k EXCEPT !.ep[e] = [state |-> "Idle", queue |-> <<>>]],
                                     k.ep[e].queue))

cancelBadgedSends(k, e, badge) ==
  IF k.ep[e].state # "Send" THEN k
  ELSE LET hit == SelectSeq(k.ep[e].queue, LAMBDA t : t = badge)
           left == SelectSeq(k.ep[e].queue, LAMBDA t : t # badge)
       IN rescheduleRequired(restartAll(
            [k EXCEPT !.ep[e] = [state |-> IF left = <<>> THEN "Idle" ELSE "Send",
                                 queue |-> left]], hit))

-----------------------------------------------------------------------------
(* Notifications.                                                          *)

(* mutant: a signal replaces the word of an active notification            *)
sendSignalReplace(k0, n, badge) ==
  LET k == [k0 EXCEPT !.owed[n] = @ \cup {badge}] IN
  IF k.ntfn[n].state = "Waiting"
  THEN LET dest == Head(k.ntfn[n].queue) IN
       possibleSwitchTo(setThreadState(
         ntfnDequeue([k EXCEPT !.owed[n] = @ \ {badge}], n, dest), dest, "Running"), dest)
  ELSE [k EXCEPT !.ntfn[n].state = "Active", !.ntfn[n].word = {badge}]

sendSignal(k0, n, badge) ==
  LET k == [k0 EXCEPT !.owed[n] = @ \cup {badge}]
      got == [k EXCEPT !.owed[n] = @ \ {badge}]  \* a thread gets the badge
      t == k.ntfn[n].bound
  IN CASE k.ntfn[n].state = "Active" ->
            [k EXCEPT !.ntfn[n].word = @ \cup {badge}]
       [] k.ntfn[n].state = "Waiting" ->
            LET dest == Head(k.ntfn[n].queue) IN
            possibleSwitchTo(setThreadState(ntfnDequeue(got, n, dest), dest, "Running"), dest)
       [] k.ntfn[n].state = "Idle" ->
            IF t # None /\ k.ts[t].type = "BlockedOnReceive"
            THEN possibleSwitchTo(setThreadState(cancelIPC(got, t), t, "Running"), t)
            ELSE [k EXCEPT !.ntfn[n].state = "Active", !.ntfn[n].word = {badge}]

receiveSignal(k, t, n, blocking) ==
  IF k.ntfn[n].state = "Active" THEN takeWord(k, n)
  ELSE IF blocking
  THEN [block(k, t, "BlockedOnNotification", n, FALSE, FALSE)
          EXCEPT !.ntfn[n].queue = Append(@, t), !.ntfn[n].state = "Waiting"]
  ELSE k

cancelAllSignals(k, n) ==
  IF k.ntfn[n].state # "Waiting" THEN k
  ELSE rescheduleRequired(restartAll(
         [k EXCEPT !.ntfn[n].state = "Idle", !.ntfn[n].queue = <<>>], k.ntfn[n].queue))

unbindMaybeNotification(k, n) ==
  LET t == k.ntfn[n].bound IN
  IF t = None THEN k ELSE [k EXCEPT !.ntfn[n].bound = None, !.bound[t] = None]

-----------------------------------------------------------------------------
(* Threads.                                                                *)
suspend(k, t) == tcbSchedDequeue(setThreadState(cancelIPC(k, t), t, "Inactive"), t)

(* mutant: a blocked thread is restarted without leaving its queue         *)
restartInPlace(k, t) ==
  IF ~isBlocked(k, t) THEN k
  ELSE possibleSwitchTo(tcbSchedEnqueue(
         setThreadState([(IF k.ts[t].type = "BlockedOnReply" THEN cancelIPC(k, t) ELSE k)
                           EXCEPT !.master[t] = TRUE], t, "Restart"), t), t)

restart(k, t) ==
  IF ~isBlocked(k, t) THEN k
  ELSE possibleSwitchTo(tcbSchedEnqueue(
         setThreadState([cancelIPC(k, t) EXCEPT !.master[t] = TRUE], t, "Restart"), t), t)

setPriority(k, t, p) ==
  LET k1 == [tcbSchedDequeue(k, t) EXCEPT !.prio[t] = p] IN
  IF isRunnable(k1, t) THEN rescheduleRequired(tcbSchedEnqueue(k1, t)) ELSE k1

handleFault(k, t) ==
  IF FaultEp[t] = None THEN setThreadState(k, t, "Inactive")
  ELSE sendIPC([k EXCEPT !.fault[t] = TRUE], TRUE, TRUE, TRUE, t, FaultEp[t])

(* The reply cap has been deleted from its slot.  go: the handler of a     *)
(* fault lets the thread go on.                                            *)
doReplyTransfer(k, t, go) ==
  LET k1 == kassert([k EXCEPT !.fault[t] = FALSE], k.ts[t].type = "BlockedOnReply") IN
  IF ~k.fault[t] THEN possibleSwitchTo(setThreadState(k1, t, "Running"), t)
  ELSE IF go THEN possibleSwitchTo(setThreadState(k1, t, "Restart"), t)
  ELSE setThreadState(k1, t, "Inactive")

handleReply(k, go) ==
  LET t == k.caller[k.cur] IN
  IF t = None THEN k
  ELSE doReplyTransfer(kassert(deleteCallerCap(k, k.cur), t # k.cur), t, go)

(* mutant: the caller cap stays when the thread receives again             *)
handleRecvKeepCaller(k, e, blocking) == receiveIPC(k, k.cur, e, blocking)

handleRecv(k, e, blocking) ==
  receiveIPC(deleteCallerCap(k, k.cur), k.cur, e, blocking)

handleWait(k, n, blocking) ==
  IF k.ntfn[n].bound \notin {None, k.cur} THEN handleFault(k, k.cur)
  ELSE receiveSignal(k, k.cur, n, blocking)

handleYield(k) == rescheduleRequired(tcbSchedAppend(tcbSchedDequeue(k, k.cur), k.cur))

(* mutant: the slice is not filled up again                                *)
timerTickNoRefill(k) ==
  IF ~isRunnable(k, k.cur) THEN k
  ELSE IF k.slice[k.cur] > 1 THEN [k EXCEPT !.slice[k.cur] = @ - 1]
  ELSE rescheduleRequired(tcbSchedAppend([k EXCEPT !.slice[k.cur] = 0], k.cur))

timerTick(k) ==
  IF ~isRunnable(k, k.cur) THEN k
  ELSE IF k.slice[k.cur] > 1 THEN [k EXCEPT !.slice[k.cur] = @ - 1]
  ELSE rescheduleRequired(tcbSchedAppend([k EXCEPT !.slice[k.cur] = TimeSlice], k.cur))

handleInterrupt(k, i) ==
  LET line == k.irq[i]
      k1 == [k EXCEPT !.irq[i].masked = TRUE]
  IN IF line.state = "Signal" /\ line.handler # None
     THEN sendSignal(k1, line.handler, i) ELSE k1

(* An invocation other than Recv: the thread is set to Restart while the   *)
(* invocation runs, and to Running if it is still so at the end.           *)
Begin(k) == setThreadState(k, k.cur, "Restart")
End(k) == IF k.ts[k.cur].type = "Restart" THEN setThreadState(k, k.cur, "Running") ELSE k

-----------------------------------------------------------------------------
(* At boot only Root runs; the other threads have been created and wait    *)
(* for a Resume.                                                           *)
Init ==
  ks = [ts |-> [t \in Threads |-> [type |-> IF t = Root THEN "Running" ELSE "Inactive",
                                   obj |-> None, call |-> FALSE, grants |-> FALSE]],
        fault |-> [t \in Threads |-> FALSE],
        master |-> [t \in Threads |-> t = Root],
        prio |-> [t \in Threads |-> IF t = Root THEN TopPrio
                                    ELSE CHOOSE p \in Prios : \A q \in Prios : p <= q],
        slice |-> [t \in Threads |-> TimeSlice],
        queued |-> [t \in Threads |-> FALSE],
        queues |-> [p \in Prios |-> <<>>], l1 |-> {}, l2 |-> {},
        cur |-> Root, action |-> "Resume",
        ep |-> [e \in Eps |-> [state |-> "Idle", queue |-> <<>>]],
        ntfn |-> [n \in Ntfns |-> [state |-> "Idle", queue |-> <<>>, word |-> {},
                                   bound |-> None]],
        bound |-> [t \in Threads |-> None],
        caller |-> [t \in Threads |-> None], saved |-> [s \in Slots |-> None],
        irq |-> [i \in Irqs |-> [state |-> "Inactive", handler |-> None,
                                 masked |-> TRUE]],
        owed |-> [n \in Ntfns |-> {}], failed |-> FALSE]

(* the kernel halts on a failed assertion                                  *)
Enter == ~ks.failed
User == Enter /\ ks.cur # Idle
Manager == Enter /\ ks.cur = Root

(* System calls on endpoints, notifications and reply caps.                *)
SysSend(e, blocking) ==
  User /\ ks' = Exit(End(sendIPC(Begin(ks), blocking, FALSE, ks.cur \in Granting, ks.cur, e)))
SysCall(e) == User /\ ks' = Exit(End(sendIPC(Begin(ks), TRUE, TRUE, ks.cur \in Granting, ks.cur, e)))
SysSignal(n) == User /\ ks' = Exit(End(sendSignal(Begin(ks), n, UserBadge)))
SysRecv(e, blocking) == User /\ ks' = Exit(handleRecv(ks, e, blocking))
SysWait(n, blocking) == User /\ ks' = Exit(handleWait(ks, n, blocking))
SysReply(go) == User /\ ks' = Exit(handleReply(ks, go))
SysReplyRecv(e, go) == User /\ ks' = Exit(handleRecv(handleReply(ks, go), e, TRUE))
SysYield == User /\ ks' = Exit(handleYield(ks))

(* seL4_Send on a saved reply cap                                          *)
SendReply(s, go) ==
  /\ ks.saved[s] # None
  /\ Manager /\ ks' = Exit(End(doReplyTransfer([Begin(ks) EXCEPT !.saved[s] = None], ks.saved[s], go)))

(* CNode, TCB and IRQ invocations; a failing one changes nothing.          *)
SaveCaller(s) ==
  /\ ks.saved[s] = None /\ ks.caller[Root] # None
  /\ Manager /\ ks' = Exit(End([Begin(ks) EXCEPT !.saved[s] = ks.caller[Root], !.caller[Root] = None]))
DeleteSaved(s) ==
  /\ ks.saved[s] # None
  /\ Manager /\ ks' = Exit(End([Begin(ks) EXCEPT !.saved[s] = None]))
CancelBadgedSends(e, t) == Manager /\ ks' = Exit(End(cancelBadgedSends(Begin(ks), e, t)))
DestroyEp(e) == Manager /\ ks' = Exit(End(cancelAllIPC(Begin(ks), e)))

(* The object is gone; the model starts over with a new one in its place.  *)
DestroyNtfn(n) ==
  /\ \A i \in Irqs : ks.irq[i].handler # n
  /\ Manager /\ ks' = Exit(End([cancelAllSignals(unbindMaybeNotification(Begin(ks), n), n)
                EXCEPT !.ntfn[n].state = "Idle", !.ntfn[n].word = {}, !.owed[n] = {}]))

TcbSuspend(t) == Manager /\ ks' = Exit(End(suspend(Begin(ks), t)))
TcbResume(t) == Manager /\ ks' = Exit(End(restart(Begin(ks), t)))
TcbSetPriority(t, p) == Manager /\ ks' = Exit(End(setPriority(Begin(ks), t, p)))

(* SOS binds a notification only to its own thread                         *)
TcbBindNotification(n) ==
  /\ ks.bound[Root] = None /\ ks.ntfn[n].queue = <<>> /\ ks.ntfn[n].bound = None
  /\ Manager /\ ks' = Exit(End([Begin(ks) EXCEPT !.ntfn[n].bound = Root, !.bound[Root] = n]))
TcbUnbindNotification ==
  /\ ks.bound[Root] # None
  /\ Manager /\ ks' = Exit(End(unbindMaybeNotification(Begin(ks), ks.bound[Root])))

IrqIssue(i) ==
  /\ ks.irq[i].state = "Inactive"
  /\ Manager /\ ks' = Exit(End([Begin(ks) EXCEPT !.irq[i].state = "Signal", !.irq[i].masked = FALSE]))
IrqSetHandler(i, n) ==
  /\ ks.irq[i].state = "Signal"
  /\ Manager /\ ks' = Exit(End([Begin(ks) EXCEPT !.irq[i].handler = n]))
IrqAck(i) ==
  /\ ks.irq[i].state = "Signal"
  /\ Manager /\ ks' = Exit(End([Begin(ks) EXCEPT !.irq[i].masked = FALSE]))
(* the last handler cap is deleted                                         *)
IrqDelete(i) ==
  /\ ks.irq[i].state = "Signal"
  /\ Manager /\ ks' = Exit(End([Begin(ks) EXCEPT !.irq[i].state = "Inactive", !.irq[i].handler = None,
                               !.irq[i].masked = TRUE]))

(* Faults and interrupts.                                                  *)
Fault == User /\ ks' = Exit(handleFault(ks, ks.cur))
Tick == Enter /\ ks' = Exit(timerTick(ks))
(* a device may raise its line at any time                                *)
Interrupt(i) ==
  /\ ~ks.irq[i].masked
  /\ Enter /\ ks' = Exit(handleInterrupt(ks, i))

Next ==
  \/ \E e \in Eps : \/ SysCall(e) \/ DestroyEp(e)
                    \/ \E b \in BOOLEAN : SysSend(e, b) \/ SysRecv(e, b) \/ SysReplyRecv(e, b)
                    \/ \E t \in Threads : CancelBadgedSends(e, t)
  \/ \E n \in Ntfns : \/ SysSignal(n) \/ DestroyNtfn(n) \/ TcbBindNotification(n)
                      \/ \E b \in BOOLEAN : SysWait(n, b)
                      \/ \E i \in Irqs : IrqSetHandler(i, n)
  \/ \E go \in BOOLEAN : SysReply(go) \/ \E s \in Slots : SendReply(s, go)
  \/ \E s \in Slots : SaveCaller(s) \/ DeleteSaved(s)
  \/ \E t \in Threads : \/ TcbSuspend(t) \/ TcbResume(t)
                        \/ \E p \in Prios : TcbSetPriority(t, p)
  \/ TcbUnbindNotification
  \/ SysYield \/ Fault \/ Tick
  \/ \E i \in Irqs : \/ Interrupt(i) \/ IrqIssue(i) \/ IrqAck(i) \/ IrqDelete(i)

Spec == Init /\ [][Next]_ks

-----------------------------------------------------------------------------
(* Properties.                                                             *)

InQueue(q, t) == \E i \in DOMAIN q : q[i] = t
Distinct(q) == \A i, j \in DOMAIN q : q[i] = q[j] => i = j

(* No assertion of the kernel fails and activateThread never finds the     *)
(* current thread blocked.                                                 *)
NoKernelFailure == ~ks.failed

(* The queue of an endpoint or a notification holds exactly the threads    *)
(* that are blocked on it, once each, and its state says which way they    *)
(* wait (sendIPC, receiveIPC, cancelIPC, sendSignal, receiveSignal); and   *)
(* the state has its type.                                                 *)
QueuesMatchThreads ==
  /\ TypeOK
  /\ \A e \in Eps :
       LET q == ks.ep[e].queue
           waits == IF ks.ep[e].state = "Send" THEN "BlockedOnSend" ELSE "BlockedOnReceive"
       IN /\ Distinct(q)
          /\ (ks.ep[e].state = "Idle") = (q = <<>>)
          /\ \A t \in Threads :
               InQueue(q, t) <=> ks.ts[t].obj = e
          /\ \A t \in Threads : ks.ts[t].obj = e => ks.ts[t].type = waits
  /\ \A n \in Ntfns :
       LET q == ks.ntfn[n].queue IN
       /\ Distinct(q)
       /\ (ks.ntfn[n].state = "Waiting") = (q # <<>>)
       /\ \A t \in Threads : InQueue(q, t) <=> ks.ts[t].obj = n
  /\ \A t \in Threads : /\ ks.bound[t] # None => ks.ntfn[ks.bound[t]].bound = t
                        /\ \A n \in Ntfns : ks.ntfn[n].bound = t => ks.bound[t] = n

(* On exit from the kernel a thread that can run is the current one or in  *)
(* the ready queue of its priority, once; no other thread is in a queue;   *)
(* and the bitmaps show the priorities whose queue is not empty.  No       *)
(* sequence of calls loses a runnable thread.                              *)
RunnableQueued ==
  /\ \A t \in Threads :
       /\ ks.queued[t] <=> isRunnable(ks, t) /\ t # ks.cur
       /\ \A p \in Prios : InQueue(ks.queues[p], t) <=> ks.queued[t] /\ p = ks.prio[t]
  /\ \A p \in Prios : Distinct(ks.queues[p])
  /\ ks.l2 = {p \in Prios : ks.queues[p] # <<>>}
  /\ ks.l1 = {p \div WordBits : p \in ks.l2}

(* The thread that runs has the highest priority of those that can run,    *)
(* and the idle thread runs only when none can (schedule, setPriority,     *)
(* possibleSwitchTo).                                                      *)
HighestRuns ==
  /\ ks.cur = Idle => \A t \in Threads : ~isRunnable(ks, t)
  /\ ks.cur # Idle => /\ ks.ts[ks.cur].type = "Running"
                      /\ \A t \in Threads : isRunnable(ks, t) => ks.prio[t] <= ks.prio[ks.cur]

(* After every entry to the kernel: nobody who can run is lost, and who    *)
(* runs is who should.                                                     *)
SchedulerRight == RunnableQueued /\ HighestRuns

(* There is at most one reply cap to a thread, and who has one has a       *)
(* thread that waits for the reply.                                        *)
ReplyCapsValid ==
  LET places == {<<"caller", u>> : u \in Threads} \cup {<<"slot", s>> : s \in Slots}
      cap(x) == IF x[1] = "caller" THEN ks.caller[x[2]] ELSE ks.saved[x[2]]
  IN /\ \A x \in places : cap(x) # None => ks.ts[cap(x)].type = "BlockedOnReply"
     /\ \A x, y \in places : cap(x) = cap(y) /\ cap(x) # None => x = y

(* A thread never sleeps in a receive while its bound notification holds a *)
(* signal.                                                                 *)
NoSleepOnSignal ==
  \A n \in Ntfns :
    ks.ntfn[n].state = "Active" /\ ks.ntfn[n].bound # None =>
      ks.ts[ks.ntfn[n].bound].type # "BlockedOnReceive"

(* No badge is lost or made up: the word of an active notification holds   *)
(* exactly the badges signalled since a thread last took it, and a thread  *)
(* does not sleep while they wait for it.                                  *)
NoSignalLost == NoSleepOnSignal /\ \A n \in Ntfns : ks.owed[n] = ks.ntfn[n].word

(* A message that a thread waits to send with seL4_Send is delivered as a  *)
(* normal message, not as a report of a fault (doIPCTransfer looks at      *)
(* tcbFault; a fault itself is sent as a call).                            *)
SendsAreNotFaults ==
  \A t \in Threads :
    ks.ts[t].type = "BlockedOnSend" /\ ~ks.ts[t].call => ~ks.fault[t]

(* The kernel's timer keeps ticking.  A tick that changes nothing finds no *)
(* other thread ready at the priority that runs, so this asks no more of   *)
(* the timer than weak fairness where RoundRobin is at stake.              *)
FairSpec == Spec /\ []<><<Tick>>_ks

TopReady(t) == isRunnable(ks, t) /\ (ks.cur # Idle => ks.prio[t] = ks.prio[ks.cur])

(* Round robin: a thread that stays ready at the priority that runs gets   *)
(* to run, whatever the others do (timerTick, the ends at which the queues *)
(* are joined).                                                            *)
RoundRobin == \A t \in Threads : []<>(~TopReady(t) \/ ks.cur = t)
=============================================================================
