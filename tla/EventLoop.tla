----------------------------- MODULE EventLoop ------------------------------
(***************************************************************************)
(* The event loop of SOS (syscall_loop and handle_syscall in               *)
(* sos/rusos/src/lib.rs) together with the network callbacks               *)
(* (sos/src/network.c), composed with the interrupt dispatch of            *)
(* IrqDispatch.  The behaviours start when network_init has registered the *)
(* lines of the network device and of the watchdog.                        *)
(*                                                                         *)
(* Every packet and every network timeout depends on these two lines, and  *)
(* every client on the loop coming back to seL4_Recv.                      *)
(***************************************************************************)
EXTENDS IrqDispatch, Sequences

CONSTANTS
  Clients,    \* processes with a cap to the endpoint (SOS starts one)
  RingSize,   \* receive descriptors of the network device
  LoopScore,  \* packets pico_eth_poll may take in a tick
  NumSlots    \* slots of the cspace left for reply caps

NoClient == "nobody"

ASSUME EventLoopAssumption ==
  /\ {"net", "wdog"} \subseteq Irqs /\ NumBits >= 2
  /\ IsFiniteSet(Clients) /\ NoClient \notin Clients
  /\ RingSize \in Nat \ {0}
  /\ LoopScore \in Nat \ {0}
  /\ NumSlots \in Nat

VARIABLES
  rx,      \* packets in the ring
  unseen,  \* TRUE when one of them has come since the stack last ran
  status,  \* interrupt status of the network device; its line has an edge
           \* when the status gets set
  armed,   \* TRUE while the watchdog counts down
  client,  \* "run", "wait" for the loop, or "parked" without an answer
  sysno,   \* number of the system call a client waits for, else 0
  ep,      \* queue of the endpoint
  slots,   \* free slots for reply caps
  null     \* the client whose reply cap is in slot 0, or NoClient

netVars == <<rx, unseen, status, armed>>
ipcVars == <<client, sysno, ep, slots, null>>
allVars == <<dispatchVars, netVars, ipcVars>>

Sysnos == 0 .. 3   \* 3: a number handle_syscall does not know

LoopStages ==
  {"recv", "net", "net_cleared", "net_acked", "wdog", "wdog_reset", "abort"}

-----------------------------------------------------------------------------
LoopInit ==
  /\ allocated = {0, 1}
  /\ handler = [b \in Bits |-> IF b = 0 THEN "net" ELSE IF b = 1 THEN "wdog" ELSE NoIrq]
  /\ nullcap = FALSE
  /\ latched = {} /\ masked = {} /\ word = {}
  /\ badge = {} /\ unchecked = {}
  /\ stage = "recv"
  /\ rx = 0 /\ unseen = FALSE /\ status = FALSE /\ armed = TRUE
  /\ client = [c \in Clients |-> "run"]
  /\ sysno = [c \in Clients |-> 0]
  /\ ep = <<>>
  /\ slots = NumSlots
  /\ null = NoClient

(* mutant: no limit                                                        *)
ArriveUnbounded ==
  /\ rx <= RingSize
  /\ rx' = rx + 1
  /\ unseen' = TRUE
  /\ status' = TRUE
  /\ latched' = latched \cup {"net"}
  /\ UNCHANGED <<irqVars, masked, word, loopVars, armed, ipcVars>>

(* a packet arrives; it is dropped when the ring is full                   *)
Arrive ==
  /\ rx < RingSize
  /\ rx' = rx + 1
  /\ unseen' = TRUE
  /\ status' = TRUE
  /\ latched' = IF status THEN latched ELSE latched \cup {"net"}
  /\ UNCHANGED <<irqVars, masked, word, loopVars, armed, ipcVars>>

(* a millisecond after watchdog_reset                                      *)
Expire ==
  /\ armed
  /\ armed' = FALSE
  /\ latched' = latched \cup {"wdog"}
  /\ UNCHANGED <<irqVars, masked, word, loopVars, rx, unseen, status, ipcVars>>

Interrupt(irq) == Deliver(irq) /\ UNCHANGED <<netVars, ipcVars>>

(* the callback of the lowest bit set is entered                           *)
Enter(set) ==
  stage' = IF set = {} THEN "recv"
           ELSE handler[CHOOSE b \in set : \A c \in set : b <= c]

RecvNotification ==
  /\ stage = "recv" /\ word # {}
  /\ badge' = word
  /\ unchecked' = word \cap allocated
  /\ word' = {}
  /\ Enter(unchecked')
  /\ UNCHANGED <<irqVars, latched, masked, netVars, ipcVars>>

(* the callback returns 0, and the next bit is looked at                   *)
CallbackDone ==
  /\ badge' = badge \ {Bit}
  /\ unchecked' = unchecked \cap badge'
  /\ Enter(unchecked')

(* mutant: the loop of pico_eth_poll ends one packet early                  *)
TickShort ==
  /\ rx' = IF rx > LoopScore - 1 THEN rx - (LoopScore - 1) ELSE 0
  /\ unseen' = FALSE

(* network_tick_internal: pico_eth_poll takes packets while there are some *)
Tick ==
  /\ rx' = IF rx > LoopScore THEN rx - LoopScore ELSE 0
  /\ unseen' = FALSE

(* mutant: without ethif_irq                                               *)
NetClearNot ==
  /\ stage = "net"
  /\ stage' = "net_cleared"
  /\ UNCHANGED <<irqVars, lineVars, badge, unchecked, netVars, ipcVars>>

(* network_irq: ethif_irq clears the status of the device, ...             *)
NetClear ==
  /\ stage = "net"
  /\ stage' = "net_cleared"
  /\ status' = FALSE
  /\ UNCHANGED <<irqVars, lineVars, badge, unchecked, rx, unseen, armed, ipcVars>>

(* ... the line is acknowledged, ...                                       *)
NetAck ==
  /\ stage = "net_cleared"
  /\ stage' = "net_acked"
  /\ AckLine
  /\ UNCHANGED <<irqVars, latched, word, badge, unchecked, netVars, ipcVars>>

(* ... and the stack is run                                                *)
NetTick ==
  /\ stage = "net_acked"
  /\ Tick
  /\ CallbackDone
  /\ UNCHANGED <<irqVars, lineVars, status, armed, ipcVars>>

(* mutant: without watchdog_reset                                          *)
WdogTickNoReset ==
  /\ stage = "wdog"
  /\ stage' = "wdog_reset"
  /\ Tick
  /\ UNCHANGED <<irqVars, lineVars, badge, unchecked, status, armed, ipcVars>>

(* network_tick: run the stack and restart the watchdog, ...               *)
WdogTick ==
  /\ stage = "wdog"
  /\ stage' = "wdog_reset"
  /\ Tick
  /\ armed' = TRUE
  /\ UNCHANGED <<irqVars, lineVars, badge, unchecked, status, ipcVars>>

(* ... then acknowledge the line                                           *)
WdogAck ==
  /\ stage = "wdog_reset"
  /\ AckLine
  /\ CallbackDone
  /\ UNCHANGED <<irqVars, latched, word, netVars, ipcVars>>

(* a client makes a system call: seL4_Call on the endpoint                 *)
Call(c, n) ==
  /\ client[c] = "run"
  /\ client' = [client EXCEPT ![c] = "wait"]
  /\ sysno' = [sysno EXCEPT ![c] = n]
  /\ ep' = Append(ep, c)
  /\ UNCHANGED <<irqVars, lineVars, loopVars, netVars, slots, null>>

(* mutant: the slot of an answered call is not freed                       *)
HandleSyscallLeaks(c, n) ==
  /\ client' = [client EXCEPT ![c] = IF n = 0 THEN "run" ELSE "parked"]
  /\ slots' = IF slots > 0 THEN slots - 1 ELSE 0
  /\ UNCHANGED null

(* mutant: every reply cap is saved in slot 0                              *)
HandleSyscallNoSlot(c, n) ==
  /\ client' = [d \in Clients |->
                  IF n = 0 /\ d = (IF null = NoClient THEN c ELSE null) THEN "run"
                  ELSE IF d = c THEN "parked" ELSE client[d]]
  /\ null' = IF n = 0 THEN NoClient ELSE IF null = NoClient THEN c ELSE null
  /\ UNCHANGED slots

(* handle_syscall once the number is read: the system call is answered     *)
(* only when the number is 0, and only then is the slot freed.  Without a  *)
(* slot the reply cap goes to slot 0, or nowhere when that is taken; a     *)
(* send to slot 0 then answers whoever's cap is there.                     *)
HandleSyscall(c, n) ==
  LET to == IF slots > 0 \/ null = NoClient THEN c ELSE null
  IN  IF n = 0
      THEN /\ client' = [d \in Clients |-> IF d = to THEN "run"
                                            ELSE IF d = c THEN "parked"
                                            ELSE client[d]]
           /\ null' = IF slots > 0 THEN null ELSE NoClient
           /\ UNCHANGED slots
      ELSE /\ client' = [client EXCEPT ![c] = "parked"]
           /\ slots' = IF slots > 0 THEN slots - 1 ELSE 0
           /\ null' = IF slots > 0 \/ null # NoClient THEN null ELSE c

(* mutant: the last caller first                                           *)
RecvSyscallLast(lookupFailed) ==
  /\ stage = "recv" /\ word = {}
  /\ ep # <<>>
  /\ ep' = SubSeq(ep, 1, Len(ep) - 1)
  /\ HandleSyscall(ep[Len(ep)], sysno[ep[Len(ep)]])
  /\ sysno' = [sysno EXCEPT ![ep[Len(ep)]] = 0]
  /\ UNCHANGED <<irqVars, lineVars, loopVars, netVars>>

(* The loop receives a system call: seL4_Recv prefers the notification.    *)
(* The number is read from the message registers after cspace_alloc_slot:  *)
(* when that had to grow the cspace and the mapping of its new page lacked *)
(* a paging structure, the first register is 0, the kernel's error report, *)
(* whether or not there is a slot in the end.                              *)
RecvSyscall(lookupFailed) ==
  /\ stage = "recv" /\ word = {}
  /\ ep # <<>>
  /\ ep' = Tail(ep)
  /\ LET c == Head(ep)
     IN  /\ HandleSyscall(c, IF lookupFailed THEN 0 ELSE sysno[c])
         /\ sysno' = [sysno EXCEPT ![c] = 0]
  /\ UNCHANGED <<irqVars, lineVars, loopVars, netVars>>

(* a client faults, the kernel sends the fault to the endpoint, and SOS    *)
(* stops                                                                   *)
RecvFault(c) ==
  /\ stage = "recv" /\ word = {}
  /\ client[c] = "run"
  /\ stage' = "abort"
  /\ UNCHANGED <<irqVars, lineVars, badge, unchecked, netVars, ipcVars>>

Callback == NetClear \/ NetAck \/ NetTick \/ WdogTick \/ WdogAck

RecvIpc == \E l \in BOOLEAN : RecvSyscall(l)

LoopNext ==
  \/ Arrive
  \/ Expire
  \/ \E irq \in Irqs : Interrupt(irq)
  \/ RecvNotification
  \/ Callback
  \/ \E c \in Clients, n \in Sysnos : Call(c, n)
  \/ RecvIpc
  \/ \E c \in Clients : RecvFault(c)

(* The kernel delivers interrupts and the watchdog expires; SOS, the       *)
(* thread of highest priority, keeps running, and a seL4_Recv that finds a *)
(* caller and no notification returns the call.                            *)
LoopFairness ==
  /\ \A irq \in Irqs : WF_allVars(Interrupt(irq))
  /\ WF_allVars(Expire)
  /\ WF_allVars(RecvNotification \/ Callback)
  /\ SF_allVars(RecvIpc)

LoopSpec == LoopInit /\ [][LoopNext]_allVars /\ LoopFairness
-----------------------------------------------------------------------------
(* The type invariant.                                                     *)
LoopTypeOK ==
  /\ latched \subseteq Irqs /\ masked \subseteq Irqs
  /\ word \subseteq Bits /\ badge \subseteq Bits /\ unchecked \subseteq badge
  /\ stage \in LoopStages
  /\ rx \in 0 .. RingSize
  /\ unseen \in BOOLEAN /\ status \in BOOLEAN /\ armed \in BOOLEAN
  /\ client \in [Clients -> {"run", "wait", "parked"}]
  /\ sysno \in [Clients -> Sysnos]
  /\ ep \in Seq(Clients)
  /\ slots \in 0 .. NumSlots
  /\ null \in Clients \cup {NoClient}

(* The watchdog is never lost: it counts down, or its line is pending, or  *)
(* network_tick is still to restart it.                                    *)
WatchdogAlive ==
  armed \/ "wdog" \in latched \/ BitOf("wdog") \in word \cup unchecked

(* No packet waits for a wake-up that is not coming: one that came since   *)
(* the stack last ran has the line of the device pending, or its callback  *)
(* yet to run the stack.                                                   *)
RxWakeup ==
  LoopTypeOK /\ (unseen => "net" \in latched \/ BitOf("net") \in word \cup unchecked)

(* Both: the event loop never waits for a wake-up that cannot come.        *)
WakeupsKept == WatchdogAlive /\ RxWakeup

(* handle_syscall keeps a reply slot only for a client it did not answer:  *)
(* however many calls it answers, they cost no slot.                       *)
ReplySlots ==
  NumSlots - slots <= Cardinality({c \in Clients : client[c] = "parked"})

(* While there are slots, a reply goes to the client whose call is being   *)
(* handled: one that was left without an answer does not get another's.    *)
(* Without a slot this needs slot 0 to be empty (handle_syscall does not   *)
(* check what cspace_alloc_slot returned).                                 *)
ReplyToCaller ==
  [][slots > 0 \/ null = NoClient
       => \A c \in Clients : client[c] = "parked" => client'[c] = "parked"]_allVars

(* Replies cost no slots and go to the right client.                       *)
RepliesRight == []ReplySlots /\ ReplyToCaller

(* Full rings are drained, even when the line of the device brought only   *)
(* one tick for several packets: the watchdog ticks on.                    *)
RingDrains == rx = RingSize ~> (rx < RingSize \/ stage = "abort")

(* Every system call is received if SOS is not saturated with interrupts:  *)
(* seL4_Recv prefers the notification, so the loop must find none again    *)
(* and again.  A fault of another client stops SOS.                        *)
CallsReceived ==
  []<>(stage = "recv" /\ word = {})
    => \A c \in Clients : client[c] = "wait" ~> (client[c] # "wait" \/ stage = "abort")

(* "intentionally not replying to syscall 1" (rusos/src/lib.rs:95).        *)
NoReplyToOne ==
  [][\A c \in Clients : client[c] = "wait" /\ sysno[c] = 1 => client'[c] # "run"]_allVars
=============================================================================
