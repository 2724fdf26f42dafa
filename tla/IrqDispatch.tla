---------------------------- MODULE IrqDispatch -----------------------------
(***************************************************************************)
(* Interrupt dispatch (sos/src/irq.c).  Every registered IRQ has a bit in  *)
(* the badge of the one notification SOS waits on; when the notification   *)
(* arrives, sos_handle_irq_notification calls the callback of every bit    *)
(* that is set.  An IRQ is masked by the kernel when it is delivered, and  *)
(* stays masked until its callback acknowledges it: an IRQ whose bit is    *)
(* lost never fires again.                                                 *)
(***************************************************************************)
EXTENDS Integers, FiniteSets

CONSTANTS
  Irqs,      \* interrupt lines
  NumBits,   \* ident_bits is MASK(NumBits), 63 bits in SOS
  Failing    \* the lines whose callback returns an error, like timer_irq

NoIrq == "none"

ASSUME IrqDispatchAssumption ==
  /\ NumBits \in Nat
  /\ Failing \subseteq Irqs
  /\ NoIrq \notin Irqs

VARIABLES
  allocated,  \* allocated_bits within ident_bits
  handler,    \* irq_handlers: the line of each bit, NoIrq if unset
  nullcap,    \* TRUE when there is a cap in slot 0 of the cspace
  latched,    \* lines the interrupt controller holds as pending
  masked,     \* lines delivered and not acknowledged
  word,       \* bits of the notification, set since it was last received
  badge,      \* *badge while a notification is handled
  unchecked,  \* unchecked_bits
  stage       \* where SOS is, see Stages

irqVars == <<allocated, handler, nullcap>>
lineVars == <<latched, masked, word>>
loopVars == <<badge, unchecked, stage>>
dispatchVars == <<irqVars, lineVars, loopVars>>

Bits == 0 .. (NumBits - 1)

(* "boot" until the event loop starts, "recv" in seL4_Recv, "call" in a    *)
(* callback and "acked" after the callback has acknowledged its IRQ;       *)
(* "assert" once the assertion of bf_first_free has stopped SOS            *)
Stages == {"boot", "assert", "recv", "call", "acked"}

Registered == {handler[b] : b \in Bits} \ {NoIrq}

BitOf(irq) == CHOOSE b \in Bits : handler[b] = irq

(* CTZL(unchecked_bits)                                                    *)
Bit == CHOOSE b \in unchecked : \A c \in unchecked : b <= c

Current == handler[Bit]

-----------------------------------------------------------------------------
DispatchInit ==
  /\ allocated = {}
  /\ handler = [b \in Bits |-> NoIrq]
  /\ nullcap = FALSE
  /\ latched = {} /\ masked = {} /\ word = {}
  /\ badge = {} /\ unchecked = {}
  /\ stage = "boot"

(* mutant: the bit is not marked as allocated                              *)
TakeBitUnmarked(bit) == allocated' = allocated

(* alloc_irq_bit *)
TakeBit(bit) == allocated' = allocated \cup {bit}

FirstBit == CHOOSE b \in Bits \ allocated : \A c \in Bits \ allocated : b <= c

(* sos_register_irq_handler.  The kernel gives out one handler cap for a   *)
(* line.  Without a slot for the notification (the check looks at the      *)
(* handler's slot again) the badged cap is minted into slot 0, which works *)
(* as long as that is empty.                                               *)
Register(irq, slot0) ==
  /\ stage = "boot"
  /\ allocated # Bits
  /\ irq \notin Registered
  /\ slot0 => ~nullcap
  /\ TakeBit(FirstBit)
  /\ handler' = [handler EXCEPT ![FirstBit] = irq]
  /\ nullcap' = (nullcap \/ slot0)
  /\ UNCHANGED <<lineVars, loopVars>>

(* ... every error return: no bit, no slot for the handler, or an error of *)
(* the kernel.  The bit, if there was one, is freed again.  Without a free *)
(* bit bf_first_free reads, and asserts not to be all ones, the word       *)
(* behind allocated_bits.                                                  *)
RegisterFails(irq) ==
  /\ stage = "boot"
  /\ stage' \in IF allocated = Bits THEN {"boot", "assert"} ELSE {"boot"}
  /\ UNCHANGED <<irqVars, lineVars, badge, unchecked>>

StartLoop ==
  /\ stage = "boot"
  /\ stage' = "recv"
  /\ UNCHANGED <<irqVars, lineVars, badge, unchecked>>

(* a device raises its line; all lines are edge triggered                  *)
Raise(irq) ==
  /\ latched' = latched \cup {irq}
  /\ UNCHANGED <<irqVars, masked, word, loopVars>>

(* the kernel takes the interrupt, masks it and signals the notification   *)
Deliver(irq) ==
  /\ irq \in latched \ masked
  /\ irq \in Registered
  /\ latched' = latched \ {irq}
  /\ masked' = masked \cup {irq}
  /\ word' = word \cup {BitOf(irq)}
  /\ UNCHANGED <<irqVars, loopVars>>

(* seL4_Recv returns the notification: the start of                        *)
(* sos_handle_irq_notification                                             *)
RecvIrq ==
  /\ stage = "recv"
  /\ word # {}
  /\ badge' = word
  /\ unchecked' = word \cap allocated
  /\ word' = {}
  /\ stage' = IF unchecked' = {} THEN "recv" ELSE "call"
  /\ UNCHANGED <<irqVars, latched, masked>>

(* seL4_IRQHandler_Ack of the line whose callback runs                     *)
AckLine == masked' = masked \ {Current}

(* mutant: the handled bit stays in unchecked_bits                         *)
NextBitUnmasked ==
  /\ badge' = badge \ {Bit}
  /\ unchecked' = unchecked
  /\ stage' = "call"

(* mutant: the handled bit stays set                                       *)
NextBitStays ==
  /\ badge' = badge
  /\ unchecked' = unchecked
  /\ stage' = "call"

(* mutant: one callback per notification                                   *)
NextBitOnce ==
  /\ badge' = badge \ {Bit}
  /\ unchecked' = {}
  /\ stage' = "recv"

(* the callback returned 0: clear its bit, go on with the next             *)
NextBit ==
  /\ badge' = badge \ {Bit}
  /\ unchecked' = unchecked \cap badge'
  /\ stage' = IF unchecked' = {} THEN "recv" ELSE "call"

CallbackAcks ==
  /\ stage = "call"
  /\ Current \notin Failing
  /\ AckLine
  /\ stage' = "acked"
  /\ UNCHANGED <<irqVars, latched, word, badge, unchecked>>

CallbackReturns ==
  /\ stage = "acked"
  /\ NextBit
  /\ UNCHANGED <<irqVars, lineVars>>

(* the callback returned an error: so does sos_handle_irq_notification,    *)
(* and syscall_loop has no use for its result                              *)
CallbackFails ==
  /\ stage = "call"
  /\ Current \in Failing
  /\ stage' = "recv"
  /\ unchecked' = {}
  /\ UNCHANGED <<irqVars, lineVars, badge>>

Handle == RecvIrq \/ CallbackAcks \/ CallbackReturns \/ CallbackFails

DispatchNext ==
  \/ \E irq \in Irqs, s \in BOOLEAN : Register(irq, s)
  \/ \E irq \in Irqs : RegisterFails(irq)
  \/ StartLoop
  \/ \E irq \in Irqs : Raise(irq)
  \/ \E irq \in Irqs : Deliver(irq)
  \/ Handle

(* SOS is the highest-priority thread: the loop starts and keeps running;  *)
(* the kernel takes every interrupt that is pending and not masked.        *)
DispatchFairness ==
  /\ WF_dispatchVars(StartLoop)
  /\ WF_dispatchVars(Handle)
  /\ \A irq \in Irqs : WF_dispatchVars(Deliver(irq))

DispatchSpec == DispatchInit /\ [][DispatchNext]_dispatchVars /\ DispatchFairness

-----------------------------------------------------------------------------
(* The type invariant.                                                     *)
DispatchTypeOK ==
  /\ allocated \subseteq Bits
  /\ handler \in [Bits -> Irqs \cup {NoIrq}]
  /\ nullcap \in BOOLEAN
  /\ latched \subseteq Irqs /\ masked \subseteq Irqs
  /\ word \subseteq Bits /\ badge \subseteq Bits /\ unchecked \subseteq badge
  /\ stage \in Stages

(* The state has its type, and a bit identifies one line: every registered *)
(* line has its own bit, so a notification never runs the callback of      *)
(* another device.                                                         *)
BitsIdentify ==
  /\ DispatchTypeOK
  /\ allocated = {b \in Bits : handler[b] # NoIrq}
  /\ \A b, c \in allocated : handler[b] = handler[c] => b = c

(* registered before every line whose callback returns errors              *)
Early(irq) ==
  /\ irq \in Registered \ Failing
  /\ \A f \in Failing \cap Registered : BitOf(irq) < BitOf(f)

(* No interrupt is forgotten: a line waiting for its acknowledgement still *)
(* has its bit in the notification or among the bits to be checked, so its *)
(* callback is yet to run.  Callbacks that return errors do not harm the   *)
(* lines registered before them (the network and the watchdog, before the  *)
(* timer).                                                                 *)
NoneForgotten ==
  \A irq \in masked : Early(irq) => BitOf(irq) \in word \cup unchecked

(* Both: whichever line the kernel notifies SOS of, its own callback runs. *)
IrqsKept == BitsIdentify /\ NoneForgotten

(* Every interrupt of such a line is followed by its callback, in whatever *)
(* order the others come, unless a registration beyond the last bit has    *)
(* stopped SOS before the loop.                                            *)
EveryIrqHandled ==
  \A irq \in Irqs :
    irq \in latched /\ Early(irq) ~> stage = "assert" \/ (stage = "call" /\ Current = irq)

(* "Will check all bits of the badge and call registered callbacks for any *)
(* associated IRQs" (irq.h:76-77): the loop is back in seL4_Recv only when *)
(* each line it was notified of has had its callback.  A line counts as    *)
(* called once its callback ran, whatever it returned.                     *)
AllBitsChecked ==
  [][stage = "call" /\ stage' = "recv" => unchecked \subseteq {Bit}]_dispatchVars
=============================================================================
