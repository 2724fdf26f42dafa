-------------------------- MODULE EventLoopProofs ---------------------------
(***************************************************************************)
(* No interrupt and no call is lost, for any lines, clients and ring: the  *)
(* dispatch of interrupts (IrqDispatch) and the event loop with the        *)
(* network behind it (EventLoop).                                          *)
(***************************************************************************)
EXTENDS EventLoop, FiniteSetTheorems, SequenceTheorems, WellFoundedInduction, TLAPS

(* A nonempty set of naturals has a least element: a proof by induction    *)
(* becomes one about the least counterexample.                             *)
LEMMA NatMin ==
  ASSUME NEW S, S \subseteq Nat, S # {}
  PROVE  \E n \in S : \A m \in S : n <= m
<1> DEFINE R == {ss \in Nat \X Nat : ss[1] < ss[2]}
<1>1. IsWellFoundedOn(R, Nat)
  BY NatLessThanWellFounded DEF OpToRel
<1>2. PICK n \in S : \A m \in S : ~(<<m, n>> \in R)
  BY <1>1, WFMin
<1>3. \A m \in S : m \in Nat /\ n \in Nat /\ ~(m < n)
  <2> SUFFICES ASSUME NEW m \in S PROVE m \in Nat /\ n \in Nat /\ ~(m < n)
    OBVIOUS
  <2>1. m \in Nat /\ n \in Nat /\ <<m, n>> \in Nat \X Nat
    OBVIOUS
  <2>2. m < n => <<m, n>> \in R
    BY <2>1
  <2>. QED BY <1>2, <2>1, <2>2
<1>. QED BY <1>3

-----------------------------------------------------------------------------
(* The dispatch of interrupts (IrqDispatch).                               *)

(* The bits of the notification word are numbers.                          *)
LEMMA BitsNat == Bits \subseteq Nat
BY IrqDispatchAssumption DEF Bits

(* CTZL gives the lowest of the bits to be checked.                        *)
LEMMA BitLowest ==
  ASSUME unchecked # {}, unchecked \subseteq Nat
  PROVE  Bit \in unchecked /\ \A c \in unchecked : Bit <= c
BY NatMin, Zenon DEF Bit

(* alloc_irq_bit gives a bit that no line has.                             *)
LEMMA FirstBitFree ==
  ASSUME allocated # Bits, allocated \subseteq Bits
  PROVE  FirstBit \in Bits \ allocated
<1>1. Bits \ allocated # {} /\ Bits \ allocated \subseteq Nat
  BY BitsNat, Zenon
<1>. QED BY <1>1, NatMin, Zenon DEF FirstBit

(* The bit of a registered line leads back to the line.                    *)
LEMMA BitOfRegistered ==
  ASSUME NEW irq \in Registered
  PROVE  BitOf(irq) \in Bits /\ handler[BitOf(irq)] = irq
BY DEF Registered, BitOf

(* The inductive invariant: the property that the runs check, that only    *)
(* registered lines are masked, and that a line which has fired again      *)
(* since its acknowledgement in the current callback has its bit in the    *)
(* word once more.                                                         *)
DispatchIInv ==
  /\ IrqsKept
  /\ masked \subseteq Registered
  /\ unchecked \subseteq allocated
  /\ stage \in {"boot", "assert", "recv"} <=> unchecked = {}
  /\ stage = "acked" /\ Current \in masked => Bit \in word

(* sos_register_irq_handler.                                               *)
LEMMA RegisterIInv ==
  ASSUME DispatchIInv, NEW irq \in Irqs, NEW s \in BOOLEAN, Register(irq, s)
  PROVE  DispatchIInv'
<1>0. /\ DispatchTypeOK /\ allocated = {b \in Bits : handler[b] # NoIrq}
      /\ \A b, c \in allocated : handler[b] = handler[c] => b = c
      /\ NoneForgotten /\ masked \subseteq Registered /\ unchecked = {}
      /\ irq \notin Registered /\ irq # NoIrq
      /\ stage = "boot"
  BY IrqDispatchAssumption DEF DispatchIInv, IrqsKept, BitsIdentify, Register
<1> DEFINE f == FirstBit
<1>1. f \in Bits \ allocated
  BY <1>0, FirstBitFree DEF Register, DispatchTypeOK
<1>2. /\ handler' = [handler EXCEPT ![f] = irq] /\ allocated' = allocated \cup {f}
      /\ UNCHANGED <<lineVars, loopVars>> /\ nullcap' = (nullcap \/ s)
  BY DEF Register, TakeBit
<1>3. handler \in [Bits -> Irqs \cup {NoIrq}] /\ handler[f] = NoIrq
  BY <1>0, <1>1 DEF DispatchTypeOK
<1> HIDE DEF f
<1>4. Registered' = Registered \cup {irq}
  BY <1>0, <1>1, <1>2, <1>3 DEF Registered
<1>5. BitsIdentify'
  <2>1. DispatchTypeOK'
    BY <1>0, <1>1, <1>2, <1>3 DEF DispatchTypeOK, lineVars, loopVars
  <2>2. allocated' = {b \in Bits : handler'[b] # NoIrq}
    BY <1>0, <1>1, <1>2, <1>3
  <2>3. \A b, c \in allocated' : handler'[b] = handler'[c] => b = c
    BY <1>0, <1>1, <1>2, <1>3 DEF Registered
  <2>. QED BY <2>1, <2>2, <2>3 DEF BitsIdentify
<1>6. \A i \in Registered : BitOf(i)' = BitOf(i)
  <2> SUFFICES ASSUME NEW i \in Registered PROVE BitOf(i)' = BitOf(i)
    OBVIOUS
  <2>1. \A b \in Bits : handler'[b] = i <=> handler[b] = i
    BY <1>0, <1>1, <1>2, <1>3 DEF Registered
  <2>2. PICK b \in Bits : handler[b] = i /\ i # NoIrq
    BY DEF Registered
  <2>3. \A c \in Bits : handler[c] = i <=> c = b
    BY <1>0, <2>2
  <2>4. BitOf(i) = b
    BY <2>3 DEF BitOf
  <2>5. BitOf(i)' = b
    BY <2>1, <2>3 DEF BitOf
  <2>. QED BY <2>4, <2>5
<1>7. NoneForgotten'
  <2> SUFFICES ASSUME NEW i \in masked', Early(i)' PROVE (BitOf(i) \in word \cup unchecked)'
    BY DEF NoneForgotten
  <2>1. i \in masked /\ i \in Registered /\ BitOf(i)' = BitOf(i)
    BY <1>0, <1>2, <1>6 DEF lineVars
  <2>2. Early(i)
    BY <1>4, <1>6, <2>1 DEF Early
  <2>. QED BY <1>0, <1>2, <2>1, <2>2 DEF NoneForgotten, lineVars, loopVars
<1>. QED BY <1>0, <1>2, <1>4, <1>5, <1>7 DEF DispatchIInv, IrqsKept, lineVars, loopVars

(* What depends on the registrations only.                                 *)
LEMMA SameHandlers ==
  ASSUME handler' = handler, allocated' = allocated
  PROVE  /\ Registered' = Registered
         /\ \A i : BitOf(i)' = BitOf(i) /\ Early(i)' = Early(i)
BY DEF Registered, BitOf, Early

(* sos_handle_irq_notification, one callback.                              *)
LEMMA HandleIInv == ASSUME DispatchIInv, Handle PROVE DispatchIInv'
<1>0. /\ DispatchTypeOK /\ allocated = {b \in Bits : handler[b] # NoIrq}
      /\ \A b, c \in allocated : handler[b] = handler[c] => b = c
      /\ NoneForgotten /\ masked \subseteq Registered
      /\ unchecked \subseteq allocated /\ unchecked \subseteq badge /\ unchecked \subseteq Nat
      /\ (stage \in {"boot", "assert", "recv"} <=> unchecked = {})
      /\ (stage = "acked" /\ Current \in masked => Bit \in word)
  BY BitsNat DEF DispatchIInv, IrqsKept, BitsIdentify, DispatchTypeOK
<1>1. UNCHANGED irqVars
  BY DEF Handle, RecvIrq, CallbackAcks, CallbackReturns, CallbackFails
<1>2. /\ Registered' = Registered
      /\ \A i : BitOf(i)' = BitOf(i) /\ Early(i)' = Early(i)
  BY <1>1, SameHandlers DEF irqVars
<1>3. \A i \in Registered : BitOf(i) \in allocated /\ handler[BitOf(i)] = i
  BY <1>0, BitOfRegistered DEF Registered
<1>b. unchecked # {} => Bit \in unchecked /\ \A c \in unchecked : Bit <= c
  BY <1>0, BitLowest
<1>4. CASE RecvIrq
  <2>1. /\ stage = "recv" /\ badge' = word /\ unchecked' = word \cap allocated /\ word' = {}
        /\ stage' = (IF unchecked' = {} THEN "recv" ELSE "call")
        /\ UNCHANGED <<latched, masked>>
    BY <1>4 DEF RecvIrq
  <2>2. BitsIdentify'
    BY <1>0, <1>1, <2>1 DEF BitsIdentify, DispatchTypeOK, irqVars, Stages
  <2>3. NoneForgotten'
    BY <1>0, <1>2, <1>3, <2>1, Zenon DEF NoneForgotten
  <2>. QED BY <1>0, <1>1, <1>2, <2>1, <2>2, <2>3 DEF DispatchIInv, IrqsKept, irqVars
<1>5. CASE CallbackAcks
  <2>1. /\ stage = "call" /\ stage' = "acked" /\ masked' = masked \ {Current}
        /\ UNCHANGED <<latched, word, badge, unchecked>>
    BY <1>5 DEF CallbackAcks, AckLine
  <2>2. BitsIdentify'
    BY <1>0, <1>1, <2>1 DEF BitsIdentify, DispatchTypeOK, irqVars, Stages
  <2>3. NoneForgotten'
    BY <1>0, <1>2, <2>1 DEF NoneForgotten
  <2>4. Current' = Current /\ Bit' = Bit
    BY <1>1, <2>1 DEF Current, Bit, irqVars
  <2>. QED BY <1>0, <1>1, <1>2, <2>1, <2>2, <2>3, <2>4 DEF DispatchIInv, IrqsKept, irqVars
<1>6. CASE CallbackReturns
  <2>1. /\ stage = "acked" /\ badge' = badge \ {Bit} /\ unchecked' = unchecked \ {Bit}
        /\ stage' = (IF unchecked' = {} THEN "recv" ELSE "call")
        /\ UNCHANGED <<latched, masked, word>>
    BY <1>0, <1>6, Zenon DEF CallbackReturns, NextBit, lineVars
  <2>2. BitsIdentify'
    BY <1>0, <1>1, <2>1, Zenon DEF BitsIdentify, DispatchTypeOK, irqVars, Stages
  <2>3. NoneForgotten'
    <3> SUFFICES ASSUME NEW i \in masked, Early(i) PROVE BitOf(i) \in word \cup (unchecked \ {Bit})
      BY <1>2, <2>1 DEF NoneForgotten
    <3>1. BitOf(i) \in word \cup unchecked /\ handler[BitOf(i)] = i
      BY <1>0, <1>3 DEF NoneForgotten
    <3>2. BitOf(i) = Bit => Bit \in word
      BY <1>0, <2>1, <3>1 DEF Current
    <3>. QED BY <3>1, <3>2
  <2>. QED BY <1>0, <1>1, <1>2, <2>1, <2>2, <2>3, Zenon DEF DispatchIInv, IrqsKept, irqVars
<1>7. CASE CallbackFails
  <2>1. /\ stage = "call" /\ stage' = "recv" /\ unchecked' = {} /\ Current \in Failing
        /\ UNCHANGED <<latched, masked, word, badge>>
    BY <1>7 DEF CallbackFails, lineVars
  <2>2. BitsIdentify'
    BY <1>0, <1>1, <2>1 DEF BitsIdentify, DispatchTypeOK, irqVars, Stages
  <2>3. NoneForgotten'
    <3> SUFFICES ASSUME NEW i \in masked, Early(i) PROVE BitOf(i) \in word
      BY <1>2, <2>1 DEF NoneForgotten
    <3>1. BitOf(i) \in word \cup unchecked
      BY <1>0 DEF NoneForgotten
    <3>2. Bit \in unchecked /\ \A c \in unchecked : Bit <= c
      BY <1>0, <1>b, <2>1
    <3>3. Current \in Registered /\ BitOf(Current) = Bit
      <4>1. Bit \in allocated /\ Bit \in Bits /\ handler[Bit] # NoIrq
        BY <1>0, <3>2
      <4>2. Current \in Registered
        BY <4>1 DEF Current, Registered
      <4>. QED BY <1>0, <1>3, <4>1, <4>2, Zenon DEF Current
    <3>4. BitOf(i) < Bit
      BY <2>1, <3>3 DEF Early
    <3>5. Bit \in Nat /\ (BitOf(i) \in unchecked => BitOf(i) \in Nat)
      BY <1>0, <3>2, Zenon
    <3>. QED BY <3>1, <3>2, <3>4, <3>5
  <2>. QED BY <1>0, <1>1, <1>2, <2>1, <2>2, <2>3 DEF DispatchIInv, IrqsKept, irqVars
<1>. QED BY <1>4, <1>5, <1>6, <1>7 DEF Handle

(* The kernel signals a line, and masks it.                                *)
LEMMA DeliverIInv ==
  ASSUME DispatchIInv, NEW irq \in Irqs, Deliver(irq)
  PROVE  DispatchIInv'
<1>1. /\ UNCHANGED irqVars /\ UNCHANGED loopVars
      /\ latched' = latched \ {irq} /\ masked' = masked \cup {irq}
      /\ word' = word \cup {BitOf(irq)} /\ irq \in Registered
  BY DEF Deliver
<1>2. /\ Registered' = Registered
      /\ \A i : BitOf(i)' = BitOf(i) /\ Early(i)' = Early(i)
  BY <1>1, SameHandlers DEF irqVars
<1>3. BitOf(irq) \in Bits /\ handler[BitOf(irq)] = irq
  BY <1>1, BitOfRegistered
<1>4. BitsIdentify'
  BY <1>1, <1>3 DEF DispatchIInv, IrqsKept, BitsIdentify, DispatchTypeOK, irqVars, loopVars
<1>5. NoneForgotten'
  BY <1>1, <1>2 DEF DispatchIInv, IrqsKept, NoneForgotten, loopVars
<1>6. stage = "acked" /\ Current \in masked' => Bit \in word'
  <2> SUFFICES ASSUME stage = "acked", Current = irq PROVE Bit \in word'
    BY <1>1 DEF DispatchIInv
  <2>1. unchecked # {} /\ unchecked \subseteq Nat /\ unchecked \subseteq allocated
    BY BitsNat DEF DispatchIInv, IrqsKept, BitsIdentify, DispatchTypeOK
  <2>2. Bit \in allocated
    BY <2>1, BitLowest, Zenon
  <2>3. BitOf(irq) = Bit
    BY <1>1, <1>3, <2>2 DEF DispatchIInv, IrqsKept, BitsIdentify, Current, Registered
  <2>. QED BY <1>1, <2>3
<1>7. Current' = Current /\ Bit' = Bit
  BY <1>1 DEF Current, Bit, irqVars, loopVars
<1>. QED BY <1>1, <1>2, <1>4, <1>5, <1>6, <1>7 DEF DispatchIInv, IrqsKept, irqVars, loopVars

(* The invariant of the dispatch of interrupts.                            *)
THEOREM DispatchInductive == DispatchSpec => []DispatchIInv
<1>1. DispatchInit => DispatchIInv
  BY Zenon DEF DispatchInit, DispatchIInv, IrqsKept, BitsIdentify, DispatchTypeOK, NoneForgotten, Stages, Registered
<1>2. DispatchIInv /\ [DispatchNext]_dispatchVars => DispatchIInv'
  <2> SUFFICES ASSUME DispatchIInv, [DispatchNext]_dispatchVars PROVE DispatchIInv'
    OBVIOUS
  <2>1. ASSUME NEW irq \in Irqs, NEW s \in BOOLEAN, Register(irq, s) PROVE DispatchIInv'
    BY <2>1, RegisterIInv
  <2>2. ASSUME UNCHANGED <<irqVars, masked, word, badge, unchecked>>,
               latched' \subseteq Irqs,
               stage' = stage \/ (stage = "boot" /\ stage' \in {"assert", "recv"})
        PROVE  DispatchIInv'
    <3>1. /\ Registered' = Registered
          /\ \A i : BitOf(i)' = BitOf(i) /\ Early(i)' = Early(i)
      BY <2>2, SameHandlers DEF irqVars
    <3>2. Current' = Current /\ Bit' = Bit
      BY <2>2 DEF Current, Bit, irqVars
    <3>3. BitsIdentify'
      BY <2>2 DEF DispatchIInv, IrqsKept, BitsIdentify, DispatchTypeOK, irqVars, Stages
    <3>4. NoneForgotten'
      BY <2>2, <3>1 DEF DispatchIInv, IrqsKept, NoneForgotten
    <3>. QED BY <2>2, <3>1, <3>2, <3>3, <3>4 DEF DispatchIInv, IrqsKept, irqVars
  <2>3. ASSUME NEW irq \in Irqs, RegisterFails(irq) PROVE DispatchIInv'
    BY <2>2, <2>3 DEF RegisterFails, irqVars, lineVars,
       DispatchIInv, IrqsKept, BitsIdentify, DispatchTypeOK
  <2>4. CASE StartLoop
    BY <2>2, <2>4 DEF StartLoop, lineVars, irqVars, DispatchIInv, IrqsKept, BitsIdentify, DispatchTypeOK
  <2>5. ASSUME NEW irq \in Irqs, Raise(irq) PROVE DispatchIInv'
    BY <2>2, <2>5 DEF Raise, loopVars, irqVars, DispatchIInv, IrqsKept, BitsIdentify, DispatchTypeOK
  <2>6. ASSUME NEW irq \in Irqs, Deliver(irq) PROVE DispatchIInv'
    BY <2>6, DeliverIInv
  <2>7. CASE Handle
    BY <2>7, HandleIInv
  <2>8. CASE UNCHANGED dispatchVars
    BY <2>2, <2>8 DEF dispatchVars, irqVars, lineVars, loopVars, DispatchIInv, IrqsKept, BitsIdentify, DispatchTypeOK
  <2>. QED BY <2>1, <2>3, <2>4, <2>5, <2>6, <2>7, <2>8 DEF DispatchNext
<1>. QED BY <1>1, <1>2, PTL DEF DispatchSpec

(* For any lines and any number of bits: two lines never share a bit of    *)
(* the notification, and a line that waits for its acknowledgement,        *)
(* registered before any whose callback fails, has its bit in the          *)
(* notification or among those still to be checked, so that its callback   *)
(* is yet to run.                                                          *)
THEOREM IrqsStayKept == DispatchSpec => []IrqsKept
<1>1. DispatchIInv => IrqsKept
  BY DEF DispatchIInv
<1>. QED BY <1>1, DispatchInductive, PTL

-----------------------------------------------------------------------------
(* The event loop (EventLoop).                                             *)

(* The lines network_init has registered.                                  *)
Registrations ==
  /\ allocated = {0, 1}
  /\ handler = [b \in Bits |-> IF b = 0 THEN "net" ELSE IF b = 1 THEN "wdog" ELSE NoIrq]

(* Which callback the loop is in follows from the bits left to check.      *)
Callbacks ==
  /\ word \subseteq {0, 1} /\ unchecked \subseteq {0, 1}
  /\ stage \in {"recv", "abort"} => unchecked = {}
  /\ stage \in {"net", "net_cleared", "net_acked"} => 0 \in unchecked
  /\ stage \in {"wdog", "wdog_reset"} => unchecked = {1}

(* When the status bit is set in the device, the line of the device is     *)
(* latched or signalled, or the network callback is about to clear the     *)
(* bit.                                                                    *)
StatusSeen ==
  status => "net" \in latched \/ 0 \in word \/ stage = "net"

(* In the watchdog callback, once it has reset the timer, the timer runs   *)
(* or has fired again.                                                     *)
WdogRestarted ==
  stage = "wdog_reset" => armed \/ "wdog" \in latched \/ 1 \in word

(* The clients that were left without an answer.                           *)
Parked == {c \in Clients : client[c] = "parked"}

(* Each client that waits in the endpoint is there once, and the reply     *)
(* capability in slot 0, if any, is of a client left without an answer.    *)
Callers ==
  /\ \A i \in 1 .. Len(ep) : client[ep[i]] = "wait"
  /\ \A i, j \in 1 .. Len(ep) : ep[i] = ep[j] => i = j
  /\ null # NoClient => client[null] = "parked"

(* The inductive invariant of the interrupts and the network. WakeupsKept  *)
(* is part of it; StatusSeen and WdogRestarted say why the next wakeup is  *)
(* on its way at the points in the callbacks where neither line is         *)
(* latched.                                                                *)
NetIInv ==
  /\ latched \subseteq Irqs /\ masked \subseteq Irqs
  /\ badge \subseteq Bits /\ unchecked \subseteq badge
  /\ stage \in LoopStages
  /\ rx \in 0 .. RingSize
  /\ unseen \in BOOLEAN /\ status \in BOOLEAN /\ armed \in BOOLEAN
  /\ Registrations
  /\ Callbacks
  /\ armed \/ "wdog" \in latched \/ 1 \in word \cup unchecked
  /\ unseen => "net" \in latched \/ 0 \in word \cup unchecked
  /\ StatusSeen
  /\ WdogRestarted

(* The inductive invariant of the calls of the clients.                    *)
IpcIInv ==
  /\ client \in [Clients -> {"run", "wait", "parked"}]
  /\ sysno \in [Clients -> Sysnos]
  /\ ep \in Seq(Clients)
  /\ slots \in 0 .. NumSlots
  /\ null \in Clients \cup {NoClient}
  /\ Callers
  /\ ReplySlots

(* The word has room for the two lines.                                    *)
LEMMA TwoBits ==
  /\ 0 \in Bits /\ 1 \in Bits
  /\ NoIrq # "net" /\ NoIrq # "wdog"
BY EventLoopAssumption, IrqDispatchAssumption DEF Bits, NoIrq

(* The bits of the two lines.                                              *)
LEMMA BitNumbers ==
  ASSUME Registrations
  PROVE  /\ BitOf("net") = 0 /\ BitOf("wdog") = 1
         /\ handler[0] = "net" /\ handler[1] = "wdog"
         /\ Registered = {"net", "wdog"}
<1>1. \A b \in Bits : (handler[b] = "net" <=> b = 0) /\ (handler[b] = "wdog" <=> b = 1)
  BY TwoBits DEF Registrations
<1>2. handler[0] = "net" /\ handler[1] = "wdog"
  BY TwoBits DEF Registrations
<1>3. BitOf("net") = 0 /\ BitOf("wdog") = 1
  BY <1>1, TwoBits DEF BitOf
<1>4. Registered = {"net", "wdog"}
  BY <1>2, TwoBits DEF Registered, Registrations
<1>. QED BY <1>2, <1>3, <1>4

(* The lowest of the bits to be checked.                                   *)
LEMMA LowestBit ==
  ASSUME unchecked \subseteq {0, 1}
  PROVE  /\ 0 \in unchecked => Bit = 0
         /\ unchecked = {1} => Bit = 1
<1>1. ASSUME 0 \in unchecked PROVE \A b \in unchecked : (\A c \in unchecked : b <= c) <=> b = 0
  BY <1>1
<1>2. ASSUME unchecked = {1} PROVE \A b \in unchecked : (\A c \in unchecked : b <= c) <=> b = 1
  BY <1>2
<1>. QED BY <1>1, <1>2, Zenon DEF Bit

(* The callback that sos_handle_irq_notification enters next.              *)
LEMMA EnterLowest ==
  ASSUME NEW S, S \subseteq {0, 1}, Enter(S), Registrations
  PROVE  /\ S = {} => stage' = "recv"
         /\ 0 \in S => stage' = "net"
         /\ S = {1} => stage' = "wdog"
<1> DEFINE b == CHOOSE b \in S : \A c \in S : b <= c
<1>1. ASSUME 0 \in S PROVE b = 0
  <2>1. \A x \in S : (\A c \in S : x <= c) <=> x = 0
    BY <1>1
  <2>. QED BY <1>1, <2>1, Zenon
<1>2. ASSUME S = {1} PROVE b = 1
  <2>1. \A x \in S : (\A c \in S : x <= c) <=> x = 1
    BY <1>2, SMTT(30)
  <2>. QED BY <1>2, <2>1
<1>. QED BY <1>1, <1>2, BitNumbers, Zenon DEF Enter

(* The steps of the device, the timer and the interrupt path keep the      *)
(* invariant.                                                              *)
LEMMA NetStep ==
  ASSUME NetIInv,
         Arrive \/ Expire \/ (\E irq \in Irqs : Interrupt(irq)) \/ RecvNotification \/ Callback
         \/ (\E c \in Clients : RecvFault(c))
  PROVE  NetIInv'
<1> USE DEF NetIInv
<1>0. /\ BitOf("net") = 0 /\ BitOf("wdog") = 1
      /\ handler[0] = "net" /\ handler[1] = "wdog"
      /\ Registered = {"net", "wdog"}
      /\ "net" \in Irqs /\ "wdog" \in Irqs /\ 0 \in Bits /\ 1 \in Bits
      /\ RingSize \in Nat \ {0} /\ LoopScore \in Nat \ {0}
  BY BitNumbers, TwoBits, EventLoopAssumption
<1>b. (0 \in unchecked => Bit = 0) /\ (unchecked = {1} => Bit = 1)
  BY LowestBit DEF Callbacks
<1>r. UNCHANGED <<allocated, handler>> => Registrations'
  BY DEF Registrations
<1>1. CASE Arrive
  BY <1>0, <1>1, <1>r DEF Arrive, Callbacks, StatusSeen, WdogRestarted, irqVars, loopVars, ipcVars
<1>2. CASE Expire
  BY <1>0, <1>2, <1>r, Zenon DEF Expire, Callbacks, StatusSeen, WdogRestarted, irqVars, loopVars, ipcVars
<1>3. ASSUME NEW irq \in Irqs, Interrupt(irq) PROVE NetIInv'
  BY <1>0, <1>3, <1>r, Zenon DEF Interrupt, Deliver, Callbacks, StatusSeen, WdogRestarted, irqVars, loopVars, netVars
<1>4. CASE RecvNotification
  <2>1. /\ stage = "recv" /\ badge' = word /\ unchecked' = word /\ word' = {}
        /\ Enter(unchecked')
        /\ UNCHANGED <<irqVars, latched, masked, netVars>>
    BY <1>4, Zenon DEF RecvNotification, Callbacks, Registrations
  <2>2. /\ unchecked' = {} => stage' = "recv"
        /\ 0 \in unchecked' => stage' = "net"
        /\ unchecked' = {1} => stage' = "wdog"
    BY <2>1, EnterLowest, Zenon DEF Callbacks
  <2>3. Callbacks' /\ stage' \in LoopStages
    BY <2>1, <2>2, Zenon DEF Callbacks, LoopStages
  <2>. QED BY <1>0, <1>r, <2>1, <2>2, <2>3 DEF Callbacks, StatusSeen, WdogRestarted, irqVars, netVars
<1>5. CASE NetClear
  BY <1>0, <1>5, <1>r, Zenon DEF NetClear, Callbacks, StatusSeen, WdogRestarted, irqVars, lineVars, LoopStages
<1>6. CASE NetAck
  BY <1>0, <1>6, <1>r, Zenon DEF NetAck, AckLine, Callbacks, StatusSeen, WdogRestarted, irqVars, netVars, LoopStages
<1>t. ASSUME Tick PROVE rx' \in 0 .. RingSize /\ unseen' = FALSE
  BY <1>0, <1>t DEF Tick
<1>e. ASSUME CallbackDone, unchecked # {}, stage \in {"net_acked", "wdog_reset"}
      PROVE  /\ badge' \subseteq Bits /\ unchecked' = unchecked \ {Bit} /\ unchecked' \subseteq badge'
             /\ unchecked' \subseteq {0, 1}
             /\ unchecked' = {} => stage' = "recv"
             /\ unchecked' = {1} => stage' = "wdog"
             /\ unchecked' = {} \/ unchecked' = {1}
  <2>1. /\ badge' = badge \ {Bit} /\ unchecked' = unchecked \ {Bit} /\ Enter(unchecked')
    BY <1>e DEF CallbackDone
  <2>2. unchecked' = {} \/ unchecked' = {1}
    BY <1>b, <1>e, <2>1, Zenon DEF Callbacks
  <2>. QED BY <2>1, <2>2, EnterLowest
<1>7. CASE NetTick
  <2>1. /\ stage = "net_acked" /\ Tick /\ CallbackDone /\ UNCHANGED <<irqVars, lineVars, status, armed>>
        /\ 0 \in unchecked
    BY <1>7 DEF NetTick, Callbacks
  <2>. QED BY <1>0, <1>b, <1>e, <1>r, <1>t, <2>1
       DEF Callbacks, StatusSeen, WdogRestarted, irqVars, lineVars, LoopStages
<1>8. CASE WdogTick
  BY <1>0, <1>8, <1>r, <1>t DEF WdogTick, Callbacks, StatusSeen, WdogRestarted, irqVars, lineVars, LoopStages
<1>9. CASE WdogAck
  <2>1. /\ stage = "wdog_reset" /\ masked' \subseteq masked /\ CallbackDone /\ UNCHANGED <<irqVars, latched, word, netVars>>
        /\ unchecked = {1}
    BY <1>9 DEF WdogAck, AckLine, Callbacks
  <2>. QED BY <1>0, <1>b, <1>e, <1>r, <2>1
       DEF Callbacks, StatusSeen, WdogRestarted, irqVars, netVars, LoopStages
<1>10. ASSUME NEW c \in Clients, RecvFault(c) PROVE NetIInv'
  BY <1>0, <1>10, <1>r DEF RecvFault, Callbacks, StatusSeen, WdogRestarted, irqVars, lineVars, netVars, LoopStages
<1>. QED BY <1>1, <1>2, <1>3, <1>4, <1>5, <1>6, <1>7, <1>8, <1>9, <1>10 DEF Callback

(* Sets of clients are finite.                                             *)
LEMMA ParkedCount ==
  ASSUME NEW S, S \subseteq Clients
  PROVE  IsFiniteSet(S) /\ Cardinality(S) \in Nat
BY EventLoopAssumption, FS_Subset, FS_CardinalityType

(* A client calls SOS.                                                     *)
LEMMA CallIInv ==
  ASSUME IpcIInv, NEW c \in Clients, NEW n \in Sysnos, Call(c, n)
  PROVE  IpcIInv'
<1> USE DEF IpcIInv
<1>1. /\ client[c] = "run" /\ client' = [client EXCEPT ![c] = "wait"]
      /\ sysno' = [sysno EXCEPT ![c] = n] /\ ep' = Append(ep, c)
      /\ UNCHANGED <<slots, null>>
  BY DEF Call
<1>2. /\ ep' \in Seq(Clients) /\ Len(ep') = Len(ep) + 1 /\ Len(ep) \in Nat
      /\ \A i \in 1 .. Len(ep) : ep'[i] = ep[i] /\ ep[i] \in Clients
      /\ ep'[Len(ep) + 1] = c
  BY <1>1, AppendProperties, LenProperties
<1>3. Parked' = Parked
  BY <1>1 DEF Parked
<1>4. Callers'
  <2>1. \A i \in 1 .. Len(ep) : client[ep[i]] = "wait" /\ ep[i] # c
    BY <1>1 DEF Callers
  <2>2. \A i \in 1 .. Len(ep') : i \in 1 .. Len(ep) \/ i = Len(ep) + 1
    BY <1>2
  <2>3. \A i \in 1 .. Len(ep') : client'[ep'[i]] = "wait"
    BY <1>1, <1>2, <2>1, <2>2
  <2>4. \A i, j \in 1 .. Len(ep') : ep'[i] = ep'[j] => i = j
    BY <1>2, <2>1, <2>2 DEF Callers
  <2>5. null' # NoClient => client'[null'] = "parked"
    BY <1>1 DEF Callers
  <2>. QED BY <2>3, <2>4, <2>5 DEF Callers
<1>5. ReplySlots'
  BY <1>1, <1>3, Zenon DEF ReplySlots, Parked
<1>. QED BY <1>1, <1>2, <1>4, <1>5

(* The loop receives a call and replies, or leaves the client parked.      *)
LEMMA RecvSyscallIInv ==
  ASSUME IpcIInv, NEW l \in BOOLEAN, RecvSyscall(l)
  PROVE  IpcIInv' /\ (slots > 0 \/ null = NoClient => Parked \subseteq Parked')
<1> USE DEF IpcIInv
<1> DEFINE c == Head(ep)
           n == IF l THEN 0 ELSE sysno[c]
           to == IF slots > 0 \/ null = NoClient THEN c ELSE null
<1>1. /\ ep # <<>> /\ ep' = Tail(ep) /\ HandleSyscall(c, n)
      /\ sysno' = [sysno EXCEPT ![c] = 0]
  BY DEF RecvSyscall
<1>2. /\ c \in Clients /\ ep' \in Seq(Clients) /\ Len(ep') = Len(ep) - 1
      /\ Len(ep) \in Nat \ {0} /\ c = ep[1]
      /\ \A i \in 1 .. Len(ep') : ep'[i] = ep[i + 1] /\ ep[i + 1] \in Clients
  BY <1>1, HeadTailProperties, LenProperties, EmptySeq
<1>3. /\ client[c] = "wait"
      /\ \A i \in 1 .. Len(ep') : ep'[i] # c /\ client[ep'[i]] = "wait"
      /\ \A i, j \in 1 .. Len(ep') : ep'[i] = ep'[j] => i = j
  <2> HIDE DEF c
  <2>1. 1 \in 1 .. Len(ep) /\ \A i \in 1 .. Len(ep') : i + 1 \in 1 .. Len(ep) /\ i + 1 # 1
    BY <1>2
  <2>2. /\ \A i \in 1 .. Len(ep) : client[ep[i]] = "wait"
        /\ \A i, j \in 1 .. Len(ep) : ep[i] = ep[j] => i = j
    BY DEF Callers
  <2>3. \A i \in 1 .. Len(ep') : ep'[i] # c /\ client[ep'[i]] = "wait"
    BY <1>2, <2>1, <2>2
  <2>4. \A i, j \in 1 .. Len(ep') : ep'[i] = ep'[j] => i = j
    <3> TAKE i, j \in 1 .. Len(ep')
    <3>1. ep'[i] = ep[i + 1] /\ ep'[j] = ep[j + 1] /\ i \in Int /\ j \in Int
      BY <1>2
    <3>2. ep[i + 1] = ep[j + 1] => i + 1 = j + 1
      BY <2>1, <2>2
    <3>. QED BY <3>1, <3>2
  <2>. QED BY <1>2, <2>1, <2>2, <2>3, <2>4
<1>4. NumSlots \in Nat /\ NoClient \notin Clients /\ slots \in Nat
  BY EventLoopAssumption
<1>5. sysno' \in [Clients -> Sysnos]
  BY <1>1, <1>2 DEF Sysnos
<1>p. /\ IsFiniteSet(Parked) /\ Cardinality(Parked) \in Nat /\ c \notin Parked
      /\ NumSlots - slots <= Cardinality(Parked)
  BY <1>3, ParkedCount DEF Parked, ReplySlots
<1> HIDE DEF c, n
<1>6. CASE n = 0 /\ to = c
  <2>1. /\ client' = [client EXCEPT ![c] = "run"] /\ UNCHANGED slots
        /\ null' = null \/ null' = NoClient
    BY <1>1, <1>2, <1>6 DEF HandleSyscall
  <2>2. Parked' = Parked
    BY <1>3, <2>1 DEF Parked
  <2>3. Callers'
    BY <1>2, <1>3, <2>1 DEF Callers
  <2>4. ReplySlots'
    BY <1>p, <2>1, <2>2, Zenon DEF ReplySlots, Parked
  <2>. QED BY <1>1, <1>2, <1>5, <2>1, <2>2, <2>3, <2>4
<1>7. CASE n = 0 /\ to # c
  <2>1. ~(slots > 0) /\ null # NoClient /\ null \in Clients /\ null # c /\ null \in Parked
    BY <1>7 DEF Callers, Parked
  <2>2. /\ client' = [client EXCEPT ![null] = "run", ![c] = "parked"] /\ UNCHANGED slots
        /\ null' = NoClient
    BY <1>1, <1>2, <1>4, <1>7, <2>1 DEF HandleSyscall
  <2>3. Parked' = (Parked \ {null}) \cup {c}
    BY <1>2, <2>1, <2>2 DEF Parked
  <2>4. Cardinality(Parked') = Cardinality(Parked)
    <3>1. IsFiniteSet(Parked \ {null}) /\ Cardinality(Parked \ {null}) = Cardinality(Parked) - 1
      BY <1>p, <2>1, FS_RemoveElement
    <3>2. Cardinality((Parked \ {null}) \cup {c}) = Cardinality(Parked \ {null}) + 1
      BY <1>p, <3>1, FS_AddElement, Zenon
    <3>. QED BY <1>p, <2>3, <3>1, <3>2
  <2>5. Callers'
    <3>1. \A i \in 1 .. Len(ep') : ep'[i] # null
      BY <1>3, <2>1 DEF Parked
    <3>. QED BY <1>2, <1>3, <2>1, <2>2, <3>1 DEF Callers
  <2>6. ReplySlots'
    BY <1>p, <2>2, <2>4 DEF ReplySlots, Parked
  <2>. QED BY <1>1, <1>2, <1>5, <2>1, <2>2, <2>5, <2>6
<1>8. CASE n # 0
  <2>1. /\ client' = [client EXCEPT ![c] = "parked"]
        /\ slots' = (IF slots > 0 THEN slots - 1 ELSE 0)
        /\ null' = IF slots > 0 \/ null # NoClient THEN null ELSE c
    BY <1>1, <1>8 DEF HandleSyscall
  <2>2. Parked' = Parked \cup {c}
    BY <1>2, <2>1 DEF Parked
  <2>3. Cardinality(Parked') = Cardinality(Parked) + 1
    BY <1>p, <2>2, FS_AddElement, Zenon
  <2>4. Callers'
    BY <1>2, <1>3, <2>1 DEF Callers
  <2>5. ReplySlots'
    BY <1>4, <1>p, <2>1, <2>3 DEF ReplySlots, Parked
  <2>. QED BY <1>1, <1>2, <1>4, <1>5, <2>1, <2>2, <2>4, <2>5
<1>. QED BY <1>6, <1>7, <1>8

(* A step that leaves the calls alone.                                     *)
LEMMA IpcSame == ASSUME IpcIInv, UNCHANGED ipcVars PROVE IpcIInv'
BY DEF IpcIInv, ipcVars, Callers, ReplySlots

(* A step that leaves the interrupts and the network alone.                *)
LEMMA NetSame ==
  ASSUME NetIInv, UNCHANGED <<irqVars, lineVars, loopVars, netVars>> PROVE NetIInv'
BY DEF NetIInv, irqVars, lineVars, loopVars, netVars, Registrations, Callbacks, StatusSeen, WdogRestarted

(* Every step of the loop keeps both invariants, and while there is a slot *)
(* no client left without an answer is replied to.                         *)
LEMMA LoopStep ==
  ASSUME NetIInv, IpcIInv, [LoopNext]_allVars
  PROVE  /\ NetIInv' /\ IpcIInv'
         /\ slots > 0 \/ null = NoClient => Parked \subseteq Parked'
<1>1. CASE \/ Arrive \/ Expire \/ (\E irq \in Irqs : Interrupt(irq)) \/ RecvNotification
           \/ Callback \/ (\E c \in Clients : RecvFault(c))
  <2>1. UNCHANGED ipcVars
    BY <1>1 DEF Arrive, Expire, Interrupt, RecvNotification, Callback, RecvFault, NetClear,
       NetAck, NetTick, WdogTick, WdogAck
  <2>2. NetIInv'
    BY <1>1, NetStep
  <2>. QED BY <2>1, <2>2, IpcSame DEF Parked, ipcVars
<1>2. ASSUME NEW c \in Clients, NEW n \in Sysnos, Call(c, n)
      PROVE  NetIInv' /\ IpcIInv' /\ Parked \subseteq Parked'
  <2>1. NetIInv' /\ IpcIInv'
    BY <1>2, CallIInv, NetSame, Zenon DEF Call
  <2>2. Parked' = Parked
    BY <1>2 DEF Call, Parked, IpcIInv
  <2>. QED BY <2>1, <2>2
<1>3. ASSUME NEW l \in BOOLEAN, RecvSyscall(l)
      PROVE  /\ NetIInv' /\ IpcIInv'
             /\ slots > 0 \/ null = NoClient => Parked \subseteq Parked'
  BY <1>3, RecvSyscallIInv, NetSame DEF RecvSyscall
<1>4. CASE UNCHANGED allVars
  BY <1>4, NetSame, IpcSame DEF allVars, dispatchVars, Parked, ipcVars
<1>. QED BY <1>1, <1>2, <1>3, <1>4 DEF LoopNext, RecvIpc

(* The invariants of the event loop.                                       *)
THEOREM LoopInductive == LoopSpec => [](NetIInv /\ IpcIInv)
<1>1. LoopInit => NetIInv
  <2> SUFFICES ASSUME LoopInit PROVE NetIInv
    OBVIOUS
  <2>1. Registrations /\ Callbacks /\ StatusSeen /\ WdogRestarted
    BY DEF LoopInit, Registrations, Callbacks, StatusSeen, WdogRestarted
  <2>2. /\ unseen \in BOOLEAN /\ status \in BOOLEAN /\ armed \in BOOLEAN
        /\ armed /\ ~unseen
    BY Zenon DEF LoopInit
  <2>3. rx \in 0 .. RingSize
    BY EventLoopAssumption DEF LoopInit
  <2>4. /\ latched \subseteq Irqs /\ masked \subseteq Irqs
        /\ badge \subseteq Bits /\ unchecked \subseteq badge
        /\ stage \in LoopStages
    BY DEF LoopInit, LoopStages
  <2>. QED BY <2>1, <2>2, <2>3, <2>4 DEF NetIInv
<1>2. LoopInit => IpcIInv
  <2> SUFFICES ASSUME LoopInit PROVE IpcIInv
    OBVIOUS
  <2>1. Cardinality({c \in Clients : client[c] = "parked"}) \in Nat
    BY ParkedCount
  <2>2. Callers /\ ReplySlots /\ slots \in 0 .. NumSlots
    BY <2>1, EventLoopAssumption DEF LoopInit, Callers, ReplySlots
  <2>. QED BY <2>2 DEF LoopInit, IpcIInv, Sysnos
<1>3. NetIInv /\ IpcIInv /\ [LoopNext]_allVars => (NetIInv /\ IpcIInv)'
  BY LoopStep
<1>. QED BY <1>1, <1>2, <1>3, PTL DEF LoopSpec

(* For any clients and any length of the receive ring: the loop never      *)
(* loses a wakeup. Packets that have not been seen have an interrupt       *)
(* latched, signalled or about to be handled, and so has an expired        *)
(* watchdog.                                                               *)
THEOREM WakeupsStayKept == LoopSpec => []WakeupsKept
<1>1. NetIInv /\ IpcIInv => WakeupsKept
  <2> SUFFICES ASSUME NetIInv, IpcIInv PROVE WakeupsKept
    OBVIOUS
  <2>1. BitOf("net") = 0 /\ BitOf("wdog") = 1
    BY BitNumbers DEF NetIInv
  <2>2. LoopTypeOK
    BY TwoBits DEF NetIInv, IpcIInv, LoopTypeOK, Callbacks
  <2>. QED BY <2>1, <2>2 DEF NetIInv, WakeupsKept, WatchdogAlive, RxWakeup
<1>. QED BY <1>1, LoopInductive, PTL

(* For any clients and any number of slots: the slots that replies have    *)
(* used up are no more than the clients left without an answer, and as     *)
(* long as there is a slot (or slot 0 is empty) no such client gets the    *)
(* reply to the call of another.                                           *)
THEOREM RepliesStayRight == LoopSpec => RepliesRight
<1>1. IpcIInv => ReplySlots
  BY DEF IpcIInv
<1>2. NetIInv /\ IpcIInv /\ [LoopNext]_allVars =>
        [slots > 0 \/ null = NoClient
           => \A c \in Clients : client[c] = "parked" => client'[c] = "parked"]_allVars
  BY LoopStep DEF Parked
<1>. QED BY <1>1, <1>2, LoopInductive, PTL DEF LoopSpec, RepliesRight, ReplyToCaller
=============================================================================
