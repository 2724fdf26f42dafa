---------------------------- MODULE EthernetRing ----------------------------
(***************************************************************************)
(* The descriptor rings of the Ethernet driver (libethernet, the U-Boot    *)
(* designware driver).  Driver and device share them through memory that   *)
(* the processor caches, so that the driver has to invalidate what it is   *)
(* about to read and flush what it has written; the bit OWNBYDMA says whose *)
(* turn it is.  Each descriptor has a cache line of its own and a buffer.  *)
(*                                                                         *)
(* The two rings share nothing but the driver's thread, so there is a      *)
(* specification for each, over the same variables.  Every access to the   *)
(* shared memory is a step; device and cache take theirs at any time.      *)
(***************************************************************************)
EXTENDS Integers, Sequences

CONSTANTS
  DescrNum,  \* CONFIG_RX_DESCR_NUM, CONFIG_TX_DESCR_NUM: 16
  Packets    \* what a buffer may hold

NoPacket == "none"

(* a packet is not one of the states the device is in without one          *)
ASSUME EthernetRingAssumption ==
  /\ DescrNum \in Nat \ {0}
  /\ {"listening", NoPacket} \cap Packets = {}

VARIABLES
  ram,      \* the memory, as the device sees it
  cached,   \* the lines in the cache, with their contents
  dirty,    \* those the driver has written and nobody has written back
  curr,     \* rx_currdescnum or tx_currdescnum
  step,     \* where the driver is
  packet,   \* the packet in hand: its status when received, all of it when sent
  dmapos,   \* the descriptor the device is at
  dmastate, \* where the device is
  queue     \* packets handed over and not yet fetched by the other side

ringVars == <<ram, cached, dirty, curr, step, packet, dmapos, dmastate, queue>>

Ring == 0 .. DescrNum - 1
Desc(i) == <<"desc", i>>
Buf(i) == <<"buf", i>>
Lines == {Desc(i) : i \in Ring} \cup {Buf(i) : i \in Ring}
Descr(own, p) == [own |-> own, len |-> p]  \* len stands for the packet's length

Succ(i) == IF i + 1 >= DescrNum THEN 0 ELSE i + 1

-----------------------------------------------------------------------------
(* The cache.                                                              *)
Load(l) == IF l \in DOMAIN cached THEN cached[l] ELSE ram[l]

With(l, v) == [x \in DOMAIN cached \cup {l} |-> IF x = l THEN v ELSE cached[x]]
Without(l) == [x \in DOMAIN cached \ {l} |-> cached[x]]

Store(l, v) == cached' = With(l, v) /\ dirty' = dirty \cup {l} /\ UNCHANGED ram

(* mutant: lines stay in the cache                                         *)
InvalidateNot(l) == UNCHANGED <<ram, cached, dirty>>

(* sos_dma_cache_invalidate                                                *)
Invalidate(l) == cached' = Without(l) /\ dirty' = dirty \ {l} /\ UNCHANGED ram

(* sos_dma_cache_clean_invalidate                                          *)
Flush(l) ==
  /\ ram' = IF l \in dirty THEN [ram EXCEPT ![l] = cached[l]] ELSE ram
  /\ cached' = Without(l) /\ dirty' = dirty \ {l}

(* A line is fetched because the driver or a prediction touches it ...     *)
Fetch(l) ==
  /\ l \notin DOMAIN cached
  /\ cached' = With(l, ram[l])
  /\ UNCHANGED <<ram, dirty, curr, step, packet, dmapos, dmastate, queue>>

(* ... and leaves when its place is needed.                                *)
Evict(l) ==
  /\ l \in DOMAIN cached
  /\ Flush(l)
  /\ UNCHANGED <<curr, step, packet, dmapos, dmastate, queue>>

CacheMoves == \E l \in Lines : Fetch(l) \/ Evict(l)

cacheVars == <<ram, cached, dirty>>
driverVars == <<curr, step, packet>>
deviceVars == <<dmapos, dmastate>>

RingInit(own, idle) ==
  /\ ram = [l \in Lines |-> IF l[1] = "desc" THEN Descr(own, NoPacket) ELSE NoPacket]
  /\ cached = << >> /\ dirty = {}
  /\ curr = 0 /\ step = "idle" /\ packet = NoPacket
  /\ dmapos = 0 /\ dmastate = idle /\ queue = <<>>

-----------------------------------------------------------------------------
(* Reception.  rx_descs_init gives every descriptor to the device.         *)
RxInit == RingInit(TRUE, "listening")

RxStep(from, to) == step = from /\ step' = to

(* _dw_eth_recv                                                            *)
RecvInvalidate ==
  /\ RxStep("idle", "status")
  /\ Invalidate(Desc(curr))
  /\ UNCHANGED <<curr, packet, deviceVars, queue>>

RecvStatus ==
  /\ step = "status"
  /\ LET d == Load(Desc(curr)) IN
     IF d.own THEN step' = "idle" /\ UNCHANGED packet
     ELSE step' = "data" /\ packet' = d.len
  /\ UNCHANGED <<cacheVars, curr, deviceVars, queue>>

RecvData ==
  /\ RxStep("data", "process")
  /\ Invalidate(Buf(curr))
  /\ UNCHANGED <<curr, packet, deviceVars, queue>>

(* uboot_process_received_packet: the stack copies the packet              *)
Process ==
  /\ RxStep("process", "free")
  /\ queue' = Tail(queue)
  /\ UNCHANGED <<cacheVars, curr, packet, deviceVars>>

(* _dw_free_pkt                                                            *)
FreeOwn ==
  /\ RxStep("free", "flush")
  /\ Store(Desc(curr), [Load(Desc(curr)) EXCEPT !.own = TRUE])
  /\ UNCHANGED <<curr, packet, deviceVars, queue>>

FreeFlush ==
  /\ RxStep("flush", "idle")
  /\ Flush(Desc(curr)) /\ curr' = Succ(curr)
  /\ packet' = NoPacket
  /\ UNCHANGED <<deviceVars, queue>>

(* The device writes a packet that arrives in the buffer if the descriptor *)
(* is its own, then the status; otherwise it drops the packet.             *)
DeviceWrites(p) ==
  /\ dmastate = "listening" /\ ram[Desc(dmapos)].own
  /\ dmastate' = p
  /\ ram' = [ram EXCEPT ![Buf(dmapos)] = p]
  /\ UNCHANGED <<cached, dirty, driverVars, dmapos, queue>>

DeviceHandsOver ==
  /\ dmastate # "listening"
  /\ ram' = [ram EXCEPT ![Desc(dmapos)] = Descr(FALSE, dmastate)]
  /\ queue' = Append(queue, dmastate)
  /\ dmapos' = Succ(dmapos) /\ dmastate' = "listening"
  /\ UNCHANGED <<cached, dirty, driverVars>>

Recv == RecvInvalidate \/ RecvStatus \/ RecvData \/ Process \/ FreeOwn \/ FreeFlush

RxNext == Recv \/ (\E p \in Packets : DeviceWrites(p)) \/ DeviceHandsOver \/ CacheMoves

-----------------------------------------------------------------------------
(* Transmission.  tx_descs_init leaves every descriptor with the driver.   *)
TxInit == RingInit(FALSE, "suspended")

(* _dw_eth_send                                                            *)
SendInvalidate(p) ==
  /\ step = "idle" /\ step' = "status" /\ packet' = p
  /\ Invalidate(Desc(curr))
  /\ UNCHANGED <<curr, deviceVars, queue>>

(* -EPERM while the device has the descriptor                              *)
SendStatus ==
  /\ step = "status"
  /\ step' = IF Load(Desc(curr)).own THEN "idle" ELSE "copy"
  /\ packet' = IF step' = "idle" THEN NoPacket ELSE packet
  /\ UNCHANGED <<cacheVars, curr, deviceVars, queue>>

SendCopy ==
  /\ step = "copy" /\ step' = "clean"
  /\ Store(Buf(curr), packet)
  /\ UNCHANGED <<curr, packet, deviceVars, queue>>

(* mutant: the data is not written back                                    *)
SendCleanNot ==
  /\ step = "clean" /\ step' = "length"
  /\ UNCHANGED <<cacheVars, curr, packet, deviceVars, queue>>

SendClean ==
  /\ step = "clean" /\ step' = "length"
  /\ Flush(Buf(curr))
  /\ UNCHANGED <<curr, packet, deviceVars, queue>>

SendLength ==
  /\ step = "length" /\ step' = "own"
  /\ Store(Desc(curr), [Load(Desc(curr)) EXCEPT !.len = packet])
  /\ UNCHANGED <<curr, packet, deviceVars, queue>>

SendOwn ==
  /\ step = "own" /\ step' = "flush"
  /\ Store(Desc(curr), [Load(Desc(curr)) EXCEPT !.own = TRUE])
  /\ queue' = Append(queue, packet)
  /\ UNCHANGED <<curr, packet, deviceVars>>

SendFlush ==
  /\ step = "flush" /\ step' = "poll"
  /\ Flush(Desc(curr)) /\ curr' = Succ(curr)
  /\ UNCHANGED <<packet, deviceVars, queue>>

(* mutant: the device is not told                                          *)
SendPollNot ==
  /\ step = "poll" /\ step' = "idle" /\ packet' = NoPacket
  /\ UNCHANGED <<cacheVars, curr, deviceVars, queue>>

(* txpolldemand wakes the device                                           *)
SendPoll ==
  /\ step = "poll" /\ step' = "idle" /\ packet' = NoPacket
  /\ dmastate' = IF dmastate = "suspended" THEN "ready" ELSE dmastate
  /\ UNCHANGED <<cacheVars, curr, dmapos, queue>>

(* The device goes through the descriptors that are its own, and sleeps at *)
(* the first that is not.                                                  *)
DeviceReads ==
  /\ dmastate = "ready"
  /\ IF ram[Desc(dmapos)].own
     THEN dmastate' = "sent" /\ queue' = Tail(queue)
     ELSE dmastate' = "suspended" /\ UNCHANGED queue
  /\ UNCHANGED <<cacheVars, driverVars, dmapos>>

DeviceGivesBack ==
  /\ dmastate = "sent"
  /\ ram' = [ram EXCEPT ![Desc(dmapos)].own = FALSE]
  /\ dmapos' = Succ(dmapos) /\ dmastate' = "ready"
  /\ UNCHANGED <<cached, dirty, driverVars, queue>>

Sending ==
  \/ SendStatus \/ SendCopy \/ SendClean \/ SendLength
  \/ SendOwn \/ SendFlush \/ SendPoll

TxDevice == DeviceReads \/ DeviceGivesBack

TxNext == (\E p \in Packets : SendInvalidate(p)) \/ Sending \/ TxDevice \/ CacheMoves

-----------------------------------------------------------------------------
(* pico_eth_poll calls the driver again and again (EventLoop); the device  *)
(* goes on while it is not suspended.                                      *)
RxFairness == WF_ringVars(Recv) /\ WF_ringVars(DeviceHandsOver)
TxFairness == WF_ringVars(Sending) /\ WF_ringVars(TxDevice)

RxSpec == RxInit /\ [][RxNext]_ringVars /\ RxFairness
TxSpec == TxInit /\ [][TxNext]_ringVars /\ TxFairness

(* What the stack gets from ethif_recv is the next packet the device       *)
(* received, whole and with its own length: none is overwritten, skipped,  *)
(* repeated or read from a stale cache line.                               *)
RxInOrder ==
  step = "process" =>
    queue # <<>> /\ packet = Head(queue) /\ Load(Buf(curr)) = Head(queue)

(* Whenever the device can take a descriptor for its own, also by an       *)
(* eviction before the driver flushes it, its buffer holds, in memory, the *)
(* next packet that ethif_send accepted.                                   *)
TxInOrder ==
  dmastate \in {"ready", "suspended"} /\ ram[Desc(dmapos)].own =>
    queue # <<>> /\ ram[Desc(dmapos)].len = Head(queue) /\ ram[Buf(dmapos)] = Head(queue)

(* Packets do not get stuck: the stack gets what the device received, and  *)
(* what was accepted for sending goes out even if nothing is sent after it.*)
RingsMove ==
  []<>(queue = <<>> \/ step = "process" \/ dmastate = "sent")
=============================================================================
