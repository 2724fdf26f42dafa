----------------------------- MODULE MCNetwork ------------------------------
(***************************************************************************)
(* The network side of SOS for TLC: the event loop, and the two descriptor *)
(* rings of the Ethernet driver.  A behaviour is one of a single part,     *)
(* which the initial state chooses; the other parts stay as they begin.    *)
(***************************************************************************)
EXTENDS EventLoop, EthernetRing

VARIABLE part

networkVars == <<part, allVars, ringVars>>

Init ==
  /\ part \in {"loop", "rx", "tx"}
  /\ LoopInit
  /\ IF part = "tx" THEN TxInit ELSE RxInit

InLoop(A) == part = "loop" /\ A /\ UNCHANGED <<part, ringVars>>
InRing(p, A) == part = p /\ A /\ UNCHANGED <<part, allVars>>

(* a client has faulted, and SOS has stopped                               *)
Stopped ==
  /\ part = "loop" /\ stage = "abort"
  /\ UNCHANGED networkVars

Next ==
  \/ InLoop(LoopNext)
  \/ InRing("rx", RxNext)
  \/ InRing("tx", TxNext)
  \/ Stopped

(* LoopFairness, RxFairness and TxFairness, each in its own part           *)
Fairness ==
  /\ \A irq \in Irqs : WF_networkVars(InLoop(Interrupt(irq)))
  /\ WF_networkVars(InLoop(Expire))
  /\ WF_networkVars(InLoop(RecvNotification \/ Callback))
  /\ SF_networkVars(InLoop(RecvIpc))
  /\ WF_networkVars(InRing("rx", Recv)) /\ WF_networkVars(InRing("rx", DeviceHandsOver))
  /\ WF_networkVars(InRing("tx", Sending)) /\ WF_networkVars(InRing("tx", TxDevice))

Spec == Init /\ [][Next]_networkVars /\ Fairness
=============================================================================
