------------------------------- MODULE MCSos --------------------------------
(***************************************************************************)
(* The parts of SOS that keep state of their own, for TLC: the frame       *)
(* table, the slot allocator, the untyped manager, interrupt dispatch, the *)
(* start of the first process, the fixed memory regions and the time       *)
(* stamp.  A behaviour is one of a single part, which the initial state    *)
(* chooses; the other parts stay as they begin.                            *)
(***************************************************************************)
EXTENDS CSpace, UtTable, FrameTableImpl, IrqDispatch, MCProcessStart, Arenas,
        Timestamp

VARIABLE part

sosVars ==
  <<part, cspaceVars, utVars, vars, dispatchVars, psVars, arenaVars, timeVars>>

SosInit ==
  /\ part \in {"cspace", "ut", "frames", "irq", "start", "arenas", "time"}
  /\ CSpaceInit /\ UtInit /\ Init /\ DispatchInit /\ PsInit /\ ArenaInit /\ TimeInit
  /\ part # "start" => prog = CHOOSE p \in Programs : TRUE
  /\ part # "time" => count = 0

InCSpace(A) ==
  /\ part = "cspace" /\ A
  /\ UNCHANGED <<part, utVars, vars, dispatchVars, psVars, arenaVars, timeVars>>
InUt(A) ==
  /\ part = "ut" /\ A
  /\ UNCHANGED <<part, cspaceVars, vars, dispatchVars, psVars, arenaVars, timeVars>>
InFrames(A) ==
  /\ part = "frames" /\ A
  /\ UNCHANGED <<part, cspaceVars, utVars, dispatchVars, psVars, arenaVars, timeVars>>
InIrq(A) ==
  /\ part = "irq" /\ A
  /\ UNCHANGED <<part, cspaceVars, utVars, vars, psVars, arenaVars, timeVars>>
InStart(A) ==
  /\ part = "start" /\ A
  /\ UNCHANGED <<part, cspaceVars, utVars, vars, dispatchVars, arenaVars, timeVars>>
InArenas(A) ==
  /\ part = "arenas" /\ A
  /\ UNCHANGED <<part, cspaceVars, utVars, vars, dispatchVars, psVars, timeVars>>
InTime(A) ==
  /\ part = "time" /\ A
  /\ UNCHANGED <<part, cspaceVars, utVars, vars, dispatchVars, psVars, arenaVars>>

(* Where a part has nothing more to do: SOS has crashed in the allocator,  *)
(* the frame table or the loader, the process has been started, or both    *)
(* regions are exhausted.                                                  *)
Stopped ==
  /\ \/ part = "cspace" /\ crash # "none"
     \/ part = "frames" /\ fault # "none"
     \/ part = "start" /\ pc \in {"done", "stopped"}
     \/ part = "arenas" /\ pnext > DmaEnd
  /\ UNCHANGED sosVars

SosNext ==
  \/ InCSpace(CSpaceNext)
  \/ InUt(UtNext)
  \/ InFrames(Next)
  \/ InIrq(DispatchNext)
  \/ InStart(PsNext)
  \/ InArenas(ArenaNext)
  \/ InTime(TimeNext)
  \/ Stopped

(* DispatchFairness, in its own part                                       *)
Fairness ==
  /\ WF_sosVars(InIrq(StartLoop)) /\ WF_sosVars(InIrq(Handle))
  /\ \A irq \in Irqs : WF_sosVars(InIrq(Deliver(irq)))

SosSpec == SosInit /\ [][SosNext]_sosVars /\ Fairness
=============================================================================
