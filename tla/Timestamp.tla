------------------------------ MODULE Timestamp -----------------------------
(***************************************************************************)
(* read_timestamp (libclock/src/device.c): a 64-bit counter that runs on   *)
(* is read in 32-bit halves, the low one twice, to notice that it has      *)
(* wrapped around in between.                                              *)
(***************************************************************************)
EXTENDS Integers

CONSTANTS
  HalfBits,  \* bits of a register, 32
  MaxCount   \* where the counter stops

ASSUME TimestampAssumption ==
  /\ HalfBits \in Nat \ {0} /\ MaxCount \in Nat
  /\ 2 ^ HalfBits \in Nat \ {0}  \* which the provers do not know

VARIABLES
  count,   \* the counter
  reading, \* the step of read_timestamp that is next
  lo, hi,  \* its variables
  begun,   \* the counter when it was called
  time     \* what it returned

timeVars == <<count, reading, lo, hi, begun, time>>

timer_e == count % 2 ^ HalfBits
timer_e_hi == count \div 2 ^ HalfBits

TimeInit ==
  /\ count \in 0 .. MaxCount
  /\ reading = "lo" /\ lo = 0 /\ hi = 0 /\ begun = count /\ time = count

(* The low half does not wrap around twice during a call, that is, for     *)
(* more than an hour.                                                      *)
Count ==
  /\ count < MaxCount
  /\ reading # "lo" => count - begun < 2 ^ HalfBits - 1
  /\ count' = count + 1
  /\ UNCHANGED <<reading, lo, hi, begun, time>>

ReadLo ==
  /\ reading = "lo" /\ reading' = "hi"
  /\ lo' = timer_e /\ begun' = count
  /\ UNCHANGED <<count, hi, time>>

ReadHi ==
  /\ reading = "hi" /\ reading' = "new_lo"
  /\ hi' = timer_e_hi
  /\ UNCHANGED <<count, lo, begun, time>>

(* mutant: the high half is kept                                           *)
ReadNewLoOnly ==
  /\ reading = "new_lo" /\ reading' = "compose"
  /\ lo' = IF timer_e < lo THEN timer_e ELSE lo
  /\ UNCHANGED <<count, hi, begun, time>>

ReadNewLo ==
  /\ reading = "new_lo"
  /\ IF timer_e < lo THEN lo' = timer_e /\ reading' = "hi_again"
     ELSE reading' = "compose" /\ UNCHANGED lo
  /\ UNCHANGED <<count, hi, begun, time>>

ReadHiAgain ==
  /\ reading = "hi_again" /\ reading' = "compose"
  /\ hi' = timer_e_hi
  /\ UNCHANGED <<count, lo, begun, time>>

Compose ==
  /\ reading = "compose" /\ reading' = "lo"
  /\ time' = hi * 2 ^ HalfBits + lo
  /\ UNCHANGED <<count, lo, hi, begun>>

TimeNext == Count \/ ReadLo \/ ReadHi \/ ReadNewLo \/ ReadHiAgain \/ Compose

TimeSpec == TimeInit /\ [][TimeNext]_timeVars

-----------------------------------------------------------------------------
(* read_timestamp returns a value the counter had during the call, however *)
(* its two halves change between the reads; so later calls never return    *)
(* earlier times.                                                          *)
TimestampTrue == reading = "lo" => begun <= time /\ time <= count
=============================================================================
