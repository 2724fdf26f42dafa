----------------------------- MODULE FramePool ------------------------------
(***************************************************************************)
(* What the frame table promises its callers (sos/src/frame_table.h): a    *)
(* pool of frames that are numbered in the order they are created, where a *)
(* freed frame is the next one to be allocated again, and a new frame is   *)
(* only made when none is free.                                            *)
(***************************************************************************)
EXTENDS Integers, Sequences

VARIABLES
  free,   \* the free frames, most recently freed first
  live,   \* the allocated frames, oldest allocation first
  made    \* number of frames made so far

poolvars == <<free, live, made>>

PoolInit == free = <<>> /\ live = <<>> /\ made = 0

Reuse ==
  /\ free # <<>>
  /\ live' = Append(live, Head(free))
  /\ free' = Tail(free)
  /\ UNCHANGED made

Make ==
  /\ free = <<>>
  /\ made' = made + 1
  /\ live' = Append(live, made + 1)
  /\ UNCHANGED free

Release(i) ==
  /\ live' = SubSeq(live, 1, i - 1) \o SubSeq(live, i + 1, Len(live))
  /\ free' = <<live[i]>> \o free
  /\ UNCHANGED made

PoolNext == Reuse \/ Make \/ \E i \in DOMAIN live : Release(i)

PoolSpec == PoolInit /\ [][PoolNext]_poolvars
=============================================================================
