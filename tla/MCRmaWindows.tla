---------------------------- MODULE MCRmaWindows ----------------------------
(* Instances of RmaWindows: two processes, windows of the world             *)
(* communicator and of one process, handles in both orders, and programs    *)
(* inside and beyond the limits on windows and epochs.                      *)
EXTENDS RmaWindows

MCMembers == [world |-> {0, 1}, self |-> {0}, other |-> {1}]
MCCommOf == [a |-> "world", b |-> "world", c |-> "world", s |-> "self"]

SameHandles == [p \in {0, 1} |-> [a |-> 1, b |-> 2, c |-> 3, s |-> 4]]
MCHandles == {SameHandles, [SameHandles EXCEPT ![1] = [a |-> 2, b |-> 1, c |-> 3, s |-> 4]]}

Op(o, w) == [op |-> o, on |-> w]

(* Two windows in an epoch at a barrier. *)
TwoWindows ==
  <<Op("create", "a"), Op("create", "b"), Op("lock_all", "a"), Op("lock_all", "b"),
    Op("barrier", "world"), Op("unlock_all", "b"), Op("unlock_all", "a"),
    Op("free", "a"), Op("free", "b")>>

(* A range is given back and taken by another window. *)
Reuse ==
  <<Op("create", "a"), Op("create", "b"), Op("lock_all", "a"), Op("unlock_all", "a"),
    Op("free", "a"), Op("create", "c"), Op("lock_all", "b"), Op("lock_all", "c"),
    Op("unlock_all", "b"), Op("unlock_all", "c"), Op("free", "b"), Op("free", "c")>>

(* A window of one process shifts its tag ranges. *)
SelfFirst ==
  <<Op("create", "s"), Op("create", "a"), Op("lock_all", "a"), Op("unlock_all", "a"),
    Op("free", "a"), Op("free", "s")>>

(* More windows than ranges, and more epochs than tags in a range. *)
ThirdWindow ==
  <<Op("create", "a"), Op("create", "b"), Op("create", "s"), Op("free", "s")>>

FourthEpoch ==
  <<Op("create", "a"), Op("create", "b"), Op("lock_all", "a"), Op("barrier", "world"),
    Op("barrier", "world"), Op("barrier", "world"), Op("lock_all", "b"),
    Op("unlock_all", "a"), Op("unlock_all", "b")>>

(* One process makes a barrier of its own in epochs of all: its reductions  *)
(* are matched with those the others make when the epochs end.              *)
SelfBarrier ==
  <<Op("create", "a"), Op("create", "b"), Op("lock_all", "a"), Op("lock_all", "b"),
    Op("barrier", "self"), Op("unlock_all", "b"), Op("unlock_all", "a")>>

(* The same after the epoch, which a barrier of all has synchronized. *)
StaleSync ==
  <<Op("create", "a"), Op("lock_all", "a"), Op("barrier", "world"), Op("unlock_all", "a"),
    Op("barrier", "self"), Op("barrier", "world")>>

(* Barriers outside of the epochs, after one inside: they start the thread  *)
(* of the window, which is then freed, or locked again.                     *)
FreedOver ==
  <<Op("create", "a"), Op("lock_all", "a"), Op("barrier", "world"), Op("unlock_all", "a"),
    Op("barrier", "world"), Op("free", "a")>>

LockedOver ==
  <<Op("create", "a"), Op("create", "b"), Op("lock_all", "a"), Op("barrier", "world"),
    Op("lock_all", "b"), Op("unlock_all", "a"), Op("barrier", "world"),
    Op("unlock_all", "b"), Op("lock_all", "a")>>

(* It does so without harm when the window is left alone. *)
LeftAlone ==
  <<Op("create", "a"), Op("create", "b"), Op("lock_all", "a"), Op("barrier", "world"),
    Op("unlock_all", "a"), Op("lock_all", "b"), Op("barrier", "world"),
    Op("unlock_all", "b"), Op("free", "b")>>

(* Each process ends an epoch the other does not, and one access is never  *)
(* received: later it is met by a window that reuses the range.             *)
LeftBehind ==
  <<Op("create", "a"), Op("create", "b"), Op("lock_all", "a"), Op("barrier", "other"),
    Op("unlock_all", "a"), Op("lock_all", "b"), Op("barrier", "self"), Op("free", "a"),
    Op("create", "c"), Op("lock_all", "c"), Op("unlock_all", "c"), Op("lock_all", "c")>>

MCPrograms ==
  {TwoWindows, Reuse, SelfFirst, ThirdWindow, FourthEpoch, SelfBarrier, StaleSync,
   FreedOver, LockedOver, LeftAlone, LeftBehind}
=============================================================================
