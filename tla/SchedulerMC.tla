---------------------------- MODULE SchedulerMC ----------------------------
(***************************************************************************)
(* Constants for model checking Scheduler.                                 *)
(***************************************************************************)
EXTENDS Scheduler, TLC

CONSTANTS c1, c2

\* A policy with one check, and one whose check has been edited away.
OneOrNone == [checks : {<<c1>>, <<>>}, rescan : {FALSE}]

\* A policy with a rescan loop, and one without.
RescanOrNot == [checks : {<<c1>>}, rescan : BOOLEAN]

TwoOrOne == [checks : {<<c1, c2>>, <<c2>>}, rescan : {FALSE}]

\* The slots of full scans are interchangeable.
AnySlot == Permutations(FullSlots)
=============================================================================
