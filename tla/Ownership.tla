------------------------------ MODULE Ownership ------------------------------
(***************************************************************************)
(* What the owned wrappers of std::os::windows::io promise, whatever the   *)
(* kind of value: the system hands out a value that is not live to exactly *)
(* one owner, and the value stops being live only when that owner gives it *)
(* back.  No value is ever live with no owner (a leak), has two owners (a  *)
(* double close), or is closed by anyone but its owner.                    *)
(***************************************************************************)
CONSTANTS
  Values,   \* the values the system can hand out
  Owners    \* the parties that can be responsible for closing one

VARIABLES
  live,     \* the values currently handed out
  holders   \* holders[v]: who is responsible for closing v

vars == <<live, holders>>

(* At most one owner per value, and an owner exactly for the live ones.    *)
Owned ==
  \A v \in Values :
    /\ v \in live <=> holders[v] # {}
    /\ \A o1, o2 \in holders[v] : o1 = o2

Init ==
  /\ live \subseteq Values
  /\ holders \in [Values -> SUBSET Owners]
  /\ Owned

(* A value that is not live is handed to one owner.                        *)
Acquire(v, o) ==
  /\ v \notin live
  /\ live' = live \cup {v}
  /\ holders' = [holders EXCEPT ![v] = {o}]

(* The one owner of a value gives it back.                                 *)
Release(v, o) ==
  /\ holders[v] = {o}
  /\ live' = live \ {v}
  /\ holders' = [holders EXCEPT ![v] = {}]

Next == \E v \in Values, o \in Owners : Acquire(v, o) \/ Release(v, o)

Spec == Init /\ [][Next]_vars
=============================================================================
