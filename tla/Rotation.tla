------------------------------ MODULE Rotation ------------------------------
(***************************************************************************)
(* The rotation through the lists of macs and of vlan ids of a tx          *)
(* interface: get_mac and get_vlan in gobbler.c, one index in each set, no *)
(* lock.                                                                   *)
(*                                                                         *)
(* main gives every lcore of the cpu mask the same context, so with more   *)
(* than one core the calls of several threads interleave.  Each step below *)
(* is one access to a shared index; the compiled code may keep no more of  *)
(* it in a register than a single thread could tell.                       *)
(***************************************************************************)
EXTENDS Integers

CONSTANTS
    Threads,    \* the lcores there are
    Lists,      \* the sets: of macs, of vlan ids
    MaxItems    \* the longest list

VARIABLES
    mask,       \* the lcores of the cpu mask, one gobbler thread on each; fixed
    nitems,     \* nmacs and nvlans, 0 if there is no such set; never changes
    idx,        \* the shared index of each set
    pc,         \* per thread: "rest", "test", "wrap", "take", "bump"
    list,       \* per thread, the list it asks
    took,       \* per thread and list, the index it loaded last, or NoItem
    prev,       \* per thread and list, the index before that, or NoItem
    disturbed   \* per thread: its index was written by another since its test

rotVars == <<mask, nitems, idx, pc, list, took, prev, disturbed>>

NoItem == -1

\* The cpu mask has at least the lcore of the master.  A set exists only with at
\* least one item.
Init ==
    /\ mask \in SUBSET Threads \ {{}}
    /\ nitems \in [Lists -> 0 .. MaxItems]
    /\ idx = [l \in Lists |-> 0]
    /\ pc = [t \in Threads |-> "rest"]
    /\ list \in [Threads -> Lists]
    /\ took = [t \in Threads |-> [l \in Lists |-> NoItem]]
    /\ prev = [t \in Threads |-> [l \in Lists |-> NoItem]]
    /\ disturbed = [t \in Threads |-> FALSE]

\* get_mac or get_vlan is called; without a set it gives the default.
Call(t, l) ==
    /\ pc[t] = "rest"
    /\ list' = [list EXCEPT ![t] = l]
    /\ pc' = [pc EXCEPT ![t] = IF nitems[l] = 0 THEN "rest" ELSE "test"]
    /\ UNCHANGED <<mask, nitems, idx, took, prev, disturbed>>

\* Faulty variant: the index may stand on the number of items.
PastEnd_OffByOne(t) == idx[list[t]] > nitems[list[t]]

PastEnd(t) == idx[list[t]] >= nitems[list[t]]

\* if( idx >= nitems )
Test(t) ==
    /\ pc[t] = "test"
    /\ pc' = [pc EXCEPT ![t] = IF PastEnd(t) THEN "wrap" ELSE "take"]
    /\ disturbed' = [disturbed EXCEPT ![t] = FALSE]
    /\ UNCHANGED <<mask, nitems, idx, list, took, prev>>

\* Every other thread that is in a call on the list sees the index change.
Disturb(t) ==
    disturbed' = [u \in Threads |-> disturbed[u] \/ (u # t /\ list[u] = list[t])]

\* idx = 0
Wrap(t) ==
    /\ pc[t] = "wrap"
    /\ idx' = [idx EXCEPT ![list[t]] = 0]
    /\ pc' = [pc EXCEPT ![t] = "take"]
    /\ disturbed' = [u \in Threads |-> u # t /\ (disturbed[u] \/ list[u] = list[t])]
    /\ UNCHANGED <<mask, nitems, list, took, prev>>

\* return items[idx++], the load ...
Take(t) ==
    /\ pc[t] = "take"
    /\ took' = [took EXCEPT ![t][list[t]] = idx[list[t]]]
    /\ prev' = [prev EXCEPT ![t][list[t]] = took[t][list[t]]]
    /\ pc' = [pc EXCEPT ![t] = "bump"]
    /\ UNCHANGED <<mask, nitems, idx, list, disturbed>>

\* Faulty variant: the index is left where it is.
Bump_Stays(t) ==
    /\ pc[t] = "bump"
    /\ pc' = [pc EXCEPT ![t] = "rest"]
    /\ UNCHANGED <<mask, nitems, idx, list, took, prev, disturbed>>

\* ... and the store; the caller has the item.
Bump(t) ==
    /\ pc[t] = "bump"
    /\ idx' = [idx EXCEPT ![list[t]] = took[t][list[t]] + 1]
    /\ pc' = [pc EXCEPT ![t] = "rest"]
    /\ Disturb(t)
    /\ UNCHANGED <<mask, nitems, list, took, prev>>

InCall(t) == Test(t) \/ Wrap(t) \/ Take(t) \/ Bump(t)

Next == \E t \in mask : InCall(t) \/ \E l \in Lists : Call(t, l)

Spec == Init /\ [][Next]_rotVars

-----------------------------------------------------------------------------
(* Properties.                                                             *)

\* How it can be one from behind the list: only if another thread wrote the
\* index between the test, or the reset, and the use.
OverrunNeedsAnother ==
    \A t \in Threads :
        pc[t] = "bump" /\ took[t][list[t]] >= nitems[list[t]] => disturbed[t]

\* With one thread: the item is the one after the item before it.
TakesTheNext ==
    \A t \in Threads :
        pc[t] = "bump" /\ mask = {t} =>
            took[t][list[t]] =
                IF prev[t][list[t]] + 1 = nitems[list[t]] THEN 0 ELSE prev[t][list[t]] + 1
=============================================================================
