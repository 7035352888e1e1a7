----------------------------- MODULE TextMirror -----------------------------
(***************************************************************************)
(* What document synchronisation promises, without windows, versions or    *)
(* goroutines: a language server has at most one copy of each file, a copy *)
(* is a text the file really had, and as long as it exists the texts of    *)
(* the mirror itself only move forward.  Another program may take a text   *)
(* of the file and put it there later, over a newer one.                   *)
(*                                                                         *)
(* Texts are numbered by a clock that ticks with every edit of any file.   *)
(***************************************************************************)
EXTENDS Integers

CONSTANT Names     \* the files

VARIABLES clock,   \* number of the newest text
          copy,    \* copy[n]: the text the server has of file n, or Absent
          own,     \* own[n]: the last one that the mirror put there, or Absent
          taken    \* taken[n]: the text that another program has, or Absent

vars == <<clock, copy, own, taken>>

Absent == -1
None == [n \in Names |-> Absent]

Init == clock = 0 /\ copy = None /\ own = None /\ taken = None

\* Somebody edits a file.
Edit == clock' = clock + 1 /\ UNCHANGED <<copy, own, taken>>

Put(n, t) ==
    /\ copy' = [copy EXCEPT ![n] = t]
    /\ own' = [own EXCEPT ![n] = t]
    /\ UNCHANGED <<clock, taken>>

Open(n) == copy[n] = Absent /\ \E t \in 0..clock : Put(n, t)
Advance(n) == copy[n] # Absent /\ \E t \in own[n]..clock : Put(n, t)
Close(n) == copy[n] # Absent /\ Put(n, Absent)

\* Another program takes a text of the file, and its message arrives.  The
\* server may not take it.
Take(n) ==
    /\ taken[n] = Absent
    /\ \E t \in 0..clock : taken' = [taken EXCEPT ![n] = t]
    /\ UNCHANGED <<clock, copy, own>>

Intrude(n) ==
    /\ taken[n] # Absent
    /\ taken' = [taken EXCEPT ![n] = Absent]
    /\ \/ UNCHANGED copy
       \/ copy[n] # Absent /\ copy' = [copy EXCEPT ![n] = taken[n]]
    /\ UNCHANGED <<clock, own>>

\* The server exits and takes every copy with it.
Lose == copy' = None /\ own' = None /\ UNCHANGED <<clock, taken>>

Next ==
    \/ Edit \/ Lose
    \/ \E n \in Names : Open(n) \/ Advance(n) \/ Close(n) \/ Take(n) \/ Intrude(n)

Spec == Init /\ [][Next]_vars
=============================================================================
