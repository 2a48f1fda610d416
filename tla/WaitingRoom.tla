------------------------------ MODULE WaitingRoom ------------------------------
(***************************************************************************)
(* What the login queue promises to those who wait: they are called in the *)
(* order in which they came, at most AtOnce at a time, nobody waits twice, *)
(* and whoever is not called is removed only on its own.                   *)
(***************************************************************************)
EXTENDS Integers, Sequences, SequencesExt

CONSTANTS Users,  \* those who may wait
          AtOnce  \* how many are called in one round

VARIABLES line,  \* those who wait, the first to be called first
          calls  \* those called in the last step

Init == line = <<>> /\ calls = {}

Join(u) ==
  /\ u \notin ToSet(line)
  /\ line' = Append(line, u)
  /\ calls' = {}

\* u gives up.
Leave(u) ==
  /\ \E i \in DOMAIN line : line[i] = u /\ line' = RemoveAt(line, i)
  /\ calls' = {}

\* The first n are called; a call may be lost.
Admit ==
  \E n \in 1..AtOnce :
     /\ n <= Len(line)
     /\ line' = SubSeq(line, n + 1, Len(line))
     /\ calls' \subseteq {line[i] : i \in 1..n}

\* u is called without waiting; where it waits already, it keeps its place.
Pass(u) == calls' = {u} /\ UNCHANGED line

Rest == calls' = {} /\ UNCHANGED line

Next == Admit \/ Rest \/ \E u \in Users : Join(u) \/ Leave(u) \/ Pass(u)

Spec == Init /\ [][Next]_<<line, calls>>
================================================================================
