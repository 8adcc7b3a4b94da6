--------------------------- MODULE MCRequestPools ---------------------------
(* What a request uses and leaves behind: the pools its objects come from, *)
(* and the events its transaction saves (two pods that share a table).     *)
(* One of the two runs, and the other stands still.                        *)
EXTENDS RequestOutbox, TLC

VARIABLE kind

outboxVars == <<side, now, row, id, fate, published, tx, saved, pusher, retry, todo, current, failed, crashes>>

MCInit == kind \in {"pools", "outbox"} /\ Init /\ Outbox!Init

MCNext ==
  /\ kind' = kind
  /\ \/ kind = "pools" /\ Next /\ UNCHANGED outboxVars
     \/ kind = "outbox" /\ Outbox!Next /\ UNCHANGED vars

MCSpec == MCInit /\ [][MCNext]_<<kind, vars, outboxVars>>

Symmetry == Permutations(Workers) \union Permutations(Events) \union Permutations(Pods)
=============================================================================
