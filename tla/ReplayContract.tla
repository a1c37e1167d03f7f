--------------------------- MODULE ReplayContract ---------------------------
(***************************************************************************)
(* What the replay registry promises its callers, whatever the threads,    *)
(* files and restarts behind it: a durable numbering of messages that only *)
(* ever grows, and at most one VALID answer for each message, given after  *)
(* the numbering that backs it is durable.                                 *)
(***************************************************************************)
EXTENDS Naturals

CONSTANT Messages

VARIABLES
  lastSeq,   \* the last sequence number that survives a restart
  durable,   \* durable[m]: the sequence number of m that survives a restart; 0: none
  granted    \* the set of <<m, s>>: m was answered VALID with sequence number s

contractVars == <<lastSeq, durable, granted>>

Known(numbering) == {m \in Messages : numbering[m] # 0}

(* The numbers in use are 1, 2, ... without a gap, each used once.         *)
Contiguous(numbering, counter) ==
  /\ \A m \in Messages : numbering[m] <= counter
  /\ \A m1, m2 \in Known(numbering) : numbering[m1] = numbering[m2] => m1 = m2
  /\ \A n \in 1..counter : \E m \in Messages : numbering[m] = n

(* A numbering that keeps every number the older one has given.            *)
Extends(newer, older) == \A m \in Known(older) : newer[m] = older[m]

ContractInit ==
  /\ lastSeq = 0
  /\ durable = [m \in Messages |-> 0]
  /\ granted = {}

(* One write may make several messages durable: those of earlier writes    *)
(* that failed are written along.                                          *)
Record ==
  /\ lastSeq' \in Nat
  /\ durable' \in [Messages -> Nat]
  /\ Extends(durable', durable)
  /\ Contiguous(durable', lastSeq')
  /\ UNCHANGED granted

Grant(m) ==
  /\ durable[m] # 0
  /\ \A g \in granted : g[1] # m
  /\ granted' = granted \union {<<m, durable[m]>>}
  /\ UNCHANGED <<lastSeq, durable>>

ContractNext == Record \/ \E m \in Messages : Grant(m)

ContractSpec == ContractInit /\ [][ContractNext]_contractVars
=============================================================================
