------------------------------ MODULE Consensus ------------------------------
(***************************************************************************)
(* consensus_simulation.py: every node executes a contract and signs the   *)
(* hash it got; ConsensusEngine.run_consensus() checks the signatures,     *)
(* counts the hashes and issues a proof.  The nodes are objects of one     *)
(* process, called one after the other, so a round is one step.  The       *)
(* faulty nodes are those of tests/test_all.py and byzantine_simulation.py: *)
(* they sign any hash, claim any status, or attach a bad signature.  An    *)
(* honest node computes its hash from the acknowledgement it got, which    *)
(* for most contracts is the answer of a service it calls for itself: so   *)
(* honest nodes may attest different hashes of one contract.               *)
(***************************************************************************)
EXTENDS Integers, FiniteSets

CONSTANTS
  Nodes,        \* the participants of the engine
  Hashes,       \* the runtime hashes that occur
  Threshold,    \* CONSENSUS_QUORUM_THRESHOLD, in percent
  MaxRounds,    \* bound on the number of rounds
  NoHash,       \* the empty hash of a provenance failure
  Forged,       \* an attestation whose signature does not verify
  Missing       \* no attestation: simulate_missing

ASSUME NodesAssumption == IsFiniteSet(Nodes) /\ Nodes # {}
ASSUME ThresholdAssumption == Threshold \in 51..100
ASSUME HashAssumption == NoHash \notin Hashes
ASSUME RoundsAssumption == MaxRounds \in Nat

VARIABLES
  faulty,     \* the nodes that may attest anything, in every round
  contract,   \* the contract under vote
  proofs      \* the ConsensusProof of each round, in order

vars == <<faulty, contract, proofs>>

Attestation == [hash : Hashes \union {NoHash},
                status : {"OK", "EXECUTION_HALT", "PROVENANCE_FAILURE"}]

(* The engine looks at no hash or status of a forged one.                  *)
FaultyAttestations == Attestation \union {Forged}

Votes == [Nodes -> FaultyAttestations \union {Missing}]

ASSUME MissingAssumption == Missing \notin FaultyAttestations /\ Forged \notin Attestation

(* verified: verify_contract_provenance(); ack: whether RuntimeCore halts  *)
(* on the contract, degrades it, or calls the service; hash: what it makes *)
(* of the contract when no call fails.                                     *)
Contract == [verified : BOOLEAN, ack : {"HALT", "DEGRADED", "CALL"}, hash : Hashes]

(* RuntimeCore.execute() at one node.  A call that fails is part of the    *)
(* acknowledgement, and so of the hash.                                    *)
Execute(c) ==
  {[hash |-> c.hash, status |-> IF c.ack = "HALT" THEN "EXECUTION_HALT" ELSE "OK"]}
    \union {[hash |-> h, status |-> "EXECUTION_HALT"] :
              h \in IF c.ack = "CALL" THEN Hashes \ {c.hash} ELSE {}}

(* DistributedConsensusNode.process(): the attestations it may return      *)
Process(c) ==
  IF c.verified THEN Execute(c)
  ELSE {[hash |-> NoHash, status |-> "PROVENANCE_FAILURE"]}

(* What a round may collect: one node at most is missing.                  *)
PossibleVotes(c) ==
  {v \in Votes :
     /\ \A n \in Nodes \ faulty : v[n] \in Process(c) \union {Missing}
     /\ Cardinality({n \in Nodes : v[n] = Missing}) <= 1}

-----------------------------------------------------------------------------
(* run_consensus(), after the attestations are collected                   *)

Participating(v) == {n \in Nodes : v[n] # Missing}

(* verify_node_proof() accepts the signature under the node's key.         *)
Verified(v) == {n \in Participating(v) : v[n] # Forged}

(* Mutant of Counted: a provenance failure counts like a hash.             *)
CountedFailures(v) == Verified(v)

Counted(v) ==
  {n \in Verified(v) : v[n].hash # NoHash /\ v[n].status # "PROVENANCE_FAILURE"}

Backers(v, h) == {n \in Counted(v) : v[n].hash = h}

(* Mutant of Majorities: the first hash counted, not the most frequent.    *)
FirstHashes(v) == {v[n].hash : n \in Counted(v)}

(* max(hash_counts, key=hash_counts.get): of several the dictionary's      *)
(* first, here any of them.                                                *)
Majorities(v) ==
  {h \in {v[n].hash : n \in Counted(v)} :
     \A n \in Counted(v) : Cardinality(Backers(v, v[n].hash)) <= Cardinality(Backers(v, h))}

(* Mutant of Reached: a share of the votes counted, where the code has a   *)
(* share of the nodes.                                                     *)
ReachedOfCounted(v, h) ==
  Cardinality(Backers(v, h)) * 100 >= Threshold * Cardinality(Counted(v))

(* agreement_percentage >= threshold                                       *)
Reached(v, h) == Cardinality(Backers(v, h)) * 100 >= Threshold * Cardinality(Nodes)

(* Mutant of Disagreements: only the attestations that verify are compared. *)
DisagreementsVerified(v, h) == {n \in Verified(v) : v[n].hash # h}

Disagreements(v, h) == (Nodes \ Verified(v)) \union {n \in Verified(v) : v[n].hash # h}

NoConsensus == "NO_CONSENSUS"

ProofOf(v, h) ==
  [attestations |-> v,
   reached |-> Reached(v, h),
   final |-> IF Reached(v, h) THEN h ELSE NoConsensus,
   disagreements |-> Disagreements(v, h)]

(* Without a participant, or without a hash to count: not reached.         *)
EmptyProof(v) ==
  [attestations |-> v, reached |-> FALSE, final |-> NoConsensus, disagreements |-> Nodes]

Results(v) ==
  IF Counted(v) = {} THEN {EmptyProof(v)} ELSE {ProofOf(v, h) : h \in Majorities(v)}

-----------------------------------------------------------------------------
Init ==
  /\ faulty \in SUBSET Nodes
  /\ contract \in Contract
  /\ proofs = {}

RunConsensus ==
  /\ Cardinality(proofs) < MaxRounds
  /\ \E v \in PossibleVotes(contract) : \E p \in Results(v) : proofs' = proofs \union {p}
  /\ UNCHANGED <<faulty, contract>>

Next == RunConsensus

Spec == Init /\ [][Next]_vars

-----------------------------------------------------------------------------
Proof == [attestations : Votes, reached : BOOLEAN,
          final : Hashes \union {NoConsensus}, disagreements : SUBSET Nodes]

TypeOK == faulty \subseteq Nodes /\ contract \in Contract /\ proofs \subseteq Proof

QuorumSize == (Threshold * Cardinality(Nodes) + 99) \div 100

(* A certified hash is never ambiguous: when two rounds certify different  *)
(* hashes, some node's signature stands under both.                        *)
ConflictConvicts ==
  \A p, q \in proofs :
    p.reached /\ q.reached /\ p.final # q.final =>
      Backers(p.attestations, p.final) \intersect Backers(q.attestations, q.final) # {}

(* While the faulty nodes are fewer than a quorum, a certified hash is one *)
(* an honest node computed, after it verified the contract's provenance.   *)
CertifiedIsHonest ==
  Cardinality(faulty) < QuorumSize =>
    \A p \in proofs : p.reached =>
      contract.verified /\ \E n \in Nodes \ faulty : n \in Backers(p.attestations, p.final)

(* "Stale node isolated; honest majority prevails": a quorum of honest     *)
(* nodes that computed one hash is enough, whatever the other nodes do or  *)
(* fail to do, be they faulty, missing, or honest with a failed call.      *)
HonestQuorumPrevails ==
  \A p \in proofs, h \in Hashes :
    LET agreeing == {n \in Nodes \ faulty :
                       p.attestations[n] # Missing /\ p.attestations[n].hash = h} IN
    Cardinality(agreeing) >= QuorumSize => p.reached /\ p.final = h

(* "Faulty consensus node: isolated in disagreements": a proof that is     *)
(* reached names no node that backs it, names every honest node that does  *)
(* not, and lets only a faulty node escape both: one that signs the        *)
(* certified hash and claims a provenance failure is neither counted nor   *)
(* named.                                                                  *)
DissentIsNamed ==
  \A p \in proofs : p.reached =>
    LET backers == Backers(p.attestations, p.final) IN
    /\ p.disagreements \intersect backers = {}
    /\ Nodes \ (p.disagreements \union backers) \subseteq faulty
=============================================================================
