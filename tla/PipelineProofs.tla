--------------------------- MODULE PipelineProofs ---------------------------
(***************************************************************************)
(* The process pipeline and the consensus engine of its last stage.        *)
(*                                                                         *)
(* Consensus: why a quorum above one half is enough, for every set of      *)
(* nodes, every set of faulty ones among them and every threshold          *)
(* config.validate() admits.                                               *)
(*                                                                         *)
(* ProcessPipeline: why pipeline_ok, which only looks at exit codes, means *)
(* that the runner holds the proof of the contract, whichever stages may   *)
(* crash and whenever.                                                     *)
(***************************************************************************)
EXTENDS Consensus, ProcessPipeline, FiniteSetTheorems, SequenceTheorems, TLAPS

-----------------------------------------------------------------------------
(* The consensus engine                                                    *)

(* What a proof says is what its attestations say.                         *)
ProofIsTally(p) ==
  /\ p.attestations \in PossibleVotes(contract)
  /\ p \in Results(p.attestations)
  /\ p.reached =>
       /\ Reached(p.attestations, p.final)
       /\ Counted(p.attestations) # {}
       /\ p.disagreements = Disagreements(p.attestations, p.final)

TallyInv ==
  /\ faulty \subseteq Nodes
  /\ contract \in Contract
  /\ \A p \in proofs : ProofIsTally(p)

LEMMA BackersFinite ==
  ASSUME NEW v, NEW h
  PROVE  /\ Backers(v, h) \subseteq Nodes
         /\ IsFiniteSet(Backers(v, h))
         /\ Cardinality(Backers(v, h)) \in Nat
<1>1. Backers(v, h) \subseteq Nodes
  BY DEF Backers, Counted, Verified, Participating
<1> QED
  BY <1>1, NodesAssumption, FS_Subset, FS_CardinalityType

(* There is a node, so there is a positive number of them.                 *)
LEMMA NodesCounted == Cardinality(Nodes) \in Nat /\ Cardinality(Nodes) > 0
<1>1. Cardinality(Nodes) \in Nat
  BY NodesAssumption, FS_CardinalityType
<1>2. Cardinality(Nodes) # 0
  BY NodesAssumption, FS_EmptySet
<1> QED
  BY <1>1, <1>2

(* Two sets that each hold Threshold percent of the nodes share a node.    *)
LEMMA QuorumsIntersect ==
  ASSUME NEW A \in SUBSET Nodes, NEW B \in SUBSET Nodes,
         Cardinality(A) * 100 >= Threshold * Cardinality(Nodes),
         Cardinality(B) * 100 >= Threshold * Cardinality(Nodes)
  PROVE  A \intersect B # {}
<1> SUFFICES ASSUME A \intersect B = {} PROVE FALSE
  OBVIOUS
<1>1. /\ IsFiniteSet(A) /\ IsFiniteSet(B)
      /\ Cardinality(A) \in Nat /\ Cardinality(B) \in Nat
  BY NodesAssumption, FS_Subset, FS_CardinalityType
<1>2. IsFiniteSet(A \union B) /\ Cardinality(A \union B) \in Nat
  BY <1>1, FS_Union, FS_CardinalityType
<1>3. Cardinality(A \intersect B) = 0
  BY FS_EmptySet
<1>4. Cardinality(A \union B) = Cardinality(A) + Cardinality(B)
  <2>1. Cardinality(A \union B)
          = Cardinality(A) + Cardinality(B) - Cardinality(A \intersect B)
    BY <1>1, FS_Union
  <2> QED
    BY <1>1, <1>3, <2>1
<1>5. Cardinality(A \union B) <= Cardinality(Nodes)
  BY NodesAssumption, FS_Subset
<1> DEFINE N == Cardinality(Nodes)
           a == Cardinality(A)
           b == Cardinality(B)
<1>6. N \in Nat /\ N > 0 /\ a \in Nat /\ b \in Nat /\ a + b <= N
  BY <1>1, <1>4, <1>5, NodesCounted
<1>7. a * 100 >= Threshold * N /\ b * 100 >= Threshold * N
  OBVIOUS
<1>8. Threshold * N >= 51 * N
  <2> HIDE DEF N
  <2> QED BY <1>6, ThresholdAssumption
<1> HIDE DEF N, a, b
<1>9. Threshold * N \in Nat
  BY <1>6, ThresholdAssumption
<1> QED
  BY <1>6, <1>7, <1>8, <1>9

LEMMA TallyInit == Init => TallyInv
BY DEF Init, TallyInv

LEMMA TallyStep == TallyInv /\ [Next]_vars => TallyInv'
<1> SUFFICES ASSUME TallyInv, [Next]_vars PROVE TallyInv'
  OBVIOUS
<1>1. CASE RunConsensus
  <2>1. PICK v \in PossibleVotes(contract) : \E p \in Results(v) : proofs' = proofs \union {p}
    BY <1>1 DEF RunConsensus
  <2>2. PICK p \in Results(v) : proofs' = proofs \union {p}
    BY <2>1
  <2>3. ProofIsTally(p)
    <3>1. CASE Counted(v) = {}
      BY <2>1, <2>2, <3>1 DEF Results, EmptyProof, ProofIsTally
    <3>2. CASE Counted(v) # {}
      <4>1. PICK h \in Majorities(v) : p = ProofOf(v, h)
        BY <2>2, <3>2 DEF Results
      <4>2. p.attestations = v
        BY <4>1 DEF ProofOf
      <4>3. p.reached => Reached(v, h) /\ p.final = h /\ p.disagreements = Disagreements(v, h)
        BY <4>1 DEF ProofOf
      <4> QED
        BY <2>1, <2>2, <3>2, <4>2, <4>3 DEF ProofIsTally
    <3> QED
      BY <3>1, <3>2
  <2> QED
    BY <1>1, <2>2, <2>3 DEF RunConsensus, TallyInv, ProofIsTally, PossibleVotes
<1>2. CASE UNCHANGED vars
  BY <1>2 DEF vars, TallyInv, ProofIsTally, PossibleVotes
<1> QED
  BY <1>1, <1>2 DEF Next

LEMMA TallyAlways == Spec => []TallyInv
BY TallyInit, TallyStep, PTL DEF Spec

(* An honest node attests in its own name, a hash it computed or none.     *)
LEMMA ProcessTyped ==
  ASSUME contract \in Contract, NEW a \in Process(contract)
  PROVE  /\ a \in Attestation
         /\ contract.verified => a.hash \in Hashes /\ a.status # "PROVENANCE_FAILURE"
         /\ ~contract.verified => a.hash = NoHash
<1>1. CASE contract.verified
  <2>1. PICK h \in Hashes, st \in {"OK", "EXECUTION_HALT"} : a = [hash |-> h, status |-> st]
    BY <1>1 DEF Process, Execute, Contract
  <2> QED
    BY <1>1, <2>1 DEF Attestation
<1>2. CASE ~contract.verified
  <2>1. a = [hash |-> NoHash, status |-> "PROVENANCE_FAILURE"]
    BY <1>2 DEF Process
  <2> QED
    BY <1>2, <2>1 DEF Attestation
<1> QED
  BY <1>1, <1>2

(* What a round collects from an honest node.                              *)
LEMMA HonestVote ==
  ASSUME contract \in Contract, NEW v \in PossibleVotes(contract),
         NEW n \in Nodes \ faulty, v[n] # Missing
  PROVE  /\ n \in Verified(v)
         /\ v[n].hash \in Hashes => contract.verified /\ n \in Counted(v)
         /\ v[n].hash # NoHash => v[n].hash \in Hashes
<1>1. v[n] \in Process(contract)
  BY DEF PossibleVotes
<1>2. /\ v[n] \in Attestation
      /\ contract.verified => v[n].hash \in Hashes /\ v[n].status # "PROVENANCE_FAILURE"
      /\ ~contract.verified => v[n].hash = NoHash
  BY <1>1, ProcessTyped
<1>3. n \in Verified(v)
  BY <1>2, MissingAssumption DEF Verified, Participating
<1> QED
  BY <1>2, <1>3, HashAssumption DEF Counted

(* What verifies is an attestation.                                        *)
LEMMA VotesTyped ==
  ASSUME NEW v \in PossibleVotes(contract)
  PROVE  v \in Votes /\ \A n \in Verified(v) : v[n].hash \in Hashes \union {NoHash}
<1>1. v \in Votes
  BY DEF PossibleVotes
<1>2. ASSUME NEW n \in Verified(v) PROVE v[n].hash \in Hashes \union {NoHash}
  <2>1. n \in Nodes /\ v[n] # Missing /\ v[n] # Forged
    BY DEF Verified, Participating
  <2>2. v[n] \in Attestation
    BY <1>1, <2>1 DEF Votes, FaultyAttestations
  <2> QED
    BY <2>2 DEF Attestation
<1> QED
  BY <1>1, <1>2

(* A proof certifies a hash some node attested, or none.                   *)
LEMMA ResultTyped ==
  ASSUME NEW v \in PossibleVotes(contract), NEW p \in Results(v)
  PROVE  p \in Proof
<1>1. v \in Votes /\ \A n \in Verified(v) : v[n].hash \in Hashes \union {NoHash}
  BY VotesTyped
<1>2. CASE Counted(v) = {}
  <2>1. p = [attestations |-> v, reached |-> FALSE, final |-> NoConsensus, disagreements |-> Nodes]
    BY <1>2 DEF Results, EmptyProof
  <2> QED
    BY <1>1, <2>1 DEF Proof
<1>3. CASE Counted(v) # {}
  <2>1. PICK h \in Majorities(v) : p = ProofOf(v, h)
    BY <1>3 DEF Results
  <2>2. PICK n \in Counted(v) : v[n].hash = h
    BY <2>1 DEF Majorities
  <2>3. h \in Hashes
    BY <1>1, <2>2 DEF Counted
  <2>4. Disagreements(v, h) \subseteq Nodes
    BY DEF Disagreements, Verified, Participating
  <2>5. Reached(v, h) \in BOOLEAN
    BY DEF Reached
  <2>6. p = [attestations |-> v, reached |-> Reached(v, h),
             final |-> IF Reached(v, h) THEN h ELSE NoConsensus,
             disagreements |-> Disagreements(v, h)]
    BY <2>1 DEF ProofOf
  <2> QED
    BY <1>1, <2>3, <2>4, <2>5, <2>6 DEF Proof
<1> QED
  BY <1>2, <1>3

(* The engine's proofs are proofs: of attestations by its nodes, about a   *)
(* hash that was attested.                                                 *)
THEOREM TypeCorrect == Spec => []TypeOK
<1>1. TallyInv => TypeOK
  <2> SUFFICES ASSUME TallyInv, NEW p \in proofs PROVE p \in Proof
    BY DEF TypeOK, TallyInv
  <2>1. p.attestations \in PossibleVotes(contract) /\ p \in Results(p.attestations)
    BY DEF TallyInv, ProofIsTally
  <2> QED
    BY <2>1, ResultTyped DEF TallyInv
<1> QED
  BY <1>1, TallyAlways, PTL

-----------------------------------------------------------------------------
(* Whatever the faulty nodes sign, two rounds that certify different       *)
(* hashes leave a node with both signatures: "66% quorum", for every       *)
(* threshold above one half and every number of nodes.                     *)
THEOREM Accountability == Spec => []ConflictConvicts
<1>1. TallyInv => ConflictConvicts
  <2> SUFFICES ASSUME TallyInv, NEW p \in proofs, NEW q \in proofs, p.reached, q.reached
               PROVE  Backers(p.attestations, p.final)
                        \intersect Backers(q.attestations, q.final) # {}
    BY DEF ConflictConvicts
  <2>1. Reached(p.attestations, p.final) /\ Reached(q.attestations, q.final)
    BY DEF TallyInv, ProofIsTally
  <2>2. /\ Backers(p.attestations, p.final) \in SUBSET Nodes
        /\ Backers(q.attestations, q.final) \in SUBSET Nodes
    BY BackersFinite
  <2> QED
    BY <2>1, <2>2, QuorumsIntersect DEF Reached
<1> QED
  BY <1>1, TallyAlways, PTL

(* A certified hash has an honest backer while the faulty nodes are no     *)
(* quorum, and an honest backer has verified the contract and computed it. *)
THEOREM Validity == Spec => []CertifiedIsHonest
<1>1. TallyInv => CertifiedIsHonest
  <2> SUFFICES ASSUME TallyInv, Cardinality(faulty) < QuorumSize,
                      NEW p \in proofs, p.reached
               PROVE  /\ contract.verified
                      /\ \E n \in Nodes \ faulty : n \in Backers(p.attestations, p.final)
    BY DEF CertifiedIsHonest
  <2> DEFINE B == Backers(p.attestations, p.final)
  <2>1. Reached(p.attestations, p.final) /\ p.attestations \in PossibleVotes(contract)
    BY DEF TallyInv, ProofIsTally
  <2>2. ~(B \subseteq faulty)
    <3> SUFFICES ASSUME B \subseteq faulty PROVE FALSE
      OBVIOUS
    <3>1. /\ IsFiniteSet(faulty) /\ Cardinality(faulty) \in Nat
          /\ Cardinality(B) \in Nat /\ Cardinality(B) <= Cardinality(faulty)
      BY NodesAssumption, FS_Subset, FS_CardinalityType, BackersFinite DEF TallyInv
    <3> DEFINE N == Cardinality(Nodes)
               f == Cardinality(faulty)
               b == Cardinality(B)
    <3>2. N \in Nat
      BY NodesCounted
    <3>3. f < (Threshold * N + 99) \div 100 /\ b * 100 >= Threshold * N
      BY <2>1 DEF QuorumSize, Reached
    <3>4. f \in Nat /\ b \in Nat /\ b <= f
      BY <3>1
    <3> HIDE DEF N, f, b
    <3> DEFINE x == Threshold * N
    <3>5. x \in Nat
      BY <3>2, ThresholdAssumption
    <3>6. f < (x + 99) \div 100 /\ b * 100 >= x
      BY <3>3
    <3> HIDE DEF x
    <3> QED
      BY <3>4, <3>5, <3>6
  <2>3. PICK n \in B : n \notin faulty
    BY <2>2
  <2>4. /\ n \in Nodes \ faulty
        /\ p.attestations[n] # Missing
        /\ p.attestations[n].hash # NoHash
    BY <2>3 DEF Backers, Counted, Verified, Participating
  <2>5. contract.verified
    BY <2>1, <2>4, HonestVote DEF TallyInv
  <2> QED
    BY <2>3, <2>4, <2>5
<1> QED
  BY <1>1, TallyAlways, PTL

(* A reached proof names no backer, and every other node that is honest.   *)
THEOREM Dissent == Spec => []DissentIsNamed
<1>1. TallyInv => DissentIsNamed
  <2> SUFFICES ASSUME TallyInv, NEW p \in proofs, p.reached
               PROVE  /\ p.disagreements \intersect Backers(p.attestations, p.final) = {}
                      /\ Nodes \ (p.disagreements \union Backers(p.attestations, p.final))
                           \subseteq faulty
    BY DEF DissentIsNamed
  <2> DEFINE v == p.attestations
             B == Backers(v, p.final)
  <2>1. /\ v \in PossibleVotes(contract) /\ contract \in Contract
        /\ Reached(v, p.final)
        /\ p.disagreements = Disagreements(v, p.final)
    BY DEF TallyInv, ProofIsTally
  <2>2. p.final # NoHash
    <3>1. B # {}
      BY <2>1, BackersFinite, QuorumsIntersect DEF Reached
    <3> QED
      BY <3>1 DEF Backers, Counted
  <2>3. p.disagreements \intersect B = {}
    BY <2>1 DEF Disagreements, Backers, Counted
  <2>4. ASSUME NEW n \in Nodes \ faulty, n \notin p.disagreements PROVE n \in B
    <3>1. n \in Verified(v) /\ v[n].hash = p.final
      BY <2>1, <2>4 DEF Disagreements
    <3>2. v[n] # Missing
      BY <3>1 DEF Verified, Participating
    <3>3. n \in Counted(v)
      BY <2>1, <2>2, <3>1, <3>2, HonestVote
    <3> QED
      BY <3>1, <3>3 DEF Backers
  <2> QED
    BY <2>3, <2>4
<1> QED
  BY <1>1, TallyAlways, PTL

(* A quorum of honest nodes that computed one hash certifies it, whatever  *)
(* the others attest: no other hash can have as many votes.                *)
THEOREM HonestQuorum == Spec => []HonestQuorumPrevails
<1>1. TallyInv => HonestQuorumPrevails
  <2> SUFFICES ASSUME TallyInv, NEW p \in proofs, NEW g \in Hashes,
                      Cardinality({n \in Nodes \ faulty :
                                     p.attestations[n] # Missing /\ p.attestations[n].hash = g})
                        >= QuorumSize
               PROVE  p.reached /\ p.final = g
    BY DEF HonestQuorumPrevails
  <2> DEFINE v == p.attestations
             H == {n \in Nodes \ faulty : v[n] # Missing /\ v[n].hash = g}
             B == Backers(v, g)
  <2>1. v \in PossibleVotes(contract) /\ p \in Results(v) /\ contract \in Contract
    BY DEF TallyInv, ProofIsTally
  <2>2. H \subseteq B
    <3> SUFFICES ASSUME NEW n \in H PROVE n \in B
      OBVIOUS
    <3>1. n \in Counted(v)
      BY <2>1, HonestVote
    <3> QED
      BY <3>1 DEF Backers
  <2>3. Reached(v, g)
    <3>1. IsFiniteSet(B) /\ Cardinality(B) \in Nat
      BY BackersFinite
    <3>2. Cardinality(H) \in Nat /\ Cardinality(H) <= Cardinality(B)
      BY <2>2, <3>1, FS_Subset, FS_CardinalityType
    <3> DEFINE x == Threshold * Cardinality(Nodes)
               b == Cardinality(B)
               c == Cardinality(H)
    <3>3. x \in Nat
      BY NodesCounted, ThresholdAssumption
    <3>4. c >= (x + 99) \div 100 /\ c \in Nat /\ b \in Nat /\ c <= b
      BY <3>1, <3>2 DEF QuorumSize
    <3>5. b * 100 >= x
      <4> HIDE DEF x, b, c
      <4> QED BY <3>3, <3>4
    <3> QED
      BY <3>5 DEF Reached
  <2>4. B # {}
    BY <2>3, BackersFinite, QuorumsIntersect DEF Reached
  <2>5. Counted(v) # {}
    BY <2>4 DEF Backers
  <2>6. PICK h \in Majorities(v) : p = ProofOf(v, h)
    BY <2>1, <2>5 DEF Results
  <2>7. Reached(v, h)
    <3>1. PICK n \in Counted(v) : v[n].hash = g
      BY <2>4 DEF Backers
    <3>2. Cardinality(B) <= Cardinality(Backers(v, h))
      BY <2>6, <3>1 DEF Majorities
    <3>3. Cardinality(B) \in Nat /\ Cardinality(Backers(v, h)) \in Nat
      BY BackersFinite
    <3>4. Threshold * Cardinality(Nodes) \in Nat
      BY NodesCounted, ThresholdAssumption
    <3> HIDE DEF B
    <3> QED
      BY <2>3, <3>2, <3>3, <3>4 DEF Reached, B
  <2>8. h = g
    <3>1. B \in SUBSET Nodes /\ Backers(v, h) \in SUBSET Nodes
      BY BackersFinite
    <3>2. B \intersect Backers(v, h) # {}
      BY <2>3, <2>7, <3>1, QuorumsIntersect DEF Reached
    <3> QED
      BY <3>2 DEF Backers
  <2> QED
    BY <2>6, <2>7, <2>8 DEF ProofOf
<1> QED
  BY <1>1, TallyAlways, PTL

-----------------------------------------------------------------------------
(* The process pipeline                                                    *)

(* What travels to each reader, and where each stage can be.               *)
Carried == [execution |-> {"CONTRACT", "DONE"},
            consensus |-> Acks \union {"DONE"},
            runner |-> Proofs \union {"DONE"}]

ChannelsTyped ==
  /\ \A r \in Readers : queue[r] \in Seq(Carried[r])
  /\ \A p \in Stages : out[p] \in Carried[Reader[p]] \union {"none"}
  /\ \A p \in Stages : pc[p] = "putting" <=> out[p] # "none"
  /\ pc["producer"] # "reading"

(* Of a dead stage the pc is gone, and its connection, if any, is closed.  *)
ProcessInv ==
  /\ \A p \in Stages : pc[p] = "gone" <=> exit[p] # "alive"
  /\ \A p \in Stages : conn[Reader[p]] = "closed" => exit[p] # "alive"
  /\ \A p \in Stages : exit[p] = "ok" => conn[Reader[p]] = "closed"
  /\ \A p \in Stages : exit[p] # "alive" => conn[Reader[p]] # "open"
  /\ \A r \in {"execution", "consensus"} : bound[r] <=> pc[r] \in {"reading", "putting"}
  /\ \A r \in {"execution", "consensus"} : conn[r] # "none" => pc[r] \notin {"starting", "up"}
  /\ bound["runner"]
  /\ runner \in {"reading", "done"} => \A p \in Stages : exit[p] # "alive"

(* Types, what travels where, and the lives of the stages.                 *)
TypedInv == PipelineTypeOK /\ ChannelsTyped /\ ProcessInv

LEMMA ReaderOf ==
  /\ Reader["producer"] = "execution"
  /\ Reader["execution"] = "consensus"
  /\ Reader["consensus"] = "runner"
  /\ Carried["execution"] = {"CONTRACT", "DONE"}
  /\ Carried["consensus"] = Acks \union {"DONE"}
  /\ Carried["runner"] = Proofs \union {"DONE"}
  /\ \A p, q \in Stages : Reader[p] \in Readers /\ (Reader[p] = Reader[q] => p = q)
  /\ \A r \in Readers : Carried[r] \subseteq Message
BY DEF Reader, Carried, Readers, Stages, Acks, Proofs, Message

LEMMA Popped ==
  ASSUME NEW S, NEW q \in Seq(S), q # <<>>
  PROVE  /\ Head(q) = q[1] /\ q[1] \in S
         /\ Len(q) \in Nat /\ 1 \in 1..Len(q)
         /\ Tail(q) \in Seq(S) /\ Len(Tail(q)) = Len(q) - 1
         /\ \A i \in 1..Len(Tail(q)) : Tail(q)[i] = q[i + 1] /\ i + 1 \in 1..Len(q)
<1>1. Len(q) \in Nat /\ Len(q) # 0
  BY LenProperties, EmptySeq
<1>2. /\ Head(q) \in S /\ Head(q) = q[1]
      /\ Tail(q) \in Seq(S) /\ Len(Tail(q)) = Len(q) - 1
      /\ \A i \in 1..Len(Tail(q)) : Tail(q)[i] = q[i + 1]
  BY HeadTailProperties
<1> QED
  BY <1>1, <1>2

LEMMA Pushed ==
  ASSUME NEW S, NEW q \in Seq(S), NEW m \in S
  PROVE  /\ Append(q, m) \in Seq(S)
         /\ Len(q) \in Nat /\ Len(Append(q, m)) = Len(q) + 1
         /\ Append(q, m) # <<>>
         /\ \A i \in 1..Len(q) : Append(q, m)[i] = q[i]
         /\ Append(q, m)[Len(q) + 1] = m
<1>1. Len(q) \in Nat
  BY LenProperties
<1>2. /\ Append(q, m) \in Seq(S)
      /\ Append(q, m) # <<>>
      /\ Len(Append(q, m)) = Len(q) + 1
      /\ \A i \in 1..Len(q) : Append(q, m)[i] = q[i]
      /\ Append(q, m)[Len(q) + 1] = m
  BY AppendProperties
<1> QED
  BY <1>1, <1>2

(* A stage dies of an error or is killed.                                  *)
Fails(p, code) ==
  /\ Alive(p)
  /\ Die(p, code)
  /\ queue' = DropUnread(p, queue)
  /\ UNCHANGED <<runner, result, executed>>

(* What a step is, with the ways a stage can fail and the runner can go on *)
(* taken together.                                                         *)
PipelineStep ==
  \/ \E p \in Stages, code \in {"crashed", "terminated"} : Fails(p, code)
  \/ \E p \in Stages :
       \/ StartHeartbeat(p)
       \/ Listen(p)
       \/ Get(p)
       \/ Connect(p)
       \/ Put(p)
       \/ PutDone(p)
  \/ RunnerGoto("reaping") /\ runner = "polling"
  \/ /\ RunnerGoto("reading") /\ runner \in {"polling", "reaping"}
     /\ \A p \in Stages : ~Alive(p)
  \/ ReadResult
  \/ UNCHANGED pipelineVars

LEMMA PipelineSteps ==
  ASSUME TypedInv, [PipelineNext]_pipelineVars PROVE PipelineStep
<1>1. ASSUME NEW p \in Stages, pc[p] # "gone" PROVE Alive(p)
  BY <1>1 DEF TypedInv, ProcessInv, Alive
<1>2. ASSUME NEW p \in Stages,
             InjectedCrash(p) \/ ConnectFails(p) \/ Crash(p) \/ HeartbeatFails(p) \/ Reap(p)
      PROVE  \E code \in {"crashed", "terminated"} : Fails(p, code)
  BY <1>1, <1>2 DEF InjectedCrash, ConnectFails, Crash, HeartbeatFails, Reap, Terminate, Fails
<1>3. ASSUME AllExited \/ TimeoutExceeded \/ AllReaped PROVE PipelineStep
  BY <1>3 DEF AllExited, TimeoutExceeded, AllReaped, PipelineStep
<1> QED
  BY <1>2, <1>3 DEF PipelineNext, StagesNext, StageStep, RunnerStep, PipelineStep

(* What Get() reads and answers.                                           *)
Reads(p, m, a) ==
  /\ p \in {"execution", "consensus"} /\ pc[p] = "reading" /\ out[p] = "none"
  /\ IF queue[p] = <<>> THEN conn[p] = "closed" /\ m = "DONE" ELSE m = queue[p][1]
  /\ m \in Carried[p] /\ a \in Answers(p, m) /\ a \in Carried[Reader[p]]
  /\ m = "DONE" <=> a = "DONE"
  /\ pc' = [pc EXCEPT ![p] = "putting"]
  /\ out' = [out EXCEPT ![p] = a]
  /\ executed' = executed \union ({a} \intersect Acks)
  /\ queue' = [queue EXCEPT ![p] = Rest(p)]
  /\ Rest(p) \in Seq(Carried[p])
  /\ UNCHANGED <<injected, exit, heartbeat, bound, conn, runner, result>>

LEMMA GetReads ==
  ASSUME TypedInv, NEW p \in Stages, Get(p)
  PROVE  \E m, a : Reads(p, m, a)
<1>1. pc[p] = "reading" /\ p \in {"execution", "consensus"}
  BY DEF Get, TypedInv, ChannelsTyped, Stages
<1>2. PICK m \in Arrived(p) : \E a \in Answers(p, m) :
        out' = [out EXCEPT ![p] = a] /\ executed' = executed \union ({a} \intersect Acks)
  BY DEF Get
<1>3. PICK a \in Answers(p, m) :
        out' = [out EXCEPT ![p] = a] /\ executed' = executed \union ({a} \intersect Acks)
  BY <1>2
<1>4. queue[p] \in Seq(Carried[p])
  BY <1>1 DEF TypedInv, ChannelsTyped, Readers
<1>5. IF queue[p] = <<>> THEN conn[p] = "closed" /\ m = "DONE" ELSE m = queue[p][1]
  <2>1. CASE queue[p] = <<>>
    BY <1>2, <2>1 DEF Arrived
  <2>2. CASE queue[p] # <<>>
    BY <1>2, <1>4, <2>2, Popped DEF Arrived
  <2> QED
    BY <2>1, <2>2
<1>6. m \in Carried[p]
  <2>1. CASE queue[p] = <<>>
    BY <1>1, <1>5, <2>1, ReaderOf
  <2>2. CASE queue[p] # <<>>
    BY <1>4, <1>5, <2>2, Popped
  <2> QED
    BY <2>1, <2>2
<1>7. a \in Carried[Reader[p]] /\ (m = "DONE" <=> a = "DONE")
  BY <1>1, <1>3, <1>6, ReaderOf DEF Answers, ExecutionAnswers, ConsensusAnswers, Acks, Proofs
<1>8. Rest(p) \in Seq(Carried[p])
  BY <1>4, Popped, EmptySeq DEF Rest
<1>9. out[p] = "none"
  BY <1>1 DEF TypedInv, ChannelsTyped
<1> QED
  BY <1>1, <1>3, <1>5, <1>6, <1>7, <1>8, <1>9 DEF Get, Goto, Reads

(* What travels to r after a step of any kind is what may travel to r.     *)
QueuesTyped(q) == q \in [Readers -> Seq(Message)] /\ \A r \in Readers : q[r] \in Seq(Carried[r])

LEMMA QueueTyped ==
  ASSUME NEW q \in [Readers -> Seq(Message)], QueuesTyped(q),
         NEW r \in Readers, NEW new \in Seq(Carried[r])
  PROVE  QueuesTyped([q EXCEPT ![r] = new])
<1>1. Carried[r] \subseteq Message
  BY ReaderOf
<1>2. new \in Seq(Message)
  BY <1>1, SeqMonotonic
<1> QED
  BY <1>2 DEF QueuesTyped

LEMMA DropTyped ==
  ASSUME NEW p, NEW q, QueuesTyped(q)
  PROVE  QueuesTyped(DropUnread(p, q))
<1>1. \A S : <<>> \in Seq(S)
  BY EmptySeq
<1> QED
  BY <1>1 DEF QueuesTyped, DropUnread

LEMMA DeliveredTyped ==
  ASSUME TypedInv, NEW p \in Stages, pc[p] = "putting"
  PROVE  /\ QueuesTyped(Delivered(p))
         /\ out[p] \in Carried[Reader[p]]
<1>1. out[p] \in Carried[Reader[p]] /\ Reader[p] \in Readers
  BY ReaderOf DEF TypedInv, ChannelsTyped
<1>2. QueuesTyped(queue) /\ queue[Reader[p]] \in Seq(Carried[Reader[p]])
  BY <1>1 DEF TypedInv, PipelineTypeOK, ChannelsTyped, QueuesTyped
<1>3. Append(queue[Reader[p]], out[p]) \in Seq(Carried[Reader[p]])
  BY <1>1, <1>2, Pushed
<1>4. Delivered(p) = IF bound[Reader[p]]
                       THEN [queue EXCEPT ![Reader[p]] = Append(queue[Reader[p]], out[p])]
                       ELSE queue
  BY DEF Delivered
<1>5. queue \in [Readers -> Seq(Message)]
  BY DEF TypedInv, PipelineTypeOK
<1>6. QueuesTyped([queue EXCEPT ![Reader[p]] = Append(queue[Reader[p]], out[p])])
  BY <1>1, <1>2, <1>3, <1>5, QueueTyped
<1> QED
  BY <1>1, <1>2, <1>4, <1>6

(* The typed part that is not in the queues.                               *)
LEMMA DeathTyped ==
  ASSUME TypedInv, NEW p \in Stages, NEW code \in {"ok", "crashed", "terminated"},
         pc[p] # "gone", Die(p, code), code = "ok" => conn[Reader[p]] = "open",
         QueuesTyped(queue'), UNCHANGED <<runner, result, executed>>
  PROVE  TypedInv'
<1> USE DEF TypedInv
<1>1. PipelineTypeOK'
  BY DEF PipelineTypeOK, QueuesTyped, Die, Goto
<1>2. ChannelsTyped'
  BY DEF PipelineTypeOK, ChannelsTyped, QueuesTyped, Die, Goto
<1>3. /\ \A x \in Stages : pc'[x] = IF x = p THEN "gone" ELSE pc[x]
      /\ \A x \in Stages : exit'[x] = IF x = p THEN code ELSE exit[x]
      /\ \A x \in Stages : conn'[Reader[x]] =
           IF x = p /\ conn[Reader[x]] = "open" THEN "closed" ELSE conn[Reader[x]]
      /\ \A r \in Readers : bound'[r] = (bound[r] /\ r # p)
      /\ \A r \in Readers : conn'[r] = "none" <=> conn[r] = "none"
  BY ReaderOf DEF PipelineTypeOK, Die, Goto
<1>4. {"execution", "consensus"} \subseteq Stages /\ "runner" \notin Stages
      /\ {"execution", "consensus", "runner"} = Readers
  BY DEF Stages, Readers
<1>5. /\ \A x \in Stages : pc'[x] = "gone" <=> exit'[x] # "alive"
      /\ \A x \in Stages : conn'[Reader[x]] = "closed" => exit'[x] # "alive"
      /\ \A x \in Stages : exit'[x] = "ok" => conn'[Reader[x]] = "closed"
      /\ \A x \in Stages : exit'[x] # "alive" => conn'[Reader[x]] # "open"
  BY <1>3 DEF ProcessInv
<1>6. /\ \A r \in {"execution", "consensus"} : bound'[r] <=> pc'[r] \in {"reading", "putting"}
      /\ \A r \in {"execution", "consensus"} : conn'[r] # "none" => pc'[r] \notin {"starting", "up"}
  <2> SUFFICES ASSUME NEW r \in {"execution", "consensus"}
               PROVE  /\ bound'[r] <=> pc'[r] \in {"reading", "putting"}
                      /\ conn'[r] # "none" => pc'[r] \notin {"starting", "up"}
    OBVIOUS
  <2>1. r \in Stages /\ r \in Readers
    BY <1>4
  <2>2. /\ bound[r] <=> pc[r] \in {"reading", "putting"}
        /\ conn[r] # "none" => pc[r] \notin {"starting", "up"}
    BY DEF ProcessInv
  <2>3. /\ pc'[r] = IF r = p THEN "gone" ELSE pc[r]
        /\ bound'[r] = (bound[r] /\ r # p)
        /\ conn'[r] = "none" <=> conn[r] = "none"
    BY <1>3, <2>1
  <2>4. CASE r = p
    BY <2>3, <2>4
  <2>5. CASE r # p
    BY <2>2, <2>3, <2>5
  <2> QED
    BY <2>4, <2>5
<1>8. bound'["runner"]
  BY <1>3, <1>4 DEF ProcessInv
<1>7. runner' \in {"reading", "done"} => \A x \in Stages : exit'[x] # "alive"
  BY <1>3 DEF ProcessInv
<1> QED
  BY <1>1, <1>2, <1>5, <1>6, <1>7, <1>8 DEF ProcessInv

(* The typed invariant is inductive on its own.                            *)
LEMMA TypedStep ==
  ASSUME TypedInv, PipelineStep PROVE TypedInv'
<1>0. QueuesTyped(queue)
  BY DEF TypedInv, PipelineTypeOK, ChannelsTyped, QueuesTyped
<1>1. ASSUME NEW p \in Stages, NEW code \in {"crashed", "terminated"}, Fails(p, code)
      PROVE  TypedInv'
  <2>1. QueuesTyped(queue')
    BY <1>0, <1>1, DropTyped DEF Fails
  <2>2. pc[p] # "gone"
    BY <1>1 DEF Fails, Alive, TypedInv, ProcessInv
  <2> QED
    BY <1>1, <2>1, <2>2, DeathTyped DEF Fails
<1>2. ASSUME NEW p \in Stages, StartHeartbeat(p) PROVE TypedInv'
  <2>1. PipelineTypeOK'
    BY <1>2 DEF StartHeartbeat, Goto, network, TypedInv, PipelineTypeOK
  <2>2. ChannelsTyped'
    BY <1>2 DEF StartHeartbeat, Goto, network, TypedInv, PipelineTypeOK, ChannelsTyped
  <2>3. ProcessInv'
    BY <1>2 DEF StartHeartbeat, Goto, network, TypedInv, PipelineTypeOK, ProcessInv, Stages
  <2> QED
    BY <2>1, <2>2, <2>3 DEF TypedInv
<1>3. ASSUME NEW p \in Stages, Listen(p) PROVE TypedInv'
  <2>1. PipelineTypeOK'
    <3>1. /\ pc' \in [Stages -> {"starting", "up", "reading", "putting", "gone"}]
          /\ out' \in [Stages -> Message \union {"none"}]
      BY <1>3 DEF Listen, Goto, TypedInv, PipelineTypeOK, Message
    <3>2. bound' \in [Readers -> BOOLEAN]
      BY <1>3 DEF Listen, TypedInv, PipelineTypeOK
    <3> QED
      BY <1>3, <3>1, <3>2 DEF Listen, TypedInv, PipelineTypeOK
  <2>2. ChannelsTyped'
    BY <1>3, ReaderOf DEF Listen, Goto, TypedInv, PipelineTypeOK, ChannelsTyped, Stages
  <2>3. ProcessInv'
    BY <1>3 DEF Listen, Goto, TypedInv, PipelineTypeOK, ProcessInv, Stages, Readers
  <2> QED
    BY <2>1, <2>2, <2>3 DEF TypedInv
<1>4. ASSUME NEW p \in Stages, Get(p) PROVE TypedInv'
  <2>1. PICK m, a : Reads(p, m, a)
    BY <1>4, GetReads
  <2>2. p \in Readers
    BY <2>1 DEF Reads, Readers
  <2>3. QueuesTyped(queue')
    BY <1>0, <2>1, <2>2, QueueTyped DEF Reads, TypedInv, PipelineTypeOK
  <2>4. a \in Message /\ a # "none"
    BY <2>1, ReaderOf DEF Reads, Message, Acks, Proofs
  <2>5. PipelineTypeOK'
    BY <2>1, <2>3, <2>4 DEF Reads, TypedInv, PipelineTypeOK, QueuesTyped
  <2>6. ChannelsTyped'
    BY <2>1, <2>3, <2>4 DEF Reads, TypedInv, PipelineTypeOK, ChannelsTyped, QueuesTyped
  <2>7. ProcessInv'
    BY <2>1 DEF Reads, TypedInv, PipelineTypeOK, ProcessInv, Stages
  <2> QED
    BY <2>5, <2>6, <2>7 DEF TypedInv
<1>5. ASSUME NEW p \in Stages, Connect(p) PROVE TypedInv'
  <2> DEFINE r == Reader[p]
  <2>1. /\ pc[p] = "putting" /\ bound[r] /\ r \in Readers
        /\ conn' = [conn EXCEPT ![r] = "open"]
        /\ conn[r] = "none"
        /\ UNCHANGED <<stages, bound, queue, runner, result, executed>>
    BY <1>5, ReaderOf DEF Connect
  <2>2. \A x \in Stages : conn'[Reader[x]] = IF x = p THEN "open" ELSE conn[Reader[x]]
    BY <2>1, ReaderOf DEF TypedInv, PipelineTypeOK
  <2> HIDE DEF r
  <2>3. PipelineTypeOK'
    BY <2>1 DEF stages, TypedInv, PipelineTypeOK
  <2>4. ChannelsTyped'
    BY <2>1 DEF stages, TypedInv, ChannelsTyped
  <2>5. ProcessInv'
    BY <2>1, <2>2 DEF stages, TypedInv, PipelineTypeOK, ProcessInv, Stages, Readers
  <2> QED
    BY <2>3, <2>4, <2>5 DEF TypedInv
<1>6. ASSUME NEW p \in Stages, Put(p) PROVE TypedInv'
  <2>1. QueuesTyped(queue') /\ pc[p] = "putting"
    BY <1>6, DeliveredTyped DEF Put
  <2>2. PipelineTypeOK'
    BY <1>6, <2>1 DEF Put, Goto, TypedInv, PipelineTypeOK, QueuesTyped, Message
  <2>3. ChannelsTyped'
    BY <1>6, <2>1, ReaderOf DEF Put, Goto, TypedInv, PipelineTypeOK, ChannelsTyped, QueuesTyped, Stages
  <2>4. ProcessInv'
    BY <1>6, <2>1 DEF Put, Goto, TypedInv, PipelineTypeOK, ProcessInv, Stages, Readers
  <2> QED
    BY <2>2, <2>3, <2>4 DEF TypedInv
<1>7. ASSUME NEW p \in Stages, PutDone(p) PROVE TypedInv'
  <2>1. QueuesTyped(queue') /\ pc[p] = "putting"
    BY <1>7, DeliveredTyped, DropTyped DEF PutDone
  <2> QED
    BY <1>7, <2>1, DeathTyped DEF PutDone
<1>8. ASSUME NEW label \in {"reaping", "reading"}, RunnerGoto(label),
             label = "reading" => \A p \in Stages : ~Alive(p)
      PROVE  TypedInv'
  BY <1>8 DEF RunnerGoto, Alive, stages, network, TypedInv, PipelineTypeOK, ChannelsTyped, ProcessInv
<1>9. CASE ReadResult
  <2>1. queue["runner"] \in Seq(Carried["runner"]) /\ "runner" \in Readers
    BY DEF TypedInv, ChannelsTyped, Readers
  <2>2. Rest("runner") \in Seq(Carried["runner"])
    BY <2>1, Popped, EmptySeq DEF Rest
  <2>3. QueuesTyped(queue')
    BY <1>0, <1>9, <2>1, <2>2, QueueTyped DEF ReadResult, TypedInv, PipelineTypeOK
  <2>4. result' \in Message \union {"none"}
    BY <1>9, <2>1, Popped, ReaderOf DEF ReadResult, Arrived, Message
  <2>5. PipelineTypeOK' /\ ChannelsTyped'
    BY <1>9, <2>3, <2>4 DEF ReadResult, stages, TypedInv, PipelineTypeOK, ChannelsTyped, QueuesTyped
  <2>6. ProcessInv'
    BY <1>9 DEF ReadResult, stages, TypedInv, ProcessInv
  <2> QED
    BY <2>5, <2>6 DEF TypedInv
<1>10. CASE UNCHANGED pipelineVars
  BY <1>10 DEF pipelineVars, stages, network, TypedInv, PipelineTypeOK, ChannelsTyped, ProcessInv
<1> QED
  BY <1>1, <1>2, <1>3, <1>4, <1>5, <1>6, <1>7, <1>8, <1>9, <1>10 DEF PipelineStep

LEMMA TypedStart ==
  ASSUME PipelineInit PROVE TypedInv
<1>1. \A S : <<>> \in Seq(S)
  BY EmptySeq
<1>2. PipelineTypeOK
  BY <1>1 DEF PipelineInit, PipelineTypeOK
<1>3. ChannelsTyped
  BY <1>1 DEF PipelineInit, ChannelsTyped, Stages
<1>4. ProcessInv
  BY ReaderOf DEF PipelineInit, ProcessInv, Stages, Readers
<1> QED
  BY <1>2, <1>3, <1>4 DEF TypedInv

(* Every channel carries only the messages its reader understands, and the *)
(* ends of the stages' lives, their ports and their connections agree.     *)
THEOREM PipelineTypeCorrect == PipelineSpec => []PipelineTypeOK
<1>1. PipelineInit => TypedInv
  BY TypedStart
<1>2. TypedInv /\ [PipelineNext]_pipelineVars => TypedInv'
  BY PipelineSteps, TypedStep
<1>3. TypedInv => PipelineTypeOK
  BY DEF TypedInv
<1> QED
  BY <1>1, <1>2, <1>3, PTL DEF PipelineSpec

(* The producer has not put its contract yet.                              *)
ContractAhead == pc["producer"] \in {"starting", "up"} \/ out["producer"] = "CONTRACT"

(* There is one contract, the first thing that is ever sent to execution,  *)
(* and so execution gives at most one ack.                                 *)
OneContract ==
  /\ ContractAhead => queue["execution"] = <<>> /\ executed = {}
  /\ \A i \in 1..Len(queue["execution"]) :
       queue["execution"][i] = "CONTRACT" => i = 1 /\ executed = {}
  /\ \A a, b \in executed : a = b

(* A result that is not halted, and a proof of consensus, come from an     *)
(* execution that was not halted.                                          *)
Backed(m, done) == m \in {"RESULT_OK", "PROOF_REACHED"} => "RESULT_OK" \in done

EvidenceInv ==
  /\ \A p \in Stages : Backed(out[p], executed)
  /\ \A r \in Readers : \A i \in 1..Len(queue[r]) : Backed(queue[r][i], executed)
  /\ Backed(result, executed)

(* What a step does to the queues, stage by stage.                         *)
LEMMA DropAt ==
  ASSUME NEW p, NEW q, NEW r \in Readers
  PROVE  DropUnread(p, q)[r] = IF r = p THEN <<>> ELSE q[r]
BY DEF DropUnread

LEMMA DeliveredAt ==
  ASSUME TypedInv, NEW p \in Stages, NEW r \in Readers
  PROVE  Delivered(p)[r] = IF r = Reader[p] /\ bound[r] THEN Append(queue[r], out[p]) ELSE queue[r]
<1>1. Reader[p] \in Readers
  BY ReaderOf
<1> QED
  BY <1>1 DEF Delivered, TypedInv, PipelineTypeOK

(* Every step leaves in the queues what was there, read from the head, and *)
(* adds at most what a stage was about to put.                             *)
Origin(m, r) ==
  \/ \E i \in 1..Len(queue[r]) : queue[r][i] = m
  \/ \E p \in Stages : m = out[p]

LEMMA EmptyLen == Len(<<>>) = 0
BY EmptySeq

LEMMA DeliveredOrigin ==
  ASSUME TypedInv, NEW p \in Stages, pc[p] = "putting", NEW r \in Readers,
         NEW i \in 1..Len(Delivered(p)[r])
  PROVE  Origin(Delivered(p)[r][i], r)
<1>1. queue[r] \in Seq(Message) /\ out[p] \in Message
  BY DeliveredTyped, ReaderOf DEF TypedInv, PipelineTypeOK
<1>2. CASE r = Reader[p] /\ bound[r]
  <2>1. Delivered(p)[r] = Append(queue[r], out[p])
    BY <1>2, DeliveredAt
  <2> DEFINE q == queue[r]
             m == out[p]
  <2>2. /\ Len(q) \in Nat /\ Len(Append(q, m)) = Len(q) + 1
        /\ \A k \in 1..Len(q) : Append(q, m)[k] = q[k]
        /\ Append(q, m)[Len(q) + 1] = m
    BY <1>1, Pushed
  <2>3. i \in 1..(Len(q) + 1)
    BY <2>1, <2>2
  <2>4. CASE i = Len(q) + 1
    BY <2>1, <2>2, <2>4 DEF Origin
  <2>5. CASE i # Len(q) + 1
    <3>1. i \in 1..Len(q)
      BY <2>2, <2>3, <2>5
    <3> QED
      BY <2>1, <2>2, <3>1 DEF Origin
  <2> QED
    BY <2>4, <2>5
<1>3. CASE ~(r = Reader[p] /\ bound[r])
  <2>1. Delivered(p)[r] = queue[r]
    BY <1>3, DeliveredAt
  <2> QED
    BY <2>1 DEF Origin
<1> QED
  BY <1>2, <1>3

LEMMA RestOrigin ==
  ASSUME TypedInv, NEW r \in Readers, NEW s \in Readers,
         NEW i \in 1..Len([queue EXCEPT ![r] = Rest(r)][s])
  PROVE  Origin([queue EXCEPT ![r] = Rest(r)][s][i], s)
<1>1. queue[r] \in Seq(Message) /\ queue \in [Readers -> Seq(Message)]
  BY DEF TypedInv, PipelineTypeOK
<1>2. CASE s # r
  BY <1>1, <1>2 DEF Origin
<1>3. CASE s = r
  <2>1. [queue EXCEPT ![r] = Rest(r)][s] = Rest(r)
    BY <1>1, <1>3
  <2>2. queue[r] # <<>>
    BY <2>1, EmptyLen DEF Rest
  <2>3. Rest(r) = Tail(queue[r])
    BY <2>2 DEF Rest
  <2>4. \A k \in 1..Len(Tail(queue[r])) : Tail(queue[r])[k] = queue[r][k + 1] /\ k + 1 \in 1..Len(queue[r])
    BY <1>1, <2>2, Popped
  <2> QED
    BY <1>3, <2>1, <2>3, <2>4 DEF Origin
<1> QED
  BY <1>2, <1>3

LEMMA QueueOrigin ==
  ASSUME TypedInv, PipelineStep, NEW r \in Readers, NEW i \in 1..Len(queue'[r])
  PROVE  Origin(queue'[r][i], r)
<1>1. CASE queue' = queue
  BY <1>1 DEF Origin
<1>2. ASSUME NEW p, NEW q, queue' = DropUnread(p, q) PROVE r # p /\ queue'[r] = q[r]
  BY <1>2, DropAt, EmptyLen
<1>3. ASSUME NEW p \in Stages, NEW code, Fails(p, code) PROVE Origin(queue'[r][i], r)
  BY <1>2, <1>3 DEF Fails, Origin
<1>4. ASSUME NEW p \in Stages, Put(p) PROVE Origin(queue'[r][i], r)
  BY <1>4, DeliveredOrigin DEF Put
<1>5. ASSUME NEW p \in Stages, PutDone(p) PROVE Origin(queue'[r][i], r)
  <2>1. queue'[r] = Delivered(p)[r] /\ pc[p] = "putting"
    BY <1>2, <1>5 DEF PutDone
  <2> QED
    BY <2>1, DeliveredOrigin
<1>6. ASSUME NEW p \in Stages, Get(p) PROVE Origin(queue'[r][i], r)
  <2>1. PICK m, a : Reads(p, m, a)
    BY <1>6, GetReads
  <2>2. p \in Readers /\ queue' = [queue EXCEPT ![p] = Rest(p)]
    BY <2>1 DEF Reads, Readers
  <2> QED
    BY <2>2, RestOrigin
<1>7. CASE ReadResult
  <2>1. "runner" \in Readers /\ queue' = [queue EXCEPT !["runner"] = Rest("runner")]
    BY <1>7 DEF ReadResult, Readers
  <2> QED
    BY <2>1, RestOrigin
<1>8. ASSUME NEW p \in Stages, StartHeartbeat(p) \/ Listen(p) \/ Connect(p) PROVE queue' = queue
  BY <1>8 DEF StartHeartbeat, Listen, Connect, network
<1>9. ASSUME NEW label, RunnerGoto(label) PROVE queue' = queue
  BY <1>9 DEF RunnerGoto, network
<1>10. CASE UNCHANGED pipelineVars
  BY <1>1, <1>10 DEF pipelineVars, network
<1> QED
  BY <1>1, <1>3, <1>4, <1>5, <1>6, <1>7, <1>8, <1>9, <1>10 DEF PipelineStep

(* Positive messages are made only from positive ones.                     *)
LEMMA EvidenceStep ==
  ASSUME TypedInv, EvidenceInv, PipelineStep PROVE EvidenceInv'
<1>1. executed \subseteq executed'
  BY DEF PipelineStep, Fails, StartHeartbeat, Listen, Get, Connect, Put, PutDone, RunnerGoto,
         ReadResult, pipelineVars
<1>2. \A m : Backed(m, executed) => Backed(m, executed')
  BY <1>1 DEF Backed
<1>3. \A r \in Readers : \A i \in 1..Len(queue'[r]) : Backed(queue'[r][i], executed')
  <2> SUFFICES ASSUME NEW r \in Readers, NEW i \in 1..Len(queue'[r])
               PROVE  Backed(queue'[r][i], executed)
    BY <1>2
  <2>1. Origin(queue'[r][i], r)
    BY QueueOrigin
  <2> QED
    BY <2>1 DEF Origin, EvidenceInv
<1>4. Backed("none", executed) /\ Backed("CONTRACT", executed) /\ Backed("DONE", executed)
  BY DEF Backed
<1>5. \A p \in Stages : Backed(out'[p], executed')
  <2>1. CASE out' = out
    BY <1>2, <2>1 DEF EvidenceInv
  <2>2. ASSUME NEW p \in Stages, NEW a, Backed(a, executed'), out' = [out EXCEPT ![p] = a]
        PROVE  \A x \in Stages : Backed(out'[x], executed')
    BY <1>2, <2>2 DEF EvidenceInv, TypedInv, PipelineTypeOK
  <2>3. ASSUME NEW p \in Stages, NEW code, Fails(p, code) \/ PutDone(p)
        PROVE  \A x \in Stages : Backed(out'[x], executed')
    <3>1. \E c : Die(p, c)
      BY <2>3 DEF Fails, PutDone
    <3> QED
      BY <1>2, <1>4, <2>2, <3>1 DEF Die
  <2>4. ASSUME NEW p \in Stages, Listen(p) \/ Put(p)
        PROVE  \A x \in Stages : Backed(out'[x], executed')
    BY <1>2, <1>4, <2>1, <2>2, <2>4 DEF Listen, Put
  <2>5. ASSUME NEW p \in Stages, Get(p)
        PROVE  \A x \in Stages : Backed(out'[x], executed')
    <3>1. PICK m, a : Reads(p, m, a)
      BY <2>5, GetReads
    <3>2. CASE p = "execution"
      <4>1. Backed(a, executed')
        BY <3>1, <3>2 DEF Reads, Carried, Reader, Acks, Backed
      <4> QED
        BY <2>2, <3>1, <4>1 DEF Reads
    <3>3. CASE p = "consensus"
      <4>1. a = "PROOF_REACHED" => m = "RESULT_OK"
        BY <3>1, <3>3, ReaderOf DEF Reads, Answers, ConsensusAnswers, Acks
      <4>2. queue["consensus"] \in Seq(Message) /\ "consensus" \in Readers
        BY DEF TypedInv, PipelineTypeOK, Readers
      <4>3. m = "RESULT_OK" => Backed(m, executed)
        <5> SUFFICES ASSUME m = "RESULT_OK" PROVE Backed(m, executed)
          OBVIOUS
        <5>1. queue["consensus"] # <<>> /\ m = queue["consensus"][1]
          BY <3>1, <3>3 DEF Reads
        <5>2. 1 \in 1..Len(queue["consensus"])
          BY <4>2, <5>1, Popped
        <5> QED
          BY <4>2, <5>1, <5>2 DEF EvidenceInv
      <4>4. a # "RESULT_OK"
        BY <3>1, <3>3, ReaderOf DEF Reads, Proofs
      <4>5. Backed(a, executed')
        BY <1>1, <4>1, <4>3, <4>4 DEF Backed
      <4> QED
        BY <2>2, <3>1, <4>5 DEF Reads
    <3> QED
      BY <3>1, <3>2, <3>3 DEF Reads
  <2>6. ASSUME NEW p \in Stages, StartHeartbeat(p) \/ Connect(p) PROVE out' = out
    BY <2>6 DEF StartHeartbeat, Connect, stages
  <2>7. ASSUME NEW label, RunnerGoto(label) \/ ReadResult PROVE out' = out
    BY <2>7 DEF RunnerGoto, ReadResult, stages
  <2>8. CASE UNCHANGED pipelineVars
    BY <2>1, <2>8 DEF pipelineVars, stages
  <2> QED
    BY <2>1, <2>3, <2>4, <2>5, <2>6, <2>7, <2>8 DEF PipelineStep
<1>6. Backed(result', executed')
  <2>1. CASE result' = result
    BY <1>2, <2>1 DEF EvidenceInv
  <2>2. CASE ReadResult
    <3>1. "runner" \in Readers /\ queue["runner"] \in Seq(Message)
      BY DEF TypedInv, PipelineTypeOK, Readers
    <3>2. CASE queue["runner"] # <<>>
      <4>1. Head(queue["runner"]) = queue["runner"][1] /\ 1 \in 1..Len(queue["runner"])
        BY <3>1, <3>2, Popped
      <4>2. result' \in {"none", queue["runner"][1]}
        BY <2>2, <3>2, <4>1 DEF ReadResult, Arrived
      <4> QED
        BY <1>2, <1>4, <3>1, <4>1, <4>2 DEF EvidenceInv
    <3>3. CASE queue["runner"] = <<>>
      <4>1. result' \in {"none", "DONE"}
        BY <2>2, <3>3 DEF ReadResult, Arrived
      <4> QED
        BY <1>2, <1>4, <4>1
    <3> QED
      BY <3>2, <3>3
  <2> QED
    BY <2>1, <2>2 DEF PipelineStep, Fails, StartHeartbeat, Listen, Get, Connect, Put, PutDone,
                      RunnerGoto, pipelineVars
<1> QED
  BY <1>3, <1>5, <1>6 DEF EvidenceInv

LEMMA OneContractStep ==
  ASSUME TypedInv, OneContract, PipelineStep PROVE OneContract'
<1> DEFINE q == queue["execution"]
<1>0. "execution" \in Readers /\ "producer" \in Stages /\ q \in Seq(Message)
      /\ Reader["producer"] = "execution"
  BY ReaderOf DEF TypedInv, PipelineTypeOK, Readers, Stages
<1>1. ASSUME executed' = executed, ContractAhead' => ContractAhead,
             queue'["execution"] \in {queue["execution"], <<>>}
      PROVE  OneContract'
  BY <1>1, EmptyLen DEF OneContract
<1>2. ASSUME NEW p \in Stages, NEW code, Fails(p, code) PROVE OneContract'
  <2>1. ContractAhead' => ContractAhead
    BY <1>0, <1>2 DEF Fails, Die, Goto, ContractAhead, TypedInv, PipelineTypeOK
  <2>2. queue'["execution"] \in {queue["execution"], <<>>}
    BY <1>0, <1>2, DropAt DEF Fails
  <2> QED
    BY <1>1, <1>2, <2>1, <2>2 DEF Fails
<1>3. ASSUME NEW p \in Stages, StartHeartbeat(p) \/ Listen(p) \/ Connect(p) PROVE OneContract'
  <2>1. ContractAhead' => ContractAhead
    BY <1>0, <1>3 DEF StartHeartbeat, Listen, Connect, Goto, stages, ContractAhead, TypedInv, PipelineTypeOK
  <2> QED
    BY <1>1, <1>3, <2>1 DEF StartHeartbeat, Listen, Connect, network
<1>4. ASSUME NEW p \in Stages, Get(p) PROVE OneContract'
  <2>1. PICK m, a : Reads(p, m, a)
    BY <1>4, GetReads
  <2>2. ContractAhead' => ContractAhead
    BY <1>0, <2>1 DEF Reads, ContractAhead, TypedInv, PipelineTypeOK
  <2>3. CASE p = "consensus"
    <3>1. queue'["execution"] = q
      BY <1>0, <2>1, <2>3 DEF Reads, TypedInv, PipelineTypeOK
    <3>2. executed' = executed
      BY <2>1, <2>3, ReaderOf DEF Reads, Acks, Proofs
    <3> QED
      BY <1>1, <2>2, <3>1, <3>2
  <2>4. CASE p = "execution"
    <3>1. queue'["execution"] = Rest("execution")
      BY <1>0, <2>1, <2>4 DEF Reads, TypedInv, PipelineTypeOK
    <3>2. CASE q = <<>>
      <4>1. executed' = executed
        BY <2>1, <2>4, <3>2 DEF Reads, Acks
      <4> QED
        BY <1>1, <2>2, <3>1, <3>2, <4>1 DEF Rest
    <3>3. CASE q # <<>>
      <4>1. ~ContractAhead'
        BY <2>2, <3>3 DEF OneContract
      <4>2. \A i \in 1..Len(queue'["execution"]) : queue'["execution"][i] # "CONTRACT"
        <5>1. /\ Len(q) \in Nat /\ Len(Tail(q)) = Len(q) - 1
              /\ \A i \in 1..Len(Tail(q)) : Tail(q)[i] = q[i + 1] /\ i + 1 \in 1..Len(q)
          BY <1>0, <3>3, Popped
        <5>2. \A i \in 1..Len(q) : q[i] = "CONTRACT" => i = 1
          BY DEF OneContract
        <5>3. \A i \in 1..Len(Tail(q)) : i + 1 # 1
          BY <5>1
        <5> QED
          BY <3>1, <3>3, <5>1, <5>2, <5>3 DEF Rest
      <4>3. \A x, y \in executed' : x = y
        <5>1. 1 \in 1..Len(q) /\ m = q[1]
          BY <1>0, <2>1, <2>4, <3>3, Popped DEF Reads
        <5>2. CASE m = "CONTRACT"
          BY <2>1, <5>1, <5>2 DEF Reads, OneContract
        <5>3. CASE m = "DONE"
          BY <2>1, <5>3 DEF Reads, OneContract, Acks
        <5> QED
          BY <2>1, <2>4, <5>2, <5>3, ReaderOf DEF Reads
      <4> QED
        BY <4>1, <4>2, <4>3 DEF OneContract
    <3> QED
      BY <3>2, <3>3
  <2> QED
    BY <2>1, <2>3, <2>4 DEF Reads
<1>5. ASSUME NEW p \in Stages, p # "producer", Put(p) \/ PutDone(p) PROVE OneContract'
  <2>1. queue'["execution"] \in {q, <<>>}
    BY <1>0, <1>5, DropAt, DeliveredAt, ReaderOf DEF Put, PutDone
  <2>2. ContractAhead' => ContractAhead
    BY <1>0, <1>5 DEF Put, PutDone, Die, Goto, ContractAhead, TypedInv, PipelineTypeOK
  <2> QED
    BY <1>1, <1>5, <2>1, <2>2 DEF Put, PutDone
<1>6. CASE Put("producer")
  <2>1. out["producer"] = "CONTRACT"
    BY <1>0, <1>6, DeliveredTyped, ReaderOf DEF Put
  <2>2. ~ContractAhead'
    BY <1>0, <1>6 DEF Put, ContractAhead, TypedInv, PipelineTypeOK
  <2>3. q = <<>> /\ executed = {} /\ executed' = {}
    BY <1>6, <2>1 DEF OneContract, ContractAhead, Put
  <2>4. queue'["execution"] \in {<<>>, Append(q, "CONTRACT")}
    BY <1>0, <1>6, <2>1, <2>3, DeliveredAt DEF Put
  <2>5. Len(Append(q, "CONTRACT")) = 1
    BY <1>0, <2>3, Pushed, EmptyLen DEF Message
  <2> QED
    BY <2>2, <2>3, <2>4, <2>5, EmptyLen DEF OneContract
<1>7. CASE PutDone("producer")
  <2>1. ~ContractAhead'
    BY <1>0, <1>7 DEF PutDone, Die, Goto, ContractAhead, TypedInv, PipelineTypeOK
  <2>2. queue'["execution"] \in {q, Append(q, "DONE")}
    <3>1. queue'["execution"] = Delivered("producer")["execution"] /\ out["producer"] = "DONE"
      BY <1>0, <1>7, DropAt DEF PutDone
    <3>2. Delivered("producer")["execution"] \in {q, Append(q, out["producer"])}
      BY <1>0, DeliveredAt
    <3> QED
      BY <3>1, <3>2
  <2>3. /\ Len(q) \in Nat /\ Len(Append(q, "DONE")) = Len(q) + 1
        /\ \A i \in 1..Len(q) : Append(q, "DONE")[i] = q[i]
        /\ Append(q, "DONE")[Len(q) + 1] = "DONE"
    BY <1>0, Pushed DEF Message
  <2>4. \A i \in 1..Len(queue'["execution"]) :
          queue'["execution"][i] = "CONTRACT" => i \in 1..Len(q) /\ q[i] = "CONTRACT"
    <3>1. CASE queue'["execution"] = q
      BY <3>1
    <3>2. CASE queue'["execution"] = Append(q, "DONE")
      <4>1. \A i \in 1..(Len(q) + 1) : i \in 1..Len(q) \/ i = Len(q) + 1
        BY <2>3
      <4> QED
        BY <2>3, <3>2, <4>1
    <3> QED
      BY <2>2, <3>1, <3>2
  <2>5. executed' = executed
    BY <1>7 DEF PutDone
  <2> QED
    BY <2>1, <2>4, <2>5 DEF OneContract
<1>8. ASSUME NEW label, RunnerGoto(label) PROVE OneContract'
  BY <1>1, <1>8 DEF RunnerGoto, stages, network, ContractAhead
<1>9. CASE ReadResult
  <2>1. queue'["execution"] = q
    BY <1>0, <1>9 DEF ReadResult, TypedInv, PipelineTypeOK
  <2> QED
    BY <1>1, <1>9, <2>1 DEF ReadResult, stages, ContractAhead
<1>10. CASE UNCHANGED pipelineVars
  BY <1>1, <1>10 DEF pipelineVars, stages, network, ContractAhead
<1> QED
  BY <1>2, <1>3, <1>4, <1>5, <1>6, <1>7, <1>8, <1>9, <1>10 DEF PipelineStep

(* While nothing has failed, every queue holds exactly what its writer has *)
(* put and its reader has not read: one message, and then DONE.            *)
(*                                                                         *)
(* Whether p has answered the one message before DONE.                     *)
First(p) ==
  \/ p = "execution" /\ executed # {}
  \/ p = "consensus" /\ (out["consensus"] \in Proofs \/ queue["runner"] # <<>>)

(* How many of its two messages p has put, and r has read.                 *)
Sent(p) ==
  IF exit[p] = "ok" THEN 2
  ELSE IF out[p] = "DONE" \/ (pc[p] = "reading" /\ First(p)) THEN 1 ELSE 0

Got(r) ==
  IF r = "runner" THEN 0
  ELSE IF exit[r] = "ok" \/ out[r] = "DONE" THEN 2
  ELSE IF First(r) THEN 1 ELSE 0

Stream(q, got, sent) ==
  /\ got <= sent
  /\ Len(q) = sent - got
  /\ \A i \in 1..Len(q) : q[i] = "DONE" <=> got + i = 2

Healthy == \A p \in Stages : exit[p] \in {"alive", "ok"}

FlowInv ==
  Healthy /\ runner # "done" =>
    \A p \in Stages : Stream(queue[Reader[p]], Got(Reader[p]), Sent(p))

(* An ack that is still to be put has been given, and none before reading. *)
AckInv ==
  /\ pc["execution"] \in {"starting", "up"} => executed = {}
  /\ out["execution"] \in Acks => executed # {}

(* What the runner has read when all exit codes are zero.                  *)
ResultInv == runner = "done" /\ PipelineOk => result \in Proofs

(* How each part of the inductive invariant survives a step.               *)
LEMMA AckStep ==
  ASSUME TypedInv, AckInv, PipelineStep PROVE AckInv'
<1>0. "execution" \in Stages /\ Reader["execution"] = "consensus"
  BY ReaderOf DEF Stages
<1>1. ASSUME executed' = executed,
             pc'["execution"] \in {"starting", "up"} => pc["execution"] \in {"starting", "up"},
             out'["execution"] \in Acks => out["execution"] \in Acks
      PROVE  AckInv'
  BY <1>1 DEF AckInv
<1>2. ASSUME NEW p \in Stages, NEW code, Fails(p, code) \/ PutDone(p) PROVE AckInv'
  BY <1>0, <1>1, <1>2 DEF Fails, PutDone, Die, Goto, TypedInv, PipelineTypeOK, Acks
<1>3. ASSUME NEW p \in Stages, StartHeartbeat(p) \/ Listen(p) \/ Connect(p) PROVE AckInv'
  BY <1>0, <1>1, <1>3 DEF StartHeartbeat, Listen, Connect, Goto, stages, TypedInv, PipelineTypeOK, Acks
<1>4. ASSUME NEW p \in Stages, Get(p) PROVE AckInv'
  <2>1. PICK m, a : Reads(p, m, a)
    BY <1>4, GetReads
  <2>2. CASE p = "consensus"
    BY <1>0, <1>1, <2>1, <2>2, ReaderOf DEF Reads, TypedInv, PipelineTypeOK, Acks, Proofs
  <2>3. CASE p = "execution"
    <3>1. out'["execution"] = a /\ pc'["execution"] = "putting"
      BY <1>0, <2>1, <2>3 DEF Reads, TypedInv, PipelineTypeOK
    <3>2. a \in Acks => executed' # {}
      BY <2>1 DEF Reads
    <3> QED
      BY <3>1, <3>2 DEF AckInv
  <2> QED
    BY <2>1, <2>2, <2>3 DEF Reads
<1>5. ASSUME NEW p \in Stages, Put(p) PROVE AckInv'
  BY <1>0, <1>1, <1>5 DEF Put, Goto, TypedInv, PipelineTypeOK, Acks
<1>6. ASSUME NEW label, RunnerGoto(label) PROVE AckInv'
  BY <1>1, <1>6 DEF RunnerGoto, stages
<1>7. CASE ReadResult
  BY <1>1, <1>7 DEF ReadResult, stages
<1>8. CASE UNCHANGED pipelineVars
  BY <1>1, <1>8 DEF pipelineVars, stages
<1> QED
  BY <1>2, <1>3, <1>4, <1>5, <1>6, <1>7, <1>8 DEF PipelineStep

LEMMA CountsTyped ==
  \A p : Sent(p) \in {0, 1, 2} /\ Got(p) \in {0, 1, 2}
BY DEF Sent, Got

(* The messages of a stream are read and put one at a time, in order.      *)
LEMMA StreamPut ==
  ASSUME NEW q \in Seq(Message), NEW got \in {0, 1, 2}, NEW sent \in {0, 1},
         NEW m \in Message, Stream(q, got, sent), m = "DONE" <=> sent = 1
  PROVE  Stream(Append(q, m), got, sent + 1)
<1>1. /\ Len(q) \in Nat /\ Len(Append(q, m)) = Len(q) + 1
      /\ \A i \in 1..Len(q) : Append(q, m)[i] = q[i]
      /\ Append(q, m)[Len(q) + 1] = m
  BY Pushed
<1>2. got <= sent /\ Len(q) = sent - got
      /\ \A i \in 1..Len(q) : q[i] = "DONE" <=> got + i = 2
  BY DEF Stream
<1>3. got <= sent + 1 /\ Len(Append(q, m)) = (sent + 1) - got
  BY <1>1, <1>2
<1>4. ASSUME NEW i \in 1..Len(Append(q, m)) PROVE Append(q, m)[i] = "DONE" <=> got + i = 2
  <2>1. CASE i = Len(q) + 1
    <3>1. got + i = sent + 1
      BY <1>2, <2>1
    <3> QED
      BY <1>1, <2>1, <3>1
  <2>2. CASE i # Len(q) + 1
    <3>1. i \in 1..Len(q)
      BY <1>1, <2>2
    <3> QED
      BY <1>1, <1>2, <3>1
  <2> QED
    BY <2>1, <2>2
<1> QED
  BY <1>3, <1>4 DEF Stream

LEMMA StreamGet ==
  ASSUME NEW q \in Seq(Message), NEW got \in {0, 1, 2}, NEW sent \in {0, 1, 2},
         Stream(q, got, sent), q # <<>>
  PROVE  Stream(Tail(q), got + 1, sent) /\ (q[1] = "DONE" <=> got = 1)
<1>1. /\ Len(q) \in Nat /\ 1 \in 1..Len(q)
      /\ Len(Tail(q)) = Len(q) - 1
      /\ \A i \in 1..Len(Tail(q)) : Tail(q)[i] = q[i + 1] /\ i + 1 \in 1..Len(q)
  BY Popped
<1>2. got <= sent /\ Len(q) = sent - got
      /\ \A i \in 1..Len(q) : q[i] = "DONE" <=> got + i = 2
  BY DEF Stream
<1>3. got + 1 <= sent /\ Len(Tail(q)) = sent - (got + 1)
  BY <1>1, <1>2
<1>4. ASSUME NEW i \in 1..Len(Tail(q)) PROVE Tail(q)[i] = "DONE" <=> (got + 1) + i = 2
  <2>1. Tail(q)[i] = "DONE" <=> got + (i + 1) = 2
    BY <1>1, <1>2
  <2>2. got + (i + 1) = (got + 1) + i
    BY <1>1
  <2> QED
    BY <2>1, <2>2
<1>5. q[1] = "DONE" <=> got + 1 = 2
  BY <1>1, <1>2
<1> QED
  BY <1>3, <1>4, <1>5 DEF Stream

(* What a stage does leaves the other stages where they are.               *)
StageMoves(p) ==
  StartHeartbeat(p) \/ Listen(p) \/ Get(p) \/ Connect(p) \/ Put(p) \/ PutDone(p)

LEMMA OthersStay ==
  ASSUME TypedInv, NEW p \in Stages, StageMoves(p), NEW x \in Stages, x # p
  PROVE  /\ pc'[x] = pc[x] /\ exit'[x] = exit[x] /\ out'[x] = out[x]
         /\ First(x)' <=> First(x)
         /\ Sent(x)' = Sent(x) /\ Got(x)' = Got(x)
<1>1. pc'[x] = pc[x] /\ exit'[x] = exit[x] /\ out'[x] = out[x]
  BY DEF TypedInv, PipelineTypeOK, StageMoves, StartHeartbeat, Listen, Get, Connect, Put, PutDone,
         Die, Goto, stages
<1>2. CASE x = "producer"
  BY <1>1, <1>2 DEF First, Sent, Got
<1>3. CASE x = "execution"
  <2>1. executed' = executed
    <3>1. CASE Get(p)
      <4>1. PICK m, a : Reads(p, m, a)
        BY <3>1, GetReads
      <4>2. p = "consensus"
        BY <1>3, <4>1 DEF Reads
      <4> QED
        BY <4>1, <4>2, ReaderOf DEF Reads, Acks, Proofs
    <3> QED
      BY <3>1 DEF StageMoves, StartHeartbeat, Listen, Connect, Put, PutDone
  <2> QED
    BY <1>1, <1>3, <2>1 DEF First, Sent, Got
<1>4. CASE x = "consensus"
  <2>1. "runner" \in Readers /\ "runner" # p /\ Reader[p] # "runner"
    BY <1>4, ReaderOf DEF Readers, Stages
  <2>2. queue'["runner"] = queue["runner"]
    <3>1. CASE Put(p)
      BY <2>1, <3>1, DeliveredAt DEF Put
    <3>2. CASE PutDone(p)
      BY <2>1, <3>2, DeliveredAt, DropAt DEF PutDone
    <3>3. CASE Get(p)
      BY <2>1, <3>3 DEF Get, TypedInv, PipelineTypeOK
    <3> QED
      BY <3>1, <3>2, <3>3 DEF StageMoves, StartHeartbeat, Listen, Connect, network
  <2> QED
    BY <1>1, <1>4, <2>2 DEF First, Sent, Got
<1> QED
  BY <1>2, <1>3, <1>4 DEF Stages

(* The queue between p and its reader agrees with what both have counted.  *)
Link(p) == Stream(queue[Reader[p]], Got(Reader[p]), Sent(p))

LEMMA Links ==
  /\ \A p \in Stages : Reader[p] # p /\ p # "runner" /\ Reader[p] \in Stages \union {"runner"}
  /\ \A p \in Stages \ {"producer"} : \E y \in Stages : Reader[y] = p /\ y # p
  /\ \A p \in Stages \ {"producer"} : p \in Readers /\ p \in {"execution", "consensus"}
BY DEF Reader, Stages, Readers

LEMMA QueueElsewhere ==
  ASSUME TypedInv, NEW p \in Stages, StageMoves(p), NEW r \in Readers, r # p, r # Reader[p]
  PROVE  queue'[r] = queue[r]
<1>1. CASE Put(p)
  BY <1>1, DeliveredAt DEF Put
<1>2. CASE PutDone(p)
  BY <1>2, DeliveredAt, DropAt DEF PutDone
<1>3. CASE Get(p)
  BY <1>3 DEF Get, TypedInv, PipelineTypeOK
<1> QED
  BY <1>1, <1>2, <1>3 DEF StageMoves, StartHeartbeat, Listen, Connect, network

LEMMA GotElsewhere ==
  ASSUME TypedInv, NEW p \in Stages, StageMoves(p), NEW r \in Stages \union {"runner"}, r # p
  PROVE  Got(r)' = Got(r)
<1>1. CASE r = "runner"
  BY <1>1 DEF Got
<1>2. CASE r \in Stages
  BY <1>2, OthersStay
<1> QED
  BY <1>1, <1>2

(* A link that the stage p is at neither end of is not touched by p.       *)
LEMMA LinkElsewhere ==
  ASSUME TypedInv, NEW p \in Stages, StageMoves(p),
         NEW x \in Stages, x # p, Reader[x] # p, Link(x)
  PROVE  Link(x)'
<1>1. Reader[x] \in Readers /\ Reader[x] # Reader[p] /\ Reader[x] \in Stages \union {"runner"}
  BY ReaderOf, Links
<1>2. queue'[Reader[x]] = queue[Reader[x]] /\ Got(Reader[x])' = Got(Reader[x]) /\ Sent(x)' = Sent(x)
  BY <1>1, QueueElsewhere, GotElsewhere, OthersStay
<1> QED
  BY <1>2 DEF Link

(* Nothing is put or read, and p counts what it did.                       *)
LEMMA LinksKept ==
  ASSUME TypedInv, NEW p \in Stages, StageMoves(p), queue' = queue,
         Sent(p)' = Sent(p), Got(p)' = Got(p), \A x \in Stages : Link(x), NEW x \in Stages
  PROVE  Link(x)'
<1>1. Sent(x)' = Sent(x)
  BY OthersStay
<1>2. Got(Reader[x])' = Got(Reader[x])
  BY GotElsewhere, Links
<1> QED
  BY <1>1, <1>2 DEF Link

(* A stage that listens has answered nothing, so its counts stay.          *)
LEMMA ListenFlow ==
  ASSUME TypedInv, AckInv, NEW p \in Stages, Listen(p), \A x \in Stages : Link(x), NEW x \in Stages
  PROVE  Link(x)'
<1>1. pc[p] = "up" /\ out[p] = "none" /\ exit[p] = "alive" /\ exit'[p] = "alive" /\ queue' = queue
  BY DEF Listen, TypedInv, ChannelsTyped, ProcessInv
<1>2. Sent(p) = 0
  BY <1>1 DEF Sent
<1>3. ~First(p)
  <2>1. CASE p = "execution"
    BY <1>1, <2>1 DEF AckInv, First
  <2>2. CASE p = "consensus"
    <3>1. Stream(queue["runner"], 0, 0) /\ queue["runner"] \in Seq(Message)
      BY <1>2, <2>2, ReaderOf DEF Link, Got, TypedInv, PipelineTypeOK, Readers
    <3>2. Len(queue["runner"]) = 0
      BY <3>1 DEF Stream
    <3>3. queue["runner"] = <<>>
      BY <3>1, <3>2, EmptySeq
    <3> QED
      BY <1>1, <2>2, <3>3 DEF First, Proofs
  <2> QED
    BY <2>1, <2>2 DEF First
<1>4. out'[p] \in {"none", "CONTRACT"} /\ (p # "producer" => out'[p] = "none")
      /\ (p = "producer" => pc'[p] = "putting")
  BY <1>1 DEF Listen, Goto, TypedInv, PipelineTypeOK
<1>5. ~First(p)'
  BY <1>1, <1>3, <1>4 DEF First, Listen, Proofs
<1>6. Sent(p)' = Sent(p) /\ Got(p)' = Got(p)
  BY <1>1, <1>3, <1>4, <1>5 DEF Sent, Got
<1> QED
  BY <1>1, <1>6, LinksKept DEF StageMoves

(* While nothing has failed there is a message to read: a closed and empty *)
(* connection would be that of a writer that has put both messages, and a  *)
(* reader that has read both does not read again.                          *)
LEMMA GetFlow ==
  ASSUME TypedInv, Healthy, NEW p \in Stages, Get(p), \A x \in Stages : Link(x), NEW x \in Stages
  PROVE  Link(x)'
<1>1. PICK m, a : Reads(p, m, a)
  BY GetReads
<1>2. PICK y \in Stages : Reader[y] = p /\ y # p
  BY <1>1, Links DEF Reads
<1>3. p \in Readers /\ queue[p] \in Seq(Message) /\ p \in {"execution", "consensus"} /\ p # "producer"
  BY <1>1 DEF Reads, TypedInv, PipelineTypeOK, Readers
<1>4. /\ exit[p] = "alive" /\ exit'[p] = "alive" /\ pc[p] = "reading" /\ out[p] = "none"
      /\ pc'[p] = "putting" /\ out'[p] = a
  BY <1>1 DEF Reads, TypedInv, ProcessInv, PipelineTypeOK
<1>5. Got(p) = (IF First(p) THEN 1 ELSE 0) /\ Sent(p) = Got(p)
  BY <1>3, <1>4 DEF Got, Sent
<1>6. Stream(queue[p], Got(p), Sent(y))
  BY <1>2 DEF Link
<1>7. queue[p] # <<>>
  <2> SUFFICES ASSUME queue[p] = <<>> PROVE FALSE
    OBVIOUS
  <2>1. conn[Reader[y]] = "closed"
    BY <1>1, <1>2 DEF Reads
  <2>2. exit[y] = "ok"
    BY <2>1 DEF TypedInv, ProcessInv, Healthy
  <2>3. Sent(y) = 2
    BY <2>2 DEF Sent
  <2>4. Len(queue[p]) = 0
    BY EmptyLen
  <2> QED
    BY <1>5, <1>6, <2>3, <2>4 DEF Stream
<1>8. Stream(Tail(queue[p]), Got(p) + 1, Sent(y)) /\ (queue[p][1] = "DONE" <=> Got(p) = 1)
  BY <1>3, <1>6, <1>7, CountsTyped, StreamGet
<1>9. a = "DONE" <=> Got(p) = 1
  BY <1>1, <1>7, <1>8 DEF Reads
<1>10. a # "DONE" => First(p)'
  <2> SUFFICES ASSUME a # "DONE" PROVE First(p)'
    OBVIOUS
  <2>1. CASE p = "execution"
    <3>1. a \in Acks
      BY <1>1, <2>1, ReaderOf DEF Reads
    <3> QED
      BY <1>1, <2>1, <3>1 DEF Reads, First
  <2>2. CASE p = "consensus"
    <3>1. a \in Proofs
      BY <1>1, <2>2, ReaderOf DEF Reads
    <3> QED
      BY <1>4, <2>2, <3>1 DEF First
  <2> QED
    BY <1>3, <2>1, <2>2
<1>11. Got(p)' = Got(p) + 1
  <2>1. Got(p)' = IF a = "DONE" THEN 2 ELSE IF First(p)' THEN 1 ELSE 0
    BY <1>3, <1>4 DEF Got
  <2> QED
    BY <1>5, <1>9, <1>10, <2>1
<1>12. Sent(p)' = Sent(p)
  <2>1. Sent(p)' = IF a = "DONE" THEN 1 ELSE 0
    BY <1>4 DEF Sent
  <2> QED
    BY <1>5, <1>9, <2>1
<1>13. queue' = [queue EXCEPT ![p] = Tail(queue[p])] /\ queue \in [Readers -> Seq(Message)]
  BY <1>1, <1>7 DEF Reads, Rest, TypedInv, PipelineTypeOK
<1>14. CASE x = y
  <2>1. Sent(y)' = Sent(y)
    BY <1>2, OthersStay DEF StageMoves
  <2>2. queue'[p] = Tail(queue[p])
    BY <1>3, <1>13
  <2> QED
    BY <1>2, <1>8, <1>11, <1>14, <2>1, <2>2 DEF Link
<1>15. CASE x = p
  <2>1. Reader[p] # p /\ Reader[p] \in Readers /\ Reader[p] \in Stages \union {"runner"}
    BY Links, ReaderOf
  <2>2. Got(Reader[p])' = Got(Reader[p])
    BY <2>1, GotElsewhere DEF StageMoves
  <2>3. queue'[Reader[p]] = queue[Reader[p]]
    BY <1>13, <2>1
  <2> QED
    BY <1>12, <1>15, <2>2, <2>3 DEF Link
<1>16. CASE x # y /\ x # p
  <2>1. Reader[x] # p
    BY <1>2, <1>16, ReaderOf
  <2> QED
    BY <1>16, <2>1, LinkElsewhere DEF StageMoves
<1> QED
  BY <1>14, <1>15, <1>16

(* Somebody listens to what a stage still has to put.                      *)
LEMMA Heard ==
  ASSUME TypedInv, Healthy, NEW p \in Stages, pc[p] = "putting", conn[Reader[p]] = "open", Link(p)
  PROVE  bound[Reader[p]] /\ Sent(p) = (IF out[p] = "DONE" THEN 1 ELSE 0)
<1>1. exit[p] = "alive"
  BY DEF TypedInv, ProcessInv
<1>2. Sent(p) = (IF out[p] = "DONE" THEN 1 ELSE 0)
  BY <1>1 DEF Sent
<1>3. CASE Reader[p] = "runner"
  BY <1>2, <1>3 DEF TypedInv, ProcessInv
<1>4. CASE Reader[p] \in {"execution", "consensus"}
  <2> DEFINE r == Reader[p]
  <2>0. r \in Stages
    BY <1>4 DEF Stages
  <2>1. pc[r] \in {"reading", "putting", "gone"}
    BY <1>4, <2>0 DEF TypedInv, ProcessInv, PipelineTypeOK
  <2>2. pc[r] # "gone"
    <3> SUFFICES ASSUME pc[r] = "gone" PROVE FALSE
      OBVIOUS
    <3>1. exit[r] = "ok"
      BY <2>0 DEF TypedInv, ProcessInv, Healthy
    <3>2. Got(r) = 2
      BY <1>4, <3>1 DEF Got
    <3> QED
      BY <1>2, <3>2 DEF Link, Stream
  <2> QED
    BY <1>2, <1>4, <2>1, <2>2 DEF TypedInv, ProcessInv
<1> QED
  BY <1>3, <1>4, ReaderOf DEF Readers

(* Nothing is lost while nothing has failed, and both ends count alike.    *)
LEMMA PutFlow ==
  ASSUME TypedInv, AckInv, Healthy, NEW p \in Stages, Put(p),
         \A x \in Stages : Link(x), NEW x \in Stages
  PROVE  Link(x)'
<1> DEFINE r == Reader[p]
<1>1. /\ pc[p] = "putting" /\ out[p] # "DONE" /\ exit[p] = "alive" /\ exit'[p] = "alive"
      /\ out[p] \in Carried[r] /\ out[p] \in Message
  BY DeliveredTyped, ReaderOf DEF Put, TypedInv, ProcessInv
<1>2. r \in Readers /\ r # p /\ r \in Stages \union {"runner"}
  BY Links, ReaderOf
<1>3. bound[r] /\ Sent(p) = 0
  BY <1>1, Heard DEF Put
<1>4. queue'[r] = Append(queue[r], out[p]) /\ queue[r] \in Seq(Message)
  BY <1>2, <1>3, DeliveredAt DEF Put, TypedInv, PipelineTypeOK
<1>5. queue'[r] # <<>>
  BY <1>1, <1>4, Pushed
<1>6. p # "producer" => First(p) /\ First(p)' /\ out'[p] = "none" /\ pc'[p] = "reading"
  <2>1. CASE p = "execution"
    <3>1. out[p] \in Acks
      BY <1>1, <2>1, ReaderOf
    <3> QED
      BY <2>1, <3>1 DEF AckInv, First, Put, Goto, TypedInv, PipelineTypeOK
  <2>2. CASE p = "consensus"
    <3>1. out[p] \in Proofs
      BY <1>1, <2>2, ReaderOf
    <3> QED
      BY <1>5, <2>2, <3>1, ReaderOf DEF First, Put, Goto, TypedInv, PipelineTypeOK
  <2> QED
    BY <2>1, <2>2 DEF Stages
<1>7. Sent(p)' = 1
  <2>1. CASE p = "producer"
    <3>1. out'[p] = "DONE"
      BY <2>1 DEF Put, TypedInv, PipelineTypeOK
    <3> QED
      BY <1>1, <3>1 DEF Sent
  <2>2. CASE p # "producer"
    BY <1>1, <1>6, <2>2 DEF Sent
  <2> QED
    BY <2>1, <2>2
<1>8. CASE x = p
  <2>1. Stream(Append(queue[r], out[p]), Got(r), Sent(p) + 1)
    BY <1>1, <1>3, <1>4, CountsTyped, StreamPut DEF Link
  <2>2. Got(r)' = Got(r)
    BY <1>2, GotElsewhere DEF StageMoves
  <2>3. Stream(queue'[r], Got(r)', Sent(p)')
    <3>1. Sent(p) + 1 = Sent(p)'
      BY <1>3, <1>7
    <3> HIDE DEF r
    <3> QED
      BY <1>4, <2>1, <2>2, <3>1
  <2> QED
    BY <1>8, <2>3 DEF Link
<1>9. CASE Reader[x] = p
  <2>1. p # "producer" /\ p # "runner" /\ p \in Readers /\ x # p
    BY <1>9, ReaderOf, Links DEF Readers
  <2>2. queue'[p] = queue[p]
    BY <1>2, <2>1, DeliveredAt DEF Put
  <2>3. Got(p)' = Got(p)
    BY <1>1, <1>6, <2>1 DEF Got
  <2>4. Sent(x)' = Sent(x)
    BY <2>1, OthersStay DEF StageMoves
  <2> QED
    BY <1>9, <2>2, <2>3, <2>4 DEF Link
<1> QED
  BY <1>8, <1>9, LinkElsewhere DEF StageMoves

(* A stage that ends with 0 leaves nothing unread behind.                  *)
LEMMA PutDoneFlow ==
  ASSUME TypedInv, Healthy, NEW p \in Stages, PutDone(p),
         \A x \in Stages : Link(x), NEW x \in Stages
  PROVE  Link(x)'
<1> DEFINE r == Reader[p]
<1>1. pc[p] = "putting" /\ out[p] = "DONE" /\ exit'[p] = "ok" /\ out[p] \in Message
  BY DeliveredTyped, ReaderOf DEF PutDone, Die, TypedInv, PipelineTypeOK, Message
<1>2. r \in Readers /\ r # p /\ r \in Stages \union {"runner"}
  BY Links, ReaderOf
<1>3. bound[r] /\ Sent(p) = 1
  BY <1>1, Heard DEF PutDone
<1>4. queue'[r] = Append(queue[r], out[p]) /\ queue[r] \in Seq(Message)
  <2>1. queue'[r] = Delivered(p)[r]
    BY <1>2, DropAt DEF PutDone
  <2>2. Delivered(p)[r] = Append(queue[r], out[p])
    BY <1>2, <1>3, DeliveredAt
  <2> QED
    BY <1>2, <2>1, <2>2 DEF TypedInv, PipelineTypeOK
<1>5. Sent(p)' = 2
  BY <1>1 DEF Sent
<1>6. CASE x = p
  <2>1. Stream(Append(queue[r], out[p]), Got(r), Sent(p) + 1)
    BY <1>1, <1>3, <1>4, CountsTyped, StreamPut DEF Link
  <2>2. Got(r)' = Got(r)
    BY <1>2, GotElsewhere DEF StageMoves
  <2>3. Stream(queue'[r], Got(r)', Sent(p)')
    <3>1. Sent(p) + 1 = Sent(p)'
      BY <1>3, <1>5
    <3> HIDE DEF r
    <3> QED
      BY <1>4, <2>1, <2>2, <3>1
  <2> QED
    BY <1>6, <2>3 DEF Link
<1>7. CASE Reader[x] = p
  <2>1. p # "runner" /\ p \in Readers /\ x # p
    BY <1>7, ReaderOf, Links
  <2>2. Got(p) = 2 /\ Got(p)' = 2
    BY <1>1, <2>1 DEF Got
  <2>3. queue[p] \in Seq(Message) /\ Len(queue[p]) = 0
    <3>1. 2 <= Sent(x) /\ Len(queue[p]) = Sent(x) - 2
      BY <1>7, <2>2 DEF Link, Stream
    <3>2. Sent(x) = 2
      BY <3>1, CountsTyped
    <3> QED
      BY <2>1, <3>1, <3>2 DEF TypedInv, PipelineTypeOK
  <2>4. queue[p] = <<>> /\ queue'[p] = <<>>
    BY <2>1, <2>3, EmptySeq, DropAt DEF PutDone
  <2>5. Sent(x)' = Sent(x)
    BY <2>1, OthersStay DEF StageMoves
  <2> QED
    BY <1>7, <2>2, <2>4, <2>5 DEF Link
<1> QED
  BY <1>6, <1>7, LinkElsewhere DEF StageMoves

LEMMA FlowStep ==
  ASSUME TypedInv, AckInv, FlowInv, PipelineStep PROVE FlowInv'
<1> SUFFICES ASSUME Healthy', runner' # "done", NEW x \in Stages PROVE Link(x)'
  BY DEF FlowInv, Link
<1>1. ASSUME NEW p \in Stages, NEW code \in {"crashed", "terminated"}, Fails(p, code) PROVE FALSE
  BY <1>1 DEF Fails, Die, Healthy, TypedInv, PipelineTypeOK
<1>2. ASSUME Healthy, runner # "done" PROVE \A y \in Stages : Link(y)
  BY <1>2 DEF FlowInv, Link
<1>3. ASSUME NEW p \in Stages, StageMoves(p) PROVE Link(x)'
  <2>1. runner # "done"
    BY <1>3 DEF StageMoves, StartHeartbeat, Listen, Get, Connect, Put, PutDone
  <2>2. pc[p] # "gone" /\ exit[p] = "alive"
    BY <1>3 DEF StageMoves, StartHeartbeat, Listen, Get, Connect, Put, PutDone, TypedInv, ProcessInv
  <2>3. Healthy
    <3> SUFFICES ASSUME NEW y \in Stages PROVE exit[y] \in {"alive", "ok"}
      BY DEF Healthy
    <3>1. CASE y = p
      BY <2>2, <3>1
    <3>2. CASE y # p
      BY <1>3, <3>2, OthersStay DEF Healthy
    <3> QED
      BY <3>1, <3>2
  <2>4. \A y \in Stages : Link(y)
    BY <1>2, <2>1, <2>3
  <2>5. CASE StartHeartbeat(p)
    <3>1. Sent(p)' = Sent(p) /\ Got(p)' = Got(p) /\ queue' = queue
      BY <2>5 DEF StartHeartbeat, Goto, network, Sent, Got, First, TypedInv, PipelineTypeOK
    <3> QED
      BY <1>3, <2>4, <3>1, LinksKept
  <2>6. CASE Connect(p)
    <3>1. Sent(p)' = Sent(p) /\ Got(p)' = Got(p) /\ queue' = queue
      BY <2>6 DEF Connect, stages, Sent, Got, First
    <3> QED
      BY <1>3, <2>4, <3>1, LinksKept
  <2> QED
    BY <1>3, <2>3, <2>4, <2>5, <2>6, ListenFlow, GetFlow, PutFlow, PutDoneFlow DEF StageMoves
<1>4. CASE UNCHANGED <<stages, network, executed>> /\ runner # "done"
  <2>1. Healthy
    BY <1>4 DEF Healthy, stages
  <2> QED
    BY <1>2, <1>4, <2>1 DEF stages, network, Link, Sent, Got, First
<1>5. ASSUME NEW label, RunnerGoto(label), runner \in {"polling", "reaping"} PROVE Link(x)'
  BY <1>4, <1>5 DEF RunnerGoto
<1>6. ~ReadResult
  BY DEF ReadResult
<1>7. CASE UNCHANGED pipelineVars
  BY <1>4, <1>7 DEF pipelineVars
<1> QED
  BY <1>1, <1>3, <1>5, <1>6, <1>7 DEF PipelineStep, StageMoves

(* With three zero exit codes both messages of consensus wait for the      *)
(* runner, and the first of them is the proof.                             *)
LEMMA ResultStep ==
  ASSUME TypedInv, FlowInv, ResultInv, PipelineStep PROVE ResultInv'
<1> SUFFICES ASSUME runner' = "done", PipelineOk' PROVE result' \in Proofs
  BY DEF ResultInv
<1>1. CASE ReadResult
  <2>1. \A p \in Stages : exit[p] = "ok"
    BY <1>1 DEF ReadResult, stages, PipelineOk, Crashes
  <2>2. Link("consensus") /\ Sent("consensus") = 2 /\ Got("runner") = 0 /\ Reader["consensus"] = "runner"
    BY <1>1, <2>1, ReaderOf DEF ReadResult, FlowInv, Healthy, Link, Sent, Got, Stages
  <2> DEFINE q == queue["runner"]
  <2>3. q \in Seq(Carried["runner"])
    BY DEF TypedInv, ChannelsTyped, Readers
  <2>4. Len(q) = 2 /\ (\A i \in 1..Len(q) : q[i] = "DONE" <=> 0 + i = 2)
    <3>1. Stream(q, 0, 2)
      BY <2>2 DEF Link
    <3> QED
      BY <3>1 DEF Stream
  <2>5. q # <<>>
    BY <2>4, EmptyLen
  <2>6. Head(q) = q[1] /\ q[1] \in Carried["runner"]
    BY <2>3, <2>5, Popped
  <2>7. q[1] \in Proofs
    BY <2>4, <2>6, ReaderOf
  <2>8. conn["runner"] = "closed"
    BY <2>1, ReaderOf DEF TypedInv, ProcessInv, Stages
  <2> QED
    BY <1>1, <2>5, <2>6, <2>7, <2>8 DEF ReadResult, Arrived
<1>2. CASE ~ReadResult
  <2>1. runner = "done" /\ result' = result
    BY <1>2 DEF PipelineStep, Fails, StartHeartbeat, Listen, Get, Connect, Put, PutDone, RunnerGoto,
                pipelineVars
  <2>2. \A p \in Stages : pc[p] = "gone" /\ ~Alive(p)
    BY <2>1 DEF TypedInv, ProcessInv, Alive
  <2>3. exit' = exit
    BY <1>2, <2>2 DEF PipelineStep, Fails, StartHeartbeat, Listen, Get, Connect, Put, PutDone,
                      RunnerGoto, stages, pipelineVars
  <2> QED
    BY <2>1, <2>3 DEF PipelineOk, Crashes, ResultInv
<1> QED
  BY <1>1, <1>2

(* The inductive invariant.                                                *)
PipelineInv ==
  TypedInv /\ OneContract /\ EvidenceInv /\ AckInv /\ FlowInv /\ ResultInv

LEMMA PipelineStart ==
  ASSUME PipelineInit PROVE PipelineInv
<1>1. TypedInv
  BY TypedStart
<1>2. OneContract
  BY EmptyLen DEF PipelineInit, OneContract, Readers
<1>3. EvidenceInv
  BY EmptyLen DEF PipelineInit, EvidenceInv, Backed
<1>4. AckInv
  BY DEF PipelineInit, AckInv, Acks, Stages
<1>5. ResultInv
  BY DEF PipelineInit, ResultInv
<1>6. FlowInv
  <2> SUFFICES ASSUME NEW p \in Stages PROVE Stream(queue[Reader[p]], Got(Reader[p]), Sent(p))
    BY DEF FlowInv
  <2>1. queue[Reader[p]] = <<>>
    BY ReaderOf DEF PipelineInit
  <2>2. ~First(p) /\ ~First(Reader[p])
    BY DEF PipelineInit, First, Proofs, Readers, Stages
  <2>3. Sent(p) = 0
    BY <2>2 DEF PipelineInit, Sent
  <2>4. Got(Reader[p]) = 0
    BY <2>2, Links DEF PipelineInit, Got
  <2> QED
    BY <2>1, <2>3, <2>4, EmptyLen DEF Stream
<1> QED
  BY <1>1, <1>2, <1>3, <1>4, <1>5, <1>6 DEF PipelineInv

(* Exit codes alone tell the truth: when all three are zero the runner has *)
(* the proof, although every lost message and broken connection is         *)
(* swallowed; and a positive proof is of a contract that was executed      *)
(* without HALT, whatever crashed or was killed since.                     *)
THEOREM OkMeansProofCorrect == PipelineSpec => []OkMeansProof
<1>1. PipelineInit => PipelineInv
  BY PipelineStart
<1>2. PipelineInv /\ [PipelineNext]_pipelineVars => PipelineInv'
  BY PipelineSteps, TypedStep, OneContractStep, EvidenceStep, AckStep, FlowStep, ResultStep
  DEF PipelineInv
<1>3. PipelineInv => OkMeansProof
  <2> SUFFICES ASSUME PipelineInv PROVE OkMeansProof
    OBVIOUS
  <2>1. result = "PROOF_REACHED" => executed = {"RESULT_OK"}
    BY DEF PipelineInv, EvidenceInv, Backed, OneContract
  <2> QED
    BY <2>1 DEF PipelineInv, ResultInv, OkMeansProof
<1> QED
  BY <1>1, <1>2, <1>3, PTL DEF PipelineSpec
-----------------------------------------------------------------------------
(* Why the runner returns                                                  *)

(* What the runner has still to do: phases to pass and stages to see dead. *)
PhasesLeft == [polling |-> 3, reaping |-> 2, reading |-> 1, done |-> 0]
Living(p) == IF Alive(p) THEN 1 ELSE 0
RunnerRank == PhasesLeft[runner] + Living("producer") + Living("execution") + Living("consensus")

(* The runner can always go on: it polls while a stage lives, it reaps what *)
(* lives, and when it reads, the connection of consensus, if there is one, *)
(* is closed, so that get() returns.                                       *)
RunnerGoesOn ==
  runner = "reading" => conn["runner"] = "none" \/ Arrived("runner") # {}

(* Each of the runner's steps brings it nearer to its end, and nothing     *)
(* that a stage does takes it further away.                                *)
RunnerApproaches ==
  /\ RunnerRank \in Nat /\ RunnerRank' \in Nat
  /\ RunnerRank' <= RunnerRank
  /\ RunnerStep => RunnerRank' < RunnerRank

LEMMA RankTyped ==
  TypedInv => PhasesLeft[runner] \in Nat /\ RunnerRank \in Nat
<1> SUFFICES ASSUME TypedInv PROVE PhasesLeft[runner] \in Nat /\ RunnerRank \in Nat
  OBVIOUS
<1>1. PhasesLeft[runner] \in Nat
  BY DEF TypedInv, PipelineTypeOK, PhasesLeft
<1>2. \A p : Living(p) \in {0, 1}
  BY DEF Living
<1> QED
  BY <1>1, <1>2 DEF RunnerRank

LEMMA DeathLowersRank ==
  ASSUME TypedInv, TypedInv', NEW p \in Stages, NEW code \in {"ok", "crashed", "terminated"},
         Alive(p), Die(p, code), runner' = runner
  PROVE  RunnerRank' < RunnerRank
<1>1. \A x \in Stages : exit'[x] = IF x = p THEN code ELSE exit[x]
  BY DEF Die, TypedInv, PipelineTypeOK
<1>2. Living(p) = 1 /\ Living(p)' = 0
  BY <1>1 DEF Living, Alive
<1>3. \A x \in Stages \ {p} : Living(x)' = Living(x)
  BY <1>1 DEF Living, Alive
<1>4. PhasesLeft[runner] \in Nat /\ PhasesLeft[runner]' = PhasesLeft[runner]
      /\ (\A x : Living(x) \in {0, 1})
  BY RankTyped DEF Living, PhasesLeft
<1>5. CASE p = "producer"
  BY <1>2, <1>3, <1>4, <1>5 DEF RunnerRank, Stages
<1>6. CASE p = "execution"
  BY <1>2, <1>3, <1>4, <1>6 DEF RunnerRank, Stages
<1>7. CASE p = "consensus"
  BY <1>2, <1>3, <1>4, <1>7 DEF RunnerRank, Stages
<1> QED
  BY <1>5, <1>6, <1>7 DEF Stages

LEMMA PhaseLowersRank ==
  ASSUME TypedInv, TypedInv', exit' = exit, PhasesLeft[runner'] < PhasesLeft[runner]
  PROVE  RunnerRank' < RunnerRank
<1>1. \A p : Living(p)' = Living(p)
  BY DEF Living, Alive
<1>2. /\ PhasesLeft[runner] \in Nat /\ PhasesLeft[runner]' \in Nat
      /\ \A x : Living(x) \in {0, 1}
  BY DEF TypedInv, PipelineTypeOK, PhasesLeft, Living
<1>3. PhasesLeft[runner]' = PhasesLeft[runner']
  BY DEF PhasesLeft
<1> QED
  BY <1>1, <1>2, <1>3 DEF RunnerRank

LEMMA RunnerStepApproaches ==
  ASSUME TypedInv, TypedInv', RunnerStep PROVE RunnerRank' < RunnerRank
<1>1. ASSUME NEW p \in Stages, HeartbeatFails(p) \/ Reap(p) PROVE RunnerRank' < RunnerRank
  BY <1>1, DeathLowersRank DEF HeartbeatFails, Reap, Terminate
<1>2. CASE AllExited \/ TimeoutExceeded \/ AllReaped \/ ReadResult
  <2>1. exit' = exit /\ PhasesLeft[runner'] < PhasesLeft[runner]
    BY <1>2 DEF AllExited, TimeoutExceeded, AllReaped, ReadResult, RunnerGoto, stages, PhasesLeft
  <2> QED
    BY <2>1, PhaseLowersRank
<1> QED
  BY <1>1, <1>2 DEF RunnerStep

LEMMA StepApproaches ==
  ASSUME TypedInv, TypedInv', [PipelineNext]_pipelineVars PROVE RunnerApproaches
<1>1. RunnerRank \in Nat /\ RunnerRank' \in Nat
  <2>1. PhasesLeft[runner]' \in Nat
    BY DEF TypedInv, PipelineTypeOK, PhasesLeft
  <2>2. \A p : Living(p)' \in {0, 1}
    BY DEF Living
  <2> QED
    BY <2>1, <2>2, RankTyped DEF RunnerRank
<1>2. RunnerStep => RunnerRank' < RunnerRank
  BY RunnerStepApproaches
<1>3. ASSUME exit' = exit, runner' = runner PROVE RunnerRank' = RunnerRank
  BY <1>3 DEF RunnerRank, Living, Alive, PhasesLeft
<1>4. ASSUME NEW p \in Stages, NEW code \in {"ok", "crashed", "terminated"}, pc[p] # "gone",
             Die(p, code), runner' = runner
      PROVE  RunnerRank' < RunnerRank
  BY <1>4, DeathLowersRank DEF TypedInv, ProcessInv, Alive
<1>5. ASSUME NEW p \in Stages, StageStep(p) PROVE RunnerRank' <= RunnerRank
  <2>1. CASE InjectedCrash(p) \/ ConnectFails(p) \/ PutDone(p)
    BY <1>1, <1>4, <2>1 DEF InjectedCrash, ConnectFails, PutDone
  <2>2. CASE StartHeartbeat(p) \/ Listen(p) \/ Get(p) \/ Connect(p) \/ Put(p)
    BY <1>1, <1>3, <2>2 DEF StartHeartbeat, Listen, Get, Connect, Put, stages
  <2> QED
    BY <1>5, <2>1, <2>2 DEF StageStep
<1>6. ASSUME NEW p \in Stages, Crash(p) PROVE RunnerRank' <= RunnerRank
  BY <1>1, <1>6, DeathLowersRank DEF Crash
<1>7. ASSUME UNCHANGED pipelineVars PROVE RunnerRank' <= RunnerRank
  BY <1>1, <1>3, <1>7 DEF pipelineVars, stages
<1>8. StagesNext \/ RunnerStep \/ (\E p \in Stages : Crash(p)) \/ UNCHANGED pipelineVars
  BY DEF PipelineNext
<1>9. RunnerRank' <= RunnerRank
  BY <1>1, <1>2, <1>5, <1>6, <1>7, <1>8 DEF StagesNext
<1> QED
  BY <1>1, <1>2, <1>9 DEF RunnerApproaches

(* The safety of the argument for RunnerReturns: the runner is never stuck *)
(* in a read, and every step it takes lowers a natural number that nothing *)
(* raises, however the stages die.                                         *)
THEOREM RunnerProgress == PipelineSpec => []RunnerGoesOn /\ [][RunnerApproaches]_pipelineVars
<1>1. PipelineInit => TypedInv
  BY TypedStart
<1>2. TypedInv /\ [PipelineNext]_pipelineVars => TypedInv'
  BY PipelineSteps, TypedStep
<1>3. TypedInv => RunnerGoesOn
  <2> SUFFICES ASSUME TypedInv, runner = "reading", conn["runner"] # "none"
               PROVE  Arrived("runner") # {}
    BY DEF RunnerGoesOn
  <2>1. exit["consensus"] # "alive" /\ conn["runner"] \in {"open", "closed"}
    BY DEF TypedInv, ProcessInv, PipelineTypeOK, Stages, Readers
  <2>2. conn["runner"] = "closed"
    BY <2>1, ReaderOf DEF TypedInv, ProcessInv, Stages
  <2> QED
    BY <2>2 DEF Arrived
<1>4. TypedInv /\ TypedInv' /\ [PipelineNext]_pipelineVars => RunnerApproaches
  BY StepApproaches
<1> QED
  BY <1>1, <1>2, <1>3, <1>4, PTL DEF PipelineSpec
=============================================================================
