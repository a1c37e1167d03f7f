# Formal verification of the QCG runtime

TLA+ specifications of the control logic of QCG, the quantum communication
gateway and its distributed runtime: replay protection, the three-process
pipeline, consensus, the platform SDK, the lifecycle of platform services, the
federation of their registries, the quantum network and the hybrid runtime with
its evidence ledger.
TLC checks them on small instances, TLAPS proves the central results for all
values of the constants. `PROJECT.json` maps every definition to the lines of
Python it stands for.

Run a check with `tlc -config MCReplayRegistry.cfg MCReplayRegistry`, a proof
with `tlapm ReplayRegistryProofs.tla`.

## 1. Inventory of the system

The root directory holds the program; `code_packets/`, `DEP/`,
`evidence_packet/`, `review_packets/` and `sdk/` repeat files of it.

| part | files | state | operations | hard behaviours | what makes it correct |
|---|---|---|---|---|---|
| Replay registry | `replay_registry.py` | `_entries`, `_sequence_counter`, a JSON file | `submit`, `reset`, queries | threads behind a lock, crash between memory, temporary file and rename, failing write, two objects on one file | one VALID for a message, VALID only when durable, numbers without gap |
| Canonical replay authority | `canonical_replay_authority.py` | `_all_verdicts`, `_lineage`, not locked | `submit`, `lookup`, `lineage`, `sequence_status`, `verification_report`, `reset` | stores its verdict after the registry's lock is gone; a report reads two dictionaries one after the other; dictionaries lost at a restart, and entries whose write failed | records agree with the registry and its file; a report is off by no more than what is stored during it |
| Gateway | `gateway.py`, `communication_contract.py` | token bucket, a Receiver over an authority | `send`, `receive`, `transmit` | capacity tested before the submission; reset of the registry below the authority | capacity kept, the right message evicted |
| Three-process pipeline | `process_runner.py`, `producer_process.py`, `execution_process.py`, `consensus_process.py`, `network_ipc.py` | sockets, processes | `put`, `get`, heartbeats, `run_pipeline` | crashes, refused connections, swallowed send errors, end of stream read as DONE, heartbeat before the port is bound, time-out | `pipeline_ok` means a proof; the runner returns |
| Consensus | `consensus_simulation.py`, `byzantine_simulation.py`, `provenance.py` | none that outlives a round | `process`, `run_consensus` | faulty, silent and forging nodes; a service call of each node that may fail; ties; quorum over floats | no ambiguous certificate; honest quorum prevails |
| Platform SDK | `platform_capability_sdk.py`, `sdk_models.py`, `sdk_auth.py` | circuit breaker, evidence chain | `invoke_capability`, discovery, health | outcomes later than the breaker's decision, retries it is not told of | breaker's state fits its count; calls end |
| Lifecycle manager | `platform_lifecycle_manager.py` | states, enabled overlay, evidence chain | `register`, `transition`, `enable`, `disable`, `deprecate`, `retire` | `enable`/`disable` read and act in two critical sections | only moves of the table; evidence replays to the state |
| Federation, heartbeats | `federated_registry.py`, `heartbeat_manager.py` and the part of `platform_service_registry.py` they use | services with versions, leases, a vector clock, nonces and an audit log on every node | `register_service_authenticated`, `revoke_service`, `receive_heartbeat`, `sync_with_peer`, the reapers, propagation of events | one lock per object and none over an operation; expiry races renewal; events replayed or late | a service is out of every reaper's sight only after two known races, what expired is removed, clocks cover what was accepted, an event is recorded as often as it was accepted |
| Evidence ledger, orchestrator | `evidence_ledger.py`, `execution_record.py`, `execution_classification.py`, `hybrid_runtime_orchestrator.py`, `workload_router.py`, `quantum_provider_registry.py` | hash chain in memory and on disk, providers and their health | `append`, `submit_workload`, routing, health check | provider changed or lost after routing, swallowed write failure, crash between execution and record, an exception after the circuit | a fallback is never labelled quantum; every completed answer is in an unbroken chain |
| Quantum network contract | `quantum_network_contract.py` | nodes, routes, pool of entangled pairs | `declare_node`, `request_route`, `generate_pairs`, `reserve_pair`, `purge_expired`, `coordinate_distributed_workload` | a workload is many critical sections of two locks; nodes change between them; a later hop fails | a pair is measured once; COMPLETED means a route for every hop; every workload is answered |
| Transports, runtime services | `transport.py`, `runtime_services.py` | connection, breaker, queues | `put`, `get`, request loops | reconnect, partial frame, one client per service | nothing lost silently; services end |
| Platform registry | `platform_service_registry.py`, `platform_service_discovery.py`, `platform_discovery_fastapi.py` | services, status, files | register, set status, heartbeat, discovery | persistence, status set by heartbeat | status follows the lifecycle |
| Governance | `governance.py`, `governance_authority.py` | mode, bounded violation log | check, record | strict and permissive mode | no violation passes in strict mode |
| Trust, provenance | `trust_chain.py`, `node_identity.py`, `producer_verification.py`, `quantum_trust_provider.py`, `service_identity.py` | keys, registrations, revocations | register, revoke, verify | revoke racing a verification | only registered keys verify |
| Replay enforcer, audit trail | `replay_enforcer.py`, `audit_trail.py` | bounded cache, list | check, append | eviction at 10,000 entries | what was seen stays refused inside its window |
| Runtime core | `runtime_core.py`, `execution_contract.py`, `config.py` | none between calls | `execute` | – | – |
| The rest | producers, compilers, translation, adapters, clients of other products, dashboards, demonstrations, the solver fabric | none, or presentation | – | – | – |

How they interact: a transmission goes through the gateway, which asks the
replay authority for a verdict; the authority asks the registry, the registry
writes its file. In the pipeline the producer sends a signed contract to the
execution stage, which asks the replay registry, checks provenance, executes
and sends a result to the consensus stage, whose three nodes execute again and
vote; the proof goes to the runner. The SDK calls services that the platform
registry lists; the lifecycle manager decides which of them are enabled.
In the federation a node that registers, revokes or reaps a service changes its
own registry and heartbeat manager first and then calls its peers one by one;
`sync_with_peer()` pulls a peer's list and works it off. The orchestrator asks
the router for a decision, the router asks the provider registry for the best
provider; the orchestrator looks that provider up again to execute, then appends
the outcome to the ledger and answers.

`PROJECT.json` lists the hazards at their lines. In short: steps of two threads
around a lock; a crash between memory and disk; an exception after memory has
changed; state read before a lock is released and used later; end of stream and
time-outs that look like answers; limits reached by concurrent callers.

## 2. Modules

| module | models | its state in the code |
|---|---|---|
| `ReplayContract` | the promise of replay protection: a durable numbering that only grows, at most one VALID per message, after it is durable | abstract |
| `ReplayRegistry` | one or more `ReplayRegistry` objects over one file | `counter`, `entries` = `_sequence_counter`, `_entries`; `disk`, `tmp` = the file and its temporary; `holder` = `_lock`; `pc` = where a thread is in `submit()` |
| `ReplayAuthority` | `CanonicalReplayAuthority` and `Receiver` above one registry | `verdicts` = `_all_verdicts`, `lineage` = `_lineage` in insertion order |
| `ProcessPipeline` | runner, producer, execution, consensus | `exit` = exit codes, `bound`/`conn`/`queue` = a `SocketQueue`, `heartbeat` = the heartbeat thread |
| `Consensus` | `ConsensusEngine.run_consensus()` | `proofs` = the issued `ConsensusProof`s |
| `CapabilitySDK` | `invoke_capability()` with `CircuitBreaker` | `state`, `failures`, `lastFailure` = the breaker's fields |
| `LifecycleManager` | `LifecycleManager` | `serviceState`, `enabled`, `events` = `_service_states`, `_service_enabled`, `_events` |
| `Federation` | `FederatedRegistryNode`s with their `PlatformServiceRegistry`, `HeartbeatManager` and `ConflictResolver` | `services` = `_services`, `leases` = `_leases`, of every node; `pc`, `job` = where a request, the start-up thread or a reaper is |
| `FederationEvents` | the events those nodes exchange | `clock` = `_vector_clock`, `received` = `_nonce_order`, `log` = `_events` of the audit log, `events` = the `FederationEvent` objects |
| `QuantumNetwork` | `QuantumNetworkContract`, `EntanglementPoolManager`, `coordinate_distributed_workload()` | `nodes`, `routes`, `pairs` = `_nodes`, `_routes`, the pool; `job` = the locals of a workload |
| `HybridRuntime` | `HybridRuntimeOrchestrator`, `WorkloadRouter`, `QuantumProviderRegistry`, `EvidenceLedger` | `providers` = `_providers`, `ledger` = `_records`, `disk` = the ledger's file |
| `MC...` | the constants of the runs | – |
| `...Proofs` | theorems about the module they are named after; `PipelineProofs` about `ProcessPipeline` and `Consensus`, `PlatformProofs` about `CapabilitySDK` and `LifecycleManager` | – |

`ReplayAuthority` models the registry at one step per decision. That this is
what the registry's five steps amount to is what `ReplayRegistry` shows: both
modules are checked and proved to implement the same `ReplayContract`.

`ProcessPipeline` and `LifecycleManager` carry their names in their definitions
(`PipelineInit`, `LifecycleSpec`), since each is extended together with another
module where it is proved about.

A definition with a comment "Mutant of D" is a plausible wrong version of D. No
specification uses it. It stands beside D to show that a property of the runs
tells the two apart: with D replaced by the mutant TLC reports a violation.

### Abstractions

* A message id, a hash, a node is a model value. Signatures are true or false.
* `ReplayRegistry`: `Path.write_text` is one step that may fail and then leaves
  a truncated temporary file; the rename is atomic; power loss (there is no
  `fsync`) is not modelled. The clock is a counter, issue times are any of
  `0..MaxClock`, so some lie in the future. The FUTURE verdict is not reachable:
  the gap the code computes is always 1 and `config.validate()` demands a
  positive limit.
* `ReplayAuthority`: the registry's memory and file are apart. A decision and its
  write are one step, under the registry's lock; a write that fails leaves the
  entry in memory only, and a restart loads the file. A report reads the verdicts
  in one step and the lineage in another. A message may be too old at any
  submission, since the issue time is the caller's; identifiers and hashes of the
  lineage record are left out.
* `ProcessPipeline`: one contract. What the execution stage and the consensus
  nodes compute is a choice (executed or halted, reached or not). A live stage
  answers its heartbeat from the moment its port is bound; one refused heartbeat
  terminates it.
* `Consensus`: a round is one step, since the nodes are objects called one after
  the other; the vote of a faulty node is any hash, status and signature; one
  node at most is missing. An honest node calls the service by itself
  (`runtime_core.py:146`): if the call fails, its acknowledgement says so and its
  hash is another one, so honest nodes may differ. The quorum test of the code compares floats; for
  thresholds written with two decimals it agrees with the integer form used here.
  Which of two equally frequent hashes wins depends on the order of a
  dictionary and is a free choice.
* `CapabilitySDK`: one service. A request takes any time and has any outcome.
  The evidence is written before the caller gets the result of a call that
  reached the service; its contents are left out. `RuntimeCore.execute()`
  makes a new SDK for every execution, so the breaker matters to callers
  that keep one.
* `LifecycleManager`: the chain of hashes is the order of `events`.
* `Federation`: authentication is a precondition of a request. A registration
  time is a stamp that names one record, so equal times never meet. A lease is
  the ticks it has left; a tick is taken by all leases. Nodes are objects of one
  process, as `start_platform_servers.py` builds them, so a call of a peer is
  neither lost nor reordered; what is free is the interleaving of the critical
  sections of all threads. A refused event (its nonce was seen) never occurs for
  a sender's own delivery and is in `FederationEvents`. The set of peers is fixed.
* `FederationEvents`: an event's index is its nonce. A caller may hand any event to
  any node again, the event's source too, which does not note its own nonces. Nonces pushed out of the
  window stay in `received` and are told by their position. The audit chain is
  the order of `log`; its hashes are left out (see section 6).
* `QuantumNetwork`: a pair is generated at a time, and its fidelity is a level
  that falls by one in a coherence time of its own. Whether a route exceeds the workload's latency
  is a field of the workload. Pairs keep their place when purged, so that a pair
  has one name. Route ids, statistics and the report are left out.
* `HybridRuntime`: one submission at a time, since the server's endpoints are
  coroutines without an `await`; operators change providers between any two
  steps. Whether a circuit runs, whether an exception comes before or after it
  (its counts are classified and labelled then), and whether the trace store or a
  stage after the evidence raises is free. `circuits` is a history variable: the
  submissions for which a circuit ran. The ledger's `previous_hash`
  is the order of `ledger`: the head is read in the step before the append, and
  nothing runs between the two. A save is one step (temporary file and rename)
  or fails. What the replay check says is not used by the code and left out.

## 3. Runs

| run | question | instance |
|---|---|---|
| `registry` | Is a message accepted at most once, durably, with numbers without gap, and is the lock always released? | 1 object, 2 threads, 3 messages, clock 0..1, TTL 0; 503,670 states |
| `authority` | Do the records agree with the registry and its file through races, failed writes and restarts, and how far is a report off? | 2 threads, 3 messages; 454,921 states |
| `pipeline` | Does the runner return, and is `pipeline_ok` only reported with a proof? | every injected crash and every other crash, each stage early or late; 2,736 states |
| `consensus` | What do 0 to 3 faulty nodes out of 3 achieve in two rounds? | 3 nodes, 2 hashes, threshold 66, calls of honest nodes that fail; 1,220,257 states |
| `sdk` | Does the breaker's state fit its count, is a dead service spared, do calls end? | 2 threads, threshold 2, 1 retry, clock 0..3; 52,328 states |
| `lifecycle` | Do the recorded moves replay to the state that two racing operators leave, and are they moves of the table? | 1 service, 2 operators, 5 events; 527,865 states |
| `federation` | By which steps may a registered service get out of every reaper's sight, and is what was found expired removed? | 2 nodes, 1 service, 2 versions, 2 records, TTL 1; the start-up thread registers and syncs on one, requests register, revoke and beat on the other, both reapers; 472,286 states |
| `fed_events` | Do clocks never run ahead and always cover what was accepted, is an event recorded as often as it was accepted, and not accepted again in its window? | 2 nodes, 3 threads, 3 events, 2 nonces kept, 1 replay to any node; 384,991 states |
| `network` | Is a pair used once, is COMPLETED backed by routes and pairs, is every workload answered? | a line of 3 nodes, 2 callers, 2 pairs, 1 later declaration, 2 workloads; 509,148 states |
| `hybrid` | Is the quantum label honest, has every completed answer its evidence, does the chain on disk only grow? | the local simulator and a second provider, 5 kinds of workload, 2 submissions, 3 changes, 1 restart; 2,970,676 states |

The runs that show a disagreement between the code and what is written of it:

| run | what the code does | what is written |
|---|---|---|
| `receiver_eviction` | at its capacity the Receiver forgets every message | `gateway.py:192`: evicts the oldest entry |
| `federation_heartbeat` | a heartbeat renews the lease of one node; the reaper of another removes the service everywhere | `heartbeat_manager.py:53`: services must send heartbeats or are deregistered |

Bounds. Two threads are enough for every race over one lock: a third could only
repeat what the second does. Three messages let one be accepted, one be left in
memory by a failed write and one be written along with it. TTL 0 with a clock of
two values makes a message valid, stale before the call, and stale while it
waits for the lock. A capacity of 2 under 3 messages is reached and exceeded by
one. Three nodes have quorum 2 at the configured threshold of 0.66, so one
missing and one faulty node already matter. With threshold 2 and one retry the
breaker opens, half-opens, is probed by two threads, and is closed by an answer
older than its opening. Five events let a service be registered, retired and
registered again, and two operators overlap in all their halves. Two nodes and
one service let every message of the federation race every reaper; two records
are enough for one to replace or to meet another, and a lease of one tick expires
between any two steps. Three events with two nonces push one out, so a replay
inside and outside the window happens. A path of two hops lets the second fail
after the first has taken its pair, and two callers want the same link, asked for
in both directions. Two submissions and one restart put a crash between a
record, its failed save and the next append, and a second record on what is left
of the first; three changes let a provider be checked, removed and registered
anew during one execution.

Symmetry is used for messages, threads and nodes where the properties are
invariants or action properties; runs with a leads-to or an eventually use none.

Fairness. `ReplayRegistry`: a thread inside `submit()` is scheduled again (weak
fairness for its steps); nothing is assumed of callers, clock or crashes.
`ProcessPipeline`: the operating system schedules the stages, and the runner's
loop sleeps, polls and gives up after 30 s (`process_runner.py:96`), so its steps
are taken when they stay possible; no crash is assumed. `CapabilitySDK`: every
request has a time-out and every backoff an end. `Federation`: threads inside an
operation are scheduled, and every reaper is a loop with a sleep
(`heartbeat_manager.py:295`), so an expired lease is looked at again and again;
nothing is assumed of requests, syncs and time. `FederationEvents` and
`QuantumNetwork`: a thread inside an operation is scheduled. The other
specifications assume none: they have no liveness property.

Deadlock is checked where a thread may always call again. `ProcessPipeline` ends
with the runner; the runs of `Consensus`, `LifecycleManager`, `Federation`,
`FederationEvents`, `QuantumNetwork` and `HybridRuntime` stop at their bounds of
rounds, events, records, workloads and submissions, so deadlock checking is off
there; that nothing hangs before is `ExpiredIsRemoved` and `WorkloadEnds`. No bound of a counter
stops the registry, which has only as many numbers as messages.

## 4. Proofs

For every number of threads, messages, nodes and every value of the other
constants, from the assumptions the modules name:

* `ReplayRegistryProofs`. `TypeCorrect`; `NumberingContiguous`, for any number
  of objects on one file. The rest needs one object (`SingleObject`, a premise
  of the theorems: with two they are false, see section 6).
  `AtMostOnce`, `Durability` and `ImplementsContract` follow from the inductive
  invariant `DurabilityInv`: only the holder of the lock is writing; memory is
  never behind the file; what is about to be renamed is a snapshot of memory; the
  message being written has not been granted; a VALID on its way to the caller is
  on disk, is the only one for its message, and the first. The two properties by
  themselves are not inductive: a state with a message granted but missing from
  memory would accept it again.
* `ReplayAuthorityProofs`, for the gateway and for the Receiver with its bounded
  memory. `TypeCorrect`. `RejectedCountCorrect` from
  `StoreInv`: the two dictionaries are written, and read by a report, one after the
  other without a lock; a lineage record has a verdict, a message has one record, a
  thread about to write the record has written the verdict, and no verdict that a
  report counted goes away. So a report is short by exactly the verdicts first
  stored during it. `LineageCorrect` and `ImplementsContract` from
  `GrantInv`: the numbers in memory and those in the file are unique and without gap
  and agree where the file has any (`NumberingInv`); a VALID that is decided and
  not yet told is in the file, is the only one for its message and the first; what
  was told, and what the lineage says, is what the file has. Memory alone would not
  do, since a restart gives out again the numbers of entries whose write failed.
  Without the parts about decisions in flight the contract's "at most one
  VALID" is not inductive.
* `PipelineProofs`, for any set of stages that may crash.
  + Consensus. `TypeCorrect`. The invariant `TallyInv` says that every proof is the
    tally of a possible round. From it and the counting lemma `QuorumsIntersect`
    follow `Accountability` (two conflicting certificates share a signer),
    `Validity`, `HonestQuorum` and `Dissent`. Honest nodes need not agree, so
    `HonestQuorum` speaks of a quorum of them that computed one hash, and `Dissent`
    says who may be neither a backer nor named: a faulty node alone.
  + The pipeline. `PipelineTypeCorrect` from `TypedInv`: a channel carries only what
    its reader understands, and a stage's exit code, place, port and connection
    agree. `OkMeansProofCorrect` from `PipelineInv`. `pipeline_ok` looks at exit
    codes, which say nothing of messages, so the invariant has to say what they
    imply: while no stage has failed, every queue holds exactly what its writer
    counts as put and its reader not yet as read, one message and then DONE
    (`FlowInv`). Hence a put finds a listener, a get never takes a closed
    connection for DONE too early, and with three zero exit codes the proof waits for
    the runner. That a positive proof is about an executed contract holds after
    crashes, too: one contract enters (`OneContract`), and positive messages are
    made only of positive ones (`EvidenceInv`).
    `RunnerProgress` is what can be proved of `RunnerReturns`: a read of the runner
    always returns, and every step of the runner lowers a natural number that
    nothing raises. That such steps are taken is fairness.
* `PlatformProofs`.
  + SDK. `TypeCorrect` and `BreakerConsistent`: closed exactly below the threshold,
    in whatever order outcomes arrive. `WasteCorrect` bounds the requests a dead
    service can draw. Its invariant counts, by a set of slots, the retries that the
    threads in flight may still make (`Pending`), and charges each request either to
    a failure the breaker has counted or to a slot.
  + Lifecycle. `LifecycleTypeCorrect`, `LifecycleMovesAreValid` and
    `LifecycleReplays`: the moves in the chain of events are moves of the table,
    each starts where the one before it ended, and the last ends in the state the
    service is in, for chains of any length and any number of racing operators.
* `FederationProofs`. `TypeCorrect` and `LostOnlyInRaces`. The second is about
  single steps of well-typed states: `ThreadWatches` says what a thread's step has to
  do so that every watched service stays watched: leave the leases in force, or put
  them on the reaper's list, grant what the thread was about to grant, work off its
  list only by removing, and register nothing that is not watched afterwards. Every
  action is shown to do so but the two that the property names.
* `FederationEventsProofs`. `TypeCorrect` counts the threads about to create an
  event as places reserved. `ClocksAreSound` and `AcceptedStaysCovered` use that
  no clock ever goes back. `LogsAreReplaySafe` rests on `OnceInv`, which counts: a
  node's log has an event, together with the threads about to write it there, as
  often as the node accepted it, and once more at its source (`Balanced`); and
  two acceptances of one event are more than `MaxNonces` apart (`Apart`), because a
  nonce that was seen less than that ago is still in the window.
* `QuantumNetworkProofs`. `TypeCorrect` needs to know of every place of a workload
  which hop it is at and what it holds (`Under`), and that the freshest pair
  exists (`BestIsIn`, from the well-foundedness of inclusion on finite sets).
  Every step is one of three kinds (`ThreeKinds`): an answer, a reservation, or one that leaves
  what is held. `CompletedWorkloadsAreBacked` follows from `BackedInv`: what is
  held joins its hops, and the ends of a pair never change. `PairsAreUsedOnce`
  follows from `UseInv`: what was handed out is in the history of the pool, once.
* `HybridRuntimeProofs`. `FallbackNeverMasquerades` from `HonestInv`: the decision
  fits the workload, a result is labelled only where the running submission is known to
  have run a circuit, and a failure at any later step answers with a result that
  claims nothing. `EvidenceIsKept` from `DiskIsPrefix`: the file is a prefix of
  memory, so a save extends it and a restart falls back on it. `AnswersAreEvident`
  from `EvidenceInv`, which adds that entries have different submissions, that the
  running one is recorded before it is saved, and that what was answered is shown by the
  ledger, or by the file if its save succeeded.

Only model-checked: liveness (`LockIsReleased`, `RunnerReturns`,
`InvocationEnds`, `ExpiredIsRemoved`, `WorkloadEnds`), since the prover has
neither fairness nor ENABLED. Every safety and every action property of a run
that is expected to pass has a theorem. Two of them are stated so that the prover
can reason about them: the moves in a chain of events (`MovesReplay`) are a set of
positions and not a `SelectSeq`, whose recursion no theorem can unfold.

## 5. Plan

Done: all modules of section 2, and a theorem for every safety property of a
passing run.

Left, in this order:

1. Theorems: what `RunnerProgress` is for the pipeline, for the other loops:
   a call of the SDK, a workload of the network and a submission to the registry
   each come nearer to their end with every step of their thread.
2. `PlatformRegistry` composed with `LifecycleManager`: a heartbeat sets a status
   the lifecycle has left; status changes and version negotiation.
3. `Transport`: two ends of a connection, with time-outs inside a frame and
   reconnects.
4. The gateway's token bucket, the replay enforcer's cache, the registrations and
   revocations of `trust_chain.py`.

### Not modelled, and why

* Cryptography and hashes: functions a model checker can only treat as injective.
  `trust_chain.py`, `node_identity.py` and their like add a dictionary and a set
  to them, saved at every change.
* `runtime_services.py`, `service_orchestrator.py` and
  `platform_service_registration_runner.py` import `CapabilityRegistryServer`,
  which `capability_registry.py` does not define, and cannot be loaded at this
  commit. `transport.py` is not used by any other part that can (a test uses it).
* Governance: one check against fixed policies and a bounded list of violations.
* Numerical simulation, compilation and translation (`simulation.py`,
  `quantum_problem_compiler.py`, `qubo_translation.py`, `adapters.py`, photonic
  and RF calculations): stateless.
* Clients of other products, remote quantum back ends, web servers, dashboards
  and metrics: calls of systems outside the repository, and presentation.
* Simulations, demonstrations, harnesses: scripts that drive the parts above.
* `code_packets/`, `DEP/`, `evidence_packet/`, `review_packets/`, `sdk/`: copies
  of the sources. They are a large part of the repository's lines; no definition
  is mapped to them.

## 6. Seen while modelling

What the models show, or the reading that went into them, apart from the two runs
that expect a violation. None of these is an assertion of a run.

Replay protection.

* Two `ReplayRegistry` objects on one path both accept a message: each loads the
  file once, when it is made (`hybrid_runtime_orchestrator.py:498` makes its own;
  `runtime_core.py:102` says that cross-process replay is owned by the authority).
* After a failed write a message stays in memory, so its retry is refused as a
  duplicate although it was never answered VALID.
* The lineage of the authority is empty after a restart while its registry is not.
* `rejected_count` may be too small and even negative: `verification_report()` reads
  the number of verdicts and then the number of lineage records, and a thread may
  store both in between (`canonical_replay_authority.py:182` speaks of a complete
  snapshot).
* `Receiver.receive()` raises if the registry cannot write its file, in the reset
  at its capacity or in the submission (`gateway.py:169` says that it never does).
* After a reset by the Receiver the authority's dictionaries keep records of numbers
  that are given out again, so `LineageMatchesRegistry` is for the gateway only.
* Two callers of a Receiver can exceed its capacity together, since the test is
  made before the submission.

Consensus.

* Honest nodes may sign different hashes: each calls the service by itself, and a
  call that fails is part of its hash. With too few left there is no consensus on
  a contract every honest node accepts.
* A faulty node that signs the certified hash and claims a provenance failure is
  neither counted (`consensus_simulation.py:200`) nor named among the
  disagreements (`consensus_simulation.py:222`).
* Attestations of halted executions count: a round may agree that the contract was
  halted. `consensus_process.py` skips halted results before it votes.

Pipeline. A stage that has not bound its heartbeat port when it is first asked is
killed, so a run without a crash can fail (`tests/test_all.py:1216` expects that
it does not). When the consensus stage dies at its start, the execution stage
fails as well and the report names both.

SDK. A half-open breaker lets every caller through, where
`platform_capability_sdk.py:86` speaks of one probe call. A success that arrives
late closes an open breaker without a probe. A probe that ends as VERSION_REJECTED,
or is refused for its payload, leaves the breaker half-open. Calls that are refused, and those for
unknown services, leave no evidence.

Lifecycle. `enable()` and `disable()` record the state they saw, not the one they
found, though `platform_lifecycle_manager.py:4` promises replay-safe evidence for
every transition; `MovesReplay` is about moves, and the overlay events recorded
from a stale state are not among them. Registering a retired service again revives it.

Federation.

* `record()` writes the hashes into the event object that all logs of the process
  share. After a sync and then a registration, `verify_chain()` of a node fails
  (`tests/test_federation_convergence.py:289` syncs, but registers nothing after it).
* Two events of one node may carry the same clock: it is counted up in one
  critical section and copied in another.
* An event handed back to its source is accepted and recorded there again: a node
  does not note the nonces of its own events.
* A service may stay registered with a lease that is EXPIRED or REVOKED: no reaper
  looks at it again, and the service stays for ever, against
  `heartbeat_manager.py:53`. Two orders lead there, and no other step does
  (`UnwatchedOnlyByRace`): a removal takes the record out, the service registers
  again and is granted its lease, and the removal then revokes that lease; a merge
  that takes the record for one it has already is made after a removal or an
  expiry, and grants no lease.
* A merge decided by an older record may overwrite a higher version that came in
  between. A local registration with a lower version is taken by its node and not
  by the peers, which differ until the next sync.
* A reaper marks a lease expired, the service registers again, and the reaper
  removes it, while a lease may stay without a service.
* A registration by HTTP of a service that exists keeps the old manifest.
* A sync that read a peer's list before a revocation brings the service back.

Quantum network.

* A BLOCKED route is stored all the same, with the message "Route established",
  and `validate_route()` finds it valid.
* If a later hop has no pair, the pairs consumed for earlier hops are lost.
* A workload that fell back to classical control is reported COMPLETED with its
  quantum protocol.
* `allocate_entanglement()` does not ask whether the nodes are declared.
* The comment of step 1 says that nodes must be ACTIVE; only OFFLINE and
  undeclared ones are refused.

Hybrid runtime.

* After a circuit ran the answer may still be a fallback or a block (its counts
  could not be classified) or an ERROR marked CLASSICAL and BLOCKED, if the trace
  store raises (no evidence then) or a stage after the evidence does (the ledger
  then has a quantum record beside an answer that says blocked).
* A provider registered again under the same id with another type, between routing
  and execution, gets the label of the routing: QUANTUM_LIVE on a local simulator, against
  `PROVIDER_CLASSIFICATION.md:93`. `NeverMasquerades` does not ask where the circuit
  ran.
* `requires_live_hardware` ("Must run on real quantum hardware",
  `workload_router.py:99`) may run on a local simulator.
* A QUANTUM_PREFERRED workload that accepts no fallback is given one if there is
  no provider at the routing (`FAILURE_AND_FALLBACK_POLICY.md:34`).
* `get_best_provider()` prefers a DEGRADED provider of a better type to an
  AVAILABLE one of another, against its docstring ("4. Any DEGRADED provider").
* The verdicts of the trust and replay checks never block an execution.
* A health check writes its status to whichever record has the id by then.
* A ledger file that cannot be read is taken for an empty ledger and overwritten
  by the next append.

Transports (`transport.py`, not modelled). After a failed send the TCP sender
reconnects (`transport.py:114`) while the receiver keeps its old connection and
returns DONE for ever. A time-out of `get()` inside a frame drops the bytes already
read, and the stream is out of step from then on. A failing `put()` of the UDS
transport never closes its socket.
