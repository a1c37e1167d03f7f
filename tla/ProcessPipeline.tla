--------------------------- MODULE ProcessPipeline ---------------------------
(***************************************************************************)
(* process_runner.py and the three processes it starts, over the sockets   *)
(* of network_ipc.py:                                                      *)
(*   producer --9001--> execution --9002--> consensus --9003--> runner     *)
(* Each stage first answers heartbeats, then listens, then reads messages  *)
(* until DONE and passes DONE on.  The runner polls heartbeats, kills a    *)
(* stage that does not answer, gives up after 30 s, and reads one message. *)
(***************************************************************************)
EXTENDS Naturals, Sequences

CONSTANTS
  Injectable,     \* what the caller may have crash: stages, or "none"
  MayCrash        \* the stages that may die of an error of their own

Stages == {"producer", "execution", "consensus"}
Readers == {"execution", "consensus", "runner"}
Reader == [producer |-> "execution", execution |-> "consensus", consensus |-> "runner"]

ASSUME PipelineAssumption ==
  /\ Injectable \subseteq Stages \union {"none"}
  /\ MayCrash \subseteq Stages

VARIABLES
  injected,   \* the stage started with crash=True, or "none"
  exit,       \* exit[p]: "alive", or the exit code: "ok" 0, "crashed" 1, "terminated" -15
  pc,         \* where a stage is
  heartbeat,  \* heartbeat[p]: the heartbeat server of p answers
  out,        \* out[p]: the message p is about to put
  bound,      \* bound[r]: r listens on its port
  conn,       \* conn[r]: the sender's connection to r
  queue,      \* queue[r]: messages sent to r and not read
  runner,     \* where the runner is
  result,     \* the consensus_result of the summary
  executed    \* history: the acks the execution stage has given

stages == <<injected, exit, pc, heartbeat, out>>
network == <<bound, conn, queue>>
pipelineVars == <<stages, network, runner, result, executed>>

Acks == {"RESULT_OK", "RESULT_HALT"}
Proofs == {"PROOF_REACHED", "PROOF_FAILED"}
Message == {"CONTRACT", "DONE"} \union Acks \union Proofs

PipelineTypeOK ==
  /\ injected \in Injectable
  /\ exit \in [Stages -> {"alive", "ok", "crashed", "terminated"}]
  /\ pc \in [Stages -> {"starting", "up", "reading", "putting", "gone"}]
  /\ heartbeat \in [Stages -> BOOLEAN]
  /\ out \in [Stages -> Message \union {"none"}]
  /\ bound \in [Readers -> BOOLEAN]
  /\ conn \in [Readers -> {"none", "open", "closed"}]
  /\ queue \in [Readers -> Seq(Message)]
  /\ runner \in {"polling", "reaping", "reading", "done"}
  /\ result \in Message \union {"none"}
  /\ executed \subseteq Acks

PipelineInit ==
  /\ injected \in Injectable
  /\ exit = [p \in Stages |-> "alive"]
  /\ pc = [p \in Stages |-> "starting"]
  /\ heartbeat = [p \in Stages |-> FALSE]
  /\ out = [p \in Stages |-> "none"]
  /\ bound = [r \in Readers |-> r = "runner"]
  /\ conn = [r \in Readers |-> "none"]
  /\ queue = [r \in Readers |-> <<>>]
  /\ runner = "polling"
  /\ result = "none"
  /\ executed = {}

Alive(p) == exit[p] = "alive"
Goto(p, label) == pc' = [pc EXCEPT ![p] = label]

(* The process ends: its sockets are closed, what it had not read is lost. *)
Die(p, code) ==
  /\ exit' = [exit EXCEPT ![p] = code]
  /\ Goto(p, "gone")
  /\ heartbeat' = [heartbeat EXCEPT ![p] = FALSE]
  /\ bound' = [r \in Readers |-> bound[r] /\ r # p]
  /\ conn' = [r \in Readers |->
                IF Reader[p] = r /\ conn[r] = "open" THEN "closed" ELSE conn[r]]
  /\ out' = [out EXCEPT ![p] = "none"]
  /\ UNCHANGED injected

DropUnread(p, q) == [r \in Readers |-> IF r = p THEN <<>> ELSE q[r]]

-----------------------------------------------------------------------------
(* Stages                                                                  *)

InjectedCrash(p) ==
  /\ pc[p] = "starting" /\ p = injected
  /\ Die(p, "crashed")
  /\ queue' = DropUnread(p, queue)
  /\ UNCHANGED <<runner, result, executed>>

(* The imports are done and start_heartbeat_server() has bound its port.   *)
StartHeartbeat(p) ==
  /\ pc[p] = "starting" /\ p # injected
  /\ heartbeat' = [heartbeat EXCEPT ![p] = TRUE]
  /\ Goto(p, "up")
  /\ UNCHANGED <<injected, exit, out, network, runner, result, executed>>

(* A reader binds its port; the producer has its signed contract to put.   *)
Listen(p) ==
  /\ pc[p] = "up"
  /\ IF p = "producer"
       THEN /\ Goto(p, "putting")
            /\ out' = [out EXCEPT ![p] = "CONTRACT"]
            /\ UNCHANGED bound
       ELSE /\ Goto(p, "reading")
            /\ bound' = [bound EXCEPT ![p] = TRUE]
            /\ UNCHANGED out
  /\ UNCHANGED <<injected, exit, heartbeat, conn, queue, runner, result, executed>>

(* Replay verdict, contract, trust and execution may each halt it.         *)
ExecutionAnswers(m) == IF m = "DONE" THEN {"DONE"} ELSE Acks

(* Mutant of ConsensusAnswers: a halted result is not answered.            *)
HaltedSkipped(m) ==
  CASE m = "DONE" -> {"DONE"}
    [] m = "RESULT_OK" -> Proofs
    [] m = "RESULT_HALT" -> {"none"}

(* The three consensus nodes vote on what was not halted.                  *)
ConsensusAnswers(m) ==
  CASE m = "DONE" -> {"DONE"}
    [] m = "RESULT_OK" -> Proofs
    [] m = "RESULT_HALT" -> {"PROOF_FAILED"}

Answers(p, m) == IF p = "execution" THEN ExecutionAnswers(m) ELSE ConsensusAnswers(m)

(* Mutant of Arrived: nothing yet reads as DONE, too.                      *)
ArrivedNothing(r) == IF queue[r] # <<>> THEN {Head(queue[r])} ELSE {"DONE"}

(* get(): the next message, or DONE when the sender's end is closed.       *)
Arrived(r) ==
  CASE queue[r] # <<>> -> {Head(queue[r])}
    [] queue[r] = <<>> /\ conn[r] = "closed" -> {"DONE"}
    [] OTHER -> {}

Rest(r) == IF queue[r] = <<>> THEN <<>> ELSE Tail(queue[r])

Get(p) ==
  /\ pc[p] = "reading"
  /\ \E m \in Arrived(p) : \E a \in Answers(p, m) :
       /\ out' = [out EXCEPT ![p] = a]
       /\ executed' = executed \union ({a} \intersect Acks)
  /\ queue' = [queue EXCEPT ![p] = Rest(p)]
  /\ Goto(p, "putting")
  /\ UNCHANGED <<injected, exit, heartbeat, bound, conn, runner, result>>

Connect(p) ==
  LET r == Reader[p] IN
  /\ pc[p] = "putting"
  /\ conn[r] = "none" /\ bound[r]
  /\ conn' = [conn EXCEPT ![r] = "open"]
  /\ UNCHANGED <<stages, bound, queue, runner, result, executed>>

(* 100 refused tries: ConnectionError leaves put() and ends the process.   *)
ConnectFails(p) ==
  LET r == Reader[p] IN
  /\ pc[p] = "putting"
  /\ conn[r] = "none" /\ ~bound[r]
  /\ Die(p, "crashed")
  /\ queue' = DropUnread(p, queue)
  /\ UNCHANGED <<runner, result, executed>>

(* An error of sendall is swallowed: nobody reads, the message is lost.    *)
Delivered(p) ==
  LET r == Reader[p] IN
  IF bound[r] THEN [queue EXCEPT ![r] = Append(@, out[p])] ELSE queue

Put(p) ==
  /\ pc[p] = "putting" /\ out[p] # "DONE"
  /\ conn[Reader[p]] = "open"
  /\ queue' = Delivered(p)
  /\ IF p = "producer"
       THEN /\ out' = [out EXCEPT ![p] = "DONE"]
            /\ UNCHANGED pc
       ELSE /\ out' = [out EXCEPT ![p] = "none"]
            /\ Goto(p, "reading")
  /\ UNCHANGED <<injected, exit, heartbeat, bound, conn, runner, result, executed>>

PutDone(p) ==
  /\ pc[p] = "putting" /\ out[p] = "DONE"
  /\ conn[Reader[p]] = "open"
  /\ Die(p, "ok")
  /\ queue' = DropUnread(p, Delivered(p))
  /\ UNCHANGED <<runner, result, executed>>

Crash(p) ==
  /\ p \in MayCrash /\ Alive(p)
  /\ Die(p, "crashed")
  /\ queue' = DropUnread(p, queue)
  /\ UNCHANGED <<runner, result, executed>>

-----------------------------------------------------------------------------
(* The runner                                                              *)

Terminate(p) ==
  /\ Alive(p)
  /\ Die(p, "terminated")
  /\ queue' = DropUnread(p, queue)
  /\ UNCHANGED <<runner, result, executed>>

(* check_heartbeat() fails for a live stage.                               *)
HeartbeatFails(p) ==
  /\ runner = "polling"
  /\ ~heartbeat[p]
  /\ Terminate(p)

RunnerGoto(label) ==
  /\ runner' = label
  /\ UNCHANGED <<stages, network, result, executed>>

AllExited == runner = "polling" /\ (\A p \in Stages : ~Alive(p)) /\ RunnerGoto("reading")

(* Mutant of TimeoutExceeded: the loop has no limit.                       *)
NoTimeout == FALSE /\ RunnerGoto("reaping")

TimeoutExceeded == runner = "polling" /\ (\E p \in Stages : Alive(p)) /\ RunnerGoto("reaping")

Reap(p) == runner = "reaping" /\ Terminate(p)

AllReaped == runner = "reaping" /\ (\A p \in Stages : ~Alive(p)) /\ RunnerGoto("reading")

(* q_cons_out.get(timeout=5): every sender is gone, so what can come is    *)
(* there; without a connection accept() times out and the result is None.  *)
ReadResult ==
  /\ runner = "reading"
  /\ result' \in (IF conn["runner"] = "none" THEN {"none"} ELSE Arrived("runner"))
  /\ queue' = [queue EXCEPT !["runner"] = Rest("runner")]
  /\ runner' = "done"
  /\ UNCHANGED <<stages, bound, conn, executed>>

StageStep(p) ==
  \/ InjectedCrash(p)
  \/ StartHeartbeat(p)
  \/ Listen(p)
  \/ Get(p)
  \/ Connect(p)
  \/ ConnectFails(p)
  \/ Put(p)
  \/ PutDone(p)

RunnerStep ==
  \/ \E p \in Stages : HeartbeatFails(p) \/ Reap(p)
  \/ AllExited
  \/ TimeoutExceeded
  \/ AllReaped
  \/ ReadResult

StagesNext == \E p \in Stages : StageStep(p)

PipelineNext == StagesNext \/ RunnerStep \/ \E p \in Stages : Crash(p)

PipelineSpec == PipelineInit /\ [][PipelineNext]_pipelineVars

(* Processes are scheduled; the runner's loop sleeps and polls, and its    *)
(* 30 s pass.  No stage is assumed to crash.                               *)
PipelineFairSpec == PipelineSpec /\ WF_pipelineVars(RunnerStep) /\ \A p \in Stages : WF_pipelineVars(StageStep(p))

-----------------------------------------------------------------------------
Crashes == {p \in Stages : exit[p] # "ok"}
PipelineOk == Crashes = {}

(* pipeline_ok says only that no exit code is non-zero, while every send   *)
(* error is swallowed and every receive error reads as DONE.  Still, with  *)
(* pipeline_ok the runner holds the consensus proof of the contract; and a *)
(* proof that consensus was reached is only ever about a contract that the *)
(* execution stage has executed without HALT, whatever has died since.     *)
OkMeansProof ==
  /\ runner = "done" /\ PipelineOk => result \in Proofs
  /\ result = "PROOF_REACHED" => executed = {"RESULT_OK"}

(* run_pipeline() returns, whichever stages die and whenever: a stage may  *)
(* wait for ever in accept(), the runner does not.                         *)
RunnerReturns == <>(runner = "done")
=============================================================================
