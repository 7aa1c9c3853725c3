------------------------ MODULE ExecLifecycleProofs ------------------------
(***************************************************************************)
(* Safety of the execution client's lifecycle, for any number of commands, *)
(* workers and reports.  The properties of ExecLifecycle are not inductive *)
(* one by one: a reset is safe because of what the admission gates and the *)
(* drain flags promise at each await of the running lifecycle call.  IInv  *)
(* collects those promises.                                                *)
(***************************************************************************)
EXTENDS ExecLifecycle, TLAPS

Connecting == {"prepare", "join", "channel", "setup", "account"}
Draining   == {"drainSession", "drainWork"}

\* Lifecycle tokens are issued in order.
TokensIssued ==
    /\ \A a \in active : a <= token
    /\ \A t \in Tasks : gen[t] <= token

\* Commands are admitted between lifecycle calls only, into a whole session.
AdmissionOpen ==
    /\ mutationOpen => externalOpen /\ ~resetPending
    /\ connected => externalOpen
    /\ externalOpen =>
          /\ pc = "idle" /\ connected /\ accepting /\ connGen
          /\ opsOpen /\ sessionOpen /\ LifecycleActive

\* Without external admission an open operation group is empty.
OperationsAdmitted ==
    /\ opsOpen /\ ~externalOpen => OpsEmpty
    /\ pc \in Connecting => opsOpen

\* What the awaits of a connect rely on.
ConnectSteps ==
    /\ pc = "channel" => sessionOpen /\ SessionEmpty
    /\ pc = "channel" /\ mode = "node" => ~resetPending
    /\ pc \in {"prepare", "join"} /\ mode = "node" /\ resetPending =>
          ~HasUnresolved /\ ReportsInFlight = {}
    /\ pc \in {"setup", "account"} =>
          sessionOpen /\ LifecycleActive /\ accepting /\ connGen /\ ~resetPending

\* What the awaits of a disconnect rely on.
DisconnectSteps ==
    /\ pc \in Draining => ~LifecycleActive /\ ~externalOpen
    /\ pc = "drainWork" /\ ~failed => SessionEmpty /\ drainDone

\* A pending reset meets an active session only when that is a query session.
PendingReset ==
    /\ resetPending /\ LifecycleActive => externalOpen /\ live \cap Workers = {}
    /\ resetPending /\ sessionOpen => drainDone

\* An open session without a connection has nothing to drain.
UnusedSession == sessionOpen /\ ~connGen => drainDone

\* A task whose token is still active runs in the runtime's session.
ActiveTokens == \A t \in live \ Reports : gen[t] \in active => gen[t] = token

\* What a teardown that returned Ok keeps true until the next lifecycle call.
Quiet ==
    returned \in {"drained", "disposed"} =>
        /\ pc = "idle" /\ ~LifecycleActive /\ ~externalOpen
        /\ live = {} /\ ~HasUnresolved

\* Everything but the types of the flags, which need another prover.
Others ==
    /\ DataOK
    /\ NoWorkAcrossReset
    /\ NoOutcomeForgotten
    /\ TasksOfThisSession
    /\ TokensIssued
    /\ AdmissionOpen
    /\ OperationsAdmitted
    /\ ConnectSteps
    /\ DisconnectSteps
    /\ PendingReset
    /\ UnusedSession
    /\ ActiveTokens
    /\ Quiet
    /\ DrainAppliesReset

IInv == FlagsOK /\ Others

-----------------------------------------------------------------------------
LEMMA InitIInv == Init => IInv
<1> SUFFICES ASSUME Init PROVE IInv OBVIOUS
<1>1. FlagsOK
  BY DEF Init, FlagsOK
<1>2. Others
  BY DEF Init, Others, DataOK, NoWorkAcrossReset, NoOutcomeForgotten, TasksOfThisSession,
         TokensIssued, AdmissionOpen, OperationsAdmitted, ConnectSteps, DisconnectSteps,
         PendingReset, UnusedSession, ActiveTokens, Quiet, DrainAppliesReset, Pcs, Tasks,
         LifecycleActive, OpsEmpty, Connecting, Draining
<1> QED BY <1>1, <1>2 DEF IInv

\* The interleaved steps of commands, workers and reports.
LEMMA TaskStepIInv == IInv /\ TaskStep => IInv'
<1> SUFFICES ASSUME IInv, TaskStep PROVE IInv' OBVIOUS
<1> USE DEF gates, owner, groups, runtime, tasks, call
<1>1. ASSUME NEW o \in Ops, AdmitMutation(o) PROVE IInv'
  <2>1. FlagsOK'
    BY <1>1 DEF IInv, FlagsOK, AdmitMutation, Spawn
  <2>2. Others'
    BY <1>1, SlotsDisjoint DEF IInv, FlagsOK, Others, DataOK, NoWorkAcrossReset,
         NoOutcomeForgotten, TasksOfThisSession, TokensIssued, ActiveTokens,
         AdmissionOpen, OperationsAdmitted, ConnectSteps, DisconnectSteps,
         PendingReset, UnusedSession, Quiet, DrainAppliesReset, AdmitMutation,
         Spawn, Pcs, Session, Tasks, LifecycleActive, SessionEmpty, OpsEmpty,
         ReportsInFlight, HasUnresolved, AlreadyConnected, Connecting, Draining
  <2> QED BY <2>1, <2>2 DEF IInv
<1>2. ASSUME NEW r \in Readers, AdmitRead(r) PROVE IInv'
  <2>1. FlagsOK'
    BY <1>2 DEF IInv, FlagsOK, AdmitRead, Spawn
  <2>2. Others'
    BY <1>2, SlotsDisjoint DEF IInv, FlagsOK, Others, DataOK, NoWorkAcrossReset,
         NoOutcomeForgotten, TasksOfThisSession, TokensIssued, ActiveTokens,
         AdmissionOpen, OperationsAdmitted, ConnectSteps, DisconnectSteps,
         PendingReset, UnusedSession, Quiet, DrainAppliesReset, AdmitRead, Spawn,
         Pcs, Session, Tasks, LifecycleActive, SessionEmpty, OpsEmpty,
         ReportsInFlight, HasUnresolved, AlreadyConnected, Connecting, Draining
  <2> QED BY <2>1, <2>2 DEF IInv
<1>3. ASSUME NEW q \in Reports, BeginReport(q) PROVE IInv'
  <2>1. FlagsOK'
    BY <1>3 DEF IInv, FlagsOK, BeginReport, Spawn
  <2>2. Others'
    BY <1>3, SlotsDisjoint DEF IInv, FlagsOK, Others, DataOK, NoWorkAcrossReset,
         NoOutcomeForgotten, TasksOfThisSession, TokensIssued, ActiveTokens,
         AdmissionOpen, OperationsAdmitted, ConnectSteps, DisconnectSteps,
         PendingReset, UnusedSession, Quiet, DrainAppliesReset, BeginReport, Spawn,
         Pcs, Session, Tasks, LifecycleActive, SessionEmpty, OpsEmpty,
         ReportsInFlight, HasUnresolved, AlreadyConnected, Connecting, Draining
  <2> QED BY <2>1, <2>2 DEF IInv
<1>4. ASSUME NEW t \in Tasks, RecordUnresolved(t) PROVE IInv'
  <2>1. FlagsOK'
    BY <1>4 DEF IInv, FlagsOK, RecordUnresolved
  <2>2. Others'
    BY <1>4, SlotsDisjoint DEF IInv, FlagsOK, Others, DataOK, NoWorkAcrossReset,
         NoOutcomeForgotten, TasksOfThisSession, TokensIssued, ActiveTokens,
         AdmissionOpen, OperationsAdmitted, ConnectSteps, DisconnectSteps,
         PendingReset, UnusedSession, Quiet, DrainAppliesReset, RecordUnresolved,
         Pcs, Session, Tasks, LifecycleActive, SessionEmpty, OpsEmpty,
         ReportsInFlight, HasUnresolved, AlreadyConnected, Connecting, Draining
  <2> QED BY <2>1, <2>2 DEF IInv
<1>5. ASSUME NEW t \in Tasks, Resolve(t) PROVE IInv'
  <2>1. FlagsOK'
    BY <1>5 DEF IInv, FlagsOK, Resolve
  <2>2. Others'
    BY <1>5, SlotsDisjoint DEF IInv, FlagsOK, Others, DataOK, NoWorkAcrossReset,
         NoOutcomeForgotten, TasksOfThisSession, TokensIssued, ActiveTokens,
         AdmissionOpen, OperationsAdmitted, ConnectSteps, DisconnectSteps,
         PendingReset, UnusedSession, Quiet, DrainAppliesReset, Resolve, Pcs,
         Session, Tasks, LifecycleActive, SessionEmpty, OpsEmpty, ReportsInFlight,
         HasUnresolved, AlreadyConnected, Connecting, Draining
  <2> QED BY <2>1, <2>2 DEF IInv
<1>6. ASSUME NEW t \in Tasks, FinishWork(t) PROVE IInv'
  <2>1. FlagsOK'
    BY <1>6 DEF IInv, FlagsOK, FinishWork
  <2>2. Others'
    BY <1>6, SlotsDisjoint DEF IInv, FlagsOK, Others, DataOK, NoWorkAcrossReset,
         NoOutcomeForgotten, TasksOfThisSession, TokensIssued, ActiveTokens,
         AdmissionOpen, OperationsAdmitted, ConnectSteps, DisconnectSteps,
         PendingReset, UnusedSession, Quiet, DrainAppliesReset, FinishWork, Pcs,
         Session, Tasks, LifecycleActive, SessionEmpty, OpsEmpty, ReportsInFlight,
         HasUnresolved, AlreadyConnected, Connecting, Draining
  <2> QED BY <2>1, <2>2 DEF IInv
<1>7. ASSUME NEW t \in Tasks, EndSessionTask(t) PROVE IInv'
  <2>1. FlagsOK'
    BY <1>7 DEF IInv, FlagsOK, EndSessionTask
  <2>2. Others'
    BY <1>7, SlotsDisjoint DEF IInv, FlagsOK, Others, DataOK, NoWorkAcrossReset,
         NoOutcomeForgotten, TasksOfThisSession, TokensIssued, ActiveTokens,
         AdmissionOpen, OperationsAdmitted, ConnectSteps, DisconnectSteps,
         PendingReset, UnusedSession, Quiet, DrainAppliesReset, EndSessionTask,
         Pcs, Session, Tasks, LifecycleActive, SessionEmpty, OpsEmpty,
         ReportsInFlight, HasUnresolved, AlreadyConnected, Connecting, Draining
  <2> QED BY <2>1, <2>2 DEF IInv
<1>8. ASSUME NEW t \in Tasks, PanicTask(t) PROVE IInv'
  <2>1. FlagsOK'
    BY <1>8 DEF IInv, FlagsOK, PanicTask
  <2>2. Others'
    BY <1>8, SlotsDisjoint DEF IInv, FlagsOK, Others, DataOK, NoWorkAcrossReset,
         NoOutcomeForgotten, TasksOfThisSession, TokensIssued, ActiveTokens,
         AdmissionOpen, OperationsAdmitted, ConnectSteps, DisconnectSteps,
         PendingReset, UnusedSession, Quiet, DrainAppliesReset, PanicTask, Pcs,
         Session, Tasks, LifecycleActive, SessionEmpty, OpsEmpty, ReportsInFlight,
         HasUnresolved, AlreadyConnected, Connecting, Draining
  <2> QED BY <2>1, <2>2 DEF IInv
<1> QED BY <1>1, <1>2, <1>3, <1>4, <1>5, <1>6, <1>7, <1>8 DEF TaskStep

\* The steps of a connect.
LEMMA ConnectIInv == IInv /\ ConnectStep => IInv'
<1> SUFFICES ASSUME IInv, ConnectStep PROVE IInv' OBVIOUS
<1> USE DEF gates, owner, groups, runtime, tasks, call
<1>1. ASSUME NEW m \in {"node", "queries"}, StartConnect(m) PROVE IInv'
  <2>1. FlagsOK'
    BY <1>1 DEF IInv, FlagsOK, StartConnect
  <2>2. Others'
    BY <1>1, SlotsDisjoint DEF IInv, FlagsOK, Others, DataOK, NoWorkAcrossReset,
         NoOutcomeForgotten, TasksOfThisSession, TokensIssued, ActiveTokens,
         AdmissionOpen, OperationsAdmitted, ConnectSteps, DisconnectSteps,
         PendingReset, UnusedSession, Quiet, DrainAppliesReset, StartConnect, Pcs,
         Session, Tasks, LifecycleActive, SessionEmpty, OpsEmpty, ReportsInFlight,
         HasUnresolved, AlreadyConnected, Connecting, Draining
  <2> QED BY <2>1, <2>2 DEF IInv
<1>2. ASSUME NEW m \in {"node", "queries"}, ConnectObservesPanic(m) PROVE IInv'
  <2>1. FlagsOK'
    BY <1>2 DEF IInv, FlagsOK, ConnectObservesPanic
  <2>2. Others'
    BY <1>2, SlotsDisjoint DEF IInv, FlagsOK, Others, DataOK, NoWorkAcrossReset,
         NoOutcomeForgotten, TasksOfThisSession, TokensIssued, ActiveTokens,
         AdmissionOpen, OperationsAdmitted, ConnectSteps, DisconnectSteps,
         PendingReset, UnusedSession, Quiet, DrainAppliesReset,
         ConnectObservesPanic, Pcs, Session, Tasks, LifecycleActive, SessionEmpty,
         OpsEmpty, ReportsInFlight, HasUnresolved, AlreadyConnected, Connecting,
         Draining
  <2> QED BY <2>1, <2>2 DEF IInv
<1>3. ASSUME ReuseSession PROVE IInv'
  <2>1. FlagsOK'
    BY <1>3, ZenonT(20) DEF IInv, Others, FlagsOK, ReuseSession, ApplyPendingReset,
         CanReset
  <2>2. DataOK'
    BY <1>3 DEF IInv, Others, DataOK, ReuseSession, ApplyPendingReset, CanReset,
         Session, Tasks, Pcs
  <2>3. NoWorkAcrossReset' /\ NoOutcomeForgotten'
    BY <1>3 DEF IInv, Others, DataOK, NoWorkAcrossReset, NoOutcomeForgotten,
         ConnectSteps, ReuseSession, ApplyPendingReset, CanReset, Session, Tasks,
         SessionEmpty, OpsEmpty, ReportsInFlight, HasUnresolved
  <2>4. TasksOfThisSession' /\ TokensIssued' /\ ActiveTokens'
    BY <1>3 DEF IInv, Others, DataOK, TasksOfThisSession, TokensIssued,
         ActiveTokens, AdmissionOpen, OperationsAdmitted, ConnectSteps,
         ReuseSession, ApplyPendingReset, CanReset, Session, Tasks,
         LifecycleActive, SessionEmpty, OpsEmpty, Connecting
  <2>5. AdmissionOpen' /\ OperationsAdmitted'
    BY <1>3 DEF IInv, Others, FlagsOK, AdmissionOpen, OperationsAdmitted,
         ConnectSteps, DisconnectSteps, ReuseSession, ApplyPendingReset, CanReset,
         LifecycleActive, AlreadyConnected, SessionEmpty, OpsEmpty, Connecting,
         Draining
  <2>6. ConnectSteps' /\ DisconnectSteps'
    BY <1>3 DEF IInv, Others, FlagsOK, DataOK, NoWorkAcrossReset,
         NoOutcomeForgotten, AdmissionOpen, OperationsAdmitted, ConnectSteps,
         DisconnectSteps, PendingReset, UnusedSession, ActiveTokens, TokensIssued,
         ReuseSession, ApplyPendingReset, CanReset, Session, Tasks,
         LifecycleActive, SessionEmpty, OpsEmpty, ReportsInFlight, HasUnresolved,
         Connecting, Draining
  <2>7. PendingReset' /\ UnusedSession'
    BY <1>3 DEF IInv, Others, FlagsOK, DataOK, AdmissionOpen, TokensIssued,
         ConnectSteps, PendingReset, UnusedSession, ReuseSession,
         ApplyPendingReset, CanReset, Session, LifecycleActive, SessionEmpty
  <2>8. Quiet' /\ DrainAppliesReset'
    BY <1>3 DEF IInv, Others, DataOK, NoWorkAcrossReset, NoOutcomeForgotten,
         AdmissionOpen, OperationsAdmitted, TokensIssued, DisconnectSteps, Quiet,
         DrainAppliesReset, ReuseSession, ApplyPendingReset, CanReset, Session,
         Tasks, LifecycleActive, SessionEmpty, OpsEmpty, ReportsInFlight,
         HasUnresolved, AlreadyConnected, Draining
  <2> QED BY <2>1, <2>2, <2>3, <2>4, <2>5, <2>6, <2>7, <2>8 DEF IInv, Others
<1>4. ASSUME CloseOldSession PROVE IInv'
  <2>1. FlagsOK'
    BY <1>4, ZenonT(20) DEF IInv, Others, FlagsOK, CloseOldSession
  <2>2. DataOK'
    BY <1>4 DEF IInv, Others, DataOK, CloseOldSession, Session, Tasks, Pcs
  <2>3. NoWorkAcrossReset' /\ NoOutcomeForgotten'
    BY <1>4 DEF IInv, Others, DataOK, NoWorkAcrossReset, NoOutcomeForgotten,
         ConnectSteps, CloseOldSession, Session, Tasks, SessionEmpty, OpsEmpty,
         ReportsInFlight, HasUnresolved
  <2>4. TasksOfThisSession' /\ TokensIssued' /\ ActiveTokens'
    BY <1>4 DEF IInv, Others, DataOK, TasksOfThisSession, TokensIssued,
         ActiveTokens, AdmissionOpen, OperationsAdmitted, ConnectSteps,
         CloseOldSession, Session, Tasks, LifecycleActive, SessionEmpty, OpsEmpty,
         Connecting
  <2>5. AdmissionOpen' /\ OperationsAdmitted'
    BY <1>4 DEF IInv, Others, FlagsOK, AdmissionOpen, OperationsAdmitted,
         ConnectSteps, DisconnectSteps, CloseOldSession, LifecycleActive,
         AlreadyConnected, SessionEmpty, OpsEmpty, Connecting, Draining
  <2>6. ConnectSteps' /\ DisconnectSteps'
    BY <1>4 DEF IInv, Others, FlagsOK, DataOK, NoWorkAcrossReset,
         NoOutcomeForgotten, AdmissionOpen, OperationsAdmitted, ConnectSteps,
         DisconnectSteps, PendingReset, UnusedSession, ActiveTokens, TokensIssued,
         CloseOldSession, Session, Tasks, LifecycleActive, SessionEmpty, OpsEmpty,
         ReportsInFlight, HasUnresolved, Connecting, Draining
  <2>7. PendingReset' /\ UnusedSession'
    BY <1>4 DEF IInv, Others, FlagsOK, DataOK, AdmissionOpen, TokensIssued,
         ConnectSteps, PendingReset, UnusedSession, CloseOldSession, Session,
         LifecycleActive, SessionEmpty
  <2>8. Quiet' /\ DrainAppliesReset'
    BY <1>4 DEF IInv, Others, DataOK, NoWorkAcrossReset, NoOutcomeForgotten,
         AdmissionOpen, OperationsAdmitted, TokensIssued, DisconnectSteps, Quiet,
         DrainAppliesReset, CloseOldSession, Session, Tasks, LifecycleActive,
         SessionEmpty, OpsEmpty, ReportsInFlight, HasUnresolved, AlreadyConnected,
         Draining
  <2> QED BY <2>1, <2>2, <2>3, <2>4, <2>5, <2>6, <2>7, <2>8 DEF IInv, Others
<1>5. ASSUME OpenNewSession PROVE IInv'
  <2>1. FlagsOK'
    BY <1>5, ZenonT(20) DEF IInv, Others, FlagsOK, OpenNewSession,
         ApplyPendingReset, CanReset
  <2>2. DataOK'
    BY <1>5 DEF IInv, Others, DataOK, OpenNewSession, ApplyPendingReset, CanReset,
         Session, Tasks, Pcs
  <2>3. NoWorkAcrossReset' /\ NoOutcomeForgotten'
    BY <1>5 DEF IInv, Others, DataOK, NoWorkAcrossReset, NoOutcomeForgotten,
         ConnectSteps, OpenNewSession, ApplyPendingReset, CanReset, Session, Tasks,
         SessionEmpty, OpsEmpty, ReportsInFlight, HasUnresolved
  <2>4. TasksOfThisSession' /\ TokensIssued' /\ ActiveTokens'
    BY <1>5 DEF IInv, Others, DataOK, TasksOfThisSession, TokensIssued,
         ActiveTokens, AdmissionOpen, OperationsAdmitted, ConnectSteps,
         OpenNewSession, ApplyPendingReset, CanReset, Session, Tasks,
         LifecycleActive, SessionEmpty, OpsEmpty, Connecting
  <2>5. AdmissionOpen' /\ OperationsAdmitted'
    BY <1>5 DEF IInv, Others, FlagsOK, AdmissionOpen, OperationsAdmitted,
         ConnectSteps, DisconnectSteps, OpenNewSession, ApplyPendingReset,
         CanReset, LifecycleActive, AlreadyConnected, SessionEmpty, OpsEmpty,
         Connecting, Draining
  <2>6. ConnectSteps' /\ DisconnectSteps'
    BY <1>5 DEF IInv, Others, FlagsOK, DataOK, NoWorkAcrossReset,
         NoOutcomeForgotten, AdmissionOpen, OperationsAdmitted, ConnectSteps,
         DisconnectSteps, PendingReset, UnusedSession, ActiveTokens, TokensIssued,
         OpenNewSession, ApplyPendingReset, CanReset, Session, Tasks,
         LifecycleActive, SessionEmpty, OpsEmpty, ReportsInFlight, HasUnresolved,
         Connecting, Draining
  <2>7. PendingReset' /\ UnusedSession'
    BY <1>5 DEF IInv, Others, FlagsOK, DataOK, AdmissionOpen, TokensIssued,
         ConnectSteps, PendingReset, UnusedSession, OpenNewSession,
         ApplyPendingReset, CanReset, Session, LifecycleActive, SessionEmpty
  <2>8. Quiet' /\ DrainAppliesReset'
    BY <1>5 DEF IInv, Others, DataOK, NoWorkAcrossReset, NoOutcomeForgotten,
         AdmissionOpen, OperationsAdmitted, TokensIssued, DisconnectSteps, Quiet,
         DrainAppliesReset, OpenNewSession, ApplyPendingReset, CanReset, Session,
         Tasks, LifecycleActive, SessionEmpty, OpsEmpty, ReportsInFlight,
         HasUnresolved, AlreadyConnected, Draining
  <2> QED BY <2>1, <2>2, <2>3, <2>4, <2>5, <2>6, <2>7, <2>8 DEF IInv, Others
<1>6. ASSUME JoinFails PROVE IInv'
  <2>1. FlagsOK'
    BY <1>6 DEF IInv, FlagsOK, JoinFails
  <2>2. Others'
    BY <1>6, SlotsDisjoint DEF IInv, FlagsOK, Others, DataOK, NoWorkAcrossReset,
         NoOutcomeForgotten, TasksOfThisSession, TokensIssued, ActiveTokens,
         AdmissionOpen, OperationsAdmitted, ConnectSteps, DisconnectSteps,
         PendingReset, UnusedSession, Quiet, DrainAppliesReset, JoinFails, Pcs,
         Session, Tasks, LifecycleActive, SessionEmpty, OpsEmpty, ReportsInFlight,
         HasUnresolved, AlreadyConnected, Connecting, Draining
  <2> QED BY <2>1, <2>2 DEF IInv
<1>7. ASSUME OpenNode PROVE IInv'
  <2>1. FlagsOK'
    BY <1>7, ZenonT(20) DEF IInv, Others, FlagsOK, OpenNode, NewGeneration, Spawn
  <2>2. DataOK'
    BY <1>7 DEF IInv, Others, DataOK, OpenNode, NewGeneration, Spawn, Session,
         Tasks, Pcs
  <2>3. NoWorkAcrossReset' /\ NoOutcomeForgotten'
    BY <1>7, SlotsDisjoint DEF IInv, Others, DataOK, NoWorkAcrossReset,
         NoOutcomeForgotten, ConnectSteps, OpenNode, NewGeneration, Spawn, Session,
         Tasks, SessionEmpty, OpsEmpty, ReportsInFlight, HasUnresolved
  <2>4. TasksOfThisSession' /\ TokensIssued' /\ ActiveTokens'
    BY <1>7, SlotsDisjoint DEF IInv, Others, DataOK, TasksOfThisSession,
         TokensIssued, ActiveTokens, AdmissionOpen, OperationsAdmitted,
         ConnectSteps, OpenNode, NewGeneration, Spawn, Session, Tasks,
         LifecycleActive, SessionEmpty, OpsEmpty, Connecting
  <2>5. AdmissionOpen' /\ OperationsAdmitted'
    BY <1>7, SlotsDisjoint DEF IInv, Others, FlagsOK, AdmissionOpen,
         OperationsAdmitted, ConnectSteps, DisconnectSteps, OpenNode,
         NewGeneration, Spawn, LifecycleActive, AlreadyConnected, SessionEmpty,
         OpsEmpty, Connecting, Draining
  <2>6. ConnectSteps' /\ DisconnectSteps'
    BY <1>7, SlotsDisjoint DEF IInv, Others, FlagsOK, DataOK, NoWorkAcrossReset,
         NoOutcomeForgotten, AdmissionOpen, OperationsAdmitted, ConnectSteps,
         DisconnectSteps, PendingReset, UnusedSession, ActiveTokens, TokensIssued,
         OpenNode, NewGeneration, Spawn, Session, Tasks, LifecycleActive,
         SessionEmpty, OpsEmpty, ReportsInFlight, HasUnresolved, Connecting,
         Draining
  <2>7. PendingReset' /\ UnusedSession'
    BY <1>7, SlotsDisjoint DEF IInv, Others, FlagsOK, DataOK, AdmissionOpen,
         TokensIssued, ConnectSteps, PendingReset, UnusedSession, OpenNode,
         NewGeneration, Spawn, Session, LifecycleActive, SessionEmpty
  <2>8. Quiet' /\ DrainAppliesReset'
    BY <1>7, SlotsDisjoint DEF IInv, Others, DataOK, NoWorkAcrossReset,
         NoOutcomeForgotten, AdmissionOpen, OperationsAdmitted, TokensIssued,
         DisconnectSteps, Quiet, DrainAppliesReset, OpenNode, NewGeneration, Spawn,
         Session, Tasks, LifecycleActive, SessionEmpty, OpsEmpty, ReportsInFlight,
         HasUnresolved, AlreadyConnected, Draining
  <2> QED BY <2>1, <2>2, <2>3, <2>4, <2>5, <2>6, <2>7, <2>8 DEF IInv, Others
<1>8. ASSUME OpenQueries PROVE IInv'
  <2>1. FlagsOK'
    BY <1>8, ZenonT(20) DEF IInv, Others, FlagsOK, OpenQueries, NewGeneration
  <2>2. DataOK'
    BY <1>8 DEF IInv, Others, DataOK, OpenQueries, NewGeneration, Session, Tasks,
         Pcs
  <2>3. NoWorkAcrossReset' /\ NoOutcomeForgotten'
    BY <1>8 DEF IInv, Others, DataOK, NoWorkAcrossReset, NoOutcomeForgotten,
         ConnectSteps, OpenQueries, NewGeneration, Session, Tasks, SessionEmpty,
         OpsEmpty, ReportsInFlight, HasUnresolved
  <2>4. TasksOfThisSession' /\ TokensIssued' /\ ActiveTokens'
    BY <1>8 DEF IInv, Others, DataOK, TasksOfThisSession, TokensIssued,
         ActiveTokens, AdmissionOpen, OperationsAdmitted, ConnectSteps,
         OpenQueries, NewGeneration, Session, Tasks, LifecycleActive, SessionEmpty,
         OpsEmpty, Connecting
  <2>5. AdmissionOpen' /\ OperationsAdmitted'
    BY <1>8 DEF IInv, Others, FlagsOK, AdmissionOpen, OperationsAdmitted,
         ConnectSteps, DisconnectSteps, OpenQueries, NewGeneration,
         LifecycleActive, AlreadyConnected, SessionEmpty, OpsEmpty, Connecting,
         Draining
  <2>6. ConnectSteps' /\ DisconnectSteps'
    BY <1>8 DEF IInv, Others, FlagsOK, DataOK, NoWorkAcrossReset,
         NoOutcomeForgotten, AdmissionOpen, OperationsAdmitted, ConnectSteps,
         DisconnectSteps, PendingReset, UnusedSession, ActiveTokens, TokensIssued,
         OpenQueries, NewGeneration, Session, Tasks, LifecycleActive, SessionEmpty,
         OpsEmpty, ReportsInFlight, HasUnresolved, Connecting, Draining
  <2>7. PendingReset' /\ UnusedSession'
    BY <1>8 DEF IInv, Others, FlagsOK, DataOK, AdmissionOpen, TokensIssued,
         ConnectSteps, PendingReset, UnusedSession, OpenQueries, NewGeneration,
         Session, LifecycleActive, SessionEmpty
  <2>8. Quiet' /\ DrainAppliesReset'
    BY <1>8 DEF IInv, Others, DataOK, NoWorkAcrossReset, NoOutcomeForgotten,
         AdmissionOpen, OperationsAdmitted, TokensIssued, DisconnectSteps, Quiet,
         DrainAppliesReset, OpenQueries, NewGeneration, Session, Tasks,
         LifecycleActive, SessionEmpty, OpsEmpty, ReportsInFlight, HasUnresolved,
         AlreadyConnected, Draining
  <2> QED BY <2>1, <2>2, <2>3, <2>4, <2>5, <2>6, <2>7, <2>8 DEF IInv, Others
<1>9. ASSUME SetupDone PROVE IInv'
  <2>1. FlagsOK'
    BY <1>9 DEF IInv, FlagsOK, SetupDone
  <2>2. Others'
    BY <1>9, SlotsDisjoint DEF IInv, FlagsOK, Others, DataOK, NoWorkAcrossReset,
         NoOutcomeForgotten, TasksOfThisSession, TokensIssued, ActiveTokens,
         AdmissionOpen, OperationsAdmitted, ConnectSteps, DisconnectSteps,
         PendingReset, UnusedSession, Quiet, DrainAppliesReset, SetupDone, Pcs,
         Session, Tasks, LifecycleActive, SessionEmpty, OpsEmpty, ReportsInFlight,
         HasUnresolved, AlreadyConnected, Connecting, Draining
  <2> QED BY <2>1, <2>2 DEF IInv
<1>10. ASSUME MarkReady PROVE IInv'
  <2>1. FlagsOK'
    BY <1>10 DEF IInv, FlagsOK, MarkReady
  <2>2. Others'
    BY <1>10, SlotsDisjoint DEF IInv, FlagsOK, Others, DataOK, NoWorkAcrossReset,
         NoOutcomeForgotten, TasksOfThisSession, TokensIssued, ActiveTokens,
         AdmissionOpen, OperationsAdmitted, ConnectSteps, DisconnectSteps,
         PendingReset, UnusedSession, Quiet, DrainAppliesReset, MarkReady, Pcs,
         Session, Tasks, LifecycleActive, SessionEmpty, OpsEmpty, ReportsInFlight,
         HasUnresolved, AlreadyConnected, Connecting, Draining
  <2> QED BY <2>1, <2>2 DEF IInv
<1>11. ASSUME AbandonConnect PROVE IInv'
  <2>1. FlagsOK'
    BY <1>11 DEF IInv, FlagsOK, AbandonConnect
  <2>2. Others'
    BY <1>11, SlotsDisjoint DEF IInv, FlagsOK, Others, DataOK, NoWorkAcrossReset,
         NoOutcomeForgotten, TasksOfThisSession, TokensIssued, ActiveTokens,
         AdmissionOpen, OperationsAdmitted, ConnectSteps, DisconnectSteps,
         PendingReset, UnusedSession, Quiet, DrainAppliesReset, AbandonConnect,
         Pcs, Session, Tasks, LifecycleActive, SessionEmpty, OpsEmpty,
         ReportsInFlight, HasUnresolved, AlreadyConnected, Connecting, Draining
  <2> QED BY <2>1, <2>2 DEF IInv
<1>12. ASSUME DropSetup PROVE IInv'
  <2>1. FlagsOK'
    BY <1>12, ZenonT(20) DEF IInv, Others, FlagsOK, DropSetup
  <2>2. DataOK'
    BY <1>12 DEF IInv, Others, DataOK, DropSetup, Session, Tasks, Pcs
  <2>3. NoWorkAcrossReset' /\ NoOutcomeForgotten'
    BY <1>12 DEF IInv, Others, DataOK, NoWorkAcrossReset, NoOutcomeForgotten,
         ConnectSteps, DropSetup, Session, Tasks, SessionEmpty, OpsEmpty,
         ReportsInFlight, HasUnresolved
  <2>4. TasksOfThisSession' /\ TokensIssued' /\ ActiveTokens'
    BY <1>12 DEF IInv, Others, DataOK, TasksOfThisSession, TokensIssued,
         ActiveTokens, AdmissionOpen, OperationsAdmitted, ConnectSteps, DropSetup,
         Session, Tasks, LifecycleActive, SessionEmpty, OpsEmpty, Connecting
  <2>5. AdmissionOpen' /\ OperationsAdmitted'
    BY <1>12 DEF IInv, Others, FlagsOK, AdmissionOpen, OperationsAdmitted,
         ConnectSteps, DisconnectSteps, DropSetup, LifecycleActive,
         AlreadyConnected, SessionEmpty, OpsEmpty, Connecting, Draining
  <2>6. ConnectSteps' /\ DisconnectSteps'
    BY <1>12 DEF IInv, Others, FlagsOK, DataOK, NoWorkAcrossReset,
         NoOutcomeForgotten, AdmissionOpen, OperationsAdmitted, ConnectSteps,
         DisconnectSteps, PendingReset, UnusedSession, ActiveTokens, TokensIssued,
         DropSetup, Session, Tasks, LifecycleActive, SessionEmpty, OpsEmpty,
         ReportsInFlight, HasUnresolved, Connecting, Draining
  <2>7. PendingReset' /\ UnusedSession'
    BY <1>12 DEF IInv, Others, FlagsOK, DataOK, AdmissionOpen, TokensIssued,
         ConnectSteps, PendingReset, UnusedSession, DropSetup, Session,
         LifecycleActive, SessionEmpty
  <2>8. Quiet' /\ DrainAppliesReset'
    BY <1>12 DEF IInv, Others, DataOK, NoWorkAcrossReset, NoOutcomeForgotten,
         AdmissionOpen, OperationsAdmitted, TokensIssued, DisconnectSteps, Quiet,
         DrainAppliesReset, DropSetup, Session, Tasks, LifecycleActive,
         SessionEmpty, OpsEmpty, ReportsInFlight, HasUnresolved, AlreadyConnected,
         Draining
  <2> QED BY <2>1, <2>2, <2>3, <2>4, <2>5, <2>6, <2>7, <2>8 DEF IInv, Others
<1> QED BY <1>1, <1>2, <1>3, <1>4, <1>5, <1>6, <1>7, <1>8, <1>9, <1>10, <1>11, <1>12 DEF ConnectStep

\* The steps of disconnect, reset and dispose.
LEMMA TeardownIInv == IInv /\ TeardownStep => IInv'
<1> SUFFICES ASSUME IInv, TeardownStep PROVE IInv' OBVIOUS
<1> USE DEF gates, owner, groups, runtime, tasks, call
<1>1. ASSUME Disconnect PROVE IInv'
  <2>1. FlagsOK'
    BY <1>1, ZenonT(20) DEF IInv, Others, FlagsOK, Disconnect, BeginDisconnect,
         DrainedAfter, CloseSession, ShouldDrain
  <2>2. DataOK'
    BY <1>1 DEF IInv, Others, DataOK, Disconnect, BeginDisconnect, DrainedAfter,
         CloseSession, ShouldDrain, Session, Tasks, Pcs
  <2>3. NoWorkAcrossReset' /\ NoOutcomeForgotten'
    BY <1>1 DEF IInv, Others, DataOK, NoWorkAcrossReset, NoOutcomeForgotten,
         ConnectSteps, Disconnect, BeginDisconnect, DrainedAfter, CloseSession,
         ShouldDrain, Session, Tasks, SessionEmpty, OpsEmpty, ReportsInFlight,
         HasUnresolved
  <2>4. TasksOfThisSession' /\ TokensIssued' /\ ActiveTokens'
    BY <1>1 DEF IInv, Others, DataOK, TasksOfThisSession, TokensIssued,
         ActiveTokens, AdmissionOpen, OperationsAdmitted, ConnectSteps, Disconnect,
         BeginDisconnect, DrainedAfter, CloseSession, ShouldDrain, Session, Tasks,
         LifecycleActive, SessionEmpty, OpsEmpty, Connecting
  <2>5. AdmissionOpen' /\ OperationsAdmitted'
    BY <1>1 DEF IInv, Others, FlagsOK, AdmissionOpen, OperationsAdmitted,
         ConnectSteps, DisconnectSteps, Disconnect, BeginDisconnect, DrainedAfter,
         CloseSession, ShouldDrain, LifecycleActive, AlreadyConnected,
         SessionEmpty, OpsEmpty, Connecting, Draining
  <2>6. ConnectSteps' /\ DisconnectSteps'
    BY <1>1 DEF IInv, Others, FlagsOK, DataOK, NoWorkAcrossReset,
         NoOutcomeForgotten, AdmissionOpen, OperationsAdmitted, ConnectSteps,
         DisconnectSteps, PendingReset, UnusedSession, ActiveTokens, TokensIssued,
         Disconnect, BeginDisconnect, DrainedAfter, CloseSession, ShouldDrain,
         Session, Tasks, LifecycleActive, SessionEmpty, OpsEmpty, ReportsInFlight,
         HasUnresolved, Connecting, Draining
  <2>7. PendingReset' /\ UnusedSession'
    BY <1>1 DEF IInv, Others, FlagsOK, DataOK, AdmissionOpen, TokensIssued,
         ConnectSteps, PendingReset, UnusedSession, Disconnect, BeginDisconnect,
         DrainedAfter, CloseSession, ShouldDrain, Session, LifecycleActive,
         SessionEmpty
  <2>8. Quiet' /\ DrainAppliesReset'
    BY <1>1 DEF IInv, Others, DataOK, NoWorkAcrossReset, NoOutcomeForgotten,
         AdmissionOpen, OperationsAdmitted, TokensIssued, DisconnectSteps, Quiet,
         DrainAppliesReset, Disconnect, BeginDisconnect, DrainedAfter,
         CloseSession, ShouldDrain, Session, Tasks, LifecycleActive, SessionEmpty,
         OpsEmpty, ReportsInFlight, HasUnresolved, AlreadyConnected, Draining
  <2> QED BY <2>1, <2>2, <2>3, <2>4, <2>5, <2>6, <2>7, <2>8 DEF IInv, Others
<1>2. ASSUME StartDisconnectAsync PROVE IInv'
  <2>1. FlagsOK'
    BY <1>2, ZenonT(20) DEF IInv, Others, FlagsOK, StartDisconnectAsync,
         BeginDisconnect, DrainedAfter, CloseSession, ShouldDrain
  <2>2. DataOK'
    BY <1>2 DEF IInv, Others, DataOK, StartDisconnectAsync, BeginDisconnect,
         DrainedAfter, CloseSession, ShouldDrain, Session, Tasks, Pcs
  <2>3. NoWorkAcrossReset' /\ NoOutcomeForgotten'
    BY <1>2 DEF IInv, Others, DataOK, NoWorkAcrossReset, NoOutcomeForgotten,
         ConnectSteps, StartDisconnectAsync, BeginDisconnect, DrainedAfter,
         CloseSession, ShouldDrain, Session, Tasks, SessionEmpty, OpsEmpty,
         ReportsInFlight, HasUnresolved
  <2>4. TasksOfThisSession' /\ TokensIssued' /\ ActiveTokens'
    BY <1>2 DEF IInv, Others, DataOK, TasksOfThisSession, TokensIssued,
         ActiveTokens, AdmissionOpen, OperationsAdmitted, ConnectSteps,
         StartDisconnectAsync, BeginDisconnect, DrainedAfter, CloseSession,
         ShouldDrain, Session, Tasks, LifecycleActive, SessionEmpty, OpsEmpty,
         Connecting
  <2>5. AdmissionOpen' /\ OperationsAdmitted'
    BY <1>2 DEF IInv, Others, FlagsOK, AdmissionOpen, OperationsAdmitted,
         ConnectSteps, DisconnectSteps, StartDisconnectAsync, BeginDisconnect,
         DrainedAfter, CloseSession, ShouldDrain, LifecycleActive,
         AlreadyConnected, SessionEmpty, OpsEmpty, Connecting, Draining
  <2>6. ConnectSteps' /\ DisconnectSteps'
    BY <1>2 DEF IInv, Others, FlagsOK, DataOK, NoWorkAcrossReset,
         NoOutcomeForgotten, AdmissionOpen, OperationsAdmitted, ConnectSteps,
         DisconnectSteps, PendingReset, UnusedSession, ActiveTokens, TokensIssued,
         StartDisconnectAsync, BeginDisconnect, DrainedAfter, CloseSession,
         ShouldDrain, Session, Tasks, LifecycleActive, SessionEmpty, OpsEmpty,
         ReportsInFlight, HasUnresolved, Connecting, Draining
  <2>7. PendingReset' /\ UnusedSession'
    BY <1>2 DEF IInv, Others, FlagsOK, DataOK, AdmissionOpen, TokensIssued,
         ConnectSteps, PendingReset, UnusedSession, StartDisconnectAsync,
         BeginDisconnect, DrainedAfter, CloseSession, ShouldDrain, Session,
         LifecycleActive, SessionEmpty
  <2>8. Quiet' /\ DrainAppliesReset'
    BY <1>2 DEF IInv, Others, DataOK, NoWorkAcrossReset, NoOutcomeForgotten,
         AdmissionOpen, OperationsAdmitted, TokensIssued, DisconnectSteps, Quiet,
         DrainAppliesReset, StartDisconnectAsync, BeginDisconnect, DrainedAfter,
         CloseSession, ShouldDrain, Session, Tasks, LifecycleActive, SessionEmpty,
         OpsEmpty, ReportsInFlight, HasUnresolved, AlreadyConnected, Draining
  <2> QED BY <2>1, <2>2, <2>3, <2>4, <2>5, <2>6, <2>7, <2>8 DEF IInv, Others
<1>3. ASSUME SessionDrained PROVE IInv'
  <2>1. FlagsOK'
    BY <1>3 DEF IInv, FlagsOK, SessionDrained
  <2>2. Others'
    BY <1>3, SlotsDisjoint DEF IInv, FlagsOK, Others, DataOK, NoWorkAcrossReset,
         NoOutcomeForgotten, TasksOfThisSession, TokensIssued, ActiveTokens,
         AdmissionOpen, OperationsAdmitted, ConnectSteps, DisconnectSteps,
         PendingReset, UnusedSession, Quiet, DrainAppliesReset, SessionDrained,
         Pcs, Session, Tasks, LifecycleActive, SessionEmpty, OpsEmpty,
         ReportsInFlight, HasUnresolved, AlreadyConnected, Connecting, Draining
  <2> QED BY <2>1, <2>2 DEF IInv
<1>4. ASSUME SessionDrainTimesOut PROVE IInv'
  <2>1. FlagsOK'
    BY <1>4 DEF IInv, FlagsOK, SessionDrainTimesOut
  <2>2. Others'
    BY <1>4, SlotsDisjoint DEF IInv, FlagsOK, Others, DataOK, NoWorkAcrossReset,
         NoOutcomeForgotten, TasksOfThisSession, TokensIssued, ActiveTokens,
         AdmissionOpen, OperationsAdmitted, ConnectSteps, DisconnectSteps,
         PendingReset, UnusedSession, Quiet, DrainAppliesReset,
         SessionDrainTimesOut, Pcs, Session, Tasks, LifecycleActive, SessionEmpty,
         OpsEmpty, ReportsInFlight, HasUnresolved, AlreadyConnected, Connecting,
         Draining
  <2> QED BY <2>1, <2>2 DEF IInv
<1>5. ASSUME WorkDrainTimesOut PROVE IInv'
  <2>1. FlagsOK'
    BY <1>5 DEF IInv, FlagsOK, WorkDrainTimesOut
  <2>2. Others'
    BY <1>5, SlotsDisjoint DEF IInv, FlagsOK, Others, DataOK, NoWorkAcrossReset,
         NoOutcomeForgotten, TasksOfThisSession, TokensIssued, ActiveTokens,
         AdmissionOpen, OperationsAdmitted, ConnectSteps, DisconnectSteps,
         PendingReset, UnusedSession, Quiet, DrainAppliesReset, WorkDrainTimesOut,
         Pcs, Session, Tasks, LifecycleActive, SessionEmpty, OpsEmpty,
         ReportsInFlight, HasUnresolved, AlreadyConnected, Connecting, Draining
  <2> QED BY <2>1, <2>2 DEF IInv
<1>6. ASSUME WorkDrained PROVE IInv'
  <2>1. FlagsOK'
    BY <1>6, ZenonT(20) DEF IInv, Others, FlagsOK, WorkDrained, ApplyPendingReset,
         CanReset
  <2>2. DataOK'
    BY <1>6 DEF IInv, Others, DataOK, WorkDrained, ApplyPendingReset, CanReset,
         Session, Tasks, Pcs
  <2>3. NoWorkAcrossReset' /\ NoOutcomeForgotten'
    BY <1>6 DEF IInv, Others, DataOK, NoWorkAcrossReset, NoOutcomeForgotten,
         ConnectSteps, WorkDrained, ApplyPendingReset, CanReset, Session, Tasks,
         SessionEmpty, OpsEmpty, ReportsInFlight, HasUnresolved
  <2>4. TasksOfThisSession' /\ TokensIssued' /\ ActiveTokens'
    BY <1>6 DEF IInv, Others, DataOK, TasksOfThisSession, TokensIssued,
         ActiveTokens, AdmissionOpen, OperationsAdmitted, ConnectSteps,
         WorkDrained, ApplyPendingReset, CanReset, Session, Tasks, LifecycleActive,
         SessionEmpty, OpsEmpty, Connecting
  <2>5. AdmissionOpen' /\ OperationsAdmitted'
    BY <1>6 DEF IInv, Others, FlagsOK, AdmissionOpen, OperationsAdmitted,
         ConnectSteps, DisconnectSteps, WorkDrained, ApplyPendingReset, CanReset,
         LifecycleActive, AlreadyConnected, SessionEmpty, OpsEmpty, Connecting,
         Draining
  <2>6. ConnectSteps' /\ DisconnectSteps'
    BY <1>6 DEF IInv, Others, FlagsOK, DataOK, NoWorkAcrossReset,
         NoOutcomeForgotten, AdmissionOpen, OperationsAdmitted, ConnectSteps,
         DisconnectSteps, PendingReset, UnusedSession, ActiveTokens, TokensIssued,
         WorkDrained, ApplyPendingReset, CanReset, Session, Tasks, LifecycleActive,
         SessionEmpty, OpsEmpty, ReportsInFlight, HasUnresolved, Connecting,
         Draining
  <2>7. PendingReset' /\ UnusedSession'
    BY <1>6 DEF IInv, Others, FlagsOK, DataOK, AdmissionOpen, TokensIssued,
         ConnectSteps, PendingReset, UnusedSession, WorkDrained, ApplyPendingReset,
         CanReset, Session, LifecycleActive, SessionEmpty
  <2>8. Quiet' /\ DrainAppliesReset'
    BY <1>6 DEF IInv, Others, DataOK, NoWorkAcrossReset, NoOutcomeForgotten,
         AdmissionOpen, OperationsAdmitted, TokensIssued, DisconnectSteps, Quiet,
         DrainAppliesReset, WorkDrained, ApplyPendingReset, CanReset, Session,
         Tasks, LifecycleActive, SessionEmpty, OpsEmpty, ReportsInFlight,
         HasUnresolved, AlreadyConnected, Draining
  <2> QED BY <2>1, <2>2, <2>3, <2>4, <2>5, <2>6, <2>7, <2>8 DEF IInv, Others
<1>7. ASSUME DropDisconnect PROVE IInv'
  <2>1. FlagsOK'
    BY <1>7 DEF IInv, FlagsOK, DropDisconnect
  <2>2. Others'
    BY <1>7, SlotsDisjoint DEF IInv, FlagsOK, Others, DataOK, NoWorkAcrossReset,
         NoOutcomeForgotten, TasksOfThisSession, TokensIssued, ActiveTokens,
         AdmissionOpen, OperationsAdmitted, ConnectSteps, DisconnectSteps,
         PendingReset, UnusedSession, Quiet, DrainAppliesReset, DropDisconnect,
         Pcs, Session, Tasks, LifecycleActive, SessionEmpty, OpsEmpty,
         ReportsInFlight, HasUnresolved, AlreadyConnected, Connecting, Draining
  <2> QED BY <2>1, <2>2 DEF IInv
<1>8. ASSUME Reset PROVE IInv'
  <2>1. FlagsOK'
    BY <1>8, ZenonT(20) DEF IInv, Others, FlagsOK, Reset, BeginDisconnect,
         DrainedAfter, CloseSession, ShouldDrain, ApplyPendingReset, CanReset
  <2>2. DataOK'
    BY <1>8 DEF IInv, Others, DataOK, Reset, BeginDisconnect, DrainedAfter,
         CloseSession, ShouldDrain, ApplyPendingReset, CanReset, Session, Tasks,
         Pcs
  <2>3. NoWorkAcrossReset' /\ NoOutcomeForgotten'
    BY <1>8 DEF IInv, Others, DataOK, NoWorkAcrossReset, NoOutcomeForgotten,
         ConnectSteps, Reset, BeginDisconnect, DrainedAfter, CloseSession,
         ShouldDrain, ApplyPendingReset, CanReset, Session, Tasks, SessionEmpty,
         OpsEmpty, ReportsInFlight, HasUnresolved
  <2>4. TasksOfThisSession' /\ TokensIssued' /\ ActiveTokens'
    BY <1>8 DEF IInv, Others, DataOK, TasksOfThisSession, TokensIssued,
         ActiveTokens, AdmissionOpen, OperationsAdmitted, ConnectSteps, Reset,
         BeginDisconnect, DrainedAfter, CloseSession, ShouldDrain,
         ApplyPendingReset, CanReset, Session, Tasks, LifecycleActive,
         SessionEmpty, OpsEmpty, Connecting
  <2>5. AdmissionOpen' /\ OperationsAdmitted'
    BY <1>8 DEF IInv, Others, FlagsOK, AdmissionOpen, OperationsAdmitted,
         ConnectSteps, DisconnectSteps, Reset, BeginDisconnect, DrainedAfter,
         CloseSession, ShouldDrain, ApplyPendingReset, CanReset, LifecycleActive,
         AlreadyConnected, SessionEmpty, OpsEmpty, Connecting, Draining
  <2>6. ConnectSteps' /\ DisconnectSteps'
    BY <1>8 DEF IInv, Others, FlagsOK, DataOK, NoWorkAcrossReset,
         NoOutcomeForgotten, AdmissionOpen, OperationsAdmitted, ConnectSteps,
         DisconnectSteps, PendingReset, UnusedSession, ActiveTokens, TokensIssued,
         Reset, BeginDisconnect, DrainedAfter, CloseSession, ShouldDrain,
         ApplyPendingReset, CanReset, Session, Tasks, LifecycleActive,
         SessionEmpty, OpsEmpty, ReportsInFlight, HasUnresolved, Connecting,
         Draining
  <2>7. PendingReset' /\ UnusedSession'
    BY <1>8 DEF IInv, Others, FlagsOK, DataOK, AdmissionOpen, TokensIssued,
         ConnectSteps, PendingReset, UnusedSession, Reset, BeginDisconnect,
         DrainedAfter, CloseSession, ShouldDrain, ApplyPendingReset, CanReset,
         Session, LifecycleActive, SessionEmpty
  <2>8. Quiet' /\ DrainAppliesReset'
    BY <1>8 DEF IInv, Others, DataOK, NoWorkAcrossReset, NoOutcomeForgotten,
         AdmissionOpen, OperationsAdmitted, TokensIssued, DisconnectSteps, Quiet,
         DrainAppliesReset, Reset, BeginDisconnect, DrainedAfter, CloseSession,
         ShouldDrain, ApplyPendingReset, CanReset, Session, Tasks, LifecycleActive,
         SessionEmpty, OpsEmpty, ReportsInFlight, HasUnresolved, AlreadyConnected,
         Draining
  <2> QED BY <2>1, <2>2, <2>3, <2>4, <2>5, <2>6, <2>7, <2>8 DEF IInv, Others
<1>9. ASSUME Dispose PROVE IInv'
  <2>1. FlagsOK'
    BY <1>9, ZenonT(20) DEF IInv, Others, FlagsOK, Dispose, BeginDisconnect,
         DrainedAfter, CloseSession, ShouldDrain, CanReset
  <2>2. DataOK'
    BY <1>9 DEF IInv, Others, DataOK, Dispose, BeginDisconnect, DrainedAfter,
         CloseSession, ShouldDrain, CanReset, Session, Tasks, Pcs
  <2>3. NoWorkAcrossReset' /\ NoOutcomeForgotten'
    BY <1>9 DEF IInv, Others, DataOK, NoWorkAcrossReset, NoOutcomeForgotten,
         ConnectSteps, Dispose, BeginDisconnect, DrainedAfter, CloseSession,
         ShouldDrain, CanReset, Session, Tasks, SessionEmpty, OpsEmpty,
         ReportsInFlight, HasUnresolved
  <2>4. TasksOfThisSession' /\ TokensIssued' /\ ActiveTokens'
    BY <1>9 DEF IInv, Others, DataOK, TasksOfThisSession, TokensIssued,
         ActiveTokens, AdmissionOpen, OperationsAdmitted, ConnectSteps, Dispose,
         BeginDisconnect, DrainedAfter, CloseSession, ShouldDrain, CanReset,
         Session, Tasks, LifecycleActive, SessionEmpty, OpsEmpty, Connecting
  <2>5. AdmissionOpen' /\ OperationsAdmitted'
    BY <1>9 DEF IInv, Others, FlagsOK, AdmissionOpen, OperationsAdmitted,
         ConnectSteps, DisconnectSteps, Dispose, BeginDisconnect, DrainedAfter,
         CloseSession, ShouldDrain, CanReset, LifecycleActive, AlreadyConnected,
         SessionEmpty, OpsEmpty, Connecting, Draining
  <2>6. ConnectSteps' /\ DisconnectSteps'
    BY <1>9 DEF IInv, Others, FlagsOK, DataOK, NoWorkAcrossReset,
         NoOutcomeForgotten, AdmissionOpen, OperationsAdmitted, ConnectSteps,
         DisconnectSteps, PendingReset, UnusedSession, ActiveTokens, TokensIssued,
         Dispose, BeginDisconnect, DrainedAfter, CloseSession, ShouldDrain,
         CanReset, Session, Tasks, LifecycleActive, SessionEmpty, OpsEmpty,
         ReportsInFlight, HasUnresolved, Connecting, Draining
  <2>7. PendingReset' /\ UnusedSession'
    BY <1>9 DEF IInv, Others, FlagsOK, DataOK, AdmissionOpen, TokensIssued,
         ConnectSteps, PendingReset, UnusedSession, Dispose, BeginDisconnect,
         DrainedAfter, CloseSession, ShouldDrain, CanReset, Session,
         LifecycleActive, SessionEmpty
  <2>8. Quiet' /\ DrainAppliesReset'
    BY <1>9 DEF IInv, Others, DataOK, NoWorkAcrossReset, NoOutcomeForgotten,
         AdmissionOpen, OperationsAdmitted, TokensIssued, DisconnectSteps, Quiet,
         DrainAppliesReset, Dispose, BeginDisconnect, DrainedAfter, CloseSession,
         ShouldDrain, CanReset, Session, Tasks, LifecycleActive, SessionEmpty,
         OpsEmpty, ReportsInFlight, HasUnresolved, AlreadyConnected, Draining
  <2> QED BY <2>1, <2>2, <2>3, <2>4, <2>5, <2>6, <2>7, <2>8 DEF IInv, Others
<1> QED BY <1>1, <1>2, <1>3, <1>4, <1>5, <1>6, <1>7, <1>8, <1>9 DEF TeardownStep

LEMMA StutterIInv == IInv /\ UNCHANGED vars => IInv'
<1> USE DEF vars, gates, owner, groups, runtime, tasks, call
<1> QED
  BY DEF IInv, Others, FlagsOK, DataOK, NoWorkAcrossReset, NoOutcomeForgotten,
         TasksOfThisSession, TokensIssued, AdmissionOpen, OperationsAdmitted, ConnectSteps,
         DisconnectSteps, PendingReset, UnusedSession, ActiveTokens, Quiet,
         DrainAppliesReset, Tasks, Session, LifecycleActive, SessionEmpty, OpsEmpty,
         ReportsInFlight, HasUnresolved

-----------------------------------------------------------------------------
\* The inductive invariant of the lifecycle.
THEOREM LifecycleInvariant == Spec => []IInv
<1>1. IInv /\ [Next]_vars => IInv'
  BY TaskStepIInv, ConnectIInv, TeardownIInv, StutterIInv DEF Next
<1> QED
  BY InitIInv, <1>1, PTL DEF Spec

\* Every variable of the lifecycle keeps its type.
THEOREM TypeCorrect == Spec => []TypeOK
<1>1. IInv => TypeOK
  BY DEF IInv, Others, TypeOK
<1> QED
  BY LifecycleInvariant, <1>1, PTL

\* apply_pending_reset never swaps the shared maps under a task or a report in
\* flight, and never drops a mutation outcome that is not known.
THEOREM ResetIsSafe == Spec => []ResetLosesNothing
<1>1. IInv => ResetLosesNothing
  BY DEF IInv, Others, TypeOK, ResetLosesNothing
<1> QED
  BY LifecycleInvariant, <1>1, PTL

\* Mutating commands are admitted only into a complete node session that has no
\* deferred reset, and tasks never outlive their session into the next.
THEOREM SessionsAreSeparate == Spec => []SessionsAreApart
<1>1. IInv => SessionsAreApart
  BY DEF IInv, Others, AdmissionOpen, MutationsNeedNodeSession, SessionsAreApart
<1> QED
  BY LifecycleInvariant, <1>1, PTL

\* A disconnect or dispose that returned Ok left no work and no unknown outcome,
\* and a disconnect that returned Ok has applied the deferred reset.
THEOREM TeardownIsComplete == Spec => []TeardownQuiet
<1>1. IInv => TeardownQuiet
  BY DEF IInv, Others, Quiet, TeardownQuiet
<1> QED
  BY LifecycleInvariant, <1>1, PTL

-----------------------------------------------------------------------------
\* Where a session task's failure can wait.  While the group counts as drained
\* nobody looks at it: only a query session is open then, its tasks are commands
\* it admitted, and what an admitted command leaves is still inside the session.
UnseenPanics ==
    /\ "session" \in panicked /\ drainDone => opened = "queries"
    /\ "session" \in panicked /\ drainDone /\ admitted => externalOpen
    /\ ~SessionEmpty /\ drainDone => externalOpen /\ admitted
    /\ externalOpen /\ drainDone => opened = "queries"
    /\ pc \in {"setup", "account"} => ~drainDone

\* Commands and workers keep it: a worker never runs in a drained group.
LEMMA TaskStepPanics == IInv /\ UnseenPanics /\ TaskStep => UnseenPanics'
<1> SUFFICES ASSUME IInv, UnseenPanics, TaskStep PROVE UnseenPanics' OBVIOUS
<1> USE DEF gates, owner, groups, runtime, tasks, call, UnseenPanics
<1>1. ASSUME NEW o \in Ops, AdmitMutation(o) PROVE UnseenPanics'
  BY <1>1, SlotsDisjoint DEF IInv, Others, FlagsOK, DataOK, AdmitMutation, Spawn,
         SessionEmpty, Session
<1>2. ASSUME NEW r \in Readers, AdmitRead(r) PROVE UnseenPanics'
  BY <1>2, SlotsDisjoint DEF IInv, Others, FlagsOK, DataOK, AdmitRead, Spawn,
         AdmissionOpen, SessionEmpty, Session
<1>3. ASSUME NEW q \in Reports, BeginReport(q) PROVE UnseenPanics'
  BY <1>3, SlotsDisjoint DEF IInv, Others, FlagsOK, DataOK, BeginReport, Spawn,
         SessionEmpty, Session
<1>4. ASSUME NEW t \in Tasks, RecordUnresolved(t) PROVE UnseenPanics'
  BY <1>4 DEF IInv, Others, FlagsOK, DataOK, RecordUnresolved, SessionEmpty, Session
<1>5. ASSUME NEW t \in Tasks, Resolve(t) PROVE UnseenPanics'
  BY <1>5 DEF IInv, Others, FlagsOK, DataOK, Resolve, SessionEmpty, Session
<1>6. ASSUME NEW t \in Tasks, FinishWork(t) PROVE UnseenPanics'
  BY <1>6, SlotsDisjoint DEF IInv, Others, FlagsOK, DataOK, FinishWork,
         SessionEmpty, Session
<1>7. ASSUME NEW t \in Tasks, EndSessionTask(t) PROVE UnseenPanics'
  BY <1>7, SlotsDisjoint DEF IInv, Others, FlagsOK, DataOK, EndSessionTask,
         SessionEmpty, Session
<1>8. ASSUME NEW t \in Tasks, PanicTask(t) PROVE UnseenPanics'
  BY <1>8, SlotsDisjoint DEF IInv, Others, FlagsOK, DataOK, PanicTask, SessionEmpty,
         Session
<1> QED BY <1>1, <1>2, <1>3, <1>4, <1>5, <1>6, <1>7, <1>8 DEF TaskStep

\* A connect keeps it: a node session is opened undrained, a query session over
\* whatever the group still holds.
LEMMA ConnectPanics == IInv /\ UnseenPanics /\ ConnectStep => UnseenPanics'
<1> SUFFICES ASSUME IInv, UnseenPanics, ConnectStep PROVE UnseenPanics' OBVIOUS
<1> USE DEF gates, owner, groups, runtime, tasks, call, UnseenPanics
<1>1. ASSUME NEW m \in {"node", "queries"}, StartConnect(m) PROVE UnseenPanics'
  BY <1>1 DEF IInv, Others, FlagsOK, DataOK, StartConnect, AdmissionOpen,
         AlreadyConnected, LifecycleActive, SessionEmpty, Session
<1>2. ASSUME NEW m \in {"node", "queries"}, ConnectObservesPanic(m) PROVE UnseenPanics'
  BY <1>2 DEF IInv, Others, FlagsOK, DataOK, ConnectObservesPanic, SessionEmpty,
         Session
<1>3. ASSUME ReuseSession PROVE UnseenPanics'
  BY <1>3 DEF IInv, Others, FlagsOK, DataOK, ReuseSession, ApplyPendingReset,
         CanReset, SessionEmpty, Session
<1>4. ASSUME CloseOldSession PROVE UnseenPanics'
  BY <1>4 DEF IInv, Others, FlagsOK, DataOK, CloseOldSession, SessionEmpty, Session
<1>5. ASSUME OpenNewSession PROVE UnseenPanics'
  BY <1>5 DEF IInv, Others, FlagsOK, DataOK, OpenNewSession, ApplyPendingReset,
         AdmissionOpen, SessionEmpty, Session
<1>6. ASSUME JoinFails PROVE UnseenPanics'
  BY <1>6 DEF IInv, Others, FlagsOK, DataOK, JoinFails, SessionEmpty, Session
<1>7. ASSUME OpenNode PROVE UnseenPanics'
  BY <1>7, SlotsDisjoint DEF IInv, Others, FlagsOK, DataOK, OpenNode, NewGeneration,
         Spawn, ConnectSteps, AdmissionOpen, SessionEmpty, Session
<1>8. ASSUME OpenQueries PROVE UnseenPanics'
  BY <1>8 DEF IInv, Others, FlagsOK, DataOK, OpenQueries, NewGeneration,
         ConnectSteps, SessionEmpty, Session
<1>9. ASSUME SetupDone PROVE UnseenPanics'
  BY <1>9 DEF IInv, Others, FlagsOK, DataOK, SetupDone, SessionEmpty, Session
<1>10. ASSUME MarkReady PROVE UnseenPanics'
  BY <1>10 DEF IInv, Others, FlagsOK, DataOK, MarkReady, SessionEmpty, Session
<1>11. ASSUME AbandonConnect PROVE UnseenPanics'
  BY <1>11 DEF IInv, Others, FlagsOK, DataOK, AbandonConnect, SessionEmpty, Session
<1>12. ASSUME DropSetup PROVE UnseenPanics'
  BY <1>12 DEF IInv, Others, FlagsOK, DataOK, DropSetup, SessionEmpty, Session
<1> QED BY <1>1, <1>2, <1>3, <1>4, <1>5, <1>6, <1>7, <1>8, <1>9, <1>10, <1>11, <1>12 DEF
         ConnectStep

\* A teardown keeps it: closing the group calls it drained only if nothing ran.
LEMMA TeardownPanics == IInv /\ UnseenPanics /\ TeardownStep => UnseenPanics'
<1> SUFFICES ASSUME IInv, UnseenPanics, TeardownStep PROVE UnseenPanics' OBVIOUS
<1> USE DEF gates, owner, groups, runtime, tasks, call, UnseenPanics
<1>1. ASSUME Disconnect PROVE UnseenPanics'
  BY <1>1 DEF IInv, Others, FlagsOK, DataOK, Disconnect, BeginDisconnect,
         DrainedAfter, CloseSession, ShouldDrain, AdmissionOpen, SessionEmpty,
         Session
<1>2. ASSUME StartDisconnectAsync PROVE UnseenPanics'
  BY <1>2 DEF IInv, Others, FlagsOK, DataOK, StartDisconnectAsync, BeginDisconnect,
         DrainedAfter, CloseSession, ShouldDrain, AdmissionOpen, SessionEmpty,
         Session
<1>3. ASSUME SessionDrained PROVE UnseenPanics'
  BY <1>3 DEF IInv, Others, FlagsOK, DataOK, SessionDrained, DisconnectSteps,
         Draining, SessionEmpty, Session
<1>4. ASSUME SessionDrainTimesOut PROVE UnseenPanics'
  BY <1>4 DEF IInv, Others, FlagsOK, DataOK, SessionDrainTimesOut, SessionEmpty,
         Session
<1>5. ASSUME WorkDrainTimesOut PROVE UnseenPanics'
  BY <1>5 DEF IInv, Others, FlagsOK, DataOK, WorkDrainTimesOut, SessionEmpty,
         Session
<1>6. ASSUME WorkDrained PROVE UnseenPanics'
  BY <1>6 DEF IInv, Others, FlagsOK, DataOK, WorkDrained, ApplyPendingReset,
         CanReset, SessionEmpty, Session
<1>7. ASSUME DropDisconnect PROVE UnseenPanics'
  BY <1>7 DEF IInv, Others, FlagsOK, DataOK, DropDisconnect, SessionEmpty, Session
<1>8. ASSUME Reset PROVE UnseenPanics'
  BY <1>8 DEF IInv, Others, FlagsOK, DataOK, Reset, BeginDisconnect, DrainedAfter,
         CloseSession, ShouldDrain, ApplyPendingReset, CanReset, AdmissionOpen,
         SessionEmpty, Session
<1>9. ASSUME Dispose PROVE UnseenPanics'
  BY <1>9 DEF IInv, Others, FlagsOK, DataOK, Dispose, BeginDisconnect, DrainedAfter,
         CloseSession, ShouldDrain, AdmissionOpen, SessionEmpty, Session
<1> QED BY <1>1, <1>2, <1>3, <1>4, <1>5, <1>6, <1>7, <1>8, <1>9 DEF TeardownStep

\* The client's tasks never fail unseen, except under a query session.
LEMMA PanicsInvariant == Spec => []UnseenPanics
<1>1. Init => UnseenPanics
  BY DEF Init, UnseenPanics, SessionEmpty
<1>2. IInv /\ UnseenPanics /\ [Next]_vars => UnseenPanics'
  <2>1. UnseenPanics /\ UNCHANGED vars => UnseenPanics'
    BY DEF vars, gates, owner, groups, runtime, tasks, call, UnseenPanics, SessionEmpty, Session
  <2> QED BY <2>1, TaskStepPanics, ConnectPanics, TeardownPanics DEF Next
<1> QED
  BY LifecycleInvariant, <1>1, <1>2, PTL DEF Spec

\* apply_pending_reset, wherever it is called, meets no failure of a session task
\* that nobody observed, but for one a query session without commands hides.
THEOREM PanicsAreObserved == Spec => ResetObservesPanics
<1> DEFINE A == epoch' # epoch /\ (opened = "node" \/ admitted) => "session" \notin panicked
<1>1. IInv /\ UnseenPanics /\ Next => A
  <2> SUFFICES ASSUME IInv, UnseenPanics, Next, epoch' # epoch, opened = "node" \/ admitted
               PROVE "session" \notin panicked
    OBVIOUS
  <2> USE DEF gates, owner, groups, runtime, tasks, call
  <2>1. ReuseSession \/ OpenNewSession \/ WorkDrained \/ Reset
    <3>1. CASE TaskStep
      BY <3>1 DEF TaskStep, AdmitMutation, AdmitRead, BeginReport, RecordUnresolved, Resolve,
                  FinishWork, EndSessionTask, PanicTask
    <3>2. CASE ConnectStep
      BY <3>2 DEF ConnectStep, StartConnect, ConnectObservesPanic, CloseOldSession, JoinFails,
                  OpenNode, OpenQueries, NewGeneration, SetupDone, MarkReady, AbandonConnect,
                  DropSetup
    <3>3. CASE TeardownStep
      BY <3>3 DEF TeardownStep, Disconnect, StartDisconnectAsync, SessionDrained,
                  SessionDrainTimesOut, WorkDrainTimesOut, DropDisconnect, Dispose
    <3> QED BY <3>1, <3>2, <3>3 DEF Next
  <2>2. CASE ReuseSession
    BY <2>2 DEF IInv, Others, AdmissionOpen, UnseenPanics, ReuseSession, ApplyPendingReset, CanReset
  <2>3. CASE OpenNewSession
    BY <2>3 DEF OpenNewSession
  <2>4. CASE WorkDrained
    BY <2>4 DEF IInv, Others, AdmissionOpen, UnseenPanics, WorkDrained, ApplyPendingReset, CanReset
  <2>5. CASE Reset
    BY <2>5 DEF IInv, Others, AdmissionOpen, UnseenPanics, Reset, ApplyPendingReset, CanReset,
                DrainedAfter, CloseSession, ShouldDrain
  <2> QED BY <2>1, <2>2, <2>3, <2>4, <2>5
<1>2. UNCHANGED vars => epoch' = epoch
  BY DEF vars, runtime
<1>3. IInv /\ UnseenPanics /\ [Next]_vars => [A]_vars
  BY <1>1
<1> QED
  BY LifecycleInvariant, PanicsInvariant, <1>3, PTL DEF Spec, ResetObservesPanics

=============================================================================
