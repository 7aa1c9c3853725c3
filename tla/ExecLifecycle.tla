--------------------------- MODULE ExecLifecycle ---------------------------
(***************************************************************************)
(* Lifecycle of the T-Bank execution client: the task owner, command       *)
(* admission, connect and disconnect, the deferred reset and the report    *)
(* gate (execution/client.rs, execution/client/nautilus.rs).               *)
(*                                                                         *)
(* One lifecycle call (connect, disconnect, reset, dispose) runs at a time *)
(* because each takes the client by exclusive reference; `pc' is where the *)
(* running call waits.  Commands, reports and spawned tasks interleave     *)
(* with it at every await.  A lifecycle future may be dropped at an await. *)
(***************************************************************************)
EXTENDS Naturals

CONSTANTS
    Ops,          \* slots of admitted mutating commands (operation_tasks)
    Workers,      \* the execution stream workers of a node session
    Readers,      \* slots of read-only command tasks (session_tasks)
    Reports,      \* slots of report requests counted by the report gate
    Abandonable,  \* the awaits at which the host may drop a lifecycle future
    MaxConnects,  \* bound on the connection generations
    MaxResets     \* bound on the applied resets

ASSUME SlotsDisjoint ==
    /\ Ops \cap (Workers \cup Readers \cup Reports) = {}
    /\ Workers \cap (Readers \cup Reports) = {}
    /\ Readers \cap Reports = {}

ASSUME BoundsNat == MaxConnects \in Nat /\ MaxResets \in Nat

Session == Workers \cup Readers          \* members of session_tasks
Tasks   == Ops \cup Session \cup Reports

VARIABLES
    pc,            \* the await the running lifecycle call is at; "idle" if none
    mode,          \* what the running connect opens: "node" or "queries"
    failed,        \* first_error of the running disconnect is set
    opsOpen,       \* operation_tasks accepts spawns
    sessionOpen,   \* session_tasks accepts spawns
    panicked,      \* the task groups holding a panic nobody has observed
    externalOpen,  \* external_admission_open
    mutationOpen,  \* mutation_admission_open
    connected,     \* runtime.connected
    accepting,     \* report_requests.accepting
    admitted,      \* session_task_admitted
    drainDone,     \* session_drain_completed
    connGen,       \* connected_generation
    resetPending,  \* reset_pending
    token,         \* identity of the runtime's current lifecycle token
    active,        \* the lifecycle tokens whose flag is true
    epoch,         \* identity of the shared maps; a reset replaces them all
    connects,      \* connection generations opened so far
    opened,        \* history: the mode of the one opened last
    live,          \* tasks and report requests in flight
    gen,           \* the lifecycle token each one captured
    home,          \* the epoch of the shared maps each one captured
    unresolved,    \* <<epoch, task>>: a mutation outcome recorded as unresolved
    returned       \* what the last finished teardown call promised its caller

gates    == <<externalOpen, mutationOpen, connected, accepting>>
owner    == <<admitted, drainDone, connGen, resetPending>>
groups   == <<opsOpen, sessionOpen, panicked>>
runtime  == <<token, active, epoch, connects, opened>>
tasks    == <<live, gen, home, unresolved>>
call     == <<pc, mode, failed, returned>>
vars     == <<gates, owner, groups, runtime, tasks, call>>

Pcs == {"idle", "prepare", "join", "channel", "setup", "account", "drainSession", "drainWork"}

-----------------------------------------------------------------------------
\* What the code reads

LifecycleActive == token \in active
SessionEmpty    == live \cap Session = {}
OpsEmpty        == live \cap Ops = {}
ReportsInFlight == {q \in live \cap Reports : home[q] = epoch}
HasUnresolved   == \E u \in unresolved : u[1] = epoch

\* mutation: the report gate is not consulted
CanReset_IgnoresReports(drained) == drained /\ OpsEmpty /\ SessionEmpty

CanReset(drained) == drained /\ OpsEmpty /\ SessionEmpty /\ ReportsInFlight = {}

Init ==
    /\ pc = "idle" /\ mode = "node" /\ failed = FALSE /\ returned = "nothing"
    /\ opsOpen = TRUE /\ sessionOpen = TRUE /\ panicked = {}
    /\ externalOpen = FALSE /\ mutationOpen = FALSE
    /\ connected = FALSE /\ accepting = FALSE
    /\ admitted = FALSE /\ drainDone = TRUE /\ connGen = FALSE /\ resetPending = FALSE
    /\ token = 0 /\ active = {} /\ epoch = 0 /\ connects = 0 /\ opened = "node"
    /\ live = {} /\ unresolved = {}
    /\ gen = [t \in Tasks |-> 0] /\ home = [t \in Tasks |-> 0]

-----------------------------------------------------------------------------
\* Admission of commands and reports

\* mutation: the maps of captured handles are replaced instead of extended
Spawn_ReplacesHandles(ts, tok) ==
    /\ live' = live \cup ts
    /\ gen'  = [t \in ts |-> tok]
    /\ home' = [t \in ts |-> epoch]

Spawn(ts, tok) ==
    /\ live' = live \cup ts
    /\ gen'  = [t \in Tasks |-> IF t \in ts THEN tok ELSE gen[t]]
    /\ home' = [t \in Tasks |-> IF t \in ts THEN epoch ELSE home[t]]

AdmitMutation(o) ==
    /\ o \notin live
    /\ externalOpen /\ mutationOpen /\ LifecycleActive /\ opsOpen
    /\ Spawn({o}, token)
    /\ UNCHANGED <<gates, owner, groups, runtime, call, unresolved>>

AdmitRead(r) ==
    /\ r \notin live
    /\ externalOpen /\ LifecycleActive /\ sessionOpen
    /\ Spawn({r}, token)
    /\ admitted' = TRUE
    /\ UNCHANGED <<gates, drainDone, connGen, resetPending, groups, runtime, call, unresolved>>

BeginReport(q) ==
    /\ q \notin live
    /\ accepting /\ LifecycleActive
    /\ Spawn({q}, token)
    /\ UNCHANGED <<gates, owner, groups, runtime, call, unresolved>>

-----------------------------------------------------------------------------
\* Steps of the tasks

\* A mutation records its outcome as pending before the RPC leaves; a trade
\* stream buffers a broker fill whose order it does not know yet.
RecordUnresolved(t) ==
    /\ \/ t \in Ops
       \/ t \in Workers /\ gen[t] \in active
    /\ t \in live
    /\ unresolved' = unresolved \cup {<<home[t], t>>}
    /\ UNCHANGED <<gates, owner, groups, runtime, call, live, gen, home>>

\* Any task may learn the outcome of any mutation its shared maps hold.
Resolve(t) ==
    /\ t \in live
    /\ \E u \in unresolved :
          /\ u[1] = home[t]
          /\ unresolved' = unresolved \ {u}
    /\ UNCHANGED <<gates, owner, groups, runtime, call, live, gen, home>>

\* An admitted operation or a report ends; what it left unresolved stays.
FinishWork(t) ==
    /\ t \in live \cap (Ops \cup Reports)
    /\ live' = live \ {t}
    /\ UNCHANGED <<gates, owner, groups, runtime, call, gen, home, unresolved>>

\* A session task ends because its group was cancelled, or, for a read-only
\* command, because it is done.
EndSessionTask(t) ==
    /\ t \in live \cap Session
    /\ ~sessionOpen \/ t \in Readers
    /\ live' = live \ {t}
    /\ UNCHANGED <<gates, owner, groups, runtime, call, gen, home, unresolved>>

PanicTask(t) ==
    /\ t \in live \cap (Ops \cup Session)
    /\ live' = live \ {t}
    /\ panicked' = panicked \cup {IF t \in Ops THEN "operations" ELSE "session"}
    /\ UNCHANGED <<gates, owner, opsOpen, sessionOpen, runtime, call, gen, home, unresolved>>

-----------------------------------------------------------------------------
\* Deferred reset

\* apply_pending_reset, for a value of reset_pending and of the drain flag: a
\* reset swaps every shared map, the report gate and the lifecycle token.
ApplyPendingReset(pending, drained, acceptingNow, connectedNow) ==
    IF pending /\ CanReset(drained) /\ ~HasUnresolved
    THEN /\ epoch < MaxResets
         /\ epoch' = epoch + 1
         /\ token' = token + 1
         /\ resetPending' = FALSE
         /\ accepting' = FALSE
         /\ connected' = FALSE
    ELSE /\ resetPending' = pending
         /\ accepting' = acceptingNow
         /\ connected' = connectedNow
         /\ UNCHANGED <<epoch, token>>

-----------------------------------------------------------------------------
\* Connect

AlreadyConnected == connected /\ LifecycleActive

\* mutation: a closed operation group is reopened over running operations
StartConnect_OverOperations(m) ==
    /\ pc = "idle"
    /\ connects < MaxConnects
    /\ ~AlreadyConnected \/ (m = "queries" /\ ~sessionOpen)
    /\ ReportsInFlight = {}
    /\ m = "node" => ~HasUnresolved
    /\ opsOpen' = TRUE
    /\ mode' = m /\ pc' = "prepare" /\ returned' = "nothing"
    /\ UNCHANGED <<gates, owner, sessionOpen, panicked, runtime, tasks, failed>>

\* connect_for_node and connect_for_queries up to prepare_operation_generation;
\* a call that returns early or with an error changes nothing.
StartConnect(m) ==
    /\ pc = "idle"
    /\ connects < MaxConnects
    /\ ~AlreadyConnected \/ (m = "queries" /\ ~sessionOpen)
    /\ ReportsInFlight = {}
    /\ m = "node" => ~HasUnresolved
    /\ opsOpen \/ (OpsEmpty /\ "operations" \notin panicked)
    /\ opsOpen' = TRUE
    /\ mode' = m /\ pc' = "prepare" /\ returned' = "nothing"
    /\ UNCHANGED <<gates, owner, sessionOpen, panicked, runtime, tasks, failed>>

\* The same call, when finish_shutdown of the closed operation group reports a
\* panicked operation: the connect fails, and the panic has been observed.
ConnectObservesPanic(m) ==
    /\ pc = "idle"
    /\ ~AlreadyConnected \/ (m = "queries" /\ ~sessionOpen)
    /\ ReportsInFlight = {}
    /\ m = "node" => ~HasUnresolved
    /\ ~opsOpen /\ OpsEmpty /\ "operations" \in panicked
    /\ panicked' = panicked \ {"operations"}
    /\ UNCHANGED <<gates, owner, opsOpen, sessionOpen, runtime, tasks, call>>

\* prepare_session_generation on a group that is open and empty.
ReuseSession ==
    /\ pc = "prepare"
    /\ sessionOpen /\ SessionEmpty
    /\ ApplyPendingReset(resetPending, drainDone, accepting, connected)
    /\ pc' = "channel"
    /\ UNCHANGED <<externalOpen, mutationOpen, admitted, drainDone, connGen, groups,
                   active, connects, opened, tasks, mode, failed, returned>>

CloseOldSession ==
    /\ pc = "prepare"
    /\ ~sessionOpen \/ ~SessionEmpty
    /\ sessionOpen' = FALSE
    /\ pc' = "join"
    /\ UNCHANGED <<gates, owner, opsOpen, panicked, runtime, tasks, mode, failed, returned>>

\* finish_shutdown succeeded; start_generation.
OpenNewSession ==
    /\ pc = "join"
    /\ SessionEmpty /\ "session" \notin panicked
    /\ sessionOpen' = TRUE
    /\ admitted' = FALSE
    /\ drainDone' = TRUE
    /\ ApplyPendingReset(resetPending, TRUE, accepting, connected)
    /\ pc' = "channel"
    /\ UNCHANGED <<externalOpen, mutationOpen, connGen, opsOpen, panicked,
                   active, connects, opened, tasks, mode, failed, returned>>

\* finish_shutdown timed out on a live task, or reported a panicked one.
JoinFails ==
    /\ pc = "join"
    /\ ~SessionEmpty \/ "session" \in panicked
    /\ panicked' = IF SessionEmpty THEN panicked \ {"session"} ELSE panicked
    /\ pc' = "idle"
    /\ UNCHANGED <<gates, owner, opsOpen, sessionOpen, runtime, tasks, mode, failed, returned>>

\* Credentials, settings and the channel are in place: the new generation.
NewGeneration ==
    /\ token' = token + 1
    /\ active' = active \cup {token + 1}
    /\ connects' = connects + 1
    /\ opened' = mode
    /\ accepting' = TRUE
    /\ connGen' = TRUE
    /\ UNCHANGED <<epoch, admitted, resetPending, groups>>

OpenNode ==
    /\ pc = "channel" /\ mode = "node"
    /\ NewGeneration
    /\ connected' = FALSE
    /\ drainDone' = FALSE
    /\ Spawn(Workers, token + 1)
    /\ pc' = "setup"
    /\ UNCHANGED <<externalOpen, mutationOpen, unresolved, mode, failed, returned>>

OpenQueries ==
    /\ pc = "channel" /\ mode = "queries"
    /\ NewGeneration
    /\ connected' = TRUE
    /\ drainDone' = TRUE
    /\ externalOpen' = TRUE /\ mutationOpen' = FALSE
    /\ pc' = "idle"
    /\ UNCHANGED <<tasks, mode, failed, returned>>

\* The startup account snapshot was published; wait for its registration.
SetupDone ==
    /\ pc = "setup"
    /\ pc' = "account"
    /\ UNCHANGED <<gates, owner, groups, runtime, tasks, mode, failed, returned>>

MarkReady ==
    /\ pc = "account"
    /\ externalOpen' = TRUE /\ mutationOpen' = TRUE /\ connected' = TRUE
    /\ pc' = "idle"
    /\ UNCHANGED <<accepting, owner, groups, runtime, tasks, mode, failed, returned>>

\* The channel could not be built, or the future was dropped at an await that
\* no guard covers.
AbandonConnect ==
    /\ pc \in {"prepare", "join", "channel", "account"} \cap (Abandonable \cup {"channel"})
    /\ pc' = "idle"
    /\ UNCHANGED <<gates, owner, groups, runtime, tasks, mode, failed, returned>>

\* The future was dropped while the setup guard was armed.
DropSetup ==
    /\ pc = "setup" /\ pc \in Abandonable
    /\ sessionOpen' = FALSE
    /\ active' = active \ {token}
    /\ pc' = "idle"
    /\ UNCHANGED <<gates, owner, opsOpen, panicked, token, epoch, connects, opened, tasks,
                   mode, failed, returned>>

-----------------------------------------------------------------------------
\* Teardown

ShouldDrain  == connGen \/ ~sessionOpen \/ ~SessionEmpty
CloseSession == ShouldDrain /\ (sessionOpen \/ ~drainDone)
\* mutation: a group that admitted tasks which already exited counts as drained
DrainedAfter_ForgetsAdmitted == drainDone /\ ~(CloseSession /\ ~SessionEmpty)
DrainedAfter == drainDone /\ ~(CloseSession /\ (~SessionEmpty \/ admitted))

BeginDisconnect ==
    /\ active' = active \ {token}
    /\ externalOpen' = FALSE /\ mutationOpen' = FALSE
    /\ opsOpen' = FALSE
    /\ sessionOpen' = (sessionOpen /\ ~CloseSession)
    /\ drainDone' = DrainedAfter
    /\ connGen' = FALSE
    /\ UNCHANGED <<panicked, admitted, connects, opened, tasks, mode>>

\* disconnect() and stop()
Disconnect ==
    /\ pc = "idle"
    /\ BeginDisconnect
    /\ connected' = FALSE /\ accepting' = FALSE
    /\ returned' = "nothing"
    /\ UNCHANGED <<pc, failed, resetPending, token, epoch>>

\* disconnect_async(), also as the rollback of a connect that failed.
StartDisconnectAsync ==
    /\ pc \in {"idle", "setup", "account"}
    /\ BeginDisconnect
    /\ connected' = FALSE /\ accepting' = FALSE
    /\ pc' = IF ShouldDrain THEN "drainSession" ELSE "drainWork"
    /\ failed' = FALSE /\ returned' = "nothing"
    /\ UNCHANGED <<resetPending, token, epoch>>

SessionDrained ==
    /\ pc = "drainSession"
    /\ SessionEmpty
    /\ drainDone' = TRUE
    /\ failed' = ("session" \in panicked)
    /\ panicked' = panicked \ {"session"}
    /\ pc' = "drainWork"
    /\ UNCHANGED <<gates, admitted, connGen, resetPending, opsOpen, sessionOpen, runtime,
                   tasks, mode, returned>>

SessionDrainTimesOut ==
    /\ pc = "drainSession"
    /\ ~SessionEmpty
    /\ failed' = TRUE
    /\ pc' = "drainWork"
    /\ UNCHANGED <<gates, owner, groups, runtime, tasks, mode, returned>>

WorkDrainTimesOut ==
    /\ pc = "drainWork"
    /\ ~OpsEmpty \/ ReportsInFlight # {}
    /\ pc' = "idle"
    /\ UNCHANGED <<gates, owner, groups, runtime, tasks, mode, failed, returned>>

\* mutation: the drain waits for the operations only
WorkDrained_IgnoresReports ==
    /\ pc = "drainWork"
    /\ OpsEmpty
    /\ panicked' = panicked \ {"operations"}
    /\ IF "operations" \in panicked \/ HasUnresolved \/ failed
         THEN /\ returned' = "error"
              /\ UNCHANGED <<epoch, token, resetPending, accepting, connected>>
         ELSE /\ returned' = "drained"
              /\ ApplyPendingReset(resetPending, drainDone, accepting, connected)
    /\ pc' = "idle"
    /\ UNCHANGED <<externalOpen, mutationOpen, admitted, drainDone, connGen, opsOpen,
                   sessionOpen, active, connects, opened, tasks, mode, failed>>

\* The work drained; a panicked operation, an unresolved outcome or an earlier
\* error is returned, otherwise a pending reset is applied.
WorkDrained ==
    /\ pc = "drainWork"
    /\ OpsEmpty /\ ReportsInFlight = {}
    /\ panicked' = panicked \ {"operations"}
    /\ IF "operations" \in panicked \/ HasUnresolved \/ failed
         THEN /\ returned' = "error"
              /\ UNCHANGED <<epoch, token, resetPending, accepting, connected>>
         ELSE /\ returned' = "drained"
              /\ ApplyPendingReset(resetPending, drainDone, accepting, connected)
    /\ pc' = "idle"
    /\ UNCHANGED <<externalOpen, mutationOpen, admitted, drainDone, connGen, opsOpen,
                   sessionOpen, active, connects, opened, tasks, mode, failed>>

DropDisconnect ==
    /\ pc \in {"drainSession", "drainWork"} \cap Abandonable
    /\ pc' = "idle"
    /\ UNCHANGED <<gates, owner, groups, runtime, tasks, mode, failed, returned>>

\* reset(): applied at once, deferred while only session tasks remain, refused
\* otherwise.  reset_pending stays set in the last two cases.
Reset ==
    /\ pc = "idle"
    /\ BeginDisconnect
    /\ ApplyPendingReset(TRUE, DrainedAfter, FALSE, FALSE)
    /\ returned' = "nothing"
    /\ UNCHANGED <<pc, failed>>

\* dispose()
Dispose ==
    /\ pc = "idle"
    /\ BeginDisconnect
    /\ connected' = FALSE /\ accepting' = FALSE
    /\ returned' = IF CanReset(DrainedAfter) /\ ~HasUnresolved THEN "disposed" ELSE "error"
    /\ UNCHANGED <<pc, failed, resetPending, token, epoch>>

-----------------------------------------------------------------------------
TaskStep ==
    \/ \E o \in Ops : AdmitMutation(o)
    \/ \E r \in Readers : AdmitRead(r)
    \/ \E q \in Reports : BeginReport(q)
    \/ \E t \in Tasks : \/ RecordUnresolved(t) \/ Resolve(t) \/ FinishWork(t)
                        \/ EndSessionTask(t) \/ PanicTask(t)

ConnectStep ==
    \/ \E m \in {"node", "queries"} : StartConnect(m) \/ ConnectObservesPanic(m)
    \/ ReuseSession \/ CloseOldSession \/ OpenNewSession \/ JoinFails
    \/ OpenNode \/ OpenQueries \/ SetupDone \/ MarkReady
    \/ AbandonConnect \/ DropSetup

TeardownStep ==
    \/ Disconnect \/ StartDisconnectAsync
    \/ SessionDrained \/ SessionDrainTimesOut \/ WorkDrainTimesOut \/ WorkDrained
    \/ DropDisconnect \/ Reset \/ Dispose

Next == TaskStep \/ ConnectStep \/ TeardownStep

Spec == Init /\ [][Next]_vars

-----------------------------------------------------------------------------
\* Properties

FlagsOK ==
    /\ failed \in BOOLEAN
    /\ opsOpen \in BOOLEAN /\ sessionOpen \in BOOLEAN
    /\ externalOpen \in BOOLEAN /\ mutationOpen \in BOOLEAN
    /\ connected \in BOOLEAN /\ accepting \in BOOLEAN
    /\ admitted \in BOOLEAN /\ drainDone \in BOOLEAN
    /\ connGen \in BOOLEAN /\ resetPending \in BOOLEAN

DataOK ==
    /\ pc \in Pcs /\ mode \in {"node", "queries"} /\ opened \in {"node", "queries"}
    /\ returned \in {"nothing", "error", "drained", "disposed"}
    /\ panicked \subseteq {"operations", "session"}
    /\ token \in Nat /\ active \subseteq Nat /\ epoch \in Nat /\ connects \in Nat
    /\ live \subseteq Tasks
    /\ gen \in [Tasks -> Nat] /\ home \in [Tasks -> Nat]
    /\ unresolved \subseteq Nat \X Tasks

\* Every variable has its type.
TypeOK == FlagsOK /\ DataOK

\* A reset replaces the shared maps under nobody: every task and report still
\* in flight works on the maps the runtime uses.
NoWorkAcrossReset == \A t \in live : home[t] = epoch

\* No reset forgets a broker mutation whose outcome is not known.
NoOutcomeForgotten == \A u \in unresolved : u[1] = epoch

\* A reset loses nothing: no task works on the maps it replaced, no unknown
\* outcome was in them.
ResetLosesNothing == NoWorkAcrossReset /\ NoOutcomeForgotten

\* Mutations are admitted only into a complete node session: its own task
\* groups open, its token active, and no deferred reset left to apply to it.
MutationsNeedNodeSession ==
    mutationOpen =>
        /\ externalOpen /\ connected /\ accepting /\ connGen
        /\ opsOpen /\ sessionOpen /\ LifecycleActive
        /\ ~resetPending

\* While a session is active, every command and stream task in flight belongs to
\* it: none outlives a reconnect and acts on the next session.
TasksOfThisSession ==
    LifecycleActive => \A t \in live \ Reports : gen[t] = token

\* Sessions are apart: mutations enter only a complete node session, and no task
\* of an earlier one reaches it.
SessionsAreApart == MutationsNeedNodeSession /\ TasksOfThisSession

\* A disconnect that returned Ok has applied the reset that was deferred to it.
DrainAppliesReset == returned = "drained" => ~resetPending

\* A teardown call that returned Ok left nothing behind: no task, no report, no
\* unresolved mutation, and no reset still deferred.
TeardownQuiet ==
    /\ returned \in {"drained", "disposed"} => live = {} /\ ~HasUnresolved
    /\ DrainAppliesReset

\* A reset is applied only after every session task failure was observed, at
\* whichever await the connects and the disconnects before it were abandoned.
\* The exception is a query session that admitted no command: its connect marks
\* the group drained without a look at what an earlier node session left there.
ResetObservesPanics ==
    [][epoch' # epoch /\ (opened = "node" \/ admitted) => "session" \notin panicked]_vars

=============================================================================
