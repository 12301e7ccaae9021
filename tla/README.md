# TLA+ models of labfunctions

labfunctions runs notebooks on a schedule or on request. A web server (Sanic)
keeps workflows, projects, runtimes and a history in a database; a queue in
Redis (libq, and beside it an older control plane on RQ) hands work to agents;
agents run notebooks in docker containers, which report back to the server; a
control plane creates and destroys the machines the agents live on; a command
line keeps labfiles, keys and tokens on the user's disk. This directory holds
models of the parts whose correctness depends on the order of steps of several
processes, the TLC configurations that check them and proofs of what TLC can
only check on small instances. `PROJECT.json` maps every definition to the
lines it models and lists the hazards the properties are for.

A component has up to three modules: `X.tla` (state, actions, properties),
`MCX.tla` (definitions for TLC instances) and `X_proofs.tla` (theorems). Three
components are proved beside the one they belong with: `RuntimeBuild` in
`Projects_proofs`, `EventStream` in `NotebookRun_proofs` and `Accounts` in
`TokenRefresh_proofs`. These modules extend both, so the three name their
specifications `BuildSpec`, `StreamSpec` and `AccountsSpec`. What a component
promises is a module of its own for five of them: `WorkflowTable`,
`RunHistory`, `EventFeed`, `ProjectRegistry` and `Sessions` are abstract
specifications that `WorkflowJobs`, `NotebookRun`, `EventStream`, `Projects`
and `TokenRefresh` refine. Run

    tlc -workers 2 -config workflow_requests.cfg MCWorkflowJobs
    tlapm WorkflowJobs_proofs.tla

Paths below are relative to `src/labfunctions/`.

## Inventory

| Component | State | Operations | Hard behaviour | Model |
|---|---|---|---|---|
| Workflow registry: `web/workflows_bp.py`, `managers/workflows_mg.py`, `control/scheduler.py` | table `lf_workflow`; jobs and schedule in Redis | create, update, delete, run; the scheduler fires | two stores without a common transaction, handlers interleave at every await, row locks | `WorkflowJobs`, `WorkflowTable` |
| Workflow push: `cmd/workflows.py`, `client/workflows_client.py`, `client/labstate.py` | labfiles; what a command holds of one; requests under way | create, push, push --update, delete | lost answers, commands that stop before they write, commands that overlap, workflows renamed by hand | `WorkflowPush` |
| Notebook execution: `executors/*`, `commands.py`, `control/tasks.py`, `cmd/executors.py` | worker, container, exit status | dispatch, start, wait, kill, remove, report | timeout against late exit, daemon failures, loss of the worker | `NotebookRun`, `RunHistory` |
| History and outputs: `web/history_bp.py`, `managers/history_mg.py`, `client/history_client.py` | table `lf_history`, stored notebooks | register a result, upload an output | two writers for one run, calls that are lost or served when their sender has gone, midnight | `NotebookRun`, `RunHistory` |
| Events: `events.py`, `web/events_bp.py`, `client/base.py` | a Redis stream per execution with a time to live | publish, listen | a listener that comes late, quiet streams, two ends that stop on different events | `EventStream`, `EventFeed` |
| Runtimes and builds: `runtimes/*`, `managers/runtimes_mg.py`, `commands.py`, `cmd/runtimes.py` | secrets file, bundles, uploads, images, table `lf_runtime` | bundle, upload, build, tag, push, register, delete | failed builds that are registered, builds and bundles that share names | `RuntimeBuild` |
| Projects and their agents: `managers/projects_mg.py`, `web/projects_bp.py`, `client/init_script.py`, `client/projects_client.py` | tables `lf_project`, `lf_projects_users`, `lf_user`; labfile and private key of a folder | start a project, create and delete agents, delete | several statements of one transaction, clients that give up, a missing commit | `Projects`, `ProjectRegistry` |
| Scopes, users and passwords: `managers/users_mg.py`, `cmd/manager.py`, `security/scopes.py`, `security/web.py` | rows of `lf_user`, the claims of tokens | create, disable, reset, delete; login, agents' tokens; validate | commands that cross each other and a login, claims older than the row | `Accounts` |
| Sessions and tokens: `security/authentication.py`, `security/redis_tokens.py`, `security/auth_bp.py`, `client/base.py`, `client/diskclient.py` | refresh tokens in Redis; pairs on disk, in the environment, in memory | login, refresh, save, use | get/delete/put without a transaction, shared credentials, lost answers | `TokenRefresh`, `Sessions` |
| Cluster machines: `control/tasks.py`, `cluster/*`, `web/clusters_bp.py` | machines at the provider; keys and lists in Redis | create, destroy, deploy an agent | retries, cut-off jobs whose thread goes on, tasks that cross | `ClusterMachines` |
| Agents on RQ: `control_plane/*` | agent, heartbeat and worker keys | register, beat, serve, unregister, remove, kill | heartbeat thread against unregister, a period longer than the time to live | `RQControl` |
| Scheduler on RQ: `scheduler.py` | jobs of rq-scheduler, workflow rows | schedule, dispatch, execute, cancel, delete | job and row go in two steps | `RQControl` |
| Result cache: `io/cache.py` | a result and its time in the file server | read, judge, compute, write | two requests per read and write, writes served late, ages rounded and modulo a day | `ResultCache` |
| Stores: `io/*` | files and buckets | put, get, stream | an upload that is read while it is written | in `RuntimeBuild` |
| Notebook templates, libq's agent, database access, ids, configuration, command line, server assembly, machine tables, volumes and ssh | none of their own, or read once | | | not modelled, see below |

How they interact: the command line pushes labfiles and bundles to the server
with a session's token; a handler of the registry writes Redis jobs that the
scheduler turns into runs; a run is a worker plus a container; the container
talks to the server with an agent's token to write the history and publish
events; a build makes the image the containers start from; the control plane's
tasks come from the server through the same queue. The models meet at these
interfaces, and each treats the other side as nondeterministic or as one atomic
step: `WorkflowJobs!queue` holds what `NotebookRun!Enqueue` starts from; the
requests of `WorkflowPush` are served in one step each, whose inside is
`WorkflowJobs`; an exchange of tokens is one step of `Accounts` and three
awaits in `TokenRefresh`; the agents' rows that `Projects` creates and deletes
are the ones `Accounts` reads; the ids and keys of `Projects` are what a bundle
of `RuntimeBuild` is encrypted with.

### What makes each part correct

- Registry: a scheduled row has its job; the job is the row's; nothing a failed
  or lost request did survives except what is explained; no deadlock.
- Push: a wfid never comes to mean another workflow; a labfile loses a workflow only for a
  cause its owner can know.
- Execution: the history tells the truth, every outcome is recorded, each side
  of a run is heard once, every run ends, nothing runs on unobserved, notebooks
  are not overwritten.
- Events: a listener that has begun to read misses and repeats nothing; it ends.
- Builds: what is registered exists, is of its version and carries its own
  secrets, or a failure or an overlap explains it.
- Projects: a project appears whole, stays, and has one name; the secrets
  bundled for it can be read.
- Accounts: what a command told stays so; claims are the row's.
- Sessions: a replaced token is dead, sessions are isolated from each other and
  handed on by a refresh.
- Machines: the registry is wrong about a machine only while some task still
  owes it the news; names are listed where they were created; tasks end.
- RQ: a heartbeat is wrong for a bounded time; a worker or a job that is left
  behind has a cause.
- Cache: a hit is recent; a result is kept with its own time, or there is a cause.

## The models

All modules use the same conventions. One action is the code between two
awaits, two remote calls or two statements that another process can see between.
What the environment may do is a constant (`MayFail`, `Faults`, `BuildFaults`,
`StreamFaults`), so that one
module serves runs with and without failures and the theorems hold for all of
them. Ids and names drawn at random are drawn from those not used before:
collisions of random ids are left out. A definition called
`Operator_Something`, right before `Operator`, is the operator with one
plausible mistake; no specification uses it. Each property of a passing run is
broken by one of them. Variables called "history" in their comments are read by
no action's guard: they only say what a property needs to know of the past.

### WorkflowJobs

`db[w]` is the committed row, `jobs[w]` the job definition under jobid `w`,
`scheduled` the ids on the schedule, `queue` the runs handed to the workers;
`call[r]` and `pc[r]` are the request and the position of its handler. A row is
reduced to alias, task, schedule present or not, and the enabled flag.

| Action | Code |
|---|---|
| `Receive` | the prologue of the handlers; a create draws its wfid |
| `InsertRow`, `LockRow`, `UpdateRow` | `workflows_mg.register` (insert with rollback on a taken alias; update by wfid alone, row count not looked at; the update has locked its row when it comes to its alias) |
| `BreakDeadlock` | the database (external) aborts one transaction of a cycle |
| `CreateJob`, `EnqueueJob` | the two awaits of `JobManager.register_workflow` |
| `Commit` | the end of `session.begin()` |
| `UnregisterJob`, `RemoveJob`, `DeleteRow`, `CommitDelete` | `workflow_delete` |
| `ReadWorkflow`, `EnqueueNotebook` | `workflow_enqueue` |
| `Fail` | an await raises or the process dies: the transaction rolls back, Redis keeps what it was told |
| `Fire` | libq's scheduler (external) |

The database is what the handlers rely on: a row lock from UPDATE or DELETE to
the end of the transaction (`Locks`, `RowBusy`) and a unique key that makes a
statement wait for the outcome of an uncommitted one (`KeyBusy`). An UPDATE
holds the first while it waits for the second, so handlers can wait for each
other in a circle (`WaitsFor`, `Deadlocked`): two updates that exchange the
aliases of their workflows do. The database answers one of a circle with an
error, and its transaction rolls back. The definitions follow circles of any
length; the run has two requests and so those of two.

`WorkflowTable` is what clients may rely on, without transactions, locks or
jobs: a request is asked and answered, and all it does to the table is done in
the step that answers it "ok". A create takes an id that nobody has or had and
an alias that is free, an update keeps the row's project, a delete is of its
own project's row. `WorkflowJobs` maps `db` to its table, the calls that would
write to `asked` and those that have ended "ok" to `done`; a run request, every
other position of a handler and every failure is a stutter.

### WorkflowPush

`file[f]` is a labfile, `rows` the server's table, `owner[i]` the workflow a
wfid was drawn for, `cmd[c]` what a running command holds and `wire` the
requests that have left it. A workflow is what its author means by an entry,
the notebook that is run; its alias may change, and two workflows may exchange
theirs. Edits that leave both as they are (parameters, a schedule) have no
effect here. The author keeps the key of an entry and its alias equal and
copies no wfid. `cut` and `blame` are history: which workflows had a command
cut short, and whether anything else happened that can make a labfile forget.

| Action | Code |
|---|---|
| `Edit`, `Rename` | the author of a labfile (external): a new entry, another alias for an entry |
| `Push`, `CreateWorkflow`, `Delete` | the commands of `cmd/workflows.py` up to the labfile they read; a delete is sent also for a wfid the labfile does not have |
| `Ask`, `Told`, `EndLoop` | the loop of `WorkflowsClient.workflows_push` and what it does with each answer |
| `Handle` | `workflow_create`, `workflow_update`, `workflow_delete` as one step (an update sets the alias too, unless another row has it); `HandlerError` the 500 of any of them |
| `Open`, `Write` | `write_yaml`: the file is truncated, then written |
| `Abandon`, `Timeout`, `Stop` | a delete whose answer is an error, `CLIENT_TIMEOUT`, the end of the process |

### NotebookRun

A run `e` has a worker (`work`, `status`) and a container (`box`, `verdict`)
that are synchronized by docker only. `wire` holds the requests the two have
sent to the server and it has not served; `rows` is the history, `store` the
uploaded notebooks by directory, day and name. A request outlives its sender:
the worker may kill a container whose row is under way, and the row is
committed after the worker's.

| Action | Code |
|---|---|
| `Enqueue` | `workflow_dispatcher` with the context stored at registration, or a run by hand with one made for it |
| `Prepare`, `StartContainer`, `SeeExit`, `WaitTimeout`, `Kill`, `Remove` | `NBTaskDocker.run` and `DockerCommand.run` |
| `DockerFails` | the `except` clauses of `DockerCommand.run`: status -3, the container stays as it is |
| `Return` | `docker_exec`: a result with an error is sent to the history |
| `WorkerFails` | the worker dies, or raises outside these clauses |
| `Execute`, `Post`, `Upload`, `Exit` | `lab exec local` in the container; a post and an upload are sent, and waited for |
| `ServeRow`, `ServeNotebook` | `history_create`, `upload_notebook`: the server commits or refuses, and a sender that still waits goes on |
| `CallFails` | a call raises at its sender; the server may have the request |
| `Midnight` | the date that `today_string` reads |

`RunHistory` is what a reader of the history may rely on: a run's container
sends its result and, when that is answered, its notebook, at most once each
(`Say`); its worker reports once (`Report`), adds nothing only to a success
that is there or was refused, and when it has reported the container says
nothing more, unless docker's failure left it adrift. What it had sent before
may still arrive (`Arrive`, `Keep`): a row of the container can come after its
worker's. `NotebookRun` maps the container's place to what it has yet to say,
the verdict to a code and the workers that have ended to `closed`; the queue,
the wait, the timeout and the removal are stutters.

### EventStream

One execution's stream: `log` is everything published and `dead` how much of it
has expired; `pc`, `last`, `batch` and `keep` are the server's loop, `conn`,
`seen` and `client` the other end of its connection.

| Action | Code |
|---|---|
| `Publish`, `Expire` | `event_publish`, `EventManager.publish` and the stream's time to live |
| `Listen`, `Call`, `ReadReturns`, `Quiet` | `event_listen` up to a batch, `EventManager.read` with `BLOCK_MS` |
| `Send`, `SendFails`, `Loop` | the sending of a batch; an exit ends the loop, an exception too |
| `Receive`, `Closed` | `BaseClient.events_listen`, `watcher` |
| `Break` | the connection |

The two ends judge an event differently: the server by the text of its data
(`IsExit`), the client by what it parses of the lines (`Parsed`), and the two
are translated separately for that. A text is a sequence of lines. `format_sse`
puts `data:` before the first of them only, `events_listen` cuts a message at a
blank line, and `from_sse2event` keeps the last line of a message that begins
with `data:`, without the blanks around it. So a text with a blank line in it
may be shown as its beginning and then fail the client, a later line that
begins with `data:` replaces what came before, and a later `data: exit` ends
the client, but not the server. Lines that begin with `id:` or `event:` only
change fields the client does not use. `After(d)` is the client's state after
each line of `d`, a recursive function on the number of lines.

`EventFeed` is the promise: from a base a listener is shown each published
event that has not expired, once, in order and as what its own text lets
through (`Shown`, which `Parsed` gives), until it ends, and nothing after an
event that ends it (`Last`). `EventStream` maps `log`, `dead`, `start`
and `seen` to it, and the listeners whose client reads, or has not begun, to
`open`; the server's position, its batches and the connection are hidden.

### RuntimeBuild

One runtime, one working area and one docker daemon. `secrets`, `zip`, `opened`
are the command's files; `store` is an uploaded object with its bytes, which a
second upload dirties; `latest`, `tagged`, `pushed` are docker's names; `rows`
is `lf_runtime`. `met` and `raced` are history.

| Action | Code |
|---|---|
| `StartBuild`, `WriteSecrets`, `ZipFiles`, `ZipFails`, `Unlink` | `cmd/runtimes.py` and `runtimes/bundler.py` |
| `Upload`, `Uploaded`, `AbandonBuild` | `project_upload` and `AsyncKVLocal.put_stream` with its client |
| `ProjectBuild`, `EnqueueBuild` | `project_build` and `SchedulerExec.enqueue_build` |
| `Fetch`, `Build`, `FindImage`, `Tag`, `PushImage`, `Register` | `BuildTask.run`, `DockerCommand.build`, `push_image`, `runtimes_mg.create` |
| `RuntimeDelete` | `runtimes_delete` |
| `Die` | a command or a worker |

### Projects and ProjectRegistry

`projects`, `members` and `users` are the committed tables; `req[r]` is a
request with the open transaction of its handler; `pc[f]`, `lab[f]` and
`keyfile` are what a folder and its user's disk hold; `bundles` pairs a project
with the key its secrets were encrypted with. `ProjectRegistry` is the abstract
specification: a function from ids to a name and a key that only grows, one
whole project at a time, under a name that is free.

| Action | Code |
|---|---|
| `Start`, `Post`, `StoreKey`, `Refresh`, `GiveUp`, `Decline` | `lab startproject`: `client/init_script.py`, `projects_create`, `store_private_key` |
| `Insert`, `Relate`, `NewAgent`, `Commit`, `Abort` | the statements of `projects_mg.create` and the end of its session |
| `Bundle` | the secrets of `lab runtimes build`, with the key on disk or the server's |
| `AgentCreate`, `DeleteAgent`, `ProjectDelete` | the handlers of `projects_bp`; the last one never commits |
| `ManagerAgent`, `ManagerUser`, `ManagerDelete` | `lab manager` |

### Accounts

A row of `lf_user` by id; `req[r]` is a login or a printed token and then the
session it opened, with the name and scopes of its claims; `cmd[c]` a run of
`users disable` or `users reset`. `acts` and `told` are history. The session
writes a column that was set only if its value differs from the one it read,
and the key of a password is derived without chance: a reset to the password
that the row had is told "changed" and writes nothing, so that a reset that
crosses it wins although it committed first. `Says` notes for such a silent
reset that the password told is one of several.

| Action | Code |
|---|---|
| `UsersCreate`, `AgentDelete`, `AgentCreate` | `cmd/manager.py` |
| `GetUser`, `CommitUser` | `users disable`, `users reset`: the read and the flush of one column |
| `Authenticate`, `Encode` | `login_handler`: the read of the row in one transaction, the tokens after it |
| `GetToken`, `ProjectsAgentToken` | tokens for agents by the manager and by a project |
| `Refresh`, `Lapse` | an exchange of tokens as one step; time |
| `Protected` | `protected`, `inject_user` and `scopes.validate` |

`Validate` is `scopes.validate` with its dictionaries; `ValidateIsAllowed`
compares it with a definition without them. `Scope2dict` is a recursive function
on the length of the list: `Assign` is one turn of the loop, in which a later
scope of the same name replaces the earlier one, and `Permissions(l)[n]` the
dictionary after n turns.

### TokenRefresh

A token stands for a pair of access and refresh token. `live` is the set of
keys in Redis, `expired` the access tokens past their time, `saved[h]` the pair
in a home, which is a user's file or an agent's environment: whichever of the
two `load_creds` ends with. `parent`, `spent` and `raced` are history. Keys are
put without a time to live: `store_refresh_token` passes one and `put` drops it
(`Timed` is the set of keys that have one, and empty).

| Action | Code |
|---|---|
| `Open`, `Send`, `Again`, `Update` | `load_creds`, `AuthFlow.auth_flow`, `update_tokens` |
| `Get`, `Delete`, `Put` | the three awaits of `Auth.refresh_token` |
| `Prompt`, `Login`, `Save` | `DiskClient.logincli`, the login handler, `store_credentials_disk` |
| `Expire`, `Age` | time passes for an access token and for a key |
| `Fail` | a handler dies, an answer is lost |

`Sessions` is the promise of the server's tokens: an exchange closes its token
and opens one successor in one step; a token has two successors only when it
was contested, that is, when its second exchange began before the first had
ended; and it is lost only by an exchange that was abandoned. `TokenRefresh`
maps the keys in Redis, with the tokens being exchanged that have no successor
yet, to `open`, the tokens whose handler is between its get and its put to
`begun`, `raced` to `contested` and `parent` to `from`; what clients do with
files and answers, and the expiry of access tokens, are stutters. A key that
expired would close a token in a way `Sessions` does not have: the refinement
relies on `put` as it is.

### ClusterMachines

`cloud` is the set of machines that exist, `keys` and `lists` the registry;
a job has a request, a position, the machine its attempt is about and counters
of its retries. `stray` holds provider calls whose job was cut off:
`run_async` runs them in a thread that nothing stops. `owes` and `crossed` are
history: which job touched a machine without having told the registry, and
which machines were touched by two such jobs.

| Action | Code |
|---|---|
| `RequestCreate`, `RequestDestroy`, `RequestDeploy` | the handlers of `web/clusters_bp.py` |
| `Start`, `LoadInstance` | `ClusterControl.create_instance`, `destroy_instance`, `get_instance` up to the provider's call |
| `CallProvider`, `StrayCall` | the provider's call, in or after its job |
| `WriteRegistry` | `register_instance`, `unregister_instance` |
| `DeployAgent` | `_deploy_agent` with its backoff |
| `CutOff` | libq's job timeout, or the loss of the worker |

`Overwrites` tells the two providers apart: the local one takes a name twice,
Google's refuses.

### RQControl

An agent has a main function (`main`), a heartbeat thread (`thread`, `timer`,
`flag`) and worker processes (`work`); `heart`, `nodes`, `cluster` are its keys.
`row`, `sched`, `gone` and `call` belong to the scheduler. Time advances in
minutes (`Minute`), and never past an instant at which a thread has something
to do: `HeartbeatBound` counts what the thread itself adds.

| Action | Code |
|---|---|
| `StartHeart`, `Register`, `StartWorkers`, `WorkersEnd`, `Unregister`, `DeleteHeart`, `SetFlag`, `Exit` | `control_plane/agent.py` `run`, with one worker in the process or several in an executor |
| `LookAtFlag`, `SetHeart`, `SetFails`, `Wake` | `HeartbeatThread.run`; a set that raises ends the thread, while the agent serves on |
| `Crash` | the agent's process |
| `Remove`, `KillWorkers`, `KillQueue` | `AgentRegister`, and rq's shutdown command |
| `Take`, `Finish` | rq's workers (external) |
| `Save`, `Schedule`, `CancelJob`, `CancelAll`, `DeleteRow` | `SchedulerExecutor` and the row it works on |
| `Dispatch`, `SchedulerDispatcher` | `dispatcher`, `scheduler_dispatcher` |

### ResultCache

One key. `blob` and `meta` are what the file server keeps under it, `call[p]`
where a wrapped call stands, `late` the writes that raised at their process and
that the server may still apply; `scarred`, and the result that a time was
written with, are history. Time is counted in ticks, so that what the code
drops of an age (less than a second, whole days) and what it rounds (seconds to
minutes, half a minute to the even one) are in the model: `Seconds`, `Round`,
`Elapsed`. A result is known by the tick it was computed at, and `Empty` are
those at which the function's result is one that Python takes for false. With
the local strategy every call fails at its first read, so it keeps nothing.

| Action | Code |
|---|---|
| `FrozenResult`, `Wrapper` | the decorator, which fixes the context's time, and a call of what it returns |
| `ReadData`, `ReadMeta`, `Decide` | `_restore_fileserver` or `_restore_pickle`, `is_valid_date` and the wrapper's choice |
| `Compute`, `WriteData`, `WriteMeta` | the function, `_write_fileserver`; a write is refused, or raises and may land later |
| `Land` | the server applies a write whose process has given it up |
| `Tick` | time |

## The runs

| Run | Instance | Shows |
|---|---|---|
| `workflow_requests` | 2 requests of every kind, 2 workflows of one project that exist and one to come, 2 projects, 3 aliases, failures anywhere; 207 thousand states | the relation the handlers keep between table and job store, each exception with its cause; failed requests change no row; the handlers implement `WorkflowTable`; every request is answered, although handlers wait for each other's row locks and alias keys, and in circles; a scheduled workflow runs |
| `push_retries` | 2 commands at a time and 3 in all, up to 2 workflows written before and one change by hand after, 2 labfiles, 2 aliases, 2 wfids, every fault; 1.1 million states | a wfid never comes to mean another workflow, whatever is renamed; a workflow is lost to its labfiles only for the causes named |
| `run_faults` | 2 runs of 2 workflows on one day, every fault; 3.4 million states | the history tells the truth, outcomes are recorded, containers are removed, only periodic runs overwrite |
| `run_live` | a run over midnight, every fault; 10 thousand states | the two processes of a run and the server implement `RunHistory`; every run ends for its worker, even if its notebook does not |
| `events_listen` | 1 listener, 3 events of 2 kinds and 4 texts (among them two with a blank line in them and one with a later `data:exit`), broken connections, expiry | server, connection and client implement `EventFeed`; nothing is lost or repeated after the first read; every listener ends |
| `build_overlap` | 2 commands, 2 versions, with and without a registry, every fault | which mistakes in an image, a bundle or a row need which cause |
| `projects_start` | 2 folders of one person, 2 names, 2 requests, every fault | the committed table implements `ProjectRegistry`; a project appears with its members; bundled secrets are readable |
| `accounts_commands` | a session, 2 commands, 2 rows | commands do not undo each other, a grant that a change overtakes began before it, claims are the row's, `validate` agrees with its definition |
| `token_sessions` | 3 processes, a user and an agent, 5 tokens, every fault | the three awaits of an exchange implement `Sessions`: a double exchange needs a race; isolation, handing on |
| `machines_tasks` | 2 tasks, 2 clusters, 1 fixed and 4 random names, every fault | when the registry may be wrong, who can cross, where names go stale; every task ends |
| `rq_agents` | 1 agent with one worker or two, 2 executions, heartbeat 4 minutes, check 5, agents that die and a Redis that fails; 1.35 million states | how long a heartbeat can be wrong in both directions; which workers and jobs are left behind, and why |
| `cache_shared` | 2 processes, a minute of 2 seconds, a day of 3, valid for 0 minutes, one late write at a time; 916 thousand states | a hit is recent, to half a minute, but for two causes; a torn pair has a cause |

**Bounds.** Every property is about one workflow, run, machine, token or key and
at most two or three actors that meet on it, so instances with two of the
objects and two or three actors contain the crossings; the second object is
there so that a mix-up of two of them shows. In `run_live` one run is enough:
runs share nothing but the names in the store, which `run_faults` is about,
and its worker, its container and the server are the actors. Three token clients are needed for
two that share a home and one that does not. Two requests suffice in
`workflow_requests` because each exception in its properties names one other
request as its cause; two workflows of one project exist at the start (every
pair of their definitions once, `MCSpec`), so the two can be an update and a
delete of one, updates that exchange two aliases, or a create with either. Listeners do not
touch each other's state, so one is enough; three events are the smallest
stream with a batch of two beside a later one, and with an event before the
first read. Requests, jobs and runs are served once and are, with `LastDay` (1:
a request sent before midnight and served after it; 0 with two runs),
`MaxCommands` (3: a push that is cut short, its repetition, and one that
crosses them), `MaxEdits` (1: after the push of the workflows that were there
at the start, one is renamed, two exchange their aliases, or one that has no
wfid yet is put in the place of another), `MaxLog`, `MaxRows` (2: a user deleted and made again),
`MaxTime` (3: an entry a day old), `MaxLate` (1: the write of one process that
lands between two of the other) and the supply of names, ids and tokens, the
only bounds on the length of behaviours. In `token_sessions` the supply of five
tokens can run out, which only stops `Put` and `Login`. In `machines_tasks`
there is a name for every attempt of both tasks (one try and one retry each),
so fairness is never blocked by the bound. `retry` counters are the code's own.
The clock of `RQControl` needs no bound: it keeps the times that are left, not
the time of day. Symmetry is used for requests, ids, commands and clients, and
in no run with a liveness property.

`CHECK_DEADLOCK FALSE` is set everywhere: a behaviour ends when all its
requests, runs, commands or clients are done. That nobody is stuck before is
what the liveness properties say.

**Fairness.** Only where a liveness property needs it: weak fairness of each
handler and of `Fire` in `WorkflowJobs` (an event loop resumes a coroutine whose
await has completed, libq's scheduler polls), of the worker's steps in
`NotebookRun`, of a control plane worker's steps on its jobs in
`ClusterMachines`, and of the server's loop and the client's loop in
`EventStream` (the blocking read has a timeout of its own). Each call a process
waits for has an answer or fails. A container is not fair: its notebook may
compute for ever, and that the run ends all the same is the property; the
server answers a worker that waits. The database breaks a deadlock
(`BreakDeadlock` is fair). `MaxLog` is part of what `ListenersEnd` says: a
stream that is published to for ever keeps its listeners. Nothing is assumed of
clients, publishers, failures, midnight or expiry.

## What is proved

All theorems hold for every value of the constants that satisfies the named
assumptions: sets of any size, any combination of faults. The assumptions say
only that absent values (`NoRow`, `NoName`, `Nobody`, ...) and the names of
states are outside the sets they complete, that fault names are known, that
bounds are natural numbers, that ids of different kinds differ, that two agents
start with different tokens, and that seconds, minutes and days are not empty.
TLC evaluates them on every run. The properties are about
stored state and are seldom inductive: whether a commit keeps them depends on
what its process did some steps ago and on nobody having interfered since. Each
proof module begins with the strengthening that says so.

- **WorkflowJobs** — `TypeCorrect`, `ScheduledRowsHaveJobs`, `JobsMatchRows`,
  `OrphanJobsHaveCauses`, `DanglingEntriesNeedRaces`, `DeletedStaysDeleted`,
  `ChangesAreAnswered`, `AliasesAreUnique`, `HandlersImplementTable`.
  `Handlers` says what a handler may rely on: a workflow being created is
  unknown to others (`Secret`, `Grounded`), open updates of a row exclude each
  other (`RowLock`), the stored job is its author's (`Author`, `Exclusive`),
  what was told is still there unless a delete began (`Told`, `Cleared`,
  `OffSchedule`). The refinement of `WorkflowTable` needs, on top, what the
  unique key does between a statement and its commit (`Keys`): a transaction
  that will write a row has the row's alias reserved in its project
  (`Reserved`), and two that write different rows have reserved different ones
  (`Apart`). Then a commit finds the alias as free as the statement did.
- **WorkflowPush** — `TypeCorrect`, `IdsAlwaysAgree`, `StrandedHaveCauses`,
  `DeletedStaysDeleted`. `Ids` says of every place where a wfid stands,
  requests under way included, which workflow it is with, and nothing of
  aliases; `Wired`, that a request under way has a
  command waiting for it or its workflow was cut; `Safe`, that while nothing else
  has happened there is one busy command, and it holds every wfid of the
  labfile it will write over.
- **NotebookRun** — `TypeCorrect`, `HistoryIsTrue`, `ContainersGo`,
  `OutcomesRecorded`, `OutputsHaveRows`, `ManualOutputsKept` and
  `HeardAtMostOnce`, the refinement of `RunHistory`, for all faults;
  `NoRunaway` without docker faults. The two processes share no variable but
  docker's, so the invariant ties, for every position of the worker, the
  container's state (`Hand`), says of every request under way what its sender
  has become (`OnWire`), and which side has written what (`Written`, `Posted`,
  `Reported`, `Stored`). The refinement has one lemma for each side
  (`ContainerRefines`, `WorkerRefines`), one for the kill by which they meet, and
  needs of docker and the server that a run is excused by a fault only if there
  are such faults (`Excused`).
- **Projects** — `TypeCorrect`, `ReferencesHold`, `SecretsAreReadable`,
  `CongratsAreTrue`, `ProjectsAppearWhole`, and `RegistryImplemented`: initial
  states of the detailed specification map to initial states of
  `ProjectRegistry` and its steps to steps or stutters. Open transactions have
  names and ids of their own (`Handled`, `Apart`: the unique index at work), a
  folder that has no answer yet has an id that no project has or will have
  (`Asked`, `Settled`), and a key on disk was made for the id it is stored
  under, which is never the server's (`KeysKept`).
- **EventStream** (in `NotebookRun_proofs`) — `StreamTyped`,
  `NothingLostOrRepeated`, `StreamImplementsFeed`. `Followed` holds of each
  listener that the events its client has seen, those sent and those read are
  in this order and, unless some expired, consecutive (`InOrder`, `Gapless`).
  The refinement has to say it of listeners that lost events too: every
  event up to the last one read is seen, sent or held, or has expired (`Whole`,
  with the positions in `Placed`). What the parser makes of a text is a
  constant of each event, so that the proof holds for every text.
- **RuntimeBuild** (in `Projects_proofs`) — `BuildsTyped`,
  `BrokenHaveFailures`, `MixedHaveOverlaps`, `SecretsAreExplained`. `There`
  follows a bundle from the zip through the upload, the worker and docker's
  names to the image that is kept, or a failure; `OfVersion` says of every
  place on that way that it holds a bundle of its version, unless builds met;
  `Left` and `Together` say whose secrets file lies in the working area and
  that commands or builds that are on their way together have met.
- **ClusterMachines** — `TypeCorrect`, `RegistryIsRight`, `KeysAreListed`,
  `StaleNamesExplained`, `CreatedAreListed`, `DrawnNamesApart`. The invariant
  follows debts: a machine touched by one job only is as that job left it
  (`Owed`), and a random name belongs to the job that drew it, through retries
  and abandoned threads, until it is registered (`DrawnOnce`).
- **TokenRefresh** — `TypeCorrect`, `ReplacedTokensDie`, `ForksAreRaces`,
  `SessionsIsolated`, `SessionsHandedOn`, and `ExchangesAreAtomic`, the
  refinement of `Sessions`. All holders of a token share a home
  (`Owned`), and a handler between its get and its put knows that its token is
  not exchanged by others unless they raced (`Exchanging`). The put is the step
  in which an exchange happens for `Sessions`; it is an `Exchange` or a `Fork`
  by whether another handler has put before it.
- **Accounts** (in `TokenRefresh_proofs`) — `AccountsTyped`,
  `WhatWasToldStays`, `ClaimsAreOfTheRow`, `GrantsReflectRows`,
  `ValidateComparesScopes`. What a request
  has read of a row is still in the row, and a row of the same name with other
  scopes is a later one (`Claims`); a login under way would be accepted by its
  row as it is now, unless it is marked late (`Reading`); a row's password is
  one of those told of it, and nothing has been told of rows to come (`Unspoken`). `Shaped` types the records that the type
  invariant leaves open. That `validate` agrees with its definition is an
  induction over the list of scopes (`LoopKeepsLast`: after k turns the
  dictionary holds, for each name, the permissions of its last scope among the
  first k); the induction is over the set of lengths for which this holds, whose
  complement would have a least element (`NatInductive`).
- **RQControl** — `TypeCorrect`, `HeartbeatsAreBounded`, `UnlistedHaveCauses`,
  `OrphansCrossed`, for every time to live and every period. `Beating` is the
  arithmetic of the two clocks: while the thread sleeps, its timer exceeds the
  key's by at most what the period exceeds the time to live; a thread that a
  failed set has ended promises nothing. `Listed` follows
  an agent through its registration and its end, `Uncrossed` a deletion between
  its two steps.
- **ResultCache** — `TypeCorrect`, `HitsAreRecent`, `PairsHaveCauses`, for
  every resolution of the clock and length of a minute and a day. `Stamped`
  says that no time that is kept, or may still land, is later than the result
  it was written with, `Paired` that what is kept is a pair unless a writer is
  between its requests or there is a scar, and `Sound` what each call has read.
  That an age which rounds to `valid_for_min` is at most that and half a minute
  is arithmetic of `Seconds` and `Round` (`Divide`, `DivideOrder`).

Only proved, with no run of their own: the type invariants,
`DanglingNeedsRace`, `NoResurrection` (twice), `AliasUnique`, `OutputHasRow`,
`NothingRunsOn`, `KeyIsListed`, `CreatedIsListed`, `ReplacedIsDead`,
`ForkNeedsRace`, `References` and `CongratsIsTrue`.

Only model-checked: the liveness properties (`EveryRequestAnswered`,
`ScheduledWorkflowRuns`, `EveryRunEnds`, `EveryJobEnds`, `ListenersEnd`), since
fairness and ENABLED are beyond the proof system used. Every other property of
a run is also a theorem.

## What the code does and its documentation does not say

Noticed while modelling. The models do what the code does; none of the
properties above claims the contrary.

Registry and scheduling:
- `models.py:181` says that `enabled` decides whether a task should run; the
  condition in the handlers is commented out (`web/workflows_bp.py:106,111`) and
  disabled workflows run.
- an `UPDATE` that meets the alias of another row is a 500
  (`managers/workflows_mg.py:145`): two workflows of a labfile whose aliases
  were exchanged can never be pushed, since each update meets the other's
  alias. An entry whose alias another workflow has is answered "already
  exists" for ever, without the wfid it would need.
- `workflow_delete` unregisters the job before it holds the row
  (`web/workflows_bp.py:169`): an update that crosses it registers the job
  again, and it stays. An update that takes the schedule away leaves the old
  job, and one of a missing row answers 201.
- `scheduler.py:43-50` returns a name that is not assigned for a missing or
  disabled workflow; line 48 looks the runtime up by None; line 106 enqueues
  under the bare name of the machine while agents listen to
  `<cluster>.<machine>`. `idle_agents_from_cluster`, `list_agents_by_queue` and
  `get_workers_from_q` of `control_plane/register.py` prefix a name twice. The
  heartbeat is set every 300 seconds and lives for 240; a set that raises ends
  the thread (`control_plane/heartbeat.py:25`), and the agent serves on without.

Execution:
- the output of a periodic run is stored under the day of the upload
  (`web/history_bp.py:111`), while its row and the client's path name the day of
  registration (`client/history_client.py:54`).
- with a registry, the image name is built from the whole runtime record
  (`notebooks/context.py:42`, `executors/nbtask_base.py:32`).

Sessions and accounts:
- refresh tokens are said to live for 7 days (`types/config.py:30`
  `REFRESH_TOKEN_TTL`, `types/security.py:19` `ttl_refresh_token`).
  `store_refresh_token` passes that time (`security/authentication.py:133`) and
  `RedisTokenStore.put` drops it (`security/redis_tokens.py:20-22`): a refresh
  token lives until it is exchanged.
- `update_tokens` keeps the spent refresh token although its comment says both
  are updated (`client/base.py:54-60`). `load_creds` overwrites credentials from
  the environment with those on disk.
- `projects_agent_token` speaks of the last agent created; `get_agent_project`
  has a limit and no order. The token of an unknown agent is a 500.
- `change_pass_async` compares with `==` where it should assign
  (`managers/users_mg.py:183`, not used); `scopes.validate` compares a set with
  0; `decode` passes audience and issuer under names the library ignores.

- a reset to the password that the row had when it was read is told "changed"
  and writes nothing; one that crosses it stands
  (`managers/users_mg.py:188-196`).

Client and cache:
- an event's text is not escaped (`events.py:66-78`): a blank line in it cuts
  the message, a later `data:` line replaces it and `data: exit` ends the client.
- `create_workflow` leaves its parameters unbound for a missing notebook and
  replaces an existing alias; the watcher never resumes at its last position;
  the client takes the 200 of a queued agent deployment for an error
  (`web/clusters_bp.py:52`, `client/cluster_client.py:34`).
- in `io/cache.py`, a miss of the local strategy returns None and the caller
  unpacks it (lines 74 and 131), line 70 replaces the data by the text of its
  time, the age is taken modulo a day and rounded to minutes (line 113), so that
  a result of half a minute more than `valid_for_min` is a hit, the key does
  not contain the arguments, and a result that is false is computed again.

## Not modelled, and why

- Notebook templates and Jupyter, configuration, the command line, server
  assembly, volumes and ssh: one call or read, with no state that two processes
  share; what they contribute to another component (a rolled back session,
  a provider's create) is in that component's module.
- The agent on libq, and libq itself: outside the repository; what the code
  expects of it is external in `WorkflowJobs`, `NotebookRun` and
  `ClusterMachines`.
- Database access and the migration beyond the constraints the modules cite;
  `calculate_page` is one expression.
- Random ids: assumed distinct. Machine tables: read and never written.
- Parts of modelled components: rendering of Dockerfiles and download of
  runtimes; the listing methods of both schedulers; signatures and audiences of
  tokens, `AUTH_ALLOW_REFRESH = False` and time zones (the server is taken to
  run in UTC); hashing of passwords; put and get of the stores, which are
  atomic except for the streamed upload.

## Plan

1. `WorkflowTable` in `WorkflowPush` in place of its own one-step handlers.
2. The remaining operations of partly modelled components: rqscheduler's listing
   and builds, the download of runtimes.
