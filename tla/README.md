# Cobalto: TLA+ models, checks and proofs

Cobalto is a platform for a security operations centre: services and Python
frameworks through which agents look at alerts, ask tools and people, and act.
This directory holds TLA+ models of the parts whose behaviour over time is hard
to test, the TLC configurations that check them on small instances, and TLAPS
proofs of the properties that matter most for every instance. Paths below are
relative to the repository's root; `AGENT` is
`frameworks/agent-sdk/src/cobalto/agent`, `MCP` is
`frameworks/mcp-bridge/src/cobalto/mcp`, `SOAR` is
`frameworks/soar-sdk/src/cobalto/soar`, `CONTEXT` is
`frameworks/context-engine/src/cobalto/context`.

To check a run: `tlc -config pool.cfg MCConnectionPool`; to check proofs:
`tlapm BridgeProofs.tla`. `PROJECT.json` lists runs, theorems, the lines
of the source every definition models, the bug variants (`Mut...`) with which
each property is seen to fail, and the hazards each property is there for.

## The system

| component | state | operations | what is hard |
|---|---|---|---|
| MCP tools and connection pool (`MCP/transport/pool.py`, `MCP/tools`) | per endpoint a client and a circuit breaker; a lock | `execute_request`: get a client, send, record; evict, reset, close | answers come back without the lock, while the breaker has moved on |
| MCP rate limiter (`MCP/middleware/rate_limit.py`) | four token buckets per request, two per client and two global | `check_rate_limit`, headers, `reset` | refilled only when looked at; a refused call stays charged |
| MCP server, registries, SSE (`MCP/server.py`, `MCP/registry`, `MCP/transport/sse.py`, `AGENT/tool_registry.py`, `services/langgraph/main.py`) | two tool dictionaries and a copy between them, call history, event queues per session | dispatch, register, copy, open a stream, post a message | handlers that overlap; sessions that close meanwhile; names registered on both sides |
| Approval service (`AGENT/approval.py`) | in Redis: a key per request with a TTL, a pending and a completed list | create, approve, reject, sweep timeouts | chains of awaited commands; expiry, crashes and other handlers between any two |
| Audit service (`AGENT/audit.py`) | in Redis, for each incident: events, an index of them, the hash to link the next one to | `log_event`, `verify_chain` | the link is read before and written after other awaits |
| Agent registry and supervisor (`AGENT/registry.py`, `AGENT/supervisor.py`, `services/langgraph/main.py`) | agents, capability index, routing rules | register, unregister, find, route, run an agent | stale index entries; ties; two ways of routing |
| Data mesh, agent and incident memory (`AGENT/datamesh.py`, `AGENT/memory.py`, `CONTEXT/memory.py`) | points of a vector store; Redis entries and lists | store, search, consolidate, remember, clear, forget, annotate, load | several requests one after the other, each of which may fail; other callers in between |
| Case service (`AGENT/case_service.py`) | none of its own (TheHive) | case, observables, comments | a sequence of requests that fail one by one |
| Playbook engine and versions (`SOAR/playbook.py`) | execution records; version lists in memory and in files | `execute`; save, list, revert | parallel actions and failure; restarts, torn files |
| SOC agent service (`services/langgraph-agent`) | one graph state per run | analyse an alert: triage, analysis, enrichment, response, gate, report | a routing graph with a cycle |
| OSCAR orchestration (`services/langgraph/agents`, `CONTEXT`) | the supervisor's one state | take an alert through phases; triage, analysis, intelligence, response | one state object shared by concurrent alerts; severity and approval decided in several places |
| Console authentication (`services/console-auth/main.py`) | users, hashes of refresh tokens, failed attempts | login, refresh, verify, logout | retries with old tokens, expiry, restarts |
| MDR operations (`services/cobalt-mdr-ops`) | analysts, shifts, case loads | assign, reassign, SLA and escalation | counts kept in step with assignments; asking late |
| Signed audit log (`services/langgraph-agent/middleware/audit.py`) | entries in memory | log, verify, hand out, clear | verification changes what it verifies |
| Energy monitoring, intel, vector, core SDKs, console UI | SQL rows; otherwise none | CRUD, queries, formatting, probes | I/O and conversions |
| Deployment, certification, docs, tests | | | |

How they interact: an agent calls a tool through the MCP server, whose
middleware limits its rate; the tool sends its request through the pool. What
an agent decides is written to the audit trail; what it must not do alone goes
through the approval service, whose requests a sweeper times out. Playbooks run
actions through handlers that call the same tools. The services are separate
processes: they share Redis, the vector store and TheHive, not memory. Inside
a process everything runs on one asyncio event loop, so code is atomic up to its
next await.

What makes each correct: a breaker that backs off and recovers; limits that
hold in every window; decisions that are made, made once and kept; a chain of
custody that breaks only when it should; executions that end, stop after a failure and
call success only what succeeded; a version history without holes; isolations that
are not waved through; refresh tokens that work once, logouts that are final;
alerts that reach an agent able to take them and are treated no more lightly than
they were rated; answers that reach the stream they belong to; memories that are
lost only when they should be, and forgotten when they should be; case loads that
are never understated.

## What is modelled

### ConnectionPool (`MCP/transport/pool.py`)

`entry[n]` is the pool's entry of endpoint `n` with its breaker, `call[c]` the
request a task is in, `up` the environment. A method under the pool's lock is
one action (`GetClient`, `RecordSuccess`, `RecordFailure`, `ResetBreaker`,
`Evict`); the wait for the network is the gap between `GetClient` and the
record; an eviction in that gap closes the client under the request (`stale`).
Failure count and time since the last failure saturate where the code compares them.

Two history variables follow what has been recorded: `streak` the failures in a row,
`barred` how long the endpoint is to be left alone, a cooldown from `Threshold` failures
in a row and from each failure within that time.

* `TrippedStaysGuarded`: while the endpoint is to be left alone the breaker is open,
  also if successes of requests sent before are recorded then; and as long as no success
  is, it is not closed.
* `BacksOff`: nobody is given a client while the endpoint is to be left alone.
* `OneProbe` is violated: see the findings. It also matters after a late success: that
  zeroes the count, a probe that then fails is a single failure, and the breaker stays
  half-open, where it admits everybody. So neither property speaks of the
  time after the cooldown.
* `RecoversWhenUp`: an endpoint that stays up is let in again.

### McpRateLimit and RateBudget (`MCP/middleware/rate_limit.py`)

A bucket is its tokens and the time since `last_refill`; `CheckRateLimit` makes
the four checks in the code's order, each refilling and charging its bucket
only if those before it were not short. `win` is a history variable that counts
admitted calls from an arbitrary instant. A token is `Cost` units, so that refills
leave fractions of a token, as the code's floats do.

`RateBudget` is what it promises: budgets that grow with every tick, of which a
call takes its share. `KeepsBudgets` checks that the limiter implements it, with each
budget mapped to what its bucket would hold if it were refilled now.

* `WindowBounded`: in every window the admitted calls of a client, and of all,
  stay within burst plus refill and within the hour's budget.
* `SomeAdmitted`: clients that keep calling are not all locked out, although
  refused calls are charged to the earlier buckets.

### ApprovalService (`AGENT/approval.py`)

`rec[r]` is the Redis key with its TTL, `pending` and `completed` the lists,
`task[t]` the handler an analyst or a sweeper is running. Each Redis command is
one action, and Redis may raise (`Fail`) or drop an expired key (`Vanish`)
between any two. `approve_request` calls `datetime.fromisoformat` on an
`expires_at` that is a datetime already and raises before it writes, which is
`ApproveRaise`; so a request is only ever rejected or timed out.

* `ListsFollowRecords` (`CompletedIsDecided` and `LeftPendingIsDecided`): the
  lists never run ahead of the record, also after failures half-way.
* `DecisionsStand`: a stored decision is not lost to a TTL or a creation, and a rejection
  that is off the pending list and in no running sweep's listing stays a rejection. A
  sweep never looks at the status: one that listed the request before the rejection's LREM,
  or after an LREM that failed, writes its time-out over it. `reject_request` looks neither at
  the status nor at the deadline and writes a rejection over a time-out at any time, so
  nothing more can be said of time-outs.
* `ListsAgree`: with no failure and no handler at work, record and lists agree.
* `SweepSettles`: an expired request is decided by some sweep, unless Redis
  drops its key first.

### AuditChain (`AGENT/audit.py`)

`log_event` of one incident as its four Redis commands by several writers, the 90-day TTL, and
`verify_chain` on what `get_incident_events` returns.

* `LinksLeadBack`: a link leads to an older event that is in the index.
* `BrokenOnlyByFork`: as long as no two indexed events link to the same
  predecessor the chain verifies, whatever expired or failed.

### PlaybookEngine and PlaybookVersions (`SOAR/playbook.py`)

One `execute`, with each action's coroutine in `co[a]`; a handler is awaited, so
parallel actions interleave. The version manager has its list, the file, and the
aliasing of the variables dict. A save appends to the list before it writes:
`SaveFails` is a write that raises and is survived, which leaves the list ahead of the
file, and `CrashInSave` one the process dies in, which leaves a truncated file. `saved`
has every call of `save_version` and whether it returned, and an entry's `no` is the call it
was made by.

* `StepsAreBarriers`, `NothingStartsAfterFailure`, `CompletedIsClean`,
  `ExecutionEnds`.
* `HistoryIsSound`: what is listed are saves as they were made, in their order, and from
  the first listed one on none that returned is missing (`ListingTells`); when the newest
  listed one returned, the file has the list (`MemoryIsOnDisk`).
* `ListedStaysOnDisk`: a save takes nothing out of the file that its process had read.
* `AllVersionsListed` is violated: the first save after a restart begins a new list.

### AgentPipeline (`services/langgraph-agent`)

One alert from the request to the answer, with the graph's nodes and routing and
LangGraph's recursion limit (external). Alert levels, keywords, addresses and the
enrichment's outcome range over everything the validator and the tools let through.

* `PlansAreSound`: what the gate and the routing guarantee of plans and reports
  (`IsolationIsHeld`, `ReportIsCleared`, `IsolationHasTarget`).
* `EveryRequestAnswered`.

### ConsoleAuth (`services/console-auth/main.py`)

Handlers do not await and are atomic. `pairs` are the token pairs ever issued,
`store` the hashes the process keeps, `attempts` the limiter's lists with the
ages of their entries; `wrong` is a history variable with every password that was
checked and found wrong.

* `SingleUse`: a refresh token is exchanged at most once.
* `LogoutShutsOut`: after a logout with the current token nothing of that login
  is accepted any more once its access tokens have run out.
* `GuessesBounded`, `LimitEnds`: the limit holds, and it ends.

### SilverAgents and OscarSupervisor (`services/langgraph/agents`, `CONTEXT`)

`SilverAgents` has no variables: for each agent it is the set of results a run
may end with, over everything its tools and its 5-layer context may answer
(`TriageOutputs`, `AnalysisOutputs`, `ThreatLevel`, `ResponseOutputs`). An alert is
what the agents branch on. `OscarSupervisor` is the `MagentaSupervisor`: `state`
is its one `_state`, `at[a]` where the coroutine of alert `a` is, `turn` who has the
event loop. A phase without an agent goes on without a break; while an agent
runs, another alert may start and replace the state. `overlapped` is a history
variable with the alerts that happened to.

* `TreatedAsRated`: an alert that had the supervisor to itself, and the one that started
  last, is answered about itself (`OwnAnswers`). One that had it to itself goes through
  collect and analyze exactly when its triage rated it medium or more
  (`PipelineFollowsTriage`); a triage that completes never rates it below its own fields,
  whatever tools and context answer (`TriageNeverLowers`); and if its fields ask for
  medium or more and it goes without, its triage failed, or there is no triage agent and
  its severity is not stated (`LightOnlyUntriaged`). A failed triage does mean
  that: a critical alert then skips collect and analyze. An alert that another one ran in the middle of may be answered about the other: of it
  only `EveryAlertAnswered` says something.
* `ContainmentIsHeld`: isolating the host of a high alert is planned and waits for
  approval; no plan runs a high-risk action on its own.
* `EveryAlertAnswered`: every orchestration returns, also one whose state was taken.

### AgentRouting and AgentService (`AGENT/registry.py`, `AGENT/supervisor.py`, `services/langgraph/main.py`)

`agents` is the dictionary in order of registration, `index` the capability
index, `decision` what this step decided. `RouteViaRegistry` counts the matches of
the required capabilities by agent type, in the code's order with its ties;
`RouteViaMapping` is the table used without a registry. `AgentService` adds the
service's startup and the endpoints that route an alert (`Analyze`,
`GenericWebhook`, `N8nCallback`, `WazuhWebhook`) or run an agent.

* `IndexFollowsAgents`: an agent is found under every capability it offers, and
  under one it does not offer only if it gave that up by registering again.
* `RoutesSoundly`: a decision through the registry names the type of an agent that
  is registered and found for a capability the alert requires; without one, a severe
  alert goes to the analysis.

### McpRegistries and McpServer (`MCP/server.py`, `MCP/registry`, `MCP/transport/sse.py`, `services/langgraph/main.py`)

The legacy and the unified tool registry as sets of tools, the copy made at
startup, the audit trail of executions. `McpServer` takes messages over the
service's endpoints, the package's own SSE transport or stdio. A message is one step,
except that a handler that awaits something else is two: `Receive` and `Return`, with
anything in between. `session[s]`, `queue[s]` and `sent[s]` are a session's stream.

* `CopiesAreFaithful`: a copied tool keeps its function, mark and tags, whatever is
  registered on either side.
* `StreamsCarryTheirAnswers`: a stream carries the answers of its own session, each
  once, and all of them while it is open.
* `EveryRunIsAudited`: one entry per tool run that ended, with its outcome.
* `EveryMessageAnswered`: over HTTP, and over the stream if that stays.

### DataMesh, AgentMemory and IncidentMemory

`DataMesh` (`AGENT/datamesh.py`, `MCP/tools/memory.py`): `points` is the vector
database, each point with the memories whose content it `holds`; a consolidation is a
job of one request per step, which may fail with or without effect or be cancelled.
Similar vectors are those of one class; the code's placeholder embedding is
similar to nothing. One consolidation runs at a time: two that overlap can delete
each other's merged points, since ids are derived from a first memory's.

* `ConsolidationKeepsContents`: contents are lost only by archiving what is twice the
  age limit, or when the merged point's id is that of a memory it replaces.

`AgentMemory` (`AGENT/memory.py`): the Redis keys and the history list, command by
command for concurrent tasks, and the long-term points with their hashed ids.

* `ClearedIsForgotten`: what was remembered before a clearing that succeeded began is
  under no key and in no list of ids afterwards. Nothing of the kind holds of `forget`: its
  answer says that the request returned, and an id from a recall, or one that another
  process hashed, removes nothing.

`IncidentMemory` (`CONTEXT/memory.py`): the runs (RPUSH, LTRIM) and the annotations
(GET, SET) of one incident with several writers, failures and crashes.

* `MemoryIsLoaded`: agents load the newest runs without a gap, and annotations are
  lost only to races.

### CaseService, MdrDesk, SlaTracking, AuditLog

* `CaseService` (`AGENT/case_service.py`), `ReturnedCasesAreWhole`: a case has all of
  its alert's first indicators but those whose own request failed, or none if the answer to
  its creation had no "id".
* `MdrDesk` (`services/cobalt-mdr-ops/scheduling.py`), `NobodyLooksFreer`: no analyst
  counts fewer cases than alerts are assigned to it.
* `SlaTracking` (`slas.py`), `EscalationKeepsUp`: asked however late, escalations come
  in the order of their levels and none is left out; no breach is without one.
* `AuditLog` (`services/langgraph-agent/middleware/audit.py`), `AlarmsAreReal`: a
  verification that succeeds means an unchanged entry; one that fails means a changed entry, one
  verified in place before, or a line of the log stream. `FalseMeansTampered`, without those
  two, is violated.

`MCSupport` puts these and the memories into one run. They share no state, so a
behaviour uses one of them (`used`), chosen at the start.

## Runs

| run | module | bounds | shows |
|---|---|---|---|
| `pool` | `MCConnectionPool` | 3 callers on 2 endpoints, threshold 2, cooldown 2 | breaker and pool, safety and recovery |
| `rate_limit` | `McpRateLimit` | 2 clients, half-token refills, windows of 3 ticks | limits, refinement of `RateBudget`, no lockout |
| `console` | `MCConsole` | 2 requests, an analyst, a sweeper, 2 faults; 4 token pairs, 2 failures a window, expiry, restarts | approvals: lists, decisions, time-outs; sign-in: tokens and limits |
| `audit` | `AuditChain` | 2 writers, 3 events, failures at every point, a limit of 2 | links, and what can break a chain |
| `playbook` | `MCPlaybookEngine` | 4 steps, 1 parallel, an action without a handler, conditions; 3 saves, 2 edits, restarts, failing writes and crashes | order, failure, completion, end; the history, and what a save takes from it |
| `oscar` | `MCOscarSupervisor` | 2 alerts of 3 kinds, 4 rosters, every answer of the tools | phases, ratings, containment, answers |
| `agents` | `MCAgentService` | the 4 agents of the service, 2 that come and change, 6 alerts; all levels, LangGraph's default limit of 25 | index and routing; gate, reports, answers |
| `mcp` | `MCMcpServer` | 3 transports, 2 sessions, 2 messages of 5 kinds, a reload and two tools an agent registers, one of them under a new name | copies, streams, audit, answers |
| `support` | `MCSupport` | see the configuration; at most 3 of anything | memories, cases, desk, escalation, signed log |

All of these pass. `MCConsole`, `MCPlaybookEngine` and `MCAgentService` put two modules that
share no state into one run, one after the other or one per behaviour, so that their states
add up instead of multiplying. Three more runs end in a counterexample: each checks what a
comment says and the code does otherwise (`findings` in `PROJECT.json` quotes both).

| run | module | property | what is said | what happens |
|---|---|---|---|---|
| `one_probe` | `MCConnectionPool` | `OneProbe` | half-open is for one probe (`MCP/transport/pool.py:22`) | a second caller is let in while the probe is under way |
| `log_verify` | `MCSupport` | `FalseMeansTampered` | False means tampered with (`services/langgraph-agent/middleware/audit.py:340`) | an unaltered entry read back from the log stream fails |
| `versions_restart` | `PlaybookVersions` | `AllVersionsListed` | all versions are got (`SOAR/playbook.py:220`) | the first save after a restart overwrites those before |

The type invariants (`TypeOK`, `RoutingTypeOK`, `RegistriesTypeOK`,
`MeshTypeOK` and their like) are not listed with the runs, so that each run's list
holds only what could go wrong; all of them are proved (`TypeCorrect` and its like, below).

Why the bounds suffice: two callers on one endpoint are enough for an answer to
arrive after the breaker moved, a third keeps another endpoint busy; a fork
needs two writers, and a third event shows what is linked after one; a decision
needs at most an analyst and a sweeper on one request, and a second request
shows that one sweep's failure does not touch the other; a refresh chain of
four pairs has two logins, each with an exchange, or one with three; in three
ticks the hour's budget becomes the tighter one. Two alerts are enough for one to
replace the other's state; an agent that registers twice and a second of its type
give stale entries and ties; two messages overlap, in one session or in two; three
memories make a cluster of two and one that is left, and `MaxMerges` of 2 merges a merged
point again; `MaxNow` of 2 is the age at which memories are archived; six runs
exceed the three that are kept by as many as two writers can be behind. In `support` shifts
last an hour of a day of three (`ShiftHours`, 8 in the code), two of them may
overlap, and `Assign` stops raising a counter past the number of alerts. `CHECK_DEADLOCK FALSE` is set
where the modelled thing ends: a run, an execution, a bounded number of events,
saves or requests.

### Fairness

* `pool`: tasks whose step is enabled run (the event loop and a first-come
  first-served lock), time passes. Outages, resets and evictions are free.
* `console`: handlers of approvals that have started run on and the sweep is called again;
  nothing is assumed of analysts, of time or of Redis, except that it fails finitely often.
* `playbook`: the event loop runs what can run; a handler that is called ends. The
  code has no timeout, so without that an execution may wait for ever.
* `agents`: an accepted request of the pipeline is driven to its end by its handler.
* `oscar`: agents return (their tools have timeouts) and the event loop resumes what
  is ready; nothing forces an alert to arrive.
* `mcp`: a function that is run ends, and the server resumes the streams that have
  something to send. Clients need not read, stay or come.
* `console`, sign-in: time passes. `rate_limit`: time passes and clients keep
  calling, which is the condition under which a lockout would show.

## Divergences

Where the code does something else than a doc, a comment or a test says, or than
its author can have meant; all of it is in the models as the code has it.

Chains, approvals, playbooks and the pipeline:

* Two `log_event` calls of one incident that overlap read the same last hash
  (`AGENT/audit.py:130`), and `verify_chain` is false though nobody touched anything;
  `AGENT/audit.py:79` has "Chain of custody via hash linking". This fork is the
  condition of `BrokenOnlyByFork`.
* `approve_request` raises a `TypeError` on every live request before it stores
  its decision (`AGENT/approval.py:337`; `:320` says it approves).
* HIGH and CRITICAL alerts go round between gate and analysis until the recursion limit
  and are answered 500 (`services/langgraph-agent/graph/__init__.py:37`;
  `services/langgraph-agent/main.py:324` says "Returns a comprehensive incident report
  with response actions.").
* The first save after a restart overwrites the version history
  (`SOAR/playbook.py:208`; `:6` has "Version tracking with history"); registering a playbook at
  startup is such a save.
* A half-open breaker admits every caller, not one probe (`MCP/transport/pool.py:22`
  and `:67`); a success recorded while it is open zeroes the count, after which a failed
  probe leaves it half-open.
* A rejection is overwritten by a sweep that listed the request before (`AGENT/approval.py:420`),
  a time-out by any later `reject_request` (`:382`).
* An approval's key lives exactly as long as its deadline
  (`AGENT/approval.py:146`), so a sweep rarely finds an expired request: the
  time-out is then not recorded and the id stays on the pending list (`:405`, `:417`).
* A crash between the index and the last hash makes the next event link past
  an indexed one (`AGENT/audit.py:156`).
* The gate approves by severity alone, so a quarantine planned for a MEDIUM
  alert is waved through; `docs/dtp/ai-ethics-soc.md:47` asks for a person.
* `requires_approval` of a playbook action is parsed and never read
  (`SOAR/playbook.py:10`, `:551`; `docs/architecture/playbook-engine.md:31`).
* `PlaybookStatus.FAILED` does not exist (`SOAR/playbook.py:538`): a failed
  execution raises `AttributeError` in its failure branch and stays active.
* A snapshot shares the variables dict with its playbook (`SOAR/playbook.py:139`).
* Login attempts are limited per address and user name, not per address as
  `services/console-auth/main.py:332` says; a list of attempts is never removed.
* Levels above 4 read as LOW (`services/langgraph-agent/api/__init__.py:8`), while the
  validator lets levels up to 16 through.

OSCAR and routing:

* `services/langgraph/main.py:118` uses `unified_registry`, which is not defined there, so
  that the lifespan as written does not complete. The models have the registry of the line above.
* `json.dumps` of a datetime raises in `CONTEXT/context_package.py:167`, so that an agent that
  builds its context with the production builder fails and a failed triage reads as
  informational; `docs/architecture/supervisor.md:95` has it otherwise. The
  `oscar` run uses an injected port, under which agents complete (`Builder`).
* One `_state` per supervisor: an alert that was overlapped may be answered about
  another (`services/langgraph/agents/supervisor.py:100`). `run_orchestration` makes a supervisor
  per call, so that nobody in the repository shares one;
  `docs/architecture/supervisor.md:63` and `:141` (ten at a time) suggest it.
* OpenCTI answers are turned into the text of a Python dict and parsed as JSON, so that
  data is dropped and only "nothing" counts as a correlation; the intel agent is never given
  indicators; `_basic_triage` ignores the rule level; the response to an alert rated low
  always fails, and the result is "completed" all the same; the rollback plan covers
  actions that were held.
* Routing rules are kept and never evaluated (`AGENT/supervisor.py:186`). With a registry, a
  severe alert with indicators may go to triage. The Wazuh webhook's keys are not those the
  supervisor reads (`SOAR/webhook_wazuh.py:38`), so every such alert is informational.

MCP:

* `/mcp/tools/{name}/call` goes past the unified registry and its audit trail;
  `requires_approval` of a tool is enforced nowhere; nothing asks for `initialize`.
* A request whose id is 0, and every exception, is answered with the id `""`; a refused
  sampling is wrapped as a success; a tool that raises `KeyError` is answered in the words for one that is
  not found (it ran, and its run is in the audit trail as failed).
* A tool that is registered again is not copied again and keeps its old tags
  (`MCP/registry/sync.py:64`, `AGENT/tool_registry.py:163`).
* The package's SSE generator is handed to a background task and never runs; in the
  service a client that leaves before its stream starts leaves its session
  behind for ever (`services/langgraph/main.py:667`).

Memories, cases, desk, log:

* The data mesh awaits a blocking client, so that a request takes effect and then raises; a
  scroll without vectors, or placeholder embeddings, clusters nothing; `memory_search` asks with a
  zero vector (`MCP/tools/memory.py:129`), which no point matches with the score of 0.7 that
  `search` asks for; an episodic memory of the domain
  siem is looked for in alerts only; consolidation relabels other domains' memories and
  skips archiving when fewer than two are old.
* An id from a recall is hashed once more by `forget`, and another process hashes with
  another seed: both forget nothing and return True. `forget` awaits a
  blocking client as well, with which it returns False after it did delete. Long-term memories without an embedding are not stored.
  Overlapping annotations lose one (`CONTEXT/memory.py:151`).
* Cases made from alerts are always P3 and "informational" becomes medium; a creation
  that is tried again makes a second case; failed observables are reported to nobody; a case
  whose answer names it only by `_id`, as `/api/v1` and the repository's mock do, gets none
  (`AGENT/case_service.py:357`).
* `assign` asks neither whether the analyst is available nor whose the alert was;
  `assign_from_pool` finds nobody when all scores are negative, available or not.
* `verify_signature` removes the signature from the entry it is given
  (`services/langgraph-agent/middleware/audit.py:342`), and no line of the log stream verifies, since
  the formatter adds fields nobody signed (`:42`); `log_tool_call` names a logger that is
  not there when metrics fail.

* `docs/architecture/service-architecture/cobalt-mdr-ops.md:9` has other terms than
  `services/cobalt-mdr-ops/slas.py`, and other rules (`:37`: a P3 alert that is not contained escalates
  by itself; warnings at 80%); `SlaTracking` has those of `slas.py`.

## What is proved

For every value of the constants that satisfies the modules' named assumptions. Every
invariant and every action property that a run checks is the subject of a theorem; what
the runs alone show is liveness.

| module | theorem | says |
|---|---|---|
| `BridgeProofs` | `TypeCorrect`, `TrippedGuarded`, `BacksOffAlways` | the pool: for a cooldown after failures in a row the breaker is open and nobody is let in, late successes or not |
| | `RegistriesAreSound`, `CopiesAlwaysFaithful` | the registries: where their tools come from; copies keep what they were |
| | `ServerTypeCorrect`, `StreamsAlwaysCarryTheirAnswers` | the server: streams carry their own answers, none twice, all while open |
| | `RunsAlwaysAudited` | as many entries of a tool and an outcome as runs |
| `ConsoleProofs` | `TypeCorrect`, `CompletedAlwaysDecided`, `LeftPendingAlwaysDecided`, `ListsAlwaysFollow`, `DecisionsAlwaysStand` | approvals: lists never run ahead of decisions; decisions are not lost, rejections no sweep has listed not undone |
| | `ListsAlwaysAgree` | with no failure, and nobody at work on a request, record and lists agree |
| | `RotationIsSingleUse`, `LogoutIsFinal` | no refresh token is exchanged twice; a login that is out stays out |
| | `GuessesAlwaysBounded` | no more wrong passwords in a window than the limit |
| | `AuthTypeCorrect` | types; the limiter's lists never outgrow the limit, purged or not |
| `AuditChainProofs` | `TypeCorrect`, `LinksAlwaysLeadBack` | links lead to older, indexed events |
| | `OnlyForksBreak` | without a fork the chain verifies, whatever expired, failed or crashed |
| | `SingleWriterVerifies` | with one writer that does not die between LPUSH and SET it always verifies |
| `PlaybookProofs` | `TypeCorrect`, `StepsAlwaysBarriers`, `CompletedAlwaysClean`, `NothingEverStartsAfterFailure` | order, completion and failure in every playbook |
| | `VersionsTypeCorrect`, `HistoryAlwaysSound`, `ListedAlwaysStays` | listings tell the history, the file has them, and a save takes nothing from it that was read |
| `AgentProofs` | `TypeCorrect`, `PlansAlwaysSound` | the gate and the routing of the pipeline, for every alert and recursion limit |
| | `ServiceTypeCorrect`, `IndexAlwaysFollows`, `DecisionsAlwaysSound` | agents are found by what they offer; decisions name one that can |
| `OscarSupervisorProofs` | `TypeCorrect`, `AlwaysTreatedAsRated`, `ContainmentAlwaysHeld` | OSCAR: alerts alone are treated as rated, more lightly than their fields ask for only untriaged; containment is held |
| `McpRateLimitProofs` | `TypeCorrect`, `WindowAlwaysBounded` | nobody is admitted beyond its budget and income, in windows of any length |
| | `BudgetsAlwaysKept` | buckets refilled on demand implement `RateBudget` |
| `SupportProofs` | `DeskNeverLooksFreer` | case loads are never understated, for any roster and finitely many alerts |
| | `AlarmsAreAlwaysReal` | verdicts on log entries, their copies and their lines, for any number of them |
| | `CasesAreAlwaysWhole` | returned cases have every observable whose request did not fail, or none if unnamed |
| | `ClearedIsAlwaysForgotten` | what was cleared is found nowhere |
| | `MemoryIsAlwaysLoaded` | agents load the newest runs, and every note that was not in a race |
| | `MeshTypeCorrect`, `ContentsAlwaysKept` | consolidations keep contents |
| | `EscalationAlwaysKeepsUp` | escalations in order, none left out |

The components of `support` are proved one by one, each of its own initial states and
steps: that is stronger than the composition, in which only one of them moves.

Assumptions. The modules' own say what the constants are (numbers, sets that are
apart), and TLC evaluates them in the runs. Those that say more: `CaseAssumption` (an
alert's indicators are a list), `RoutingAssumption` (the built-in agents have different
ids), `RegistriesAssumption` (the imports register a
tool name once, and registrations of one name are told apart by `rev`), `ServerAssumption`
(`"none"` is no session), `OscarAssumption` (which actions the policy holds as high-risk, and that
an alert type's own responses are not among them), `StepsApart` (an action is in one step),
`WindowIsKept` (what an agent loads fits in what Redis keeps), `AgesAssumption`
(ages are numbers), `MeshAssumption` (so is the last day), `RosterAssumption` (rosters consist
of the Silver agents). Theorems with hypotheses of their
own have them in their ASSUME: finitely many alerts for the desk, a history size that is
a number for the agent's memory, a single writer that does not crash for
`SingleWriterVerifies`.

Each rests on an inductive invariant:

* Pool: `TrippedStaysGuarded` becomes inductive with what ties a breaker to what was
  recorded (`Heeds`): its count is that of the failures in a row, and while the endpoint is to
  be left alone it is for what the cooldown has left. The work is in lemmas about one breaker,
  one per method of the class, and `BreakerHeeds`.
* MCP registries: `RegistriesInv` says where the tools of each registry come from (the
  unified one holds copies of registered tools and the agents' own) and that the tags of
  a tool that is there lead to it; `CopiesAreFaithful` alone says nothing of a tool whose
  original was replaced.
* MCP streams: `StreamsInv` says that what a stream carries is due to it (`Due`), that no
  two positions carry the same message's answer, that what is due is carried while the
  session is not gone, and that a message names only a session that was opened before.
  Sending moves an answer from the queue to what was sent, which leaves their
  concatenation as it is.
* MCP audit: `AuditInv` has, per tool and outcome, the number of entries equal to the
  number of answered runs; a step adds one to both or to neither. That the answered
  messages are finitely many is part of it.
* Approval: a list may only be written after the record, and only one action
  writes the record. `WrittenIsDecided` says where in a handler the decision is
  stored already, `DecisionsPersist` that a decided record has no TTL left to
  die of, `HeldIsCreated` and `UncreatedIsAbsent` tie handlers to existing
  requests. `DecisionsStand` follows from them step by step, its second half since a sweep
  only takes a request in hand from the pending list and no step puts a decided one back on. For `ListsAgree`: lists and handlers know
  of a request only after its creation returned (`Announced`), so nothing is pushed on
  the pending list after it was taken off; and as long as nothing failed a decided
  request is on the completed list, or some handler has still to take it off the one
  and put it on the other (`Agreed`).
* Audit: `HashesAnchored` says that every hash a writer holds, or that Redis
  holds as the last one, belongs to an indexed event; `WritersOwnEvents` says
  which event a writer is storing. For one writer the index is the chain itself
  (`IndexIsChain`) and what has expired is a prefix of it (`AliveIsTail`). For
  `BrokenOnlyByFork`: events are stored in link order and expire in storage order
  (`AliveInLinkOrder`, `StoredOutlives`), and while there is no fork three orders are one, that
  of the index, of the links and of storage (`LinedUp`); what is left to verify is then a
  run of the chain.
* Console tokens: `ParentsOlder` (a pair descends from an older one, so a new pair is no
  pair's parent) and `StoreIssued` make `SingleUse` inductive. The pairs of a login are the
  smallest set that is closed under exchange (`Line`): with none of them in the store
  nothing is exchanged for one, so the set does not grow, and ages do not fall.
* Console limiter: `LimiterSeesAll`, what the limiter's list has left of a key once it is
  purged is exactly the wrong passwords of the window. The list is ordered by age, and
  how many are expired is a cardinality (`OrderedIsSplit`), which needs no induction.
* Rate limit: `AccountsHold` has calls admitted in the window and what a bucket still
  holds, together, within size and income; `WindowBounded` alone is not inductive, since it
  says nothing of what is left. Every step changes an account by `Spend` or by `Earn`.
  For the refinement, `AgedEarns` shows that a bucket whose clock has stopped is full, so
  that each tick is an `Earn` of `RateBudget`; what a call finds in its buckets decides,
  for the limiter and for the budgets alike, which of them it is charged to.
* Playbook: behind the current step everything is over (`PastIsOver`), in front of it
  nothing has begun (`FutureIsUntouched`), and a coroutine's state says what it has left
  in the results (`ResultsFollow`). A failure is then always in the current step.
* Versions: `HistoryInv` has both lists, that in memory and that in the file, tell the
  history (`Tells`), and the file have the list as of the last save that returned: a save that raised
  leaves it behind. In particular the file ends with a save that returned.
* Pipeline: the graph has a cycle, so the invariant says for each node which severities
  reach it (`Rated`), what may have been planned (`PlansFit`) and what the gate was given
  and let through (`Gated`).
* Agents: `RegistryInv` has ids apart (`IdsApart`), every agent in the index under all it
  offers (`Indexed`) and every index entry explained (`Traceable`: its agent offers the
  capability, or gave it up by registering again). A decision counts matches in the index,
  so that `BestOf` a set of candidates that is not empty is one of them.
* OSCAR: `OscarInv`. Plans are held in every state (`PlansHeld`), also when
  orchestrations overlap; the phase order and the results of an alert are known only
  while it has the supervisor to itself (`AloneInOrder`), where nobody else waits or runs;
  an alert under way that nobody took the state from is the one the state is about (`Owned`).
* Desk: the number of alerts assigned to an analyst is at most its counter, and the two
  move together; a reassignment takes an alert from one set and adds it to another,
  which needs the alerts to be finitely many. Log: an entry has all it was signed with and no
  more, and its signature unless a verification in place took it (`Honest`).
* Cases: a creation under way has accounted for every indicator before its next one
  (`CreationsOnTheirWay`), by an observable or by a request that failed, and no step
  takes either back (`Grows`); a case without a name is in no creation, so that nothing is added
  to it (`UnnamedAreBare`).
* Agent memory: an entry is remembered once, is in one store at most and, when it is to be
  forgotten, on its way into none (`EntriesApart`); a clearing has in hand the keys of all
  that it still has to delete (`ClearingsReach`).
* Incident memory: the list holds the newest runs without a gap, and enough of them
  (`NewestRunsKept`), though a trim may come after other pushes; without a race at most one
  writer has read the notes and what it read is what is there (`ReadIsCurrent`).
* Data mesh (`MeshInv`): a merged point's id ends with the memory it began with, which
  determines its vector and its collection (`OneOrigin`). Merged points are as old as the
  age limit, so that a consolidation that finds a similar one has read it
  (`SeenByCluster`); what it read is unchanged if it is still there (`ReadIsThere`). An
  upsert then overwrites at most a point of the same cluster, whose contents the new one
  has, and when the originals are deleted the point that stands for them is there
  (`MergedIsStored`) or is one of them, which is the exception the property names.
* Escalation: the level handed in counts the escalations given (`LevelCounts`), and the
  first rule above it is the next one (`NextLevel`), since no rule is due before those
  below it; the first is due before any term has run out (`BreachIsDue`).

Only model-checked: the liveness properties `RecoversWhenUp`, `SweepSettles`,
`EveryRequestAnswered`, `ExecutionEnds`, `LogoutShutsOut` (its safety half is
`LogoutIsFinal`), `LimitEnds`, `SomeAdmitted`, `EveryAlertAnswered` and
`EveryMessageAnswered`, since the prover reasons neither about fairness nor about ENABLED.
No module uses a RECURSIVE operator.

## What is not modelled

`PROJECT.json` lists every component with its reason. In short: conversions
and formatting (webhooks of other sources, the playbook DSL, reports, STIX), single
requests to other systems (SOAR integrations and workflows, intelligence, vector and core
SDKs, MCP tools the service does not import), configuration, metrics, authentication
middleware and probes, energy monitoring and other database CRUD, browser code,
deployment and documents.

Of modelled components: `get_pool` and `close_pool` (a singleton closed under tasks that
still hold it); what `memory_get_recent` lists; a clock that is set back, in the rate limiter; sharing and statistics of the
data mesh, and consolidations that overlap; the intelligence layer of the context engine,
which answers from outside; artifacts and comments of cases; reports of the MDR service;
notifications and sampling of the MCP server, for which nobody registers a handler.

Hazards of those parts, and smaller ones that are not in `PROJECT.json`'s list:
checkpoints nobody removes (`services/langgraph-agent/graph/__init__.py:83`), two saves
under one version string (`SOAR/playbook.py:236`), every caller of a half-open breaker
admitted (`MCP/transport/pool.py:62`), an LPUSH that fails after the SETEX of a new request
(`AGENT/approval.py:151`), levels that read as LOW
(`services/langgraph-agent/api/__init__.py:8`), a `requires_approval` that is never read
(`SOAR/playbook.py:574`), attempts that are never removed
(`services/console-auth/main.py:232`), sessions left behind
(`services/langgraph/main.py:667`), a reset that refills one client
(`MCP/middleware/rate_limit.py:160`), variables shared with a snapshot
(`SOAR/playbook.py:139`). In the models that cover them, they are as the code has them.

## Plan

Done, in this order: pool, approval, audit, playbooks, pipeline, authentication, rate
limits; then OSCAR with the Silver agents, routing with the agent service, the MCP
registries with the server and its streams, the memories, cases, desk, escalations and
the signed log. The runs are one per question; what belongs to one service is composed in
one module (`AgentService` on `AgentRouting`, `McpServer` on `McpRegistries`,
`OscarSupervisor` on `SilverAgents`).

Left to model: the pool's singleton, composed with `ConnectionPool`; overlapping
consolidations of the data mesh; the playbook DSL's conversions against a reference
definition, if they ever decide more than a condition's outcome.

Theorems to prove next: the safety halves of the other liveness properties, step by step
(a limited key's list does not grow, what an orchestration has left to do gets less); the refinement
of an abstract register of decisions by `ApprovalService`.
