------------------------------ MODULE McpServer --------------------------------
(***************************************************************************)
(* MCPServer.handle_message behind its transports: the /mcp endpoints of   *)
(* the LangGraph service, the SSE transport of the MCP bridge and stdio.   *)
(* A message is received, handled and answered in one step of the event    *)
(* loop, except that a tool, resource, prompt or sampling handler that is  *)
(* run suspends it.  An answer goes back over HTTP and into the event      *)
(* stream of the session the message names, if that is open when the       *)
(* handler is done.                                                        *)
(***************************************************************************)
EXTENDS McpRegistries

CONSTANTS
  Transport,   \* the transports tried: subset of {"service", "package", "stdio"}
  Session,     \* session ids
  Post,        \* messages that may be posted, each once
  Messages     \* what they may say: [method, id, arg]

ASSUME ServerAssumption == "none" \notin Session

VARIABLES
  transport,     \* the transport in use
  session,       \* "new", "waiting" (entered, no stream yet), "streaming" or "gone"
  queue,         \* the answers put for a session and not yet sent
  sent,          \* what its stream carried
  post           \* each message: where it is, what it says, how it was answered

sessions == <<session, queue, sent>>

serverVars == <<registries, transport, sessions, post>>

NoPost == [at |-> "new", message |-> [method |-> "none", id |-> "none", arg |-> "none"],
           session |-> "none", body |-> "none"]

\* What an answer may be: "tool_error" is a run that failed, "unknown_tool" a
\* call of what is not there.
Body == {"none", "nothing", "content", "tool_error", "unknown_tool", "error_text", "not_found",
         "error_as_text", "internal_error", "method_not_found"}

\* lifespan: the tools are imported and copied; the server comes up after that.
ServerInit ==
  /\ legacy = Imports
  /\ unified = {Migrated(t) : t \in Imports}
  /\ tagged = UNION {{<<tag, t.name>> : tag \in t.tags} : t \in unified}
  /\ history = <<>>
  /\ transport \in Transport
  /\ session = [s \in Session |-> "new"]
  /\ queue = [s \in Session |-> <<>>]
  /\ sent = [s \in Session |-> <<>>]
  /\ post = [p \in Post |-> NoPost]

ServerTypeOK ==
  /\ RegistriesTypeOK
  /\ transport \in Transport
  /\ session \in [Session -> {"new", "waiting", "streaming", "gone"}]
  /\ queue \in [Session -> Seq([post : Post, id : {"own", ""}])]
  /\ sent \in [Session -> Seq([post : Post, id : {"own", ""}])]
  /\ post \in [Post -> [at : {"new", "running", "answered"}, message : Messages \cup {NoPost.message},
                        session : Session \cup {"none"}, body : Body]]

-----------------------------------------------------------------------------
(* Sessions. *)

\* GET /mcp/sse, or /sse: the session is entered before its stream runs.
OpenSession(s) ==
  /\ transport # "stdio"
  /\ session[s] = "new"
  /\ session' = [session EXCEPT ![s] = "waiting"]
  /\ UNCHANGED <<registries, transport, queue, sent, post>>

\* The generator starts and tells the client its session.  The package hands
\* its generator to a background task that never runs it.
StartStream(s) ==
  /\ transport = "service"
  /\ session[s] = "waiting"
  /\ session' = [session EXCEPT ![s] = "streaming"]
  /\ UNCHANGED <<registries, transport, queue, sent, post>>

\* Bug variant: the generator sends one message and waits no more.
MutOneMessage(s) == session[s] = "streaming" /\ queue[s] # <<>> /\ sent[s] = <<>>

Ready(s) == session[s] = "streaming" /\ queue[s] # <<>>

SendNext(s) ==
  /\ Ready(s)
  /\ sent' = [sent EXCEPT ![s] = Append(@, Head(queue[s]))]
  /\ queue' = [queue EXCEPT ![s] = Tail(@)]
  /\ UNCHANGED <<registries, transport, session, post>>

\* The client leaves a running stream; what is queued is lost with it.  A
\* client that leaves before that leaves its session behind.
CloseStream(s) ==
  /\ session[s] = "streaming"
  /\ session' = [session EXCEPT ![s] = "gone"]
  /\ UNCHANGED <<registries, transport, queue, sent, post>>

-----------------------------------------------------------------------------
(* Messages. *)

\* The methods whose handler awaits something that is not the server's.
Suspends(m) ==
  \/ m.method = "tools/call" /\ m.arg \in Names(unified)
  \/ m.method = "resources/read" /\ m.arg \in Resources \cup Templates
  \/ m.method = "prompts/get" /\ m.arg \in Prompts

\* The methods whose handler answers at once, with what the server has or nothing.
AtOnce == {"initialize", "ping", "tools/list", "resources/list", "resources/templates/list",
           "prompts/list", "logging/setLevel"}

\* What a message that does not suspend is answered with; no sampling handler
\* is ever set, and no method is refused before "initialize".
Immediate(m) ==
  CASE m.id = "none" -> {"nothing"}
    [] m.id # "none" /\ m.method \in AtOnce -> {"content"}
    [] m.id # "none" /\ m.method = "tools/call" -> {"unknown_tool"}
    [] m.id # "none" /\ m.method = "resources/read" -> ReadResource(m.arg)
    [] m.id # "none" /\ m.method = "prompts/get" -> GetPrompt(m.arg)
    [] m.id # "none" /\ m.method = "sampling/createMessage" -> {"error_as_text"}
    [] m.id # "none" /\ m.method = "malformed" -> {"internal_error"}
    [] OTHER -> {"method_not_found"}

\* What one that suspends is answered with in the end.  A tool that raises a
\* KeyError is answered in the words for one that is not there.
Awaited(m) ==
  CASE m.method = "tools/call" -> {"content", "tool_error"}
    [] m.method = "resources/read" -> ReadResource(m.arg)
    [] OTHER -> GetPrompt(m.arg)

\* The id an answer carries: an error loses an id that is 0 or not read.
AnswerId(m, body) ==
  IF body = "internal_error" \/ (body = "method_not_found" /\ m.id = "zero") THEN "" ELSE "own"

\* Bug variant: the answer goes to every open session.
MutBroadcast(s) == {r \in Session : session[r] \in {"waiting", "streaming"}}

\* The sessions an answer is put for: the one named, if it is there now.
Recipients(s) == {r \in {s} \cap Session : session[r] \in {"waiting", "streaming"}}

\* The rest of the endpoint: from the handler's return to the HTTP answer.
Answer(p, m, s, body) ==
  LET answer == [post |-> p, id |-> AnswerId(m, body)]
      to == IF body = "nothing" THEN {} ELSE Recipients(s)
  IN
  /\ queue' = [r \in Session |-> IF r \in to THEN Append(queue[r], answer) ELSE queue[r]]
  /\ post' = [post EXCEPT ![p] = [at |-> "answered", message |-> m, session |-> s, body |-> body]]
  /\ UNCHANGED <<transport, session, sent>>

\* A client names its session once the stream told it; the package counts its
\* sessions, and stdio has none.
Nameable ==
  {"none"} \cup {s \in Session : \/ session[s] \in {"streaming", "gone"}
                                 \/ transport = "package" /\ session[s] = "waiting"}

\* stdio reads a line only when the one before it is answered.
Reads(p) ==
  /\ post[p].at = "new"
  /\ transport = "stdio" => \A q \in Post : post[q].at # "running"

Receive(p, m, s) ==
  /\ Reads(p)
  /\ IF Suspends(m) /\ m.id # "none"
     THEN /\ post' = [post EXCEPT ![p] = [NoPost EXCEPT !.at = "running", !.message = m,
                                                        !.session = s]]
          /\ UNCHANGED <<transport, sessions>>
     ELSE \E body \in Immediate(m) : Answer(p, m, s, body)
  /\ UNCHANGED registries

\* A tool, resource or prompt function is done; a tool's run is recorded.
Return(p) ==
  LET m == post[p].message
  IN
  /\ post[p].at = "running"
  /\ \E body \in Awaited(m) :
       /\ Answer(p, m, post[p].session, body)
       /\ history' = IF m.method = "tools/call" THEN Audited(m.arg, body = "content") ELSE history
  /\ UNCHANGED <<legacy, unified, tagged>>

\* POST /mcp/tools/{name}/call: the legacy registry's function, of which the
\* unified registry records nothing.
CallDirectly(p, name) ==
  /\ transport = "service"
  /\ post[p].at = "new"
  /\ \E body \in CallTool(name) :
       post' = [post EXCEPT ![p] = [NoPost EXCEPT !.at = "answered", !.body = body]]
  /\ UNCHANGED <<registries, transport, sessions>>

-----------------------------------------------------------------------------
Registration ==
  /\ \/ \E t \in Reloads : RegisterLegacy(t)
     \/ \E t \in Reloads : UnregisterLegacy(t.name)
     \/ ClearLegacy
     \/ SyncMcpTools
     \/ \E t \in AgentTools : RegisterUnified(t)
  /\ UNCHANGED <<transport, sessions, post>>

ServerNext ==
  \/ Registration
  \/ \E s \in Session : OpenSession(s) \/ StartStream(s) \/ SendNext(s) \/ CloseStream(s)
  \/ \E p \in Post, m \in Messages, s \in Nameable : Receive(p, m, s)
  \/ \E p \in Post : Return(p)
  \/ \E p \in Post, t \in Reloads : CallDirectly(p, t.name)

ServerSpec == ServerInit /\ [][ServerNext]_serverVars

\* A function that runs ends (its requests have timeouts), and the server
\* resumes the streams that have something to send.
ServerFairSpec == ServerSpec /\ (\A p \in Post : WF_serverVars(Return(p))) /\ (\A s \in Session : WF_serverVars(SendNext(s)))

-----------------------------------------------------------------------------
Carried(s) == sent[s] \o queue[s]

Occurrences(p, s) == Cardinality({i \in DOMAIN Carried(s) : Carried(s)[i].post = p})

(* A stream carries the answers to the messages posted for its session and  *)
(* no others, and each at most once; while it is open, each exactly once.   *)
StreamsCarryTheirAnswers ==
  \A p \in Post, s \in Session :
    LET due == post[p].at = "answered" /\ post[p].session = s /\ post[p].body # "nothing"
    IN /\ Occurrences(p, s) <= IF due THEN 1 ELSE 0
       /\ due /\ session[s] = "streaming" => Occurrences(p, s) = 1

(* The audit trail holds one entry for each run of a tool through the       *)
(* server that has ended, with its outcome, however the runs overlap.       *)
EveryRunIsAudited ==
  \A t \in Names(unified) : \A ok \in BOOLEAN :
    Cardinality({i \in DOMAIN history : history[i] = [tool |-> t, ok |-> ok]}) =
    Cardinality({p \in Post : /\ post[p].at = "answered"
                              /\ post[p].message.method = "tools/call"
                              /\ post[p].message.arg = t
                              /\ post[p].body = IF ok THEN "content" ELSE "tool_error"})

(* Every message is answered over HTTP, and over its stream if that stays.  *)
EveryMessageAnswered ==
  \A p \in Post :
    post[p].at = "running" ~>
      /\ post[p].at = "answered"
      /\ \A s \in Session : post[p].session = s /\ transport = "service" =>
           session[s] = "gone" \/ \E i \in DOMAIN sent[s] : sent[s][i].post = p
================================================================================
