-------------------------------- MODULE Client --------------------------------
(***************************************************************************)
(* A client from its configuration to its requests (config.rs, client.rs,  *)
(* channel.rs), with the token manager in it.  Connecting gets the first   *)
(* token and then the channel, or for an emulator the channel alone; what  *)
(* it has by then goes into the AuthInterceptor, which every request of    *)
(* the client and its clones passes.                                       *)
(***************************************************************************)
EXTENDS TokenManager, ClientConfig

CONSTANTS
  Names,      \* texts given for the project and the instance
  Sizes,      \* numbers given for the pool size and the durations
  RawChoices, \* what the environment may hold
  MaxCalls    \* bound of the model: setters called

ASSUME InputsAssumption ==
  /\ Names \subseteq Texts /\ Sizes \subseteq Nat /\ RawChoices \subseteq RawConfig
  /\ MaxCalls \in Nat

VARIABLES
  stage,      \* where the client is
  config,     \* {} or {the ClientConfig}
  raw,        \* the environment that holds the values given so far
  error,      \* why there is no configuration
  calls,      \* setters called
  client,     \* {} or {what ClientInner keeps of the configuration}
  tokens,     \* the Option<Arc<TokenManager>> of connect_builder, {} for None
  interceptor,\* {} or {the AuthInterceptor} of the clients there are
  request     \* what became of the last request

configVars == <<config, raw, error, calls>>
clientVars == <<stage, client, tokens, interceptor, request>>
allVars == <<vars, configVars, clientVars>>

ClientInit ==
  /\ Init
  /\ stage = "Start" /\ config = {} /\ raw = RawDefault /\ error = NoError /\ calls = 0
  /\ client = {} /\ tokens = {} /\ interceptor = {} /\ request = "None"

-----------------------------------------------------------------------------
(* Configuring.                                                            *)

\* A configuration, or an error that consumed it.
Configured(result, values) ==
  /\ raw' = values /\ error' = result.error
  /\ IF result.error = NoError
       THEN config' = {result.value} /\ stage' = "Configured"
       ELSE config' = {} /\ stage' = "Refused"
  /\ UNCHANGED <<client, tokens, interceptor, request, vars>>

NewConfig(project, instance) ==
  /\ stage = "Start"
  /\ Configured(New(project, instance), [RawDefault EXCEPT !.project_id = project, !.instance_id = instance])
  /\ UNCHANGED calls

LoadConfig(values) ==
  /\ stage = "Start"
  /\ Configured(TryFrom(values), values)
  /\ UNCHANGED calls

\* A text setter, called with one value ...
SetText(text) ==
  \E c \in config :
    /\ stage = "Configured" /\ calls < MaxCalls /\ calls' = calls + 1
    /\ \/ Configured(WithAppProfileId(c, text), [raw EXCEPT !.app_profile_id = text])
       \/ Configured(WithEndpoint(c, text), [raw EXCEPT !.endpoint = text])
       \/ Configured(WithEmulatorHost(c, text), [raw EXCEPT !.emulator_host = {text}])

\* ... and one for numbers.
SetNumber(n) ==
  \E c \in config :
    /\ stage = "Configured" /\ calls < MaxCalls /\ calls' = calls + 1
    /\ \/ Configured(WithChannelPoolSize(c, n), [raw EXCEPT !.channel_pool_size = n])
       \/ Configured(WithConnectTimeout(c, n), [raw EXCEPT !.connect_timeout = n])
       \/ Configured(WithRequestTimeout(c, n), [raw EXCEPT !.request_timeout = n])
       \/ \E timeout \in Sizes :
            Configured(WithKeepAlive(c, n, timeout),
                       [raw EXCEPT !.keep_alive_interval = n, !.keep_alive_timeout = timeout])

-----------------------------------------------------------------------------
(* Connecting.                                                             *)

\* Faulty variant: a token is fetched for an emulator as well.
ConnectAuthenticated(providerFound) ==
  \E c \in config :
    /\ stage = "Configured"
    /\ client' = {[emulator |-> UsesEmulator(c), request_timeout |-> c.request_timeout]}
    /\ stage' = IF providerFound THEN "Service" ELSE "Failed"
    /\ config' = {} /\ raw' = RawDefault /\ calls' = 0
    /\ UNCHANGED <<error, tokens, interceptor, request, vars>>

\* connect_builder takes the configuration.  An emulator's client goes on to the
\* channel without a token manager; for the service a provider is given or has to
\* be found.
Connect(providerFound) ==
  \E c \in config :
    /\ stage = "Configured"
    /\ client' = {[emulator |-> UsesEmulator(c), request_timeout |-> c.request_timeout]}
    /\ stage' = IF UsesEmulator(c) THEN "Emulator" ELSE IF providerFound THEN "Service" ELSE "Failed"
    /\ config' = {} /\ raw' = RawDefault /\ calls' = 0
    /\ UNCHANGED <<error, tokens, interceptor, request, vars>>

\* Faulty variant: the interceptor is made without the token manager.
NewInterceptorBare(given) == [tokens |-> {}]

\* AuthInterceptor::new
NewInterceptor(given) == [tokens |-> given]

\* A step of the token manager in a client.
InService(step) ==
  stage = "Service" /\ step /\ request' = "None" /\ UNCHANGED <<configVars, stage, client>>

\* TokenManager::start returns the only reference so far, which connect_builder
\* keeps while the channel connects.
ManagerStarts ==
  /\ InService(\E life \in Lifetimes : StartOk(life))
  /\ tokens' = {"TokenManager"}
  /\ UNCHANGED interceptor

\* Connecting fails and what there was is dropped.
ServiceFails ==
  /\ InService(StartFails \/ ChannelFails)
  /\ tokens' = {}
  /\ UNCHANGED interceptor

\* The channel is there; the reference moves into the interceptor.
ServiceConnects ==
  /\ InService(ChannelConnects)
  /\ interceptor' = {NewInterceptor(tokens)}
  /\ tokens' = {}

\* Clones of a client share its interceptor, raw clients have clones of it; the
\* last of them that is dropped takes the last interceptor with it.
ClientShared ==
  /\ InService(CloneClient \/ DropClient)
  /\ interceptor' = IF handles' = 0 THEN {} ELSE interceptor
  /\ UNCHANGED tokens

\* The task refreshes the token, and time passes.
Refreshes(step) == InService(step) /\ UNCHANGED <<tokens, interceptor>>
RefreshStep ==
  Refreshes((\E life \in Lifetimes : FetchOk(life)) \/ Wake \/ FetchFails \/ RetryWakes \/ Tick)

ServiceStep == ManagerStarts \/ ServiceFails \/ ServiceConnects \/ ClientShared \/ RefreshStep

\* channel::connect of an emulator's client, and the interceptor behind it.
EmulatorConnects(connects) ==
  /\ stage = "Emulator"
  /\ stage' = IF connects THEN "EmulatorReady" ELSE "Failed"
  /\ interceptor' = IF connects THEN {NewInterceptor(tokens)} ELSE {}
  /\ UNCHANGED <<configVars, client, tokens, request, vars>>

-----------------------------------------------------------------------------
(* Requests.                                                               *)

\* AuthInterceptor::call: with a token manager the request carries its token or
\* is refused, without one it goes out as it is.
Intercept(i) ==
  IF i.tokens = {} THEN "Anonymous"
  ELSE IF Authorization = "Bearer" THEN "Authorized" ELSE "Unauthenticated"

\* read_rows or mutate_rows without options, on a client that is connected: the
\* policies are checked, then the request is intercepted.
Request(deadlines) ==
  \E c \in client, i \in interceptor :
    /\ request' = IF ValidPolicies(DefaultRetry, [deadlines EXCEPT !.operation_timeout = c.request_timeout])
                    THEN Intercept(i) ELSE "InvalidPolicy"
    /\ UNCHANGED <<configVars, stage, client, tokens, interceptor, vars>>

ClientNext ==
  \/ \E project, instance \in Names : NewConfig(project, instance)
  \/ \E values \in RawChoices : LoadConfig(values)
  \/ \E text \in Texts : SetText(text)
  \/ \E n \in Sizes : SetNumber(n)
  \/ \E providerFound \in BOOLEAN : Connect(providerFound)
  \/ ServiceStep
  \/ \E connects \in BOOLEAN : EmulatorConnects(connects)
  \/ \E deadlines \in {ReadDeadlines(600), BulkDeadlines(600)} : Request(deadlines)

\* The fairness of the token manager, in the client that owns it.
ClientSpec ==
  /\ ClientInit /\ [][ClientNext]_allVars
  /\ WF_allVars(Refreshes(Wake)) /\ WF_allVars(Refreshes(RetryWakes)) /\ WF_allVars(Refreshes(Tick))
  /\ SF_allVars(Refreshes(\E life \in Lifetimes \ {0} : FetchOk(life)))

-----------------------------------------------------------------------------
\* Every variable holds a value of its type, those of the token manager too; an
\* emulator's client never has a token manager (connect_builder), and a manager
\* is held by connect_builder or by the interceptors, whoever has failed, been
\* cloned or dropped.
ClientTypeOK ==
  /\ TypeOK
  /\ stage \in {"Start", "Configured", "Refused", "Service", "Emulator", "EmulatorReady", "Failed"}
  /\ config # {} <=> stage = "Configured"
  /\ error = NoError \/ (error.field \in ConfigField /\ error.issue \in ConfigIssue)
  /\ calls \in 0..MaxCalls
  /\ tokens \subseteq {"TokenManager"} /\ \A i \in interceptor : i.tokens \subseteq {"TokenManager"}
  /\ handles > 0 <=> (tokens # {} \/ \E i \in interceptor : i.tokens # {})
  /\ request \in {"None", "Anonymous", "Authorized", "Unauthenticated", "InvalidPolicy"}
  /\ (\E c \in client : c.emulator) => task = "None" /\ handles = 0

\* new with any setters in any order gives what load gives for the same values,
\* and refuses exactly the values load refuses, with the same field and issue
\* (TryFrom<RawConfig> and the setters normalise and check on their own).  What
\* a configuration returns can be set again and changes nothing: blanks are
\* trimmed and the emulator's scheme is added once (with_emulator_host).
LoadAgrees ==
  /\ stage \in {"Configured", "Refused"} =>
       LET loaded == TryFrom(raw)
       IN  loaded.error = error /\ (error = NoError => config = {loaded.value})
  /\ \A c \in config :
       /\ WithAppProfileId(c, c.app_profile_id) = Ok(c)
       /\ WithEndpoint(c, c.endpoint) = Ok(c)
       /\ \A host \in c.emulator_host : WithEmulatorHost(c, host) = Ok(c)

\* A configuration that was accepted is never refused later: its endpoint parses
\* when the channel is built (build_endpoint), its pool has a channel, and calls
\* that take its request timeout as their deadline pass the policy's checks
\* (read_rows, mutate_rows, validate_policies).
ConfigUsable ==
  /\ \A c \in config : IsUri(ServiceEndpoint(c)) /\ c.channel_pool_size > 0
  /\ request # "InvalidPolicy"

\* What connect_builder makes of the configuration reaches the requests: only a
\* client configured for an emulator sends requests without a token, and it sends
\* none with one; any other sends a token that has not expired and that a running
\* task refreshes, or nothing (connect_builder, AuthInterceptor::call).
RequestsAuthenticated ==
  \A c \in client :
    /\ request = "Anonymous" => c.emulator
    /\ request \in {"Authorized", "Unauthenticated"} => ~c.emulator
    /\ request = "Authorized" => Running /\ left > 0
=============================================================================
