----------------------------- MODULE ClientConfig -----------------------------
(***************************************************************************)
(* The connection settings of config.rs.  A configuration is made in two   *)
(* ways, by `new` and the setters or from the environment by `load`, and   *)
(* each checks and normalises the values on its own.                       *)
(*                                                                         *)
(* A text is what the checks can tell of it: whether blanks surround it,   *)
(* its scheme, whether a blank follows the scheme, and the rest, a name a  *)
(* URI may have as its host, one of more than 50 characters, a host with a *)
(* path or query, or nothing.  Durations are whole units; only zero        *)
(* matters.                                                                *)
(***************************************************************************)
EXTENDS Retry

Text(padded, scheme, spaced, rest) == [padded |-> padded, scheme |-> scheme, spaced |-> spaced, rest |-> rest]
Texts ==
  [padded : BOOLEAN, scheme : {"", "http", "ftp"}, spaced : {FALSE}, rest : {"", "name", "long", "path"}]

ConfigField ==
  {"ProjectId", "InstanceId", "AppProfileId", "Endpoint", "EmulatorHost", "ChannelPoolSize",
   "ConnectTimeout", "RequestTimeout", "KeepAliveInterval", "KeepAliveTimeout"}
ConfigIssue == {"Empty", "TooLong", "InvalidUri", "MustBePositive"}

NoError == [field |-> "none", issue |-> "None"]
InvalidConfig(field, issue) == [field |-> field, issue |-> issue]
Ok(value) == [error |-> NoError, value |-> value]
Err(field, issue) == [error |-> InvalidConfig(field, issue), value |-> Text(FALSE, "", FALSE, "")]

-----------------------------------------------------------------------------
(* The checks.                                                             *)

Trim(text) == [text EXCEPT !.padded = FALSE]

NonEmpty(text, field) ==
  IF text.scheme = "" /\ text.rest = "" THEN Err(field, "Empty") ELSE Ok(Trim(text))

NonEmptyWithMaxChars(text, field) ==
  LET value == NonEmpty(text, field)
  IN  IF value.error = NoError /\ text.rest = "long" THEN Err(field, "TooLong") ELSE value

\* An absolute http or https URI without path and query.
IsUri(text) == text.scheme = "http" /\ ~text.spaced /\ text.rest \in {"name", "long"}

ValidUri(text, field) ==
  LET value == NonEmpty(text, field)
  IN  IF value.error = NoError /\ ~IsUri(text) THEN Err(field, "InvalidUri") ELSE value

\* ensure_positive, ensure_nonzero
EnsurePositive(number, field) == IF number = 0 THEN Err(field, "MustBePositive") ELSE Ok(number)

\* format!("http://{host}"): a blank before the host is now inside.
PrefixHttp(host) == [host EXCEPT !.scheme = "http", !.spaced = host.padded /\ host.rest # ""]

-----------------------------------------------------------------------------
(* RawConfig and the configuration made of it.  emulator_host is {} for    *)
(* None.                                                                   *)

\* What the environment may hold: a text, or the default profile.
GivenTexts == Texts \cup {Text(FALSE, "", FALSE, "default")}
RawConfig ==
  [project_id : GivenTexts, instance_id : GivenTexts, app_profile_id : GivenTexts, endpoint : GivenTexts,
   emulator_host : {{}} \cup {{host} : host \in GivenTexts},
   channel_pool_size : Nat, connect_timeout : Nat, request_timeout : Nat,
   keep_alive_interval : Nat, keep_alive_timeout : Nat]

RawDefault ==
  [project_id |-> Text(FALSE, "", FALSE, ""), instance_id |-> Text(FALSE, "", FALSE, ""),
   app_profile_id |-> Text(FALSE, "", FALSE, "default"), endpoint |-> Text(FALSE, "http", FALSE, "name"),
   emulator_host |-> {}, channel_pool_size |-> 1, connect_timeout |-> 10, request_timeout |-> 600,
   keep_alive_interval |-> 60, keep_alive_timeout |-> 20]

\* A missing scheme is http.
EmulatorOf(raw) ==
  {ValidUri(IF host.scheme # "" THEN host ELSE PrefixHttp(host), "EmulatorHost") : host \in raw.emulator_host}

\* Option::transpose: a host that is not given is no error.
Transpose(results) == IF results = {} THEN Ok(Text(FALSE, "", FALSE, "")) ELSE CHOOSE e \in results : TRUE

\* The first error, in the order of the checks.
FirstError(results) ==
  LET failing == {i \in DOMAIN results : results[i].error # NoError}
  IN  IF failing = {} THEN NoError ELSE results[Min(failing)].error

TryFrom(raw) ==
  LET project == NonEmpty(raw.project_id, "ProjectId")
      instance == NonEmpty(raw.instance_id, "InstanceId")
      profile == NonEmptyWithMaxChars(raw.app_profile_id, "AppProfileId")
      endpoint == ValidUri(raw.endpoint, "Endpoint")
      emulator == EmulatorOf(raw)
      error == FirstError(<<project, instance, profile, endpoint, Transpose(emulator),
                            EnsurePositive(raw.channel_pool_size, "ChannelPoolSize"),
                            EnsurePositive(raw.connect_timeout, "ConnectTimeout"),
                            EnsurePositive(raw.request_timeout, "RequestTimeout"),
                            EnsurePositive(raw.keep_alive_interval, "KeepAliveInterval"),
                            EnsurePositive(raw.keep_alive_timeout, "KeepAliveTimeout")>>)
  IN  [error |-> error,
       value |-> [raw EXCEPT !.project_id = project.value, !.instance_id = instance.value,
                             !.app_profile_id = profile.value, !.endpoint = endpoint.value,
                             !.emulator_host = {e.value : e \in emulator}]]

New(project, instance) == TryFrom([RawDefault EXCEPT !.project_id = project, !.instance_id = instance])

-----------------------------------------------------------------------------
(* The setters.  Each consumes the configuration and returns it changed,   *)
(* or an error and no configuration.                                       *)

Returns(error, config) == [error |-> error, value |-> config]

WithAppProfileId(config, text) ==
  LET value == NonEmptyWithMaxChars(text, "AppProfileId")
  IN  Returns(value.error, [config EXCEPT !.app_profile_id = value.value])

WithEndpoint(config, text) ==
  LET value == ValidUri(text, "Endpoint")
  IN  Returns(value.error, [config EXCEPT !.endpoint = value.value])

\* Faulty variant: the scheme is put before a host that has one.
WithEmulatorHostTwice(config, text) ==
  LET host == PrefixHttp(text)
      value == ValidUri([host EXCEPT !.rest = IF text.scheme = "" THEN @ ELSE "path"], "EmulatorHost")
  IN  Returns(value.error, [config EXCEPT !.emulator_host = {value.value}])

WithEmulatorHost(config, text) ==
  LET value == ValidUri(IF text.scheme # "" THEN text ELSE PrefixHttp(text), "EmulatorHost")
  IN  Returns(value.error, [config EXCEPT !.emulator_host = {value.value}])

WithChannelPoolSize(config, size) ==
  Returns(EnsurePositive(size, "ChannelPoolSize").error, [config EXCEPT !.channel_pool_size = size])

WithConnectTimeout(config, timeout) ==
  Returns(EnsurePositive(timeout, "ConnectTimeout").error, [config EXCEPT !.connect_timeout = timeout])

\* Faulty variant: zero is taken.
WithAnyRequestTimeout(config, timeout) == Returns(NoError, [config EXCEPT !.request_timeout = timeout])

WithRequestTimeout(config, timeout) ==
  Returns(EnsurePositive(timeout, "RequestTimeout").error, [config EXCEPT !.request_timeout = timeout])

WithKeepAlive(config, interval, timeout) ==
  Returns(FirstError(<<EnsurePositive(interval, "KeepAliveInterval"), EnsurePositive(timeout, "KeepAliveTimeout")>>),
          [config EXCEPT !.keep_alive_interval = interval, !.keep_alive_timeout = timeout])

UsesEmulator(config) == config.emulator_host # {}

\* service_endpoint: the emulator goes before the endpoint.
ServiceEndpoint(config) == IF UsesEmulator(config) THEN CHOOSE h \in config.emulator_host : TRUE ELSE config.endpoint

-----------------------------------------------------------------------------
(* The options of a call that names none: RetryPolicy::default and the     *)
(* default deadlines with the client's request timeout.  Times are in      *)
(* hundredths of a second.                                                 *)

DefaultRetry == [max_attempts |-> 10, initial_backoff |-> 1, max_backoff |-> 6000, multiplier |-> 2, jitter |-> "Full"]
ReadDeadlines(requestTimeout) == [operation_timeout |-> requestTimeout, attempt_timeout |-> 2000]
BulkDeadlines(requestTimeout) == [operation_timeout |-> requestTimeout, attempt_timeout |-> 6000]
=============================================================================
