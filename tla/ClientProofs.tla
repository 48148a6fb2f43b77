----------------------------- MODULE ClientProofs -----------------------------
(***************************************************************************)
(* The token manager.  The refresh margin is enough, for every margin,     *)
(* delay, latency and number of failures that satisfy MarginAssumption.    *)
(* The invariant counts what a refresh may have used of the margin: each   *)
(* failure costs at most the latency of the call and the pause after it.   *)
(*                                                                         *)
(* The client.  Whatever configuration, connecting and requests do around  *)
(* it, it takes only the steps of TokenManager, so that what is proved of  *)
(* that holds here; on top of it, which requests carry a token.            *)
(*                                                                         *)
(* The configuration.  One made by setters is the one load makes of the    *)
(* same values: each setter changes one check of those try_from makes, so  *)
(* that its error is the first of the list.  What was accepted is usable.  *)
(***************************************************************************)
EXTENDS Client, SharedLemmas

-----------------------------------------------------------------------------
(* The token manager.                                                      *)

\* The part of the margin that the failures so far may have used.
Spent == failures * (MaxLatency + RetryDelay)

\* A healthy source leaves the token more than the rest of the margin.
WithinMargin ==
  healthy =>
    /\ task \in {"Sleeping", "Retrying"} => left - timer >= Margin - Spent
    /\ task = "Fetching" => left >= Margin - Spent - elapsed

\* The idle states of the task, which the steps of Client::connect rely on.
TaskOwned ==
  /\ RefreshOwned
  /\ connect = "Token" => handles = 0 /\ failures = 0

Inv == TypeOK /\ TaskOwned /\ WithinMargin

\* The cost of the failures grows with their number, and by one pause and one
\* call for each.
LEMMA FailureCosts ==
  ASSUME NEW d \in Nat, NEW m \in Nat, NEW n \in 0..m
  PROVE  /\ n * d \in Nat
         /\ n * d <= m * d
         /\ (n + 1) * d = n * d + d
PROOF
<1>1. n * d \in Nat /\ m * d \in Nat
  BY SMT
<1>2. PICK k \in Nat : m = n + k
  <2>1. m - n \in Nat /\ m = n + (m - n)
    BY SMT
  <2> QED BY <2>1
<1>3. m * d = n * d + k * d
  BY <1>2, SMT
<1>4. k * d >= 0
  BY <1>2, SMT
<1>5. n * d <= m * d
  BY <1>1, <1>3, <1>4, <1>2, SMT
<1>6. (n + 1) * d = n * d + d
  BY SMT
<1> QED BY <1>1, <1>5, <1>6

\* The first and every later token leave the whole margin after the sleep.
LEMMA SleepLeavesMargin ==
  ASSUME NEW life \in Int
  PROVE  /\ RefreshIn(life) \in Nat
         /\ life > Margin => life - RefreshIn(life) = Margin
         /\ life <= Margin => RefreshIn(life) = 0
BY TimesAssumption DEF RefreshIn, Saturating

\* Client::connect has not started the task.
LEMMA InvInit == Init => Inv
BY TimesAssumption DEF Init, Inv, TypeOK, TaskOwned, RefreshOwned, Running, WithinMargin

\* Each step keeps the types: sleeps and lifetimes stay natural numbers.
LEMMA TypeStep == TypeOK /\ [Next]_vars => TypeOK'
PROOF
<1> SUFFICES ASSUME TypeOK, [Next]_vars
             PROVE  TypeOK'
  OBVIOUS
<1> USE TimesAssumption
<1>1. ASSUME NEW life \in Lifetimes, StartOk(life) PROVE TypeOK'
  <2>1. life \in Nat /\ RefreshIn(life) \in Nat
    BY SleepLeavesMargin
  <2> QED BY <1>1, <2>1 DEF StartOk, TypeOK
<1>2. ASSUME NEW life \in Lifetimes, FetchOk(life) PROVE TypeOK'
  <2>1. life \in Nat /\ RefreshIn(life) \in Nat
    BY SleepLeavesMargin
  <2> QED BY <1>2, <2>1 DEF FetchOk, TypeOK
<1>3. CASE StartFails
  BY <1>3 DEF StartFails, TypeOK
<1>4. CASE ChannelConnects
  BY <1>4 DEF ChannelConnects, TypeOK
<1>5. CASE ChannelFails
  BY <1>5 DEF ChannelFails, Release, TypeOK
<1>6. CASE CloneClient
  BY <1>6 DEF CloneClient, TypeOK
<1>7. CASE DropClient
  BY <1>7 DEF DropClient, Release, TypeOK
<1>8. CASE Wake
  BY <1>8 DEF Wake, TypeOK
<1>9. CASE FetchFails
  BY <1>9 DEF FetchFails, TypeOK
<1>10. CASE RetryWakes
  <2>1. RefreshIn(left) \in Nat
    BY SleepLeavesMargin DEF TypeOK
  <2> QED BY <1>10, <2>1 DEF RetryWakes, TypeOK
<1>11. CASE Tick
  BY <1>11 DEF Tick, Saturating, TypeOK
<1>12. CASE UNCHANGED vars
  BY <1>12 DEF vars, TypeOK
<1> QED
  BY <1>1, <1>2, <1>3, <1>4, <1>5, <1>6, <1>7, <1>8, <1>9, <1>10, <1>11, <1>12 DEF Next

\* Only the last reference stops the task, and only `start` spawns it.
LEMMA OwnedStep == TypeOK /\ TaskOwned /\ [Next]_vars => TaskOwned'
PROOF
<1> SUFFICES ASSUME TypeOK, TaskOwned, [Next]_vars
             PROVE  TaskOwned'
  OBVIOUS
<1> USE DEF TypeOK, TaskOwned, RefreshOwned, Running
<1>1. ASSUME NEW life \in Lifetimes, StartOk(life) \/ FetchOk(life) PROVE TaskOwned'
  BY <1>1 DEF StartOk, FetchOk
<1>2. CASE StartFails \/ ChannelConnects \/ CloneClient
  BY <1>2 DEF StartFails, ChannelConnects, CloneClient
<1>3. CASE ChannelFails \/ DropClient
  BY <1>3 DEF ChannelFails, DropClient, Release
<1>4. CASE Wake \/ FetchFails \/ RetryWakes \/ Tick
  BY <1>4 DEF Wake, FetchFails, RetryWakes, Tick
<1>5. CASE UNCHANGED vars
  BY <1>5 DEF vars
<1> QED
  BY <1>1, <1>2, <1>3, <1>4, <1>5 DEF Next

\* No step uses more of the margin than the failures account for.
LEMMA MarginStep == Inv /\ [Next]_vars => WithinMargin'
PROOF
<1> SUFFICES ASSUME Inv, [Next]_vars, healthy
             PROVE  WithinMargin'
  <2>1. ~healthy /\ [Next]_vars => ~healthy'
    BY DEF Next, StartOk, StartFails, ChannelConnects, ChannelFails, Release, CloneClient,
           DropClient, Wake, FetchOk, FetchFails, RetryWakes, Tick, vars
  <2> QED BY <2>1 DEF WithinMargin
<1> USE TimesAssumption
<1> DEFINE cost == MaxLatency + RetryDelay
<1>1. cost \in Nat
  OBVIOUS
<1>2. failures \in 0..MaxFailures /\ left \in Nat /\ timer \in Nat /\ elapsed \in 0..MaxLatency
  BY DEF Inv, TypeOK
<1>3. Spent \in Nat /\ (failures + 1) * cost = Spent + cost
  BY <1>1, <1>2, FailureCosts DEF Spent
<1>4. Running => IF task = "Fetching" THEN left >= Margin - Spent - elapsed
                                      ELSE left - timer >= Margin - Spent
  BY DEF Inv, WithinMargin, Running
<1> HIDE DEF cost
<1>5. ASSUME NEW life \in Lifetimes, StartOk(life) PROVE WithinMargin'
  <2>1. life \in Nat /\ life > Margin /\ life - RefreshIn(life) = Margin
    BY <1>5, SleepLeavesMargin DEF StartOk, Usable
  <2>2. left' = life /\ timer' = RefreshIn(life) /\ task' = "Sleeping" /\ Spent' = Spent
    BY <1>5 DEF StartOk, Spent
  <2> QED BY <2>1, <2>2, <1>3 DEF WithinMargin
<1>6. ASSUME NEW life \in Lifetimes, FetchOk(life) PROVE WithinMargin'
  <2>1. life \in Nat /\ life > Margin /\ life - RefreshIn(life) = Margin
    BY <1>6, SleepLeavesMargin DEF FetchOk, Usable
  <2>2. left' = life /\ timer' = RefreshIn(life) /\ task' = "Sleeping" /\ failures' = 0
    BY <1>6 DEF FetchOk
  <2>3. Spent' = 0
    BY <2>2 DEF Spent
  <2> QED BY <2>1, <2>2, <2>3 DEF WithinMargin
<1>7. CASE StartFails \/ ChannelConnects \/ CloneClient \/ UNCHANGED vars
  BY <1>7 DEF StartFails, ChannelConnects, CloneClient, vars, Inv, WithinMargin, Spent
<1>8. CASE ChannelFails \/ DropClient
  BY <1>8 DEF ChannelFails, DropClient, Release, Inv, WithinMargin, Spent
<1>9. CASE Wake
  <2>1. left >= Margin - Spent
    BY <1>9, <1>2, <1>3, <1>4 DEF Wake, Running
  <2>2. left' = left /\ elapsed' = 0 /\ task' = "Fetching" /\ Spent' = Spent
    BY <1>9 DEF Wake, Spent
  <2> QED BY <2>1, <2>2, <1>2, <1>3 DEF WithinMargin
<1>10. CASE FetchFails
  <2>1. left' = left /\ timer' = RetryDelay /\ task' = "Retrying" /\ failures' = failures + 1
    BY <1>10, <1>2 DEF FetchFails
  <2>2. Spent' = Spent + cost
    BY <2>1, <1>3 DEF Spent, cost
  <2>3. left >= Margin - Spent - MaxLatency
    BY <1>10, <1>2, <1>3, <1>4 DEF FetchFails, Running
  <2>4. left - RetryDelay >= Margin - (Spent + cost)
    BY <2>3, <1>2, <1>3 DEF cost
  <2> QED BY <2>1, <2>2, <2>4 DEF WithinMargin
<1>11. CASE RetryWakes
  <2>1. left >= Margin - Spent
    BY <1>11, <1>2, <1>3, <1>4 DEF RetryWakes, Running
  <2>2. left' = left /\ timer' = RefreshIn(left) /\ task' = "Sleeping" /\ Spent' = Spent
    BY <1>11 DEF RetryWakes, Spent
  <2>3. left - RefreshIn(left) >= Margin - Spent
    BY <2>1, <1>2, <1>3, SleepLeavesMargin
  <2> QED BY <2>2, <2>3 DEF WithinMargin
<1>12. CASE Tick
  <2>1. task' = task /\ Spent' = Spent
    BY <1>12 DEF Tick, Spent
  <2>2. left' >= left - 1
    BY <1>12, <1>2 DEF Tick, Saturating
  <2>3. CASE task = "Fetching"
    <3>1. elapsed' = elapsed + 1
      BY <1>12, <2>3 DEF Tick
    <3>2. left' \in Nat
      BY <1>12, <1>2 DEF Tick, Saturating
    <3> QED BY <2>1, <2>2, <2>3, <3>1, <3>2, <1>2, <1>3, <1>4 DEF WithinMargin, Running
  <2>4. CASE task # "Fetching"
    <3>1. timer > 0 /\ timer' = timer - 1
      BY <1>12, <2>4, <1>2 DEF Tick, Saturating
    <3>2. left' \in Nat
      BY <1>12, <1>2 DEF Tick, Saturating
    <3> QED BY <1>12, <2>1, <2>2, <2>4, <3>1, <3>2, <1>2, <1>3, <1>4 DEF WithinMargin, Running, Tick
  <2> QED BY <2>3, <2>4
<1> QED
  BY <1>5, <1>6, <1>7, <1>8, <1>9, <1>10, <1>11, <1>12 DEF Next

\* The inductive invariant holds in every reachable state.
THEOREM InvAlways == Spec => []Inv
PROOF
<1>1. Inv /\ [Next]_vars => Inv'
  BY TypeStep, OwnedStep, MarginStep DEF Inv
<1> QED BY InvInit, <1>1, PTL DEF Spec

\* Sleeps, lifetimes and call times stay in range, whatever the constants: no
\* difference of times is ever negative (refresh_loop).
THEOREM ManagerTyped == Spec => []TypeOK
BY InvAlways, PTL DEF Inv

\* The refresh task never outlives the last reference to the manager, nor ends
\* before it (TokenManager::drop), whatever the constants.
THEOREM RefreshIsOwned == Spec => []RefreshOwned
BY InvAlways, PTL DEF Inv, TaskOwned

\* With every margin that covers the failures of the source, no request of a
\* live client is refused (refresh_loop, authorization).
THEOREM MarginSuffices == Spec => []AlwaysAuthorized
PROOF
<1>1. Inv => AlwaysAuthorized
  <2> SUFFICES ASSUME Inv, healthy, handles > 0
               PROVE  left # 0
    BY DEF AlwaysAuthorized, Authorization
  <2>1. failures \in 0..MaxFailures /\ left \in Nat /\ timer \in Nat /\ elapsed \in 0..MaxLatency
    BY DEF Inv, TypeOK
  <2>2. Spent \in Nat /\ Spent <= MaxFailures * (MaxLatency + RetryDelay)
    <3>1. MaxLatency + RetryDelay \in Nat
      BY TimesAssumption
    <3> QED BY <2>1, <3>1, TimesAssumption, FailureCosts DEF Spent
  <2>3. left >= Margin - Spent - MaxLatency
    BY <2>1, <2>2, TimesAssumption DEF Inv, WithinMargin, TaskOwned, RefreshOwned, Running
  <2>4. MaxFailures * (MaxLatency + RetryDelay) \in Nat
    <3>1. MaxLatency + RetryDelay \in Nat
      BY TimesAssumption
    <3> QED BY <3>1, TimesAssumption, SMT
  <2> QED BY <2>1, <2>2, <2>3, <2>4, TimesAssumption, MarginAssumption
<1> QED BY InvAlways, <1>1, PTL

-----------------------------------------------------------------------------
(* The client.                                                             *)

\* What each part of connect_builder does when the token manager takes a step.
LEMMA ServiceSteps ==
  ASSUME ServiceStep
  PROVE  /\ stage = "Service" /\ request' = "None" /\ UNCHANGED <<configVars, stage, client>>
         /\ \/ /\ \E life \in Lifetimes : StartOk(life)
               /\ tokens' = {"TokenManager"} /\ interceptor' = interceptor
            \/ (StartFails \/ ChannelFails) /\ tokens' = {} /\ interceptor' = interceptor
            \/ ChannelConnects /\ tokens' = {} /\ interceptor' = {NewInterceptor(tokens)}
            \/ /\ CloneClient \/ DropClient
               /\ tokens' = tokens /\ interceptor' = IF handles' = 0 THEN {} ELSE interceptor
            \/ /\ (\E life \in Lifetimes : FetchOk(life)) \/ Wake \/ FetchFails \/ RetryWakes \/ Tick
               /\ tokens' = tokens /\ interceptor' = interceptor
BY DEF ServiceStep, InService, ManagerStarts, ServiceFails, ServiceConnects, ClientShared, RefreshStep,
       Refreshes

\* A step of the client is one of the token manager or leaves it alone.
LEMMA StepOfManager == [ClientNext]_allVars => [Next]_vars
<1> SUFFICES ASSUME [ClientNext]_allVars PROVE [Next]_vars
  OBVIOUS
<1>1. CASE UNCHANGED allVars
  BY <1>1 DEF allVars
<1>2. ASSUME NEW project \in Names, NEW instance \in Names, NewConfig(project, instance)
      PROVE  UNCHANGED vars
  BY <1>2 DEF NewConfig, Configured
<1>3. ASSUME NEW values \in RawChoices, LoadConfig(values) PROVE UNCHANGED vars
  BY <1>3 DEF LoadConfig, Configured
<1>4. ASSUME NEW text \in Texts, SetText(text) PROVE UNCHANGED vars
  BY <1>4 DEF SetText, Configured
<1>5. ASSUME NEW n \in Sizes, SetNumber(n) PROVE UNCHANGED vars
  BY <1>5 DEF SetNumber, Configured
<1>6. ASSUME NEW found \in BOOLEAN, Connect(found) \/ EmulatorConnects(found) PROVE UNCHANGED vars
  BY <1>6 DEF Connect, EmulatorConnects
<1>7. ASSUME NEW deadlines, Request(deadlines) PROVE UNCHANGED vars
  BY <1>7 DEF Request
<1>8. CASE ServiceStep
  BY <1>8, ServiceSteps DEF Next
<1> QED BY <1>1, <1>2, <1>3, <1>4, <1>5, <1>6, <1>7, <1>8 DEF ClientNext

\* Every behaviour of a client is one of the token manager (connect_builder,
\* AuthInterceptor): configuring, connecting and sending requests change nothing
\* of it but through its own steps.
THEOREM ClientRunsManager == ClientSpec => Spec
<1>1. ClientInit => Init
  BY DEF ClientInit
<1> QED BY <1>1, StepOfManager, PTL DEF ClientSpec, Spec

\* No request of a live client is refused for want of a token while the source
\* keeps its bounds (refresh_loop, authorization).
THEOREM ClientAuthorized == ClientSpec => []AlwaysAuthorized
BY ClientRunsManager, MarginSuffices, PTL

-----------------------------------------------------------------------------
\* Where the client is decides which kind it is, and only a client that is
\* connected has sent anything.
StageInv ==
  /\ \A c \in client : /\ c.emulator \in BOOLEAN
                       /\ stage = "Service" => ~c.emulator
                       /\ stage \in {"Emulator", "EmulatorReady"} => c.emulator
  /\ stage \notin {"Service", "EmulatorReady"} => request = "None"

\* Where the reference to the token manager is: with connect_builder while the
\* channel connects, in the interceptors from then on, and nowhere else.
HolderInv ==
  /\ stage # "Service" => connect = "Token" /\ handles = 0
  /\ tokens = IF connect = "Channel" THEN {"TokenManager"} ELSE {}
  /\ connect \in {"Token", "Failed"} => handles = 0
  /\ connect = "Channel" => handles = 1
  /\ interceptor = IF connect = "Ready" /\ handles > 0 THEN {[tokens |-> {"TokenManager"}]}
                   ELSE IF stage = "EmulatorReady" THEN {[tokens |-> {}]} ELSE {}

RequestInv == StageInv /\ HolderInv /\ RequestsAuthenticated

\* What an intercepted request says of its interceptor and the token.
LEMMA InterceptSound ==
  ASSUME NEW i, left \in Nat
  PROVE  /\ Intercept(i) \in {"Anonymous", "Authorized", "Unauthenticated"}
         /\ Intercept(i) = "Anonymous" <=> i.tokens = {}
         /\ Intercept(i) = "Authorized" => left > 0
BY DEF Intercept, Authorization

\* The reference is handed on or dropped, but never lost: from
\* TokenManager::start to the interceptor, and to None for an emulator.
LEMMA HolderStep ==
  ASSUME Inv, HolderInv, [ClientNext]_allVars
  PROVE  HolderInv'
<1> USE DEF HolderInv
<1>1. CASE UNCHANGED allVars
  BY <1>1 DEF allVars, vars, clientVars
<1>2. ASSUME NEW result, NEW values, stage \in {"Start", "Configured"}, Configured(result, values)
      PROVE  HolderInv'
  BY <1>2 DEF Configured, vars
<1>3. ASSUME NEW found \in BOOLEAN, Connect(found) PROVE HolderInv'
  <2>1. stage = "Configured" /\ stage' \in {"Emulator", "Service", "Failed"}
    BY <1>3 DEF Connect
  <2>2. UNCHANGED <<tokens, interceptor, vars>>
    BY <1>3 DEF Connect
  <2> QED BY <2>1, <2>2 DEF vars
<1>4. ASSUME NEW connects \in BOOLEAN, EmulatorConnects(connects) PROVE HolderInv'
  <2>1. stage = "Emulator" /\ UNCHANGED <<tokens, vars>>
    BY <1>4 DEF EmulatorConnects
  <2>2. \/ stage' = "EmulatorReady" /\ interceptor' = {NewInterceptor(tokens)}
        \/ stage' = "Failed" /\ interceptor' = {}
    BY <1>4 DEF EmulatorConnects
  <2> QED BY <2>1, <2>2 DEF vars, NewInterceptor
<1>5. CASE ServiceStep
  <2>1. stage = "Service" /\ stage' = "Service"
    BY <1>5, ServiceSteps
  <2>2. handles \in Nat
    BY DEF Inv, TypeOK
  <2>3. ASSUME NEW life \in Lifetimes, StartOk(life), tokens' = {"TokenManager"}, interceptor' = interceptor
        PROVE  HolderInv'
    BY <2>1, <2>3 DEF StartOk
  <2>4. CASE (StartFails \/ ChannelFails) /\ tokens' = {} /\ interceptor' = interceptor
    BY <2>1, <2>4 DEF StartFails, ChannelFails, Release
  <2>5. CASE ChannelConnects /\ tokens' = {} /\ interceptor' = {NewInterceptor(tokens)}
    BY <2>1, <2>5 DEF ChannelConnects, NewInterceptor
  <2>6. CASE (CloneClient \/ DropClient) /\ tokens' = tokens
             /\ interceptor' = IF handles' = 0 THEN {} ELSE interceptor
    BY <2>1, <2>2, <2>6 DEF CloneClient, DropClient, Release
  <2>7. CASE /\ (\E life \in Lifetimes : FetchOk(life)) \/ Wake \/ FetchFails \/ RetryWakes \/ Tick
             /\ tokens' = tokens /\ interceptor' = interceptor
    <3>1. connect' = connect /\ handles' = handles
      BY <2>7 DEF FetchOk, Wake, FetchFails, RetryWakes, Tick
    <3> QED BY <2>1, <2>7, <3>1
  <2> QED BY <1>5, <2>3, <2>4, <2>5, <2>6, <2>7, ServiceSteps
<1>6. ASSUME NEW deadlines, Request(deadlines) PROVE HolderInv'
  BY <1>6 DEF Request, vars
<1>7. ASSUME NEW project \in Names, NEW instance \in Names, NewConfig(project, instance) PROVE HolderInv'
  BY <1>2, <1>7 DEF NewConfig
<1>8. ASSUME NEW values \in RawChoices, LoadConfig(values) PROVE HolderInv'
  BY <1>2, <1>8 DEF LoadConfig
<1>9. ASSUME NEW text \in Texts, SetText(text) PROVE HolderInv'
  BY <1>2, <1>9 DEF SetText
<1>10. ASSUME NEW n \in Sizes, SetNumber(n) PROVE HolderInv'
  <2>1. stage = "Configured" /\ \E result, values : Configured(result, values)
    BY <1>10, Zenon DEF SetNumber
  <2> QED BY <1>2, <2>1
<1> QED BY <1>1, <1>3, <1>4, <1>5, <1>6, <1>7, <1>8, <1>9, <1>10 DEF ClientNext

\* Each step keeps the invariant; requests need the token manager's own.
LEMMA RequestStep ==
  ASSUME Inv, RequestInv, [ClientNext]_allVars
  PROVE  RequestInv'
<1>h. HolderInv /\ HolderInv'
  BY HolderStep DEF RequestInv
<1> SUFFICES StageInv' /\ RequestsAuthenticated'
  BY <1>h DEF RequestInv
<1>s. StageInv /\ RequestsAuthenticated
  BY DEF RequestInv
<1> USE <1>s DEF StageInv, RequestsAuthenticated
<1>1. CASE UNCHANGED allVars
  BY <1>1 DEF allVars, vars, clientVars, Running
<1>2. ASSUME NEW result, NEW values, stage \in {"Start", "Configured"}, Configured(result, values)
      PROVE  StageInv' /\ RequestsAuthenticated'
  BY <1>2 DEF Configured
<1>3. ASSUME NEW found \in BOOLEAN, Connect(found) PROVE StageInv' /\ RequestsAuthenticated'
  <2>1. PICK c \in config : client' = {[emulator |-> UsesEmulator(c), request_timeout |-> c.request_timeout]}
                            /\ stage' = IF UsesEmulator(c) THEN "Emulator" ELSE IF found THEN "Service" ELSE "Failed"
    BY <1>3 DEF Connect
  <2>2. UsesEmulator(c) \in BOOLEAN
    BY DEF UsesEmulator
  <2>3. request = "None" /\ request' = "None"
    BY <1>3 DEF Connect
  <2> QED BY <2>1, <2>2, <2>3
<1>4. ASSUME NEW connects \in BOOLEAN, EmulatorConnects(connects) PROVE StageInv' /\ RequestsAuthenticated'
  BY <1>4 DEF EmulatorConnects
<1>5. CASE ServiceStep
  <2>1. stage = "Service" /\ request' = "None" /\ UNCHANGED <<stage, client>>
    BY <1>5, ServiceSteps
  <2> QED BY <2>1
<1>6. ASSUME NEW deadlines, Request(deadlines) PROVE StageInv' /\ RequestsAuthenticated'
  <2>1. PICK c \in client, i \in interceptor : request' \in {Intercept(i), "InvalidPolicy"}
    BY <1>6 DEF Request
  <2>2. UNCHANGED <<stage, client, interceptor, vars>>
    BY <1>6 DEF Request
  <2>3. left \in Nat /\ (handles > 0 => Running)
    BY DEF Inv, TypeOK, TaskOwned, RefreshOwned
  <2>4. \/ i.tokens # {} /\ stage = "Service" /\ handles > 0
        \/ i.tokens = {} /\ stage = "EmulatorReady"
    BY <1>h, <2>1 DEF HolderInv
  <2>5. CASE request' = "InvalidPolicy"
    BY <2>2, <2>4, <2>5 DEF vars, Running
  <2>6. CASE request' = Intercept(i)
    <3>1. \A d \in client : d.emulator \in BOOLEAN /\ (d.emulator <=> i.tokens = {})
      BY <2>4
    <3>2. /\ Intercept(i) \in {"Anonymous", "Authorized", "Unauthenticated"}
          /\ Intercept(i) = "Anonymous" <=> i.tokens = {}
          /\ Intercept(i) = "Authorized" => left > 0
      BY <2>3, InterceptSound
    <3>3. request' = "Authorized" => Running' /\ left' > 0
      BY <2>2, <2>3, <2>4, <2>6, <3>2 DEF vars, Running
    <3> QED BY <2>2, <2>4, <2>6, <3>1, <3>2, <3>3
  <2> QED BY <2>1, <2>5, <2>6
<1>7. ASSUME NEW project \in Names, NEW instance \in Names, NewConfig(project, instance)
      PROVE  StageInv' /\ RequestsAuthenticated'
  BY <1>2, <1>7 DEF NewConfig
<1>8. ASSUME NEW values \in RawChoices, LoadConfig(values) PROVE StageInv' /\ RequestsAuthenticated'
  BY <1>2, <1>8 DEF LoadConfig
<1>9. ASSUME NEW text \in Texts, SetText(text) PROVE StageInv' /\ RequestsAuthenticated'
  BY <1>2, <1>9 DEF SetText
<1>10. ASSUME NEW n \in Sizes, SetNumber(n) PROVE StageInv' /\ RequestsAuthenticated'
  <2>1. stage = "Configured" /\ \E result, values : Configured(result, values)
    BY <1>10, Zenon DEF SetNumber
  <2> QED BY <1>2, <2>1
<1> QED BY <1>1, <1>3, <1>4, <1>5, <1>6, <1>7, <1>8, <1>9, <1>10 DEF ClientNext

\* The invariant holds in every state of a client.
LEMMA RequestInvAlways == ClientSpec => []RequestInv
<1>1. ClientInit => RequestInv
  BY DEF ClientInit, Init, RequestInv, StageInv, HolderInv, RequestsAuthenticated
<1>2. Inv /\ RequestInv /\ [ClientNext]_allVars => RequestInv'
  BY RequestStep
<1> QED BY <1>1, <1>2, ClientRunsManager, InvAlways, PTL DEF ClientSpec

\* Only a client configured for an emulator sends requests without a token; any
\* other sends one that has not expired or refuses the request, however long its
\* token, its clones and the refresh task have been at work: the token manager
\* that connect_builder starts is in every interceptor (AuthInterceptor::call).
THEOREM RequestsAreAuthenticated == ClientSpec => []RequestsAuthenticated
BY RequestInvAlways, PTL DEF RequestInv

-----------------------------------------------------------------------------
(* The checks of a configuration.                                          *)

\* A list of results has no error exactly if none of them has.
LEMMA NoFirstError ==
  ASSUME NEW results, DOMAIN results \in SUBSET Nat, \A i \in DOMAIN results : results[i].error = NoError
  PROVE  FirstError(results) = NoError
BY DEF FirstError

\* Its error is that of the first result that has one.
LEMMA FirstErrorAt ==
  ASSUME NEW results, DOMAIN results \in SUBSET Nat, NEW k \in DOMAIN results, results[k].error # NoError,
         \A i \in DOMAIN results : i < k => results[i].error = NoError
  PROVE  FirstError(results) = results[k].error
<1> DEFINE failing == {i \in DOMAIN results : results[i].error # NoError}
<1>1. failing \in SUBSET Nat /\ k \in failing /\ k \in Nat
  OBVIOUS
<1>2. FirstError(results) = IF failing = {} THEN NoError ELSE results[Min(failing)].error
  BY DEF FirstError
<1>3. \A i \in failing : ~(i < k)
  OBVIOUS
<1> HIDE DEF failing
<1>4. Min(failing) \in failing /\ Min(failing) <= k
  <2>1. failing # {}
    BY <1>1
  <2>2. Min(failing) \in failing /\ \A i \in failing : Min(failing) <= i
    BY <1>1, <2>1, MinIsLeast
  <2> QED BY <1>1, <2>2
<1>5. Min(failing) = k
  <2> DEFINE m == Min(failing)
  <2>1. m \in Nat /\ m <= k /\ ~(m < k)
    BY <1>1, <1>3, <1>4
  <2> HIDE DEF m
  <2>2. m = k
    BY <1>1, <2>1
  <2> QED BY <2>2 DEF m
<1> QED BY <1>1, <1>2, <1>5

\* Without an error no result has one.
LEMMA NoErrorAnywhere ==
  ASSUME NEW results, DOMAIN results \in SUBSET Nat, FirstError(results) = NoError
  PROVE  \A i \in DOMAIN results : results[i].error = NoError
<1> DEFINE failing == {i \in DOMAIN results : results[i].error # NoError}
<1>1. failing # {} => Min(failing) \in failing
  <2>1. failing \in SUBSET Nat
    OBVIOUS
  <2> HIDE DEF failing
  <2> QED BY <2>1, MinIsLeast
<1>2. FirstError(results) = IF failing = {} THEN NoError ELSE results[Min(failing)].error
  BY DEF FirstError
<1> QED BY <1>1, <1>2

\* The error of a list is that of a result, or none.
LEMMA FirstErrorIn ==
  ASSUME NEW results, DOMAIN results \in SUBSET Nat, NEW E, NoError \in E,
         \A i \in DOMAIN results : results[i].error \in E
  PROVE  FirstError(results) \in E
<1> DEFINE failing == {i \in DOMAIN results : results[i].error # NoError}
<1>1. failing # {} => Min(failing) \in failing
  <2>1. failing \in SUBSET Nat
    OBVIOUS
  <2> HIDE DEF failing
  <2> QED BY <2>1, MinIsLeast
<1>2. FirstError(results) = IF failing = {} THEN NoError ELSE results[Min(failing)].error
  BY DEF FirstError
<1> QED BY <1>1, <1>2

\* The errors a check may find.
ConfigErrors == {NoError} \cup {InvalidConfig(field, reason) : field \in ConfigField, reason \in ConfigIssue}

\* An accepted text is trimmed, and accepted again as it is.
LEMMA ChecksOfText ==
  ASSUME NEW text, NEW field \in ConfigField
  PROVE  /\ NonEmpty(text, field).error \in ConfigErrors
         /\ NonEmptyWithMaxChars(text, field).error \in ConfigErrors
         /\ ValidUri(text, field).error \in ConfigErrors
         /\ NonEmpty(text, field).error = NoError => NonEmpty(text, field).value = Trim(text)
         /\ NonEmptyWithMaxChars(text, field).error = NoError =>
              NonEmptyWithMaxChars(text, field).value = Trim(text)
         /\ ValidUri(text, field).error = NoError => ValidUri(text, field).value = Trim(text) /\ IsUri(text)
<1>1. InvalidConfig(field, "Empty") \in ConfigErrors /\ InvalidConfig(field, "TooLong") \in ConfigErrors
      /\ InvalidConfig(field, "InvalidUri") \in ConfigErrors /\ NoError \in ConfigErrors
  BY DEF ConfigErrors, ConfigIssue
<1>2. \A reason \in ConfigIssue : InvalidConfig(field, reason) # NoError
  BY DEF InvalidConfig, NoError, ConfigIssue
<1>3. /\ \A value : Ok(value).error = NoError /\ Ok(value).value = value
      /\ \A reason : Err(field, reason).error = InvalidConfig(field, reason)
  BY DEF Ok, Err
<1>4. "Empty" \in ConfigIssue /\ "TooLong" \in ConfigIssue /\ "InvalidUri" \in ConfigIssue
  BY DEF ConfigIssue
<1> HIDE DEF ConfigIssue
<1>5. /\ NonEmpty(text, field).error \in ConfigErrors
      /\ NonEmpty(text, field).error = NoError => NonEmpty(text, field).value = Trim(text)
  BY <1>1, <1>2, <1>3, <1>4 DEF NonEmpty
<1>6. /\ NonEmptyWithMaxChars(text, field).error \in ConfigErrors
      /\ NonEmptyWithMaxChars(text, field).error = NoError =>
           NonEmptyWithMaxChars(text, field).value = Trim(text)
  BY <1>1, <1>2, <1>3, <1>4, <1>5 DEF NonEmptyWithMaxChars
<1>7. /\ ValidUri(text, field).error \in ConfigErrors
      /\ ValidUri(text, field).error = NoError => ValidUri(text, field).value = Trim(text) /\ IsUri(text)
  BY <1>1, <1>2, <1>3, <1>4, <1>5 DEF ValidUri
<1> QED BY <1>5, <1>6, <1>7

\* A number is refused if it is zero.
LEMMA ChecksOfNumber ==
  ASSUME NEW n, NEW field \in ConfigField
  PROVE  /\ EnsurePositive(n, field).error \in ConfigErrors
         /\ EnsurePositive(n, field).error = NoError <=> n # 0
<1>1. "MustBePositive" \in ConfigIssue
  BY DEF ConfigIssue
<1>2. InvalidConfig(field, "MustBePositive") \in ConfigErrors /\ NoError \in ConfigErrors
  BY <1>1 DEF ConfigErrors
<1>3. InvalidConfig(field, "MustBePositive") # NoError
  BY DEF InvalidConfig, NoError
<1> QED BY <1>2, <1>3 DEF EnsurePositive, Ok, Err

\* Texts, and hosts with their scheme.
AnyText ==
  [padded : BOOLEAN, scheme : {"", "http", "ftp"}, spaced : BOOLEAN,
   rest : {"", "name", "long", "path", "default"}]
WithScheme(host) == IF host.scheme # "" THEN host ELSE PrefixHttp(host)

\* What is given is a text, also with its scheme.
LEMMA GivenAreTexts ==
  \A text \in GivenTexts : text \in AnyText /\ WithScheme(text) \in AnyText /\ WithScheme(text).scheme # ""
<1> SUFFICES ASSUME NEW text \in GivenTexts
             PROVE  text \in AnyText /\ WithScheme(text) \in AnyText /\ WithScheme(text).scheme # ""
  OBVIOUS
<1>1. text \in AnyText
  <2>1. Texts \subseteq AnyText
    BY DEF Texts, AnyText
  <2>2. Text(FALSE, "", FALSE, "default") \in AnyText
    BY DEF Text, AnyText
  <2> QED BY <2>1, <2>2 DEF GivenTexts
<1>2. CASE text.scheme # ""
  BY <1>1, <1>2 DEF WithScheme
<1>3. CASE text.scheme = ""
  <2> DEFINE spaced == text.padded /\ text.rest # ""
             http == "http"
             q == [text EXCEPT !.scheme = http, !.spaced = spaced]
  <2>1. WithScheme(text) = q
    BY <1>3 DEF WithScheme, PrefixHttp
  <2>2. spaced \in BOOLEAN /\ http \in {"", "http", "ftp"} /\ http # ""
    OBVIOUS
  <2> HIDE DEF spaced, http
  <2>3. q \in AnyText /\ q.scheme = http
    BY <1>1, <2>2 DEF AnyText
  <2> QED BY <1>1, <2>1, <2>2, <2>3
<1> QED BY <1>2, <1>3

\* Trimming again changes nothing, and hides nothing from a check.
LEMMA TrimAgain ==
  ASSUME NEW text \in AnyText
  PROVE  /\ Trim(text) \in AnyText /\ Trim(Trim(text)) = Trim(text)
         /\ Trim(text).scheme = text.scheme /\ Trim(text).rest = text.rest
         /\ Trim(text).spaced = text.spaced
BY DEF Trim, AnyText

\* A text that passed a check passes it again, trimmed.
LEMMA CheckedAgain ==
  ASSUME NEW text \in AnyText, NEW field \in ConfigField
  PROVE  /\ NonEmptyWithMaxChars(text, field).error = NoError =>
              NonEmptyWithMaxChars(Trim(text), field) = Ok(Trim(text))
         /\ ValidUri(text, field).error = NoError =>
              ValidUri(Trim(text), field) = Ok(Trim(text)) /\ IsUri(Trim(text))
<1>1. /\ Trim(Trim(text)) = Trim(text) /\ Trim(text).scheme = text.scheme
      /\ Trim(text).rest = text.rest /\ Trim(text).spaced = text.spaced
  BY TrimAgain
<1>2. /\ \A value : Ok(value).error = NoError
      /\ Err(field, "Empty").error # NoError /\ Err(field, "TooLong").error # NoError
      /\ Err(field, "InvalidUri").error # NoError
  BY DEF Ok, Err, InvalidConfig, NoError
<1>3. /\ NonEmpty(Trim(text), field) = (IF text.scheme = "" /\ text.rest = "" THEN Err(field, "Empty") ELSE Ok(Trim(text)))
      /\ NonEmpty(text, field) = (IF text.scheme = "" /\ text.rest = "" THEN Err(field, "Empty") ELSE Ok(Trim(text)))
  BY <1>1 DEF NonEmpty
<1>4. NonEmptyWithMaxChars(Trim(text), field) = NonEmptyWithMaxChars(text, field)
  BY <1>1, <1>3 DEF NonEmptyWithMaxChars
<1>5. IsUri(Trim(text)) <=> IsUri(text)
  BY <1>1 DEF IsUri
<1>6. ValidUri(Trim(text), field) = ValidUri(text, field)
  BY <1>1, <1>3, <1>5 DEF ValidUri
<1>7. NonEmptyWithMaxChars(text, field).error = NoError => NonEmptyWithMaxChars(text, field) = Ok(Trim(text))
  BY <1>2, <1>3 DEF NonEmptyWithMaxChars
<1>8. ValidUri(text, field).error = NoError => ValidUri(text, field) = Ok(Trim(text)) /\ IsUri(text)
  BY <1>2, <1>3 DEF ValidUri
<1> QED BY <1>4, <1>5, <1>6, <1>7, <1>8

-----------------------------------------------------------------------------
(* A configuration loaded at once.                                         *)

\* The results of the checks, in the order of try_from.
Results(given) ==
  <<NonEmpty(given.project_id, "ProjectId"), NonEmpty(given.instance_id, "InstanceId"),
    NonEmptyWithMaxChars(given.app_profile_id, "AppProfileId"), ValidUri(given.endpoint, "Endpoint"),
    Transpose(EmulatorOf(given)),
    EnsurePositive(given.channel_pool_size, "ChannelPoolSize"),
    EnsurePositive(given.connect_timeout, "ConnectTimeout"),
    EnsurePositive(given.request_timeout, "RequestTimeout"),
    EnsurePositive(given.keep_alive_interval, "KeepAliveInterval"),
    EnsurePositive(given.keep_alive_timeout, "KeepAliveTimeout")>>

\* The configuration they make, if there is no error.
Normal(given) ==
  [project_id |-> Trim(given.project_id), instance_id |-> Trim(given.instance_id),
   app_profile_id |-> Trim(given.app_profile_id), endpoint |-> Trim(given.endpoint),
   emulator_host |-> {Trim(WithScheme(host)) : host \in given.emulator_host},
   channel_pool_size |-> given.channel_pool_size, connect_timeout |-> given.connect_timeout,
   request_timeout |-> given.request_timeout, keep_alive_interval |-> given.keep_alive_interval,
   keep_alive_timeout |-> given.keep_alive_timeout]

\* The result of the emulator's host, if one is given.
LEMMA EmulatorResult ==
  ASSUME NEW given \in RawConfig
  PROVE  /\ given.emulator_host = {} => Transpose(EmulatorOf(given)).error = NoError
         /\ \A host : given.emulator_host = {host} =>
              host \in GivenTexts /\ Transpose(EmulatorOf(given)) = ValidUri(WithScheme(host), "EmulatorHost")
         /\ given.emulator_host = {} \/ \E host \in GivenTexts : given.emulator_host = {host}
<1>1. given.emulator_host = {} \/ \E host \in GivenTexts : given.emulator_host = {host}
  BY DEF RawConfig
<1>2. ASSUME given.emulator_host = {} PROVE Transpose(EmulatorOf(given)).error = NoError
  <2>1. EmulatorOf(given) = {}
    BY <1>2 DEF EmulatorOf
  <2> QED BY <2>1 DEF Transpose, Ok
<1>3. ASSUME NEW host, given.emulator_host = {host}
      PROVE  host \in GivenTexts /\ Transpose(EmulatorOf(given)) = ValidUri(WithScheme(host), "EmulatorHost")
  <2> DEFINE result == ValidUri(WithScheme(host), "EmulatorHost")
  <2>1. EmulatorOf(given) = {ValidUri(WithScheme(h), "EmulatorHost") : h \in {host}}
    BY <1>3 DEF EmulatorOf, WithScheme
  <2>2. EmulatorOf(given) = {result}
    BY <2>1
  <2> HIDE DEF result
  <2>3. Transpose(EmulatorOf(given)) = result
    BY <2>2 DEF Transpose
  <2>4. host \in GivenTexts
    BY <1>1, <1>3
  <2> QED BY <2>3, <2>4 DEF result
<1> QED BY <1>1, <1>2, <1>3

\* A changed result that is the only one with an error gives the list its error.
LEMMA OneChanged ==
  ASSUME NEW before, NEW after, DOMAIN before \in SUBSET Nat, DOMAIN after = DOMAIN before,
         FirstError(before) = NoError, NEW k \in DOMAIN before,
         \A i \in DOMAIN before : i # k => after[i] = before[i]
  PROVE  FirstError(after) = after[k].error
<1>1. \A i \in DOMAIN before : before[i].error = NoError
  BY NoErrorAnywhere
<1>2. \A i \in DOMAIN after : i # k => after[i].error = NoError
  BY <1>1
<1>3. CASE after[k].error = NoError
  <2>1. \A i \in DOMAIN after : after[i].error = NoError
    BY <1>2, <1>3
  <2> QED BY <1>3, <2>1, NoFirstError
<1>4. CASE after[k].error # NoError
  <2>1. \A i \in DOMAIN after : i < k => after[i].error = NoError
    BY <1>2
  <2> QED BY ONLY <1>4, <2>1, DOMAIN before \in SUBSET Nat, DOMAIN after = DOMAIN before,
                  k \in DOMAIN before, FirstErrorAt
<1> QED BY <1>3, <1>4

\* What the emulator's hosts become.
LEMMA NormalHost ==
  ASSUME NEW given \in RawConfig, Transpose(EmulatorOf(given)).error = NoError
  PROVE  {e.value : e \in EmulatorOf(given)} = {Trim(WithScheme(host)) : host \in given.emulator_host}
<1>1. CASE given.emulator_host = {}
  BY <1>1 DEF EmulatorOf
<1>2. ASSUME NEW host, given.emulator_host = {host}
      PROVE  {e.value : e \in EmulatorOf(given)} = {Trim(WithScheme(h)) : h \in given.emulator_host}
  <2> DEFINE result == ValidUri(WithScheme(host), "EmulatorHost")
             trimmed == Trim(WithScheme(host))
  <2>1. result.error = NoError
    BY <1>2, EmulatorResult
  <2>2. result.value = trimmed
    BY <2>1, ChecksOfText DEF ConfigField
  <2>3. EmulatorOf(given) = {result}
    BY <1>2 DEF EmulatorOf, WithScheme
  <2>4. {Trim(WithScheme(h)) : h \in given.emulator_host} = {trimmed}
    BY <1>2
  <2> HIDE DEF result, trimmed
  <2>5. {e.value : e \in EmulatorOf(given)} = {result.value}
    BY <2>3
  <2> QED BY <2>2, <2>4, <2>5
<1> QED BY <1>1, <1>2, EmulatorResult

\* A configuration is made exactly when no result has an error, and is then the
\* trimmed one.
LEMMA TryFromIs ==
  ASSUME NEW given \in RawConfig
  PROVE  /\ TryFrom(given).error = FirstError(Results(given))
         /\ TryFrom(given).error = NoError => TryFrom(given).value = Normal(given)
<1>1. TryFrom(given).error = FirstError(Results(given))
  BY DEF TryFrom, Results
<1>2. ASSUME TryFrom(given).error = NoError PROVE TryFrom(given).value = Normal(given)
  <2> DEFINE results == Results(given)
  <2>1. DOMAIN results = 1..10
    BY DEF Results
  <2>2. \A i \in 1..10 : results[i].error = NoError
    <3>1. DOMAIN results \in SUBSET Nat /\ FirstError(results) = NoError
      BY <1>1, <1>2, <2>1
    <3> HIDE DEF results
    <3> QED BY ONLY <2>1, <3>1, NoErrorAnywhere
  <2>3. /\ NonEmpty(given.project_id, "ProjectId").error = NoError
        /\ NonEmpty(given.instance_id, "InstanceId").error = NoError
        /\ NonEmptyWithMaxChars(given.app_profile_id, "AppProfileId").error = NoError
        /\ ValidUri(given.endpoint, "Endpoint").error = NoError
        /\ Transpose(EmulatorOf(given)).error = NoError
    BY <2>2 DEF Results
  <2>4. /\ NonEmpty(given.project_id, "ProjectId").value = Trim(given.project_id)
        /\ NonEmpty(given.instance_id, "InstanceId").value = Trim(given.instance_id)
        /\ NonEmptyWithMaxChars(given.app_profile_id, "AppProfileId").value = Trim(given.app_profile_id)
        /\ ValidUri(given.endpoint, "Endpoint").value = Trim(given.endpoint)
    BY <2>3, ChecksOfText DEF ConfigField
  <2>5. {e.value : e \in EmulatorOf(given)} = {Trim(WithScheme(host)) : host \in given.emulator_host}
    BY <2>3, NormalHost
  <2> DEFINE hosts == {Trim(WithScheme(host)) : host \in given.emulator_host}
             project == Trim(given.project_id)
             instance == Trim(given.instance_id)
             profile == Trim(given.app_profile_id)
             endpoint == Trim(given.endpoint)
  <2>6. TryFrom(given).value =
          [given EXCEPT !.project_id = project, !.instance_id = instance, !.app_profile_id = profile,
                        !.endpoint = endpoint, !.emulator_host = hosts]
    BY <2>4, <2>5 DEF TryFrom
  <2>7. Normal(given) = 
          [project_id |-> project, instance_id |-> instance, app_profile_id |-> profile, endpoint |-> endpoint,
           emulator_host |-> hosts, channel_pool_size |-> given.channel_pool_size,
           connect_timeout |-> given.connect_timeout, request_timeout |-> given.request_timeout,
           keep_alive_interval |-> given.keep_alive_interval, keep_alive_timeout |-> given.keep_alive_timeout]
    BY DEF Normal
  <2> HIDE DEF hosts, project, instance, profile, endpoint
  <2> QED BY <2>6, <2>7 DEF RawConfig
<1> QED BY <1>1, <1>2

-----------------------------------------------------------------------------
(* The setters.                                                            *)

\* A configuration is the one its values make, and a setter's result the one its
\* changed values make.
Loaded(c, given) == given \in RawConfig /\ TryFrom(given).error = NoError /\ c = Normal(given)
Agrees(result, given) ==
  /\ given \in RawConfig /\ TryFrom(given).error = result.error
  /\ result.error = NoError => result.value = Normal(given)

\* The results a list of values has.
LEMMA ResultsHas ==
  ASSUME NEW given
  PROVE  DOMAIN Results(given) = 1..10
BY DEF Results

\* If all but one check of changed values is as before, its error is theirs.
LEMMA ChangedAt ==
  ASSUME NEW given, NEW c, Loaded(c, given), NEW changed \in RawConfig, NEW k \in 1..10,
         \A i \in 1..10 : i # k => Results(changed)[i] = Results(given)[i]
  PROVE  TryFrom(changed).error = Results(changed)[k].error
<1>1. FirstError(Results(given)) = NoError
  BY TryFromIs DEF Loaded
<1>2. TryFrom(changed).error = FirstError(Results(changed))
  BY TryFromIs
<1>3. DOMAIN Results(given) = 1..10 /\ DOMAIN Results(changed) = 1..10 /\ DOMAIN Results(given) \in SUBSET Nat
  BY ResultsHas
<1> DEFINE before == Results(given)
           after == Results(changed)
<1> HIDE DEF before, after
<1>4. FirstError(after) = after[k].error
  BY <1>1, <1>3, OneChanged DEF before, after
<1> QED BY <1>2, <1>4 DEF after

\* with_app_profile_id checks and trims as try_from does.
LEMMA ProfileSet ==
  ASSUME NEW given, NEW c, Loaded(c, given), NEW text \in Texts
  PROVE  Agrees(WithAppProfileId(c, text), [given EXCEPT !.app_profile_id = text])
<1> DEFINE changed == [given EXCEPT !.app_profile_id = text]
           check == NonEmptyWithMaxChars(text, "AppProfileId")
           value == Trim(text)
<1>1. changed \in RawConfig
  BY DEF Loaded, RawConfig, GivenTexts
<1>2. /\ changed.app_profile_id = text
      /\ changed.project_id = given.project_id
      /\ changed.instance_id = given.instance_id
      /\ changed.endpoint = given.endpoint
      /\ changed.emulator_host = given.emulator_host
      /\ changed.channel_pool_size = given.channel_pool_size
      /\ changed.connect_timeout = given.connect_timeout
      /\ changed.request_timeout = given.request_timeout
      /\ changed.keep_alive_interval = given.keep_alive_interval
      /\ changed.keep_alive_timeout = given.keep_alive_timeout
  BY DEF Loaded, RawConfig
<1> HIDE DEF changed
<1>3. /\ \A i \in 1..10 : i # 3 => Results(changed)[i] = Results(given)[i]
      /\ Results(changed)[3] = check
  BY <1>2 DEF Results, EmulatorOf
<1>4. TryFrom(changed).error = check.error
  BY <1>1, <1>3, ChangedAt
<1>5. /\ WithAppProfileId(c, text).error = check.error
      /\ check.error = NoError => WithAppProfileId(c, text).value = [c EXCEPT !.app_profile_id = value]
  BY ChecksOfText DEF WithAppProfileId, Returns, ConfigField
<1>6. [c EXCEPT !.app_profile_id = value] = Normal(changed)
  <2> DEFINE hosts == {Trim(WithScheme(host)) : host \in given.emulator_host}
  <2> HIDE DEF hosts
  <2> QED BY <1>2, SMTT(30) DEF Normal, Loaded, hosts
<1> QED BY <1>1, <1>4, <1>5, <1>6 DEF Agrees, changed

\* with_endpoint checks and trims as try_from does.
LEMMA EndpointSet ==
  ASSUME NEW given, NEW c, Loaded(c, given), NEW text \in Texts
  PROVE  Agrees(WithEndpoint(c, text), [given EXCEPT !.endpoint = text])
<1> DEFINE changed == [given EXCEPT !.endpoint = text]
           check == ValidUri(text, "Endpoint")
           value == Trim(text)
<1>1. changed \in RawConfig
  BY DEF Loaded, RawConfig, GivenTexts
<1>2. /\ changed.endpoint = text
      /\ changed.project_id = given.project_id
      /\ changed.instance_id = given.instance_id
      /\ changed.app_profile_id = given.app_profile_id
      /\ changed.emulator_host = given.emulator_host
      /\ changed.channel_pool_size = given.channel_pool_size
      /\ changed.connect_timeout = given.connect_timeout
      /\ changed.request_timeout = given.request_timeout
      /\ changed.keep_alive_interval = given.keep_alive_interval
      /\ changed.keep_alive_timeout = given.keep_alive_timeout
  BY DEF Loaded, RawConfig
<1> HIDE DEF changed
<1>3. /\ \A i \in 1..10 : i # 4 => Results(changed)[i] = Results(given)[i]
      /\ Results(changed)[4] = check
  BY <1>2 DEF Results, EmulatorOf
<1>4. TryFrom(changed).error = check.error
  BY <1>1, <1>3, ChangedAt
<1>5. /\ WithEndpoint(c, text).error = check.error
      /\ check.error = NoError => WithEndpoint(c, text).value = [c EXCEPT !.endpoint = value]
  BY ChecksOfText DEF WithEndpoint, Returns, ConfigField
<1>6. [c EXCEPT !.endpoint = value] = Normal(changed)
  <2> DEFINE hosts == {Trim(WithScheme(host)) : host \in given.emulator_host}
  <2> HIDE DEF hosts
  <2> QED BY <1>2 DEF Normal, Loaded, hosts
<1> QED BY <1>1, <1>4, <1>5, <1>6 DEF Agrees, changed

\* with_channel_pool_size checks as try_from does.
LEMMA PoolSizeSet ==
  ASSUME NEW given, NEW c, Loaded(c, given), NEW n \in Nat
  PROVE  Agrees(WithChannelPoolSize(c, n), [given EXCEPT !.channel_pool_size = n])
<1> DEFINE changed == [given EXCEPT !.channel_pool_size = n]
           check == EnsurePositive(n, "ChannelPoolSize")
           value == n
<1>1. changed \in RawConfig
  BY DEF Loaded, RawConfig, GivenTexts
<1>2. /\ changed.channel_pool_size = n
      /\ changed.project_id = given.project_id
      /\ changed.instance_id = given.instance_id
      /\ changed.app_profile_id = given.app_profile_id
      /\ changed.endpoint = given.endpoint
      /\ changed.emulator_host = given.emulator_host
      /\ changed.connect_timeout = given.connect_timeout
      /\ changed.request_timeout = given.request_timeout
      /\ changed.keep_alive_interval = given.keep_alive_interval
      /\ changed.keep_alive_timeout = given.keep_alive_timeout
  BY DEF Loaded, RawConfig
<1> HIDE DEF changed
<1>3. /\ \A i \in 1..10 : i # 6 => Results(changed)[i] = Results(given)[i]
      /\ Results(changed)[6] = check
  BY <1>2 DEF Results, EmulatorOf
<1>4. TryFrom(changed).error = check.error
  BY <1>1, <1>3, ChangedAt
<1>5. /\ WithChannelPoolSize(c, n).error = check.error
      /\ check.error = NoError => WithChannelPoolSize(c, n).value = [c EXCEPT !.channel_pool_size = value]
  BY DEF WithChannelPoolSize, Returns
<1>6. [c EXCEPT !.channel_pool_size = value] = Normal(changed)
  <2> DEFINE hosts == {Trim(WithScheme(host)) : host \in given.emulator_host}
  <2> HIDE DEF hosts
  <2> QED BY <1>2 DEF Normal, Loaded, hosts
<1> QED BY <1>1, <1>4, <1>5, <1>6 DEF Agrees, changed

\* with_connect_timeout checks as try_from does.
LEMMA ConnectTimeoutSet ==
  ASSUME NEW given, NEW c, Loaded(c, given), NEW n \in Nat
  PROVE  Agrees(WithConnectTimeout(c, n), [given EXCEPT !.connect_timeout = n])
<1> DEFINE changed == [given EXCEPT !.connect_timeout = n]
           check == EnsurePositive(n, "ConnectTimeout")
           value == n
<1>1. changed \in RawConfig
  BY DEF Loaded, RawConfig, GivenTexts
<1>2. /\ changed.connect_timeout = n
      /\ changed.project_id = given.project_id
      /\ changed.instance_id = given.instance_id
      /\ changed.app_profile_id = given.app_profile_id
      /\ changed.endpoint = given.endpoint
      /\ changed.emulator_host = given.emulator_host
      /\ changed.channel_pool_size = given.channel_pool_size
      /\ changed.request_timeout = given.request_timeout
      /\ changed.keep_alive_interval = given.keep_alive_interval
      /\ changed.keep_alive_timeout = given.keep_alive_timeout
  BY DEF Loaded, RawConfig
<1> HIDE DEF changed
<1>3. /\ \A i \in 1..10 : i # 7 => Results(changed)[i] = Results(given)[i]
      /\ Results(changed)[7] = check
  BY <1>2 DEF Results, EmulatorOf
<1>4. TryFrom(changed).error = check.error
  BY <1>1, <1>3, ChangedAt
<1>5. /\ WithConnectTimeout(c, n).error = check.error
      /\ check.error = NoError => WithConnectTimeout(c, n).value = [c EXCEPT !.connect_timeout = value]
  BY DEF WithConnectTimeout, Returns
<1>6. [c EXCEPT !.connect_timeout = value] = Normal(changed)
  <2> DEFINE hosts == {Trim(WithScheme(host)) : host \in given.emulator_host}
  <2> HIDE DEF hosts
  <2> QED BY <1>2 DEF Normal, Loaded, hosts
<1> QED BY <1>1, <1>4, <1>5, <1>6 DEF Agrees, changed

\* with_request_timeout checks as try_from does.
LEMMA RequestTimeoutSet ==
  ASSUME NEW given, NEW c, Loaded(c, given), NEW n \in Nat
  PROVE  Agrees(WithRequestTimeout(c, n), [given EXCEPT !.request_timeout = n])
<1> DEFINE changed == [given EXCEPT !.request_timeout = n]
           check == EnsurePositive(n, "RequestTimeout")
           value == n
<1>1. changed \in RawConfig
  BY DEF Loaded, RawConfig, GivenTexts
<1>2. /\ changed.request_timeout = n
      /\ changed.project_id = given.project_id
      /\ changed.instance_id = given.instance_id
      /\ changed.app_profile_id = given.app_profile_id
      /\ changed.endpoint = given.endpoint
      /\ changed.emulator_host = given.emulator_host
      /\ changed.channel_pool_size = given.channel_pool_size
      /\ changed.connect_timeout = given.connect_timeout
      /\ changed.keep_alive_interval = given.keep_alive_interval
      /\ changed.keep_alive_timeout = given.keep_alive_timeout
  BY DEF Loaded, RawConfig
<1> HIDE DEF changed
<1>3. /\ \A i \in 1..10 : i # 8 => Results(changed)[i] = Results(given)[i]
      /\ Results(changed)[8] = check
  BY <1>2 DEF Results, EmulatorOf
<1>4. TryFrom(changed).error = check.error
  BY <1>1, <1>3, ChangedAt
<1>5. /\ WithRequestTimeout(c, n).error = check.error
      /\ check.error = NoError => WithRequestTimeout(c, n).value = [c EXCEPT !.request_timeout = value]
  BY DEF WithRequestTimeout, Returns
<1>6. [c EXCEPT !.request_timeout = value] = Normal(changed)
  <2> DEFINE hosts == {Trim(WithScheme(host)) : host \in given.emulator_host}
  <2> HIDE DEF hosts
  <2> QED BY <1>2 DEF Normal, Loaded, hosts
<1> QED BY <1>1, <1>4, <1>5, <1>6 DEF Agrees, changed

\* with_emulator_host adds the scheme, checks and trims as try_from does.
LEMMA EmulatorHostSet ==
  ASSUME NEW given, NEW c, Loaded(c, given), NEW text \in Texts
  PROVE  Agrees(WithEmulatorHost(c, text), [given EXCEPT !.emulator_host = {text}])
<1> DEFINE changed == [given EXCEPT !.emulator_host = {text}]
           check == ValidUri(WithScheme(text), "EmulatorHost")
           value == Trim(WithScheme(text))
<1>1. changed \in RawConfig
  BY DEF Loaded, RawConfig, GivenTexts
<1>2. /\ changed.emulator_host = {text}
      /\ changed.project_id = given.project_id
      /\ changed.instance_id = given.instance_id
      /\ changed.app_profile_id = given.app_profile_id
      /\ changed.endpoint = given.endpoint
      /\ changed.channel_pool_size = given.channel_pool_size
      /\ changed.connect_timeout = given.connect_timeout
      /\ changed.request_timeout = given.request_timeout
      /\ changed.keep_alive_interval = given.keep_alive_interval
      /\ changed.keep_alive_timeout = given.keep_alive_timeout
  BY DEF Loaded, RawConfig
<1> HIDE DEF changed
<1>3. /\ \A i \in 1..10 : i # 5 => Results(changed)[i] = Results(given)[i]
      /\ Results(changed)[5] = Transpose(EmulatorOf(changed))
  BY <1>2 DEF Results
<1>4. Transpose(EmulatorOf(changed)) = check
  BY <1>1, <1>2, EmulatorResult
<1>5. TryFrom(changed).error = check.error
  BY <1>1, <1>3, <1>4, ChangedAt
<1>6. WithEmulatorHost(c, text).error = check.error
      /\ (check.error = NoError => WithEmulatorHost(c, text).value = [c EXCEPT !.emulator_host = {value}])
  BY ChecksOfText DEF WithEmulatorHost, WithScheme, Returns, ConfigField
<1>7. [c EXCEPT !.emulator_host = {value}] = Normal(changed)
  <2> DEFINE hosts == {Trim(WithScheme(host)) : host \in changed.emulator_host}
  <2>1. hosts = {value}
    BY <1>2
  <2> HIDE DEF hosts, value
  <2> QED BY <1>2, <2>1 DEF Normal, Loaded, hosts
<1> QED BY <1>1, <1>5, <1>6, <1>7 DEF Agrees, changed

\* with_keep_alive checks both durations as try_from does, the interval first.
LEMMA KeepAliveSet ==
  ASSUME NEW given, NEW c, Loaded(c, given), NEW n \in Nat, NEW timeout \in Nat
  PROVE  Agrees(WithKeepAlive(c, n, timeout),
                [given EXCEPT !.keep_alive_interval = n, !.keep_alive_timeout = timeout])
<1> DEFINE changed == [given EXCEPT !.keep_alive_interval = n, !.keep_alive_timeout = timeout]
           interval == EnsurePositive(n, "KeepAliveInterval")
           wait == EnsurePositive(timeout, "KeepAliveTimeout")
           pair == <<interval, wait>>
<1>1. changed \in RawConfig
  BY DEF Loaded, RawConfig, GivenTexts
<1>2. /\ changed.keep_alive_interval = n
      /\ changed.keep_alive_timeout = timeout
      /\ changed.project_id = given.project_id
      /\ changed.instance_id = given.instance_id
      /\ changed.app_profile_id = given.app_profile_id
      /\ changed.endpoint = given.endpoint
      /\ changed.emulator_host = given.emulator_host
      /\ changed.channel_pool_size = given.channel_pool_size
      /\ changed.connect_timeout = given.connect_timeout
      /\ changed.request_timeout = given.request_timeout
  BY DEF Loaded, RawConfig
<1> HIDE DEF changed
<1> DEFINE before == Results(given)
           after == Results(changed)
<1>3. /\ \A i \in 1..8 : after[i] = before[i]
      /\ after[9] = interval /\ after[10] = wait
  BY <1>2 DEF Results, EmulatorOf
<1>4. DOMAIN before = 1..10 /\ DOMAIN after = 1..10 /\ FirstError(before) = NoError
  BY ResultsHas, TryFromIs DEF Loaded
<1>5. TryFrom(changed).error = FirstError(after)
  BY <1>1, TryFromIs
<1>6. DOMAIN pair = 1..2 /\ pair[1] = interval /\ pair[2] = wait
  OBVIOUS
<1>7. WithKeepAlive(c, n, timeout).error = FirstError(pair)
      /\ WithKeepAlive(c, n, timeout).value = [c EXCEPT !.keep_alive_interval = n, !.keep_alive_timeout = timeout]
  BY DEF WithKeepAlive, Returns
<1> HIDE DEF before, after, interval, wait, pair
<1>8. \A i \in 1..8 : after[i].error = NoError
  BY <1>3, <1>4, NoErrorAnywhere
<1>9. FirstError(after) = FirstError(pair)
  <2>1. CASE interval.error # NoError
    <3>1. FirstError(after) = after[9].error
      <4>1. \A i \in DOMAIN after : i < 9 => after[i].error = NoError
        BY <1>4, <1>8
      <4>2. 9 \in DOMAIN after /\ DOMAIN after \in SUBSET Nat /\ after[9].error # NoError
        BY <1>3, <1>4, <2>1
      <4> QED BY ONLY <4>1, <4>2, FirstErrorAt
    <3>2. FirstError(pair) = pair[1].error
      <4>1. \A i \in DOMAIN pair : i < 1 => pair[i].error = NoError
        BY <1>6
      <4>2. 1 \in DOMAIN pair /\ DOMAIN pair \in SUBSET Nat /\ pair[1].error # NoError
        BY <1>6, <2>1
      <4> QED BY ONLY <4>1, <4>2, FirstErrorAt
    <3> QED BY <1>3, <1>6, <3>1, <3>2
  <2>2. CASE interval.error = NoError /\ wait.error # NoError
    <3>1. FirstError(after) = after[10].error
      <4>1. \A i \in DOMAIN after : i < 10 => after[i].error = NoError
        BY <1>3, <1>4, <1>8, <2>2
      <4>2. 10 \in DOMAIN after /\ DOMAIN after \in SUBSET Nat /\ after[10].error # NoError
        BY <1>3, <1>4, <2>2
      <4> QED BY ONLY <4>1, <4>2, FirstErrorAt
    <3>2. FirstError(pair) = pair[2].error
      <4>1. \A i \in DOMAIN pair : i < 2 => pair[i].error = NoError
        BY <1>6, <2>2
      <4>2. 2 \in DOMAIN pair /\ DOMAIN pair \in SUBSET Nat /\ pair[2].error # NoError
        BY <1>6, <2>2
      <4> QED BY ONLY <4>1, <4>2, FirstErrorAt
    <3> QED BY <1>3, <1>6, <3>1, <3>2
  <2>3. CASE interval.error = NoError /\ wait.error = NoError
    <3>1. \A i \in DOMAIN after : after[i].error = NoError
      BY <1>3, <1>4, <1>8, <2>3
    <3>2. \A i \in DOMAIN pair : pair[i].error = NoError
      BY <1>6, <2>3
    <3>3. DOMAIN after \in SUBSET Nat /\ DOMAIN pair \in SUBSET Nat
      BY <1>4, <1>6
    <3> QED BY ONLY <3>1, <3>2, <3>3, NoFirstError
  <2> QED BY <2>1, <2>2, <2>3
<1>10. [c EXCEPT !.keep_alive_interval = n, !.keep_alive_timeout = timeout] = Normal(changed)
  <2> DEFINE hosts == {Trim(WithScheme(host)) : host \in given.emulator_host}
             later == {Trim(WithScheme(host)) : host \in changed.emulator_host}
             project == Trim(given.project_id)
             instance == Trim(given.instance_id)
             profile == Trim(given.app_profile_id)
             endpoint == Trim(given.endpoint)
  <2>1. later = hosts
    BY <1>2
  <2>2. c = [project_id |-> project, instance_id |-> instance, app_profile_id |-> profile, endpoint |-> endpoint,
             emulator_host |-> hosts, channel_pool_size |-> given.channel_pool_size,
             connect_timeout |-> given.connect_timeout, request_timeout |-> given.request_timeout,
             keep_alive_interval |-> given.keep_alive_interval, keep_alive_timeout |-> given.keep_alive_timeout]
    BY DEF Normal, Loaded
  <2>3. Normal(changed) =
          [project_id |-> project, instance_id |-> instance, app_profile_id |-> profile, endpoint |-> endpoint,
           emulator_host |-> later, channel_pool_size |-> given.channel_pool_size,
           connect_timeout |-> given.connect_timeout, request_timeout |-> given.request_timeout,
           keep_alive_interval |-> n, keep_alive_timeout |-> timeout]
    BY <1>2 DEF Normal
  <2> HIDE DEF hosts, later, project, instance, profile, endpoint
  <2>4. c \in [project_id : {project}, instance_id : {instance}, app_profile_id : {profile}, endpoint : {endpoint},
               emulator_host : {hosts}, channel_pool_size : {given.channel_pool_size},
               connect_timeout : {given.connect_timeout}, request_timeout : {given.request_timeout},
               keep_alive_interval : {given.keep_alive_interval}, keep_alive_timeout : {given.keep_alive_timeout}]
    BY <2>2
  <2> DEFINE half == [c EXCEPT !.keep_alive_interval = n]
  <2>5. [c EXCEPT !.keep_alive_interval = n, !.keep_alive_timeout = timeout] = [half EXCEPT !.keep_alive_timeout = timeout]
    OBVIOUS
  <2>6. half \in [project_id : {project}, instance_id : {instance}, app_profile_id : {profile}, endpoint : {endpoint},
                  emulator_host : {hosts}, channel_pool_size : {given.channel_pool_size},
                  connect_timeout : {given.connect_timeout}, request_timeout : {given.request_timeout},
                  keep_alive_interval : {n}, keep_alive_timeout : {given.keep_alive_timeout}]
    BY <2>4
  <2> HIDE DEF half
  <2>7. [half EXCEPT !.keep_alive_timeout = timeout] = Normal(changed)
    BY ONLY <2>1, <2>3, <2>6
  <2> QED BY <2>5, <2>7
<1> QED BY <1>1, <1>5, <1>7, <1>9, <1>10 DEF Agrees, changed

-----------------------------------------------------------------------------
(* What a configuration that was made is good for.                         *)

\* The checks find only errors of a configuration.
LEMMA TryFromErrors ==
  ASSUME NEW given \in RawConfig
  PROVE  TryFrom(given).error \in ConfigErrors
<1> DEFINE results == Results(given)
<1>1. DOMAIN results = 1..10 /\ DOMAIN results \in SUBSET Nat
  BY ResultsHas
<1>2. Transpose(EmulatorOf(given)).error \in ConfigErrors
  <2>1. NoError \in ConfigErrors
    BY DEF ConfigErrors
  <2>2. CASE given.emulator_host = {}
    BY <2>1, <2>2, EmulatorResult
  <2>3. ASSUME NEW host, given.emulator_host = {host}
        PROVE  Transpose(EmulatorOf(given)).error \in ConfigErrors
    BY <2>3, EmulatorResult, ChecksOfText DEF ConfigField
  <2> QED BY <2>2, <2>3, EmulatorResult
<1>3. /\ NonEmpty(given.project_id, "ProjectId").error \in ConfigErrors
      /\ NonEmpty(given.instance_id, "InstanceId").error \in ConfigErrors
      /\ NonEmptyWithMaxChars(given.app_profile_id, "AppProfileId").error \in ConfigErrors
      /\ ValidUri(given.endpoint, "Endpoint").error \in ConfigErrors
  BY ChecksOfText DEF ConfigField
<1>4. /\ EnsurePositive(given.channel_pool_size, "ChannelPoolSize").error \in ConfigErrors
      /\ EnsurePositive(given.connect_timeout, "ConnectTimeout").error \in ConfigErrors
      /\ EnsurePositive(given.request_timeout, "RequestTimeout").error \in ConfigErrors
      /\ EnsurePositive(given.keep_alive_interval, "KeepAliveInterval").error \in ConfigErrors
      /\ EnsurePositive(given.keep_alive_timeout, "KeepAliveTimeout").error \in ConfigErrors
  BY ChecksOfNumber DEF ConfigField
<1>5. \A i \in 1..10 : results[i].error \in ConfigErrors
  BY <1>2, <1>3, <1>4 DEF Results
<1>6. TryFrom(given).error = FirstError(results)
  BY TryFromIs
<1>7. NoError \in ConfigErrors
  BY DEF ConfigErrors
<1> HIDE DEF results, ConfigErrors
<1>8. FirstError(results) \in ConfigErrors
  BY ONLY <1>1, <1>5, <1>7, FirstErrorIn
<1> QED BY <1>6, <1>8

\* What every check of a configuration that was made has accepted.
LEMMA LoadedPassed ==
  ASSUME NEW given, NEW c, Loaded(c, given)
  PROVE  /\ NonEmptyWithMaxChars(given.app_profile_id, "AppProfileId").error = NoError
         /\ ValidUri(given.endpoint, "Endpoint").error = NoError
         /\ \A host : given.emulator_host = {host} => ValidUri(WithScheme(host), "EmulatorHost").error = NoError
         /\ given.channel_pool_size # 0 /\ given.request_timeout # 0
<1> DEFINE results == Results(given)
<1>1. DOMAIN results = 1..10 /\ DOMAIN results \in SUBSET Nat /\ FirstError(results) = NoError
  BY ResultsHas, TryFromIs DEF Loaded
<1>2. \A i \in 1..10 : results[i].error = NoError
  <2> HIDE DEF results
  <2> QED BY ONLY <1>1, NoErrorAnywhere
<1>3. /\ NonEmptyWithMaxChars(given.app_profile_id, "AppProfileId").error = NoError
      /\ ValidUri(given.endpoint, "Endpoint").error = NoError
      /\ Transpose(EmulatorOf(given)).error = NoError
      /\ EnsurePositive(given.channel_pool_size, "ChannelPoolSize").error = NoError
      /\ EnsurePositive(given.request_timeout, "RequestTimeout").error = NoError
  BY <1>2 DEF Results
<1>4. given.channel_pool_size # 0 /\ given.request_timeout # 0
  BY <1>3, ChecksOfNumber DEF ConfigField
<1>5. ASSUME NEW host, given.emulator_host = {host}
      PROVE  ValidUri(WithScheme(host), "EmulatorHost").error = NoError
  BY <1>3, <1>5, EmulatorResult DEF Loaded
<1> QED BY <1>3, <1>4, <1>5

\* Its endpoint is a URI, its pool has a channel and its request timeout is
\* positive; setting what it returns changes nothing.
LEMMA LoadedIsUsable ==
  ASSUME NEW given, NEW c, Loaded(c, given)
  PROVE  /\ IsUri(ServiceEndpoint(c)) /\ c.channel_pool_size > 0
         /\ c.request_timeout \in Nat /\ c.request_timeout > 0
         /\ WithAppProfileId(c, c.app_profile_id) = Ok(c)
         /\ WithEndpoint(c, c.endpoint) = Ok(c)
         /\ \A host \in c.emulator_host : WithEmulatorHost(c, host) = Ok(c)
<1> DEFINE hosts == {Trim(WithScheme(host)) : host \in given.emulator_host}
<1>1. /\ c.app_profile_id = Trim(given.app_profile_id) /\ c.endpoint = Trim(given.endpoint)
      /\ c.emulator_host = hosts
      /\ c.channel_pool_size = given.channel_pool_size /\ c.request_timeout = given.request_timeout
  BY DEF Loaded, Normal
<1>2. /\ given.channel_pool_size \in Nat /\ given.request_timeout \in Nat
      /\ given.app_profile_id \in AnyText /\ given.endpoint \in AnyText
  BY GivenAreTexts DEF Loaded, RawConfig
<1>3. c.channel_pool_size > 0 /\ c.request_timeout \in Nat /\ c.request_timeout > 0
  BY <1>1, <1>2, LoadedPassed
<1>4. NonEmptyWithMaxChars(c.app_profile_id, "AppProfileId") = Ok(c.app_profile_id)
  BY <1>1, <1>2, LoadedPassed, CheckedAgain DEF ConfigField
<1>5. ValidUri(c.endpoint, "Endpoint") = Ok(c.endpoint) /\ IsUri(c.endpoint)
  BY <1>1, <1>2, LoadedPassed, CheckedAgain DEF ConfigField
<1>6. ASSUME NEW host \in c.emulator_host
      PROVE  /\ ValidUri(host, "EmulatorHost") = Ok(host) /\ IsUri(host) /\ WithScheme(host) = host
             /\ c.emulator_host = {host}
  <2>1. PICK h \in GivenTexts : given.emulator_host = {h}
    BY <1>1, EmulatorResult DEF Loaded
  <2> DEFINE full == WithScheme(h)
  <2>2. hosts = {Trim(full)}
    BY <2>1
  <2>3. full \in AnyText /\ full.scheme # ""
    BY GivenAreTexts
  <2>4. ValidUri(full, "EmulatorHost").error = NoError
    BY <2>1, LoadedPassed
  <2>5. host = Trim(full) /\ c.emulator_host = {host}
    BY <1>1, <2>2
  <2> HIDE DEF full, hosts
  <2>6. ValidUri(host, "EmulatorHost") = Ok(host) /\ IsUri(host)
    BY <2>3, <2>4, <2>5, CheckedAgain DEF ConfigField
  <2>7. host.scheme # ""
    BY <2>3, <2>5, TrimAgain
  <2> QED BY <2>5, <2>6, <2>7 DEF WithScheme
<1> HIDE DEF hosts
<1>7. IsUri(ServiceEndpoint(c))
  <2>1. CASE c.emulator_host = {}
    BY <1>5, <2>1 DEF ServiceEndpoint, UsesEmulator
  <2>2. CASE c.emulator_host # {}
    <3>1. (CHOOSE h \in c.emulator_host : TRUE) \in c.emulator_host
      BY <2>2
    <3> QED BY <1>6, <2>2, <3>1 DEF ServiceEndpoint, UsesEmulator
  <2> QED BY <2>1, <2>2
<1>8. \A value : Ok(value).error = NoError /\ Ok(value).value = value
  BY DEF Ok
<1>9. c \in [DOMAIN c -> {c[f] : f \in DOMAIN c}]
  BY DEF Loaded, Normal
<1>10. WithAppProfileId(c, c.app_profile_id) = Ok(c)
  <2>1. [c EXCEPT !.app_profile_id = c.app_profile_id] = c
    BY ONLY <1>9
  <2> QED BY <1>4, <1>8, <2>1 DEF WithAppProfileId, Returns, Ok
<1>11. WithEndpoint(c, c.endpoint) = Ok(c)
  <2>1. [c EXCEPT !.endpoint = c.endpoint] = c
    BY ONLY <1>9
  <2> QED BY <1>5, <1>8, <2>1 DEF WithEndpoint, Returns, Ok
<1>12. ASSUME NEW host \in c.emulator_host PROVE WithEmulatorHost(c, host) = Ok(c)
  <2>1. [c EXCEPT !.emulator_host = c.emulator_host] = c
    BY ONLY <1>9
  <2>2. ValidUri(WithScheme(host), "EmulatorHost") = Ok(host) /\ c.emulator_host = {host}
    BY <1>6
  <2> QED BY <1>8, <2>1, <2>2 DEF WithEmulatorHost, WithScheme, Returns, Ok
<1> QED BY <1>3, <1>7, <1>10, <1>11, <1>12

-----------------------------------------------------------------------------
(* The configuration in the client.                                        *)

\* What is kept of the values given so far: they make the configuration, or are
\* refused with the error reported.
ConfigInv ==
  /\ stage \in {"Start", "Configured", "Refused", "Service", "Emulator", "EmulatorReady", "Failed"}
  /\ config # {} <=> stage = "Configured"
  /\ raw \in RawConfig
  /\ calls \in 0..MaxCalls
  /\ error \in ConfigErrors
  /\ stage = "Configured" => error = NoError /\ \E c \in config : config = {c} /\ Loaded(c, raw)
  /\ stage = "Refused" => error # NoError /\ TryFrom(raw).error = error

\* What is kept of the client: its deadline is positive, and only the service
\* has a token manager.
ServiceInv ==
  /\ stage # "Service" => task = "None" /\ handles = 0
  /\ \A c \in client : c.request_timeout \in Nat /\ c.request_timeout > 0
  /\ request \in {"None", "Anonymous", "Authorized", "Unauthenticated"}

\* The values at the start are possible ones, with any names.
LEMMA DefaultIsRaw ==
  /\ RawDefault \in RawConfig
  /\ \A project, instance \in Texts :
       [RawDefault EXCEPT !.project_id = project, !.instance_id = instance] \in RawConfig
<1>1. /\ Text(FALSE, "", FALSE, "") \in GivenTexts
      /\ Text(FALSE, "", FALSE, "default") \in GivenTexts
      /\ Text(FALSE, "http", FALSE, "name") \in GivenTexts
  BY DEF GivenTexts, Texts, Text
<1>2. Texts \subseteq GivenTexts
  BY DEF GivenTexts
<1> HIDE DEF Text, GivenTexts, Texts
<1>3. RawDefault \in RawConfig
  <2> DEFINE none == Text(FALSE, "", FALSE, "")
             default == Text(FALSE, "", FALSE, "default")
             endpoint == Text(FALSE, "http", FALSE, "name")
             hosts == {{}} \cup {{host} : host \in GivenTexts}
  <2>1. \A pool, connecting, deadline, interval, wait \in Nat :
          [project_id |-> none, instance_id |-> none, app_profile_id |-> default, endpoint |-> endpoint,
           emulator_host |-> {}, channel_pool_size |-> pool, connect_timeout |-> connecting,
           request_timeout |-> deadline, keep_alive_interval |-> interval, keep_alive_timeout |-> wait] \in RawConfig
    <3>1. {} \in hosts
      OBVIOUS
    <3>2. RawConfig =
            [project_id : GivenTexts, instance_id : GivenTexts, app_profile_id : GivenTexts, endpoint : GivenTexts,
             emulator_host : hosts, channel_pool_size : Nat, connect_timeout : Nat, request_timeout : Nat,
             keep_alive_interval : Nat, keep_alive_timeout : Nat]
      BY DEF RawConfig
    <3>3. none \in GivenTexts /\ default \in GivenTexts /\ endpoint \in GivenTexts
      BY <1>1
    <3> HIDE DEF hosts, none, default, endpoint
    <3> QED BY ONLY <3>1, <3>2, <3>3
  <2> DEFINE p == 1
             c == 10
             r == 600
             i == 60
             w == 20
  <2>2. p \in Nat /\ c \in Nat /\ r \in Nat /\ i \in Nat /\ w \in Nat
    OBVIOUS
  <2> HIDE DEF hosts, none, default, endpoint, p, c, r, i, w
  <2>3. [project_id |-> none, instance_id |-> none, app_profile_id |-> default, endpoint |-> endpoint,
         emulator_host |-> {}, channel_pool_size |-> p, connect_timeout |-> c, request_timeout |-> r,
         keep_alive_interval |-> i, keep_alive_timeout |-> w] \in RawConfig
    BY ONLY <2>1, <2>2
  <2> QED BY ONLY <2>3 DEF RawDefault, none, default, endpoint, p, c, r, i, w
<1>4. ASSUME NEW project \in Texts, NEW instance \in Texts
      PROVE  [RawDefault EXCEPT !.project_id = project, !.instance_id = instance] \in RawConfig
  BY <1>2, <1>3 DEF RawConfig
<1> QED BY <1>3, <1>4

\* A result that agrees with its values keeps the invariant.
LEMMA ConfiguredKeeps ==
  ASSUME NEW result, NEW values, Agrees(result, values), Configured(result, values), calls' \in 0..MaxCalls
  PROVE  ConfigInv'
<1>1. values \in RawConfig /\ TryFrom(values).error = result.error /\ result.error \in ConfigErrors
  BY TryFromErrors DEF Agrees
<1>2. raw' = values /\ error' = result.error
  BY DEF Configured
<1>3. CASE result.error = NoError
  <2>1. config' = {result.value} /\ stage' = "Configured"
    BY <1>3 DEF Configured
  <2>2. Loaded(result.value, values)
    BY <1>1, <1>3 DEF Agrees, Loaded
  <2>3. config' # {} /\ \E c \in config' : config' = {c} /\ Loaded(c, raw')
    BY <1>2, <2>1, <2>2
  <2> QED BY <1>1, <1>2, <1>3, <2>1, <2>3 DEF ConfigInv, Loaded
<1>4. CASE result.error # NoError
  <2>1. config' = {} /\ stage' = "Refused"
    BY <1>4 DEF Configured
  <2> QED BY <1>1, <1>2, <1>4, <2>1 DEF ConfigInv
<1> QED BY <1>3, <1>4

\* Steps that do not configure leave a configuration that was made as it is, or
\* take it.
LEMMA OtherwiseKeeps ==
  ASSUME ConfigInv,
         \/ UNCHANGED <<configVars, stage>>
         \/ stage # "Configured" /\ UNCHANGED configVars /\ stage' \in {"EmulatorReady", "Failed"}
         \/ /\ stage' \in {"Service", "Emulator", "Failed"}
            /\ config' = {} /\ raw' = RawDefault /\ calls' = 0 /\ UNCHANGED error
  PROVE  ConfigInv'
<1>1. CASE UNCHANGED <<configVars, stage>>
  BY <1>1 DEF ConfigInv, configVars
<1>2. CASE stage # "Configured" /\ UNCHANGED configVars /\ stage' \in {"EmulatorReady", "Failed"}
  BY <1>2 DEF ConfigInv, configVars
<1>3. CASE /\ stage' \in {"Service", "Emulator", "Failed"}
           /\ config' = {} /\ raw' = RawDefault /\ calls' = 0 /\ UNCHANGED error
  <2>1. raw' \in RawConfig
    BY <1>3, DefaultIsRaw
  <2> HIDE DEF RawDefault
  <2> QED BY <1>3, <2>1, InputsAssumption DEF ConfigInv
<1> QED BY <1>1, <1>2, <1>3

\* What is loaded agrees with its values.
LEMMA LoadedAgrees ==
  ASSUME NEW given \in RawConfig
  PROVE  Agrees(TryFrom(given), given)
BY TryFromIs DEF Agrees

\* Every step keeps the configuration what its values make.
LEMMA ConfigStep == ConfigInv /\ [ClientNext]_allVars => ConfigInv'
<1> SUFFICES ASSUME ConfigInv, [ClientNext]_allVars PROVE ConfigInv'
  OBVIOUS
<1>1. CASE UNCHANGED allVars
  BY <1>1, OtherwiseKeeps DEF allVars, configVars, clientVars
<1>2. ASSUME NEW project \in Names, NEW instance \in Names, NewConfig(project, instance)
      PROVE  ConfigInv'
  <2> DEFINE values == [RawDefault EXCEPT !.project_id = project, !.instance_id = instance]
  <2>1. values \in RawConfig
    BY InputsAssumption, DefaultIsRaw
  <2>2. Configured(New(project, instance), values) /\ New(project, instance) = TryFrom(values)
    BY <1>2 DEF NewConfig, New
  <2>3. calls' \in 0..MaxCalls
    BY <1>2 DEF NewConfig, ConfigInv
  <2> HIDE DEF values
  <2> QED BY <2>1, <2>2, <2>3, LoadedAgrees, ConfiguredKeeps
<1>3. ASSUME NEW values \in RawChoices, LoadConfig(values) PROVE ConfigInv'
  <2>1. values \in RawConfig
    BY InputsAssumption
  <2>2. Configured(TryFrom(values), values) /\ calls' \in 0..MaxCalls
    BY <1>3 DEF LoadConfig, ConfigInv
  <2> QED BY <2>1, <2>2, LoadedAgrees, ConfiguredKeeps
<1>4. ASSUME NEW c \in config, stage = "Configured", calls < MaxCalls, calls' = calls + 1
      PROVE  Loaded(c, raw) /\ calls' \in 0..MaxCalls
  BY <1>4, InputsAssumption DEF ConfigInv
<1>5. ASSUME NEW text \in Texts, SetText(text) PROVE ConfigInv'
  <2>1. PICK c \in config :
          /\ stage = "Configured" /\ calls < MaxCalls /\ calls' = calls + 1
          /\ \/ Configured(WithAppProfileId(c, text), [raw EXCEPT !.app_profile_id = text])
             \/ Configured(WithEndpoint(c, text), [raw EXCEPT !.endpoint = text])
             \/ Configured(WithEmulatorHost(c, text), [raw EXCEPT !.emulator_host = {text}])
    BY <1>5 DEF SetText
  <2>2. Loaded(c, raw) /\ calls' \in 0..MaxCalls
    BY <1>4, <2>1
  <2>3. CASE Configured(WithAppProfileId(c, text), [raw EXCEPT !.app_profile_id = text])
    BY <2>2, <2>3, ProfileSet, ConfiguredKeeps
  <2>4. CASE Configured(WithEndpoint(c, text), [raw EXCEPT !.endpoint = text])
    BY <2>2, <2>4, EndpointSet, ConfiguredKeeps
  <2>5. CASE Configured(WithEmulatorHost(c, text), [raw EXCEPT !.emulator_host = {text}])
    BY <2>2, <2>5, EmulatorHostSet, ConfiguredKeeps
  <2> QED BY <2>1, <2>3, <2>4, <2>5
<1>6. ASSUME NEW n \in Sizes, SetNumber(n) PROVE ConfigInv'
  <2>1. PICK c \in config :
          /\ stage = "Configured" /\ calls < MaxCalls /\ calls' = calls + 1
          /\ \/ Configured(WithChannelPoolSize(c, n), [raw EXCEPT !.channel_pool_size = n])
             \/ Configured(WithConnectTimeout(c, n), [raw EXCEPT !.connect_timeout = n])
             \/ Configured(WithRequestTimeout(c, n), [raw EXCEPT !.request_timeout = n])
             \/ \E timeout \in Sizes :
                  Configured(WithKeepAlive(c, n, timeout),
                             [raw EXCEPT !.keep_alive_interval = n, !.keep_alive_timeout = timeout])
    BY <1>6 DEF SetNumber
  <2>2. Loaded(c, raw) /\ calls' \in 0..MaxCalls
    BY <1>4, <2>1
  <2>3. n \in Nat /\ Sizes \subseteq Nat
    BY InputsAssumption
  <2>4. CASE Configured(WithChannelPoolSize(c, n), [raw EXCEPT !.channel_pool_size = n])
    BY <2>2, <2>3, <2>4, PoolSizeSet, ConfiguredKeeps
  <2>5. CASE Configured(WithConnectTimeout(c, n), [raw EXCEPT !.connect_timeout = n])
    BY <2>2, <2>3, <2>5, ConnectTimeoutSet, ConfiguredKeeps
  <2>6. CASE Configured(WithRequestTimeout(c, n), [raw EXCEPT !.request_timeout = n])
    BY <2>2, <2>3, <2>6, RequestTimeoutSet, ConfiguredKeeps
  <2>7. ASSUME NEW timeout \in Sizes,
               Configured(WithKeepAlive(c, n, timeout),
                          [raw EXCEPT !.keep_alive_interval = n, !.keep_alive_timeout = timeout])
        PROVE  ConfigInv'
    BY <2>2, <2>3, <2>7, KeepAliveSet, ConfiguredKeeps
  <2> QED BY <2>1, <2>4, <2>5, <2>6, <2>7
<1>7. ASSUME NEW found \in BOOLEAN, Connect(found) PROVE ConfigInv'
  <2>1. /\ stage' \in {"Service", "Emulator", "Failed"}
        /\ config' = {} /\ raw' = RawDefault /\ calls' = 0 /\ UNCHANGED error
    BY <1>7 DEF Connect
  <2> QED BY <2>1, OtherwiseKeeps
<1>8. CASE ServiceStep
  BY <1>8, OtherwiseKeeps, ServiceSteps
<1>9. ASSUME NEW connects \in BOOLEAN, EmulatorConnects(connects) PROVE ConfigInv'
  BY <1>9, OtherwiseKeeps DEF EmulatorConnects
<1>10. ASSUME NEW deadlines, Request(deadlines) PROVE ConfigInv'
  BY <1>10, OtherwiseKeeps DEF Request
<1> QED BY <1>1, <1>2, <1>3, <1>5, <1>6, <1>7, <1>8, <1>9, <1>10 DEF ClientNext

\* With a positive deadline the default policies of a call are valid.
LEMMA DefaultPoliciesValid ==
  ASSUME NEW deadlines \in {ReadDeadlines(600), BulkDeadlines(600)}, NEW timeout \in Nat, timeout > 0
  PROVE  ValidPolicies(DefaultRetry, [deadlines EXCEPT !.operation_timeout = timeout])
<1> DEFINE used == [deadlines EXCEPT !.operation_timeout = timeout]
           checks == <<Check(DefaultRetry.max_attempts > 0, "ZeroMaxAttempts"),
                       Check(DefaultRetry.initial_backoff > 0, "ZeroInitialBackoff"),
                       Check(DefaultRetry.max_backoff > 0, "ZeroMaxBackoff"),
                       Check(DefaultRetry.max_backoff >= DefaultRetry.initial_backoff, "MaxBackoffTooSmall"),
                       Check(DefaultRetry.multiplier >= 1, "InvalidBackoffMultiplier"),
                       Check(used.operation_timeout > 0, "ZeroOperationTimeout"),
                       Check(used.attempt_timeout > 0, "ZeroAttemptTimeout")>>
<1>1. used.operation_timeout > 0 /\ used.attempt_timeout > 0
  BY DEF ReadDeadlines, BulkDeadlines
<1>2. /\ DefaultRetry.max_attempts > 0 /\ DefaultRetry.initial_backoff > 0 /\ DefaultRetry.max_backoff > 0
      /\ DefaultRetry.max_backoff >= DefaultRetry.initial_backoff /\ DefaultRetry.multiplier >= 1
  BY DEF DefaultRetry
<1> HIDE DEF used
<1>3. \A i \in DOMAIN checks : checks[i] = "None"
  BY <1>1, <1>2 DEF Check
<1>4. PolicyIssue(DefaultRetry, used) = FirstIssue(checks)
  BY DEF PolicyIssue
<1> HIDE DEF checks
<1>5. FirstIssue(checks) = "None"
  BY <1>3 DEF FirstIssue
<1> QED BY <1>4, <1>5 DEF ValidPolicies, used

\* Every step keeps the deadline of a client positive and starts a token manager
\* only for the service.
LEMMA ServiceInvStep == ConfigInv /\ ServiceInv /\ [ClientNext]_allVars => ServiceInv'
<1> SUFFICES ASSUME ConfigInv, ServiceInv, [ClientNext]_allVars PROVE ServiceInv'
  OBVIOUS
<1> USE DEF ServiceInv
<1>1. CASE UNCHANGED allVars
  BY <1>1 DEF allVars, vars, clientVars
<1>2. ASSUME NEW result, NEW values, stage \in {"Start", "Configured"}, Configured(result, values)
      PROVE  ServiceInv'
  BY <1>2 DEF Configured, vars
<1>3. ASSUME NEW found \in BOOLEAN, Connect(found) PROVE ServiceInv'
  <2>1. PICK c \in config : client' = {[emulator |-> UsesEmulator(c), request_timeout |-> c.request_timeout]}
                            /\ stage = "Configured"
    BY <1>3 DEF Connect
  <2>2. Loaded(c, raw)
    BY <2>1 DEF ConfigInv
  <2>3. c.request_timeout \in Nat /\ c.request_timeout > 0
    BY <2>2, LoadedIsUsable
  <2>4. UNCHANGED <<task, handles, request>>
    BY <1>3 DEF Connect, vars
  <2> QED BY <2>1, <2>3, <2>4
<1>4. ASSUME NEW connects \in BOOLEAN, EmulatorConnects(connects) PROVE ServiceInv'
  BY <1>4 DEF EmulatorConnects, vars
<1>5. CASE ServiceStep
  <2>1. stage = "Service" /\ request' = "None" /\ UNCHANGED <<stage, client>>
    BY <1>5, ServiceSteps
  <2> QED BY <2>1
<1>6. ASSUME NEW deadlines \in {ReadDeadlines(600), BulkDeadlines(600)}, Request(deadlines) PROVE ServiceInv'
  <2>1. PICK c \in client, i \in interceptor :
          request' = IF ValidPolicies(DefaultRetry, [deadlines EXCEPT !.operation_timeout = c.request_timeout])
                       THEN Intercept(i) ELSE "InvalidPolicy"
    BY <1>6 DEF Request
  <2>2. UNCHANGED <<stage, client, task, handles>>
    BY <1>6 DEF Request, vars
  <2>3. c.request_timeout \in Nat /\ c.request_timeout > 0
    OBVIOUS
  <2>4. ValidPolicies(DefaultRetry, [deadlines EXCEPT !.operation_timeout = c.request_timeout])
    BY <2>3, DefaultPoliciesValid
  <2>5. request' \in {"Anonymous", "Authorized", "Unauthenticated"}
    BY <2>1, <2>4 DEF Intercept
  <2> QED BY <2>2, <2>5
<1>7. ASSUME NEW project \in Names, NEW instance \in Names, NewConfig(project, instance) PROVE ServiceInv'
  BY <1>2, <1>7 DEF NewConfig
<1>8. ASSUME NEW values \in RawChoices, LoadConfig(values) PROVE ServiceInv'
  BY <1>2, <1>8 DEF LoadConfig
<1>9. ASSUME NEW text \in Texts, SetText(text) PROVE ServiceInv'
  BY <1>2, <1>9 DEF SetText
<1>10. ASSUME NEW n \in Sizes, SetNumber(n) PROVE ServiceInv'
  <2>1. stage = "Configured" /\ \E result, values : Configured(result, values)
    BY <1>10, Zenon DEF SetNumber
  <2> QED BY <1>2, <2>1
<1> QED BY <1>1, <1>3, <1>4, <1>5, <1>6, <1>7, <1>8, <1>9, <1>10 DEF ClientNext

\* The configuration and what a client keeps of it, in every state.
THEOREM ConfigInvariant == ClientSpec => [](ConfigInv /\ ServiceInv)
<1>1. ClientInit => ConfigInv /\ ServiceInv
  <2> SUFFICES ASSUME ClientInit PROVE ConfigInv /\ ServiceInv
    OBVIOUS
  <2>1. raw \in RawConfig
    BY DefaultIsRaw DEF ClientInit
  <2>2. stage = "Start" /\ config = {} /\ error = NoError /\ calls = 0 /\ client = {} /\ request = "None"
        /\ task = "None" /\ handles = 0
    BY DEF ClientInit, Init
  <2> QED BY <2>1, <2>2, InputsAssumption DEF ConfigInv, ServiceInv, ConfigErrors
<1>2. ConfigInv /\ ServiceInv /\ [ClientNext]_allVars => ConfigInv' /\ ServiceInv'
  BY ConfigStep, ServiceInvStep
<1> QED BY <1>1, <1>2, PTL DEF ClientSpec

\* Whatever setters are called, in any order and with any values, a
\* configuration is the one load makes of the same values and is refused with the
\* error load finds; setting what it returns changes nothing (TryFrom<RawConfig>,
\* the setters).
THEOREM SettersAgreeWithLoad == ClientSpec => []LoadAgrees
<1>1. ConfigInv => LoadAgrees
  <2> SUFFICES ASSUME ConfigInv PROVE LoadAgrees
    OBVIOUS
  <2>1. ASSUME NEW c \in config PROVE Loaded(c, raw)
    BY <2>1 DEF ConfigInv
  <2>2. ASSUME NEW c \in config
        PROVE  /\ WithAppProfileId(c, c.app_profile_id) = Ok(c)
               /\ WithEndpoint(c, c.endpoint) = Ok(c)
               /\ \A host \in c.emulator_host : WithEmulatorHost(c, host) = Ok(c)
    BY <2>1, <2>2, LoadedIsUsable
  <2>3. CASE stage = "Configured"
    <3>1. PICK c \in config : config = {c} /\ Loaded(c, raw) /\ error = NoError
      BY <2>3 DEF ConfigInv
    <3>2. TryFrom(raw).error = error /\ TryFrom(raw).value = c
      BY <3>1, TryFromIs DEF Loaded
    <3> QED BY <2>2, <3>1, <3>2, <2>3 DEF LoadAgrees
  <2>4. CASE stage = "Refused"
    BY <2>2, <2>4 DEF LoadAgrees, ConfigInv
  <2>5. CASE stage \notin {"Configured", "Refused"}
    BY <2>2, <2>5 DEF LoadAgrees
  <2> QED BY <2>3, <2>4, <2>5
<1> QED BY <1>1, ConfigInvariant, PTL

\* An accepted configuration is never refused later: its endpoint is a URI, its
\* pool has a channel, and its request timeout is a valid deadline
\* (build_endpoint, validate_policies).
THEOREM AcceptedIsUsable == ClientSpec => []ConfigUsable
<1>1. ConfigInv /\ ServiceInv => ConfigUsable
  <2> SUFFICES ASSUME ConfigInv, ServiceInv PROVE ConfigUsable
    OBVIOUS
  <2>1. ASSUME NEW c \in config PROVE IsUri(ServiceEndpoint(c)) /\ c.channel_pool_size > 0
    BY <2>1, LoadedIsUsable DEF ConfigInv
  <2> QED BY <2>1 DEF ConfigUsable, ServiceInv
<1> QED BY <1>1, ConfigInvariant, PTL

\* Every variable of a client keeps its type; an emulator's client never has a
\* token manager, and a manager is held by connect_builder or by the interceptors
\* (connect_builder).
THEOREM ClientTyped == ClientSpec => []ClientTypeOK
<1>1. TypeOK /\ RequestInv /\ ConfigInv /\ ServiceInv => ClientTypeOK
  <2> SUFFICES ASSUME TypeOK, RequestInv, ConfigInv, ServiceInv PROVE ClientTypeOK
    OBVIOUS
  <2>1. error = NoError \/ (error.field \in ConfigField /\ error.issue \in ConfigIssue)
    <3>1. error \in ConfigErrors
      BY DEF ConfigInv
    <3> QED BY <3>1 DEF ConfigErrors, InvalidConfig
  <2>2. (\E c \in client : c.emulator) => task = "None" /\ handles = 0
    BY DEF RequestInv, StageInv, ServiceInv
  <2>3. /\ tokens \subseteq {"TokenManager"} /\ \A i \in interceptor : i.tokens \subseteq {"TokenManager"}
        /\ handles > 0 <=> (tokens # {} \/ \E i \in interceptor : i.tokens # {})
    <3> USE DEF RequestInv, HolderInv
    <3>1. connect \in {"Token", "Channel", "Ready", "Failed"} /\ handles \in Nat
      BY DEF TypeOK
    <3>2. CASE connect = "Channel"
      BY <3>2
    <3>3. CASE connect = "Ready" /\ handles > 0
      <4> DEFINE shared == [tokens |-> {"TokenManager"}]
      <4>1. tokens = {} /\ interceptor = {shared}
        BY <3>3
      <4>2. shared.tokens = {"TokenManager"}
        OBVIOUS
      <4> HIDE DEF shared
      <4> QED BY <3>3, <4>1, <4>2
    <3>4. CASE connect # "Channel" /\ ~(handles > 0)
      <4>1. tokens = {} /\ \A i \in interceptor : i = [tokens |-> {}]
        BY <3>4
      <4>2. \A i \in interceptor : i.tokens = {}
        BY <4>1
      <4> QED BY <3>4, <4>1, <4>2
    <3> QED BY <3>1, <3>2, <3>3, <3>4
  <2> QED BY <2>1, <2>2, <2>3 DEF ClientTypeOK, ConfigInv, ServiceInv
<1> QED BY <1>1, RequestInvAlways, ConfigInvariant, ClientRunsManager, ManagerTyped, PTL
=============================================================================
