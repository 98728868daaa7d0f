--------------------------- MODULE StartupProofs ---------------------------
(***************************************************************************)
(* Proofs about Startup, for every number of attempts, clients, events and *)
(* failing calls and every set of networks: a start that failed forgets    *)
(* nothing it holds, and stops the users of a part before the part; the    *)
(* status of the access point is true; and a join that is alone succeeds   *)
(* only with a lease.                                                      *)
(*                                                                         *)
(* The arguments: whatever is held belongs to a stage that the rollback    *)
(* will run (Known), and the rollback has behind it only parts that are    *)
(* released or have refused to be (Ahead).  While the access point serves, *)
(* the reports that wait lead from the count in the status to the clients  *)
(* there are (Serves); before and after, the event task has nothing to     *)
(* write back (Dark, Off).  For a join that is alone, no report and no     *)
(* flag is left over from an attempt before (Attempt).                     *)
(***************************************************************************)
EXTENDS Startup, SequenceTheorems, TLAPS

\* The place of each part in cleanup_after_failure().
Rank == [code |-> 1, http |-> 2, netif |-> 3, driver |-> 3, handler |-> 3, radio |-> 3,
         controls |-> 4, executor |-> 5, usb |-> 6, auth |-> 7, web |-> 8, data |-> 8,
         settings |-> 9, nvs |-> 10]
Parts  == DOMAIN Rank
From(p) == {part \in Parts : Rank[part] >= p}

StageNames == {"nvs", "settings", "read", "storage", "auth", "usb", "executor", "controls",
               "bootstrap", "code", "wifi", "http"}

\* The components that say themselves what they hold, and where their parts come.
Self  == {"http", "wifi", "storage"}
Asked == {2, 3, 8}

\* The stage of a part that is still to be released will be run.
Known ==
    \A part \in held \ refused :
        part \in owned \/ Rank[part] \in Asked

Ahead ==
    /\ main.phase = "rollback" => main.at \in 1 .. 11 /\ held \ refused \subseteq From(main.at)
    /\ main.phase = "stop_wifi" => main.at = 3 /\ held \ refused \subseteq From(3)
    /\ main.phase = "stopped_wifi" => main.at = 3 /\ held \ refused \subseteq From(4)
    /\ main.phase = "failed" => held \subseteq refused

IInv ==
    /\ held \subseteq Parts /\ provisioned \in BOOLEAN
    /\ main = [phase |-> main.phase, at |-> main.at] /\ main.at \in Nat
    /\ main.phase = "start" => main.at # 0
    /\ Known /\ Ahead

-----------------------------------------------------------------------------
\* The parts that are released at each place of the rollback.
LEMMA RankOfParts ==
    /\ Len(Teardown) = 10
    /\ \A k \in 1 .. 10 : PartsOf(Teardown[k]) = {part \in Parts : Rank[part] = k}
    /\ \A k \in 1 .. 10 : Teardown[k] = "wifi" <=> k = 3
    /\ \A k \in 1 .. 10 \ Asked : Teardown[k] \notin Self /\ PartsOf(Teardown[k]) = {Teardown[k]}
    /\ \A k \in 1 .. 10 : Teardown[k] \in Parts => Rank[Teardown[k]] = k
    /\ \A part \in Parts : Rank[part] \in 1 .. 10
    /\ \A part \in WifiParts : part \in Parts /\ Rank[part] = 3
    /\ \A part \in {"web", "data"} : part \in Parts /\ Rank[part] = 8
    /\ "http" \in Parts /\ Rank["http"] = 2
  BY DEF Teardown, PartsOf, WifiParts, Rank, Parts, Self, Asked

LEMMA StageIsNamed ==
    ASSUME NEW p \in BOOLEAN
    PROVE  /\ Len(Stages(p)) \in Nat \ {0}
           /\ \A i \in 1 .. Len(Stages(p)) : Stages(p)[i] \in StageNames
  <1> DEFINE Named(stages) == /\ Len(stages) \in Nat \ {0}
                              /\ \A i \in 1 .. Len(stages) : stages[i] \in StageNames
  <1>1. Named(NormalMode)
    <2>1. Len(NormalMode) = 10 /\ \A i \in 1 .. 10 : NormalMode[i] \in StageNames
      BY DEF NormalMode, StageNames
    <2> QED  BY <2>1
  <1>2. Named(SetupMode)
    <2>1. Len(SetupMode) = 9 /\ \A i \in 1 .. 9 : SetupMode[i] \in StageNames
      BY DEF SetupMode, StageNames
    <2> QED  BY <2>1
  <1> HIDE DEF Named
  <1>3. Stages(p) = NormalMode \/ Stages(p) = SetupMode
    BY DEF Stages
  <1>4. Named(Stages(p))
    BY <1>1, <1>2, <1>3
  <1> QED  BY <1>4 DEF Named

\* What a step of the main task takes belongs to its stage, and what it leaves behind to
\* the rollback.
LEMMA RollbackBegins ==
    ASSUME IInv, held' \subseteq Parts, Known', main' = Back, UNCHANGED provisioned
    PROVE  IInv'
  <1>1. held' \ refused' \subseteq From(1)
    BY RankOfParts DEF From
  <1> QED  BY <1>1 DEF IInv, Ahead, Back

LEMMA StageHolds ==
    ASSUME IInv, main.phase = "start", main.at <= Len(Stages(provisioned))
    PROVE  /\ Stage \in StageNames
           /\ PartsOf(Stage) \subseteq Parts
           /\ Stage \notin Self => PartsOf(Stage) \subseteq {Stage}
  <1>1. main.at \in 1 .. Len(Stages(provisioned))
    BY StageIsNamed DEF IInv
  <1>2. Stage \in StageNames
    BY <1>1, StageIsNamed DEF Stage, IInv
  <1> QED  BY <1>2 DEF StageNames, PartsOf, WifiParts, Parts, Rank, Self

LEMMA StartStageKeeps ==
    ASSUME IInv, StartStage
    PROVE  IInv'
  <1>1. /\ PartsOf(Stage) \subseteq Parts /\ Stage \notin {"storage", "wifi"}
        /\ Stage \notin Self => PartsOf(Stage) \subseteq {Stage}
        /\ UNCHANGED <<provisioned, refused>> /\ PartsOf("http") = {"http"}
    BY StageHolds DEF StartStage, PartsOf
  <1>2. CASE held' = held \cup PartsOf(Stage) /\ owned' = owned \cup {Stage} /\ main' = Forward
    <2>1. Known'
      BY <1>1, <1>2, RankOfParts DEF IInv, Known, Self, PartsOf
    <2>2. main'.phase = "start" /\ main'.at \in Nat \ {0} /\ main' = [phase |-> main'.phase, at |-> main'.at]
      BY <1>2 DEF IInv, StartStage, Forward
    <2> QED  BY <1>1, <1>2, <2>1, <2>2 DEF IInv, Ahead
  <1>3. CASE /\ main' = Back /\ UNCHANGED owned
             /\ held' \in {held, held \cup ({Stage} \cap {"http"})}
    <2>1. held' \subseteq held \cup {"http"} /\ held' \subseteq Parts
      BY <1>3 DEF IInv, Parts, Rank
    <2>2. Known'
      BY <1>1, <1>3, <2>1, RankOfParts DEF IInv, Known, Asked
    <2> QED  BY <1>1, <1>3, <2>1, <2>2, RollbackBegins
  <1> QED  BY <1>2, <1>3 DEF StartStage

LEMMA MountStorageKeeps ==
    ASSUME IInv, MountStorage
    PROVE  IInv'
  <1>1. /\ held' \subseteq held \cup {"web", "data"} /\ UNCHANGED <<provisioned, refused>>
        /\ owned' \in {owned, owned \cup {"storage"}} /\ main' \in {Forward, Back}
    BY DEF MountStorage
  <1>2. held' \subseteq Parts
    BY <1>1 DEF IInv, Parts, Rank
  <1>3. Known'
    BY <1>1, RankOfParts DEF IInv, Known, Asked
  <1>4. CASE main' = Forward
    <2>1. main'.phase = "start" /\ main'.at \in Nat \ {0} /\ main' = [phase |-> main'.phase, at |-> main'.at]
      BY <1>4 DEF IInv, MountStorage, Forward
    <2> QED  BY <1>1, <1>2, <1>3, <2>1 DEF IInv, Ahead
  <1>5. CASE main' = Back
    BY <1>1, <1>2, <1>3, <1>5, RollbackBegins
  <1> QED  BY <1>1, <1>4, <1>5

LEMMA StepKeeps ==
    ASSUME IInv, [Next]_vars
    PROVE  IInv'
  <1>1. CASE UNCHANGED <<provisioned, main, held, owned, refused>>
    BY <1>1 DEF IInv, Known, Ahead
  <1>2. CASE StartStage
    BY <1>2, StartStageKeeps
  <1>3. CASE MountStorage
    BY <1>3, MountStorageKeeps
  <1>4. CASE Started
    BY <1>4 DEF Started, IInv, Known, Ahead
  <1>5. CASE WifiBegin
    <2>1. UNCHANGED <<provisioned, held, owned, refused>>
      BY <1>5 DEF WifiBegin
    <2>2. CASE main' = Back
      BY <2>1, <2>2, RollbackBegins DEF IInv, Known
    <2>3. CASE main' = [phase |-> "wifi", at |-> 1]
      BY <2>1, <2>3 DEF IInv, Known, Ahead
    <2>4. main' = Back \/ main' = [phase |-> "wifi", at |-> 1]
      BY <1>5 DEF WifiBegin
    <2> QED  BY <2>2, <2>3, <2>4
  <1>6. CASE WifiStep
    <2>1. /\ held' \subseteq held \cup WifiParts /\ UNCHANGED <<provisioned, owned, refused>>
          /\ main' \in [phase : {"join", "wifi", "fail_start"}, at : Nat]
      BY <1>6 DEF WifiStep, WifiParts, IInv
    <2>2. held' \subseteq Parts
      BY <2>1 DEF IInv, Parts, Rank, WifiParts
    <2>3. Known'
      BY <2>1, RankOfParts DEF IInv, Known, Asked
    <2> QED  BY <2>1, <2>2, <2>3 DEF IInv, Ahead
  <1>7. CASE FailStart
    <2>1. /\ held' \subseteq held /\ UNCHANGED <<provisioned, owned, refused>>
          /\ main' = [main EXCEPT !.phase = "failed_start"]
      BY <1>7 DEF FailStart, CleanUp, Released
    <2> QED  BY <2>1 DEF IInv, Known, Ahead
  <1>8. CASE FailedStart
    BY <1>8, RollbackBegins DEF FailedStart, IInv, Known
  <1>9. CASE BootJoin
    <2>1. CASE UNCHANGED <<main, owned>>
      BY <1>1, <1>9, <2>1 DEF BootJoin
    <2>2. CASE /\ owned' = owned \cup {"wifi"}
               /\ main' = [phase |-> "start", at |-> Len(Stages(provisioned))]
      <3>1. main'.phase = "start" /\ main'.at \in Nat \ {0} /\ main' = [phase |-> main'.phase, at |-> main'.at]
        BY <2>2, StageIsNamed DEF IInv
      <3> QED  BY <1>9, <2>2, <3>1 DEF BootJoin, IInv, Known, Ahead
    <2> QED  BY <1>9, <2>1, <2>2 DEF BootJoin
  <1>10. CASE TearDown
    <2> DEFINE k == main.at
               stage == Teardown[k]
    <2>1. /\ k \in 1 .. 10 /\ held \ refused \subseteq From(k)
          /\ PartsOf(stage) = {part \in Parts : Rank[part] = k}
          /\ k \notin Asked => PartsOf(stage) = {stage} /\ stage \notin Self
          /\ main' = [main EXCEPT !.at = @ + 1] /\ UNCHANGED provisioned
      BY <1>10, RankOfParts, SMTT(30) DEF TearDown, IInv, Ahead
    <2>2. main'.at = k + 1 /\ main'.phase = "rollback"
      BY <1>10, <2>1 DEF TearDown, IInv
    <2>3. /\ held' \subseteq held /\ refused \subseteq refused'
          /\ (held' \ refused') \cap PartsOf(stage) = {}
          /\ \A other \in owned : other \in owned' \/ other = stage
      <3>1. CASE ShouldRun(stage)
        BY <1>10, <3>1 DEF TearDown
      <3>2. CASE ~ShouldRun(stage)
        <4>1. UNCHANGED <<held, owned, refused>>
          BY <1>10, <3>2 DEF TearDown
        <4>2. ASSUME NEW part \in held \ refused, Rank[part] = k, part \in Parts PROVE FALSE
          <5>1. part \in PartsOf(stage) /\ stage \notin owned
            BY <2>1, <3>2, <4>2 DEF ShouldRun
          <5>2. CASE k \in Asked
            <6>1. stage \in Self
              BY <2>1, <5>2 DEF Teardown, Asked, Self
            <6> QED  BY <3>2, <4>2, <5>1, <6>1 DEF ShouldRun, Self
          <5>3. CASE k \notin Asked
            BY <2>1, <4>2, <5>1, <5>3 DEF IInv, Known
          <5> QED  BY <5>2, <5>3
        <4> QED  BY <2>1, <4>1, <4>2
      <3> QED  BY <3>1, <3>2
    <2>4. held' \ refused' \subseteq From(k + 1)
      BY <2>1, <2>3, RankOfParts DEF From, IInv
    <2>5. Known'
      <3> SUFFICES ASSUME NEW part \in held' \ refused'
                   PROVE  part \in owned' \/ Rank[part] \in Asked
        BY DEF Known
      <3>1. part \in held \ refused /\ part \in Parts /\ part \notin PartsOf(stage)
        BY <2>3 DEF IInv
      <3>2. part # stage
        BY <2>1, <3>1, RankOfParts
      <3> QED  BY <2>3, <3>1, <3>2 DEF IInv, Known
    <2> QED  BY <2>1, <2>2, <2>3, <2>4, <2>5 DEF IInv, Ahead
  <1>11. CASE StopWifi
    <2>1. UNCHANGED <<provisioned, held, owned, refused>> /\ main.at = 3
      BY <1>11, RankOfParts DEF StopWifi, IInv, Ahead
    <2>2. CASE main' = [main EXCEPT !.phase = "stop_wifi"]
      BY <1>11, <2>1, <2>2 DEF StopWifi, IInv, Known, Ahead
    <2>3. CASE main' = [main EXCEPT !.at = @ + 1] /\ held \cap WifiParts = {}
      <3>1. held \ refused \subseteq From(4)
        <4>1. held \ refused \subseteq From(3)
          BY <1>11, <2>1 DEF StopWifi, IInv, Ahead
        <4>2. {part \in Parts : Rank[part] = 3} \subseteq WifiParts
          BY RankOfParts DEF WifiParts, Parts, Rank
        <4> QED  BY <2>3, <4>1, <4>2, RankOfParts DEF From
      <3> QED  BY <1>11, <2>1, <2>3, <3>1 DEF StopWifi, IInv, Known, Ahead
    <2> QED  BY <1>11, <2>2, <2>3 DEF StopWifi, ShouldRun, PartsOf
  <1>12. CASE StopCleansUp
    <2>1. PICK stuck \in SUBSET WifiParts :
             /\ CleanUp(stuck) /\ refused' = refused \cup stuck
             /\ owned' = IF stuck = {} THEN owned \ {"wifi"} ELSE owned
      BY <1>12 DEF StopCleansUp
    <2>2. /\ held' = held \ (WifiParts \ stuck) /\ UNCHANGED provisioned
          /\ main' = [main EXCEPT !.phase = "stopped_wifi"]
      BY <1>12, <2>1 DEF StopCleansUp, CleanUp, Released
    <2>3. main.at = 3 /\ held \ refused \subseteq From(3)
      BY <1>12 DEF StopCleansUp, IInv, Ahead
    <2>4. held' \ refused' \subseteq From(4)
      <3>1. {part \in Parts : Rank[part] = 3} \subseteq WifiParts
        BY DEF WifiParts, Parts, Rank
      <3> QED  BY <2>1, <2>2, <2>3, <3>1, RankOfParts DEF From
    <2>5. Known'
      <3> SUFFICES ASSUME NEW part \in held' \ refused'
                   PROVE  part \in owned' \/ Rank[part] \in Asked
        BY DEF Known
      <3>1. part \in held \ refused /\ part \in Parts
        BY <2>1, <2>2 DEF IInv
      <3>2. part # "wifi"
        BY <3>1 DEF Parts, Rank
      <3> QED  BY <2>1, <3>1, <3>2 DEF IInv, Known
    <2> QED  BY <2>2, <2>3, <2>4, <2>5 DEF IInv, Ahead
  <1>13. CASE WifiStopped
    BY <1>13 DEF WifiStopped, IInv, Known, Ahead
  <1>14. CASE Failed
    <2>1. main.at = 11 /\ held \ refused \subseteq From(11)
      BY <1>14, RankOfParts DEF Failed, IInv, Ahead
    <2>2. From(11) = {}
      BY DEF From, Parts, Rank
    <2> QED  BY <1>14, <2>1, <2>2 DEF Failed, IInv, Known, Ahead
  <1>15. CASE EventTask \/ Console \/ Driver \/ (\E j \in Joiners : JoinStep(j))
    <2>1. UNCHANGED <<provisioned, main, held, owned, refused>>
      BY <1>15 DEF EventTask, TakeEvent, WriteStatus, Console, WifiConnect, SaveNetwork, Driver,
                   Client, Associate, Lose, JoinStep, Disconnect, Drain, Connect, Wait
    <2> QED  BY <1>1, <2>1
  <1>16. CASE UNCHANGED vars
    BY <1>1, <1>16 DEF vars
  <1> QED
    BY <1>2, <1>3, <1>4, <1>5, <1>6, <1>7, <1>8, <1>9, <1>10, <1>11, <1>12, <1>13, <1>14, <1>15,
       <1>16 DEF Next, MainTask

-----------------------------------------------------------------------------
\* The strengthening of the two theorems below is an invariant.
THEOREM Invariant == Spec => []IInv
  <1>1. Init => IInv
    BY DEF Init, IInv, Known, Ahead
  <1>2. IInv /\ [Next]_vars => IInv'
    BY StepKeeps
  <1> QED  BY <1>1, <1>2, PTL DEF Spec

\* After a start that failed, every part that is still held has refused its release
\* (cleanup_after_failure()).
THEOREM ReleasedOrRefused == Spec => []NothingIsForgotten
  <1>1. IInv => NothingIsForgotten
    BY DEF IInv, Ahead, NothingIsForgotten
  <1> QED  BY <1>1, Invariant, PTL

-----------------------------------------------------------------------------
\* What is started later comes earlier in the rollback, but for the setup code.
LEMMA LaterGoesFirst ==
    ASSUME NEW p \in BOOLEAN, NEW i \in DOMAIN Stages(p), NEW k \in DOMAIN Stages(p), i < k,
           NEW first \in PartsOf(Stages(p)[i]) \ {"code"}, NEW second \in PartsOf(Stages(p)[k])
    PROVE  Rank[second] < Rank[first]
  <1> DEFINE Ordered(stages) ==
                 \A m, n \in DOMAIN stages : m < n =>
                    \A a \in PartsOf(stages[m]) \ {"code"}, b \in PartsOf(stages[n]) : Rank[b] < Rank[a]
             Place(stage) == \* the ranks of its parts, but for the code
                 CASE stage = "nvs" -> 10 [] stage = "settings" -> 9 [] stage = "storage" -> 8
                   [] stage = "auth" -> 7 [] stage = "usb" -> 6 [] stage = "executor" -> 5
                   [] stage = "controls" -> 4 [] stage = "wifi" -> 3 [] stage = "http" -> 2
                   [] OTHER -> 1
  <1>1. \A stage \in StageNames : \A part \in PartsOf(stage) : Rank[part] = Place(stage)
    BY DEF StageNames, PartsOf, WifiParts, Rank
  <1>2. \A stage \in {"read", "bootstrap"} : PartsOf(stage) = {}
    BY DEF PartsOf
  <1>3. PartsOf("code") = {"code"}
    BY SMTT(30) DEF PartsOf
  <1>4. Ordered(NormalMode)
    <2>1. DOMAIN NormalMode = 1 .. 10 /\ \A n \in 1 .. 10 : NormalMode[n] \in StageNames
      BY DEF NormalMode, StageNames
    <2>2. \A m, n \in 1 .. 10 :
             m < n => NormalMode[m] = "read" \/ NormalMode[n] = "read"
                      \/ Place(NormalMode[n]) < Place(NormalMode[m])
      BY DEF NormalMode
    <2> QED  BY <1>1, <1>2, <2>1, <2>2, SMTT(30)
  <1>5. Ordered(SetupMode)
    <2>1. DOMAIN SetupMode = 1 .. 9 /\ \A n \in 1 .. 9 : SetupMode[n] \in StageNames
      BY DEF SetupMode, StageNames
    <2>2. \A m, n \in 1 .. 9 :
             m < n => SetupMode[m] \in {"read", "bootstrap", "code"}
                      \/ SetupMode[n] \in {"read", "bootstrap"}
                      \/ Place(SetupMode[n]) < Place(SetupMode[m])
      BY DEF SetupMode
    <2> QED  BY <1>1, <1>2, <1>3, <2>1, <2>2
  <1>6. Stages(p) = NormalMode \/ Stages(p) = SetupMode
    BY DEF Stages
  <1> HIDE DEF Place
  <1>7. Ordered(Stages(p))
    <2> HIDE DEF Ordered
    <2> QED  BY <1>4, <1>5, <1>6
  <1> QED  BY <1>7

\* What a step of the rollback releases has the place it has reached.
LEMMA ReleasesItsPlace ==
    ASSUME IInv, [Next]_vars, main.phase \in {"rollback", "stop_wifi"}
    PROVE  /\ held' \subseteq held
           /\ held \ refused \subseteq From(main.at) /\ main.at \in Nat
           /\ \A part \in held \ held' : Rank[part] = main.at
  <1>1. held \ refused \subseteq From(main.at) /\ main.at \in Nat
    BY DEF IInv, Ahead
  <1>2. CASE UNCHANGED held
    BY <1>1, <1>2
  <1>3. CASE TearDown
    <2>1. main.at \in 1 .. 10 /\ PartsOf(Teardown[main.at]) = {part \in Parts : Rank[part] = main.at}
      BY <1>3, RankOfParts DEF TearDown, IInv, Ahead
    <2>2. held' \subseteq held /\ held \ held' \subseteq PartsOf(Teardown[main.at])
      BY <1>3 DEF TearDown
    <2> QED  BY <1>1, <2>1, <2>2
  <1>4. CASE StopCleansUp
    <2>1. held' \subseteq held /\ held \ held' \subseteq WifiParts /\ main.at = 3
      BY <1>4 DEF StopCleansUp, CleanUp, Released, IInv, Ahead
    <2> QED  BY <1>1, <2>1, RankOfParts
  <1>5. CASE StopWifi \/ Failed \/ EventTask \/ Console \/ Driver \/ (\E j \in Joiners : JoinStep(j))
    <2>1. UNCHANGED held
      BY <1>5 DEF StopWifi, Failed, EventTask, TakeEvent, WriteStatus, Console, WifiConnect, SaveNetwork,
                  Driver, Client, Associate, Lose, JoinStep, Disconnect, Drain, Connect, Wait
    <2> QED  BY <1>2, <2>1
  <1>6. ~StartStage /\ ~MountStorage /\ ~Started /\ ~WifiBegin /\ ~WifiStep /\ ~FailStart
        /\ ~FailedStart /\ ~BootJoin /\ ~WifiStopped
    BY DEF StartStage, MountStorage, Started, WifiBegin, WifiStep, FailStart, FailedStart, BootJoin,
           WifiStopped
  <1>7. CASE UNCHANGED vars
    BY <1>2, <1>7 DEF vars
  <1> QED  BY <1>3, <1>4, <1>5, <1>6, <1>7 DEF Next, MainTask

\* Nothing is released before what was started after it, and may use it, is stopped or has
\* refused to be (cleanup_after_failure()).
THEOREM UsersBeforeParts == Spec => UsersGoFirst
  <1> DEFINE Step == main.phase \in {"rollback", "stop_wifi"} =>
                        LET order == Stages(provisioned)
                        IN  \A i, k \in DOMAIN order :
                              i < k /\ PartsOf(order[i]) \cap (held \ (held' \cup {"code"})) # {} =>
                                 PartsOf(order[k]) \cap held' \subseteq refused
  <1>1. IInv /\ [Next]_vars => Step
    <2> SUFFICES ASSUME IInv, [Next]_vars, main.phase \in {"rollback", "stop_wifi"},
                        NEW i \in DOMAIN Stages(provisioned), NEW k \in DOMAIN Stages(provisioned),
                        i < k,
                        NEW first \in PartsOf(Stages(provisioned)[i]) \cap (held \ (held' \cup {"code"})),
                        NEW second \in PartsOf(Stages(provisioned)[k]) \cap held'
                 PROVE  second \in refused
      OBVIOUS
    <2>1. Rank[second] < Rank[first]
      BY LaterGoesFirst DEF IInv
    <2>2. Rank[first] = main.at /\ main.at \in Nat /\ second \in held /\ second \in Parts
          /\ held \ refused \subseteq From(main.at)
      BY ReleasesItsPlace DEF IInv
    <2> QED  BY <2>1, <2>2, RankOfParts DEF From
  <1> QED  BY <1>1, Invariant, PTL DEF Spec, UsersGoFirst

-----------------------------------------------------------------------------
(* The access point and the joins: what the theorems about them rest on.    *)

\* The access point has not been switched on: the radio is off, and nothing has been
\* reported.
Dark == ~air /\ events = <<>> /\ handling = <<>> /\ clients = 0 /\ link = Free

\* Nobody takes the access point for ready, and what is held of it is an error.
Off ==
    /\ status.state \in {"stopped", "error"} /\ handling = <<>>
    /\ held \cap WifiParts # {} => status.state = "error"

On == {"starting", "ready"}
Statuses == [state : On, clients : 0 .. MaxClients, error : BOOLEAN]

\* The number of clients that the next report leaves of n.
Counted(n, event, m) ==
    CASE event = "joined" -> m = n + 1
      [] event = "left"   -> n = m + 1
      [] OTHER            -> m = n

Reports == {"started", "joined", "left", "lost", "ip"}

\* The reports in a queue lead from one number of clients to the other.
Leads(queue, from, to) ==
    \E count \in [0 .. Len(queue) -> 0 .. MaxClients] :
       /\ count[0] = from /\ count[Len(queue)] = to
       /\ \A i \in 1 .. Len(queue) : /\ queue[i] \in Reports
                                     /\ Counted(count[i - 1], queue[i], count[i])

\* The access point serves: the event task writes back the status it has read, with one
\* report more.
Serves ==
    /\ air /\ WifiParts \subseteq held /\ status \in Statuses
    /\ \/ handling = <<>> /\ Leads(events, status.clients, clients)
       \/ \E event \in {"started", "joined", "left"} :
             /\ handling = <<event, status>>
             /\ Leads(events, After(status, event).clients, clients)

Last == Len(Stages(provisioned))

\* What the access point and the event task do in each phase of the main task.
ApInv ==
    /\ handling # <<>> => "handler" \in held
    /\ main.phase = "start" /\ main.at < Last =>
          Dark /\ status = Status("stopped", FALSE) /\ held \cap WifiParts = {}
    /\ main.phase = "wifi" =>
          /\ Dark /\ status = Status("starting", FALSE) /\ main.at \in 1 .. 8
          /\ \A i \in 1 .. main.at - 1 : WifiSteps[i] \in WifiParts => WifiSteps[i] \in held
    /\ main.phase \in {"fail_start", "failed_start"} => Dark
    /\ \/ main.phase \in {"join", "running"}
       \/ main.phase = "start" /\ main.at >= Last
       => Serves
    /\ main.phase = "rollback" /\ main.at <= 3 =>
          WifiParts \subseteq held \/ (Dark /\ Off)
    /\ main.phase = "stopped_wifi" => "handler" \in refused \/ "handler" \notin held
    /\ main.phase = "failed" \/ (main.phase = "rollback" /\ main.at > 3) =>
          "handler" \in refused \/ ("handler" \notin held /\ Off)

JoinPcs == {"idle", "disconnect", "drain", "connect", "wait", "joined", "failed"}

Joins == [pc : JoinPcs, ssid : Networks \cup {NoNetwork}, attempt : Nat, alone : BOOLEAN,
          leased : BOOLEAN]

JoinType ==
    /\ events \in Seq(Reports \cup {"stopped"})
    /\ link \in [network : Networks \cup {NoNetwork}, up : BOOLEAN]
    /\ sem \in BOOLEAN /\ gotIp \in BOOLEAN
    /\ join \in [Joiners -> Joins]

\* No report of these outcomes waits.
Quiet(outcomes) == \A i \in 1 .. Len(events) : events[i] \notin outcomes

\* What an attempt of a join that is alone relies on: no outcome of an attempt before is
\* left, neither in the queue nor in the semaphore nor in the flag.
Attempt(j) ==
    CASE join[j].pc = "drain"   -> link = Free
      [] join[j].pc = "connect" -> link = Free /\ ~gotIp /\ ~sem /\ Quiet({"lost", "ip"})
      [] join[j].pc = "wait"    ->
             \/ join[j].leased
             \/ ~gotIp /\ Quiet({"ip"}) /\ (link = Free \/ link.network = join[j].ssid)
      [] join[j].pc = "joined"  -> join[j].leased
      [] OTHER                  -> TRUE

\* A join that is alone is the only one there is.
JoinInv ==
    \A j \in Joiners : join[j].pc # "idle" /\ join[j].alone =>
        /\ \A k \in Joiners \ {j} : join[k].pc = "idle"
        /\ Attempt(j)

-----------------------------------------------------------------------------
\* Every step leaves the reports as they are, adds one, or takes the first one.
LEMMA QueueStep ==
    ASSUME JoinType, [Next]_vars
    PROVE  /\ \/ events' = events
              \/ \E e \in Reports \cup {"stopped"} : Post(e)
              \/ events # <<>> /\ events' = Tail(events)
           /\ events' \in Seq(Reports \cup {"stopped"})
  <1>1. CASE UNCHANGED events
    BY <1>1 DEF JoinType
  <1>2. CASE \E e \in Reports \cup {"stopped"} : Post(e)
    BY <1>2, AppendProperties DEF JoinType, Post
  <1>3. CASE events # <<>> /\ events' = Tail(events)
    BY <1>3, HeadTailProperties DEF JoinType
  <1>4. CASE WifiStep
    <2>1. (events' = events) \/ Post("started")
      BY <1>4 DEF WifiStep
    <2> QED  BY <1>1, <1>2, <2>1 DEF Reports
  <1>5. CASE FailStart \/ StopCleansUp
    <2>1. events' = events \/ Post("stopped")
      BY <1>5 DEF FailStart, StopCleansUp, CleanUp
    <2> QED  BY <1>1, <1>2, <2>1
  <1>6. CASE TakeEvent
    BY <1>3, <1>6 DEF TakeEvent
  <1>7. CASE Driver
    <2>1. \E e \in {"joined", "left", "ip", "lost"} : Post(e)
      BY <1>7 DEF Driver, Client, Associate, Lose
    <2> QED  BY <1>2, <2>1 DEF Reports
  <1>8. CASE \E j \in Joiners : JoinStep(j)
    <2>1. events' = events \/ Post("lost")
      BY <1>8 DEF JoinStep, Disconnect, Drain, Connect, Wait, apVars
    <2> QED  BY <1>1, <1>2, <2>1 DEF Reports
  <1>9. CASE StartStage \/ MountStorage \/ Started \/ WifiBegin \/ FailedStart \/ BootJoin \/ TearDown
             \/ StopWifi \/ WifiStopped \/ Failed
    BY <1>1, <1>9 DEF StartStage, MountStorage, Started, WifiBegin, FailedStart, BootJoin, TearDown,
                      StopWifi, WifiStopped, Failed, apVars
  <1>10. CASE WriteStatus \/ Console
    BY <1>1, <1>10 DEF WriteStatus, Console, WifiConnect, SaveNetwork, apVars
  <1>11. CASE UNCHANGED vars
    BY <1>1, <1>11 DEF vars, apVars
  <1> QED
    BY <1>4, <1>5, <1>6, <1>7, <1>8, <1>9, <1>10, <1>11 DEF Next, MainTask, EventTask

\* The steps that concern the joins, one operation of a joiner at a time.
LEMMA JoinTypeStep ==
    ASSUME JoinType, [Next]_vars
    PROVE  JoinType'
  <1>0. NoJoin \in Joins /\ Free \in [network : Networks \cup {NoNetwork}, up : BOOLEAN]
    BY DEF NoJoin, Joins, JoinPcs, Free
  <1>1. CASE UNCHANGED <<link, sem, gotIp, join>>
    BY <1>1, QueueStep DEF JoinType
  <1>2. CASE UNCHANGED <<sem, gotIp, join>> /\ link' \in {link, Free}
    BY <1>0, <1>2, QueueStep DEF JoinType
  <1>3. CASE TakeEvent
    <2>1. UNCHANGED <<link, join>> /\ sem' \in {sem, TRUE} /\ gotIp' \in BOOLEAN
      BY <1>3 DEF TakeEvent, JoinType
    <2> QED  BY <2>1, QueueStep DEF JoinType
  <1>4. ASSUME NEW j \in Joiners, NEW ssid \in Networks, Begin(j, ssid), UNCHANGED <<link, sem, gotIp>>
        PROVE  JoinType'
    <2>1. ASSUME NEW k \in Joiners PROVE join'[k] \in Joins
      <3>1. CASE k = j
        BY <1>4, <3>1 DEF Begin, Joins, JoinPcs
      <3>2. CASE k # j
        BY <1>4, <3>2 DEF Begin, JoinType, Joins
      <3> QED  BY <3>1, <3>2
    <2>2. join' \in [Joiners -> Joins]
      BY <1>4, <2>1 DEF Begin
    <2> QED  BY <1>4, <2>2, QueueStep DEF JoinType
  <1>5. ASSUME NEW j \in Joiners, Return(j), UNCHANGED <<link, sem, gotIp>>
        PROVE  JoinType'
    <2>1. join' \in [Joiners -> Joins]
      BY <1>0, <1>5 DEF Return, JoinType
    <2> QED  BY <1>5, <2>1, QueueStep DEF JoinType
  <1>6. ASSUME NEW j \in Joiners, NEW pc \in JoinPcs, Enter(j, pc) PROVE join' \in [Joiners -> Joins]
    BY <1>6 DEF Enter, JoinType, Joins
  <1>7. ASSUME NEW j \in Joiners, AttemptFails(j) PROVE join' \in [Joiners -> Joins]
    <2>1. CASE Enter(j, "failed")
      BY <1>6, <2>1 DEF JoinPcs
    <2>2. CASE join' = [join EXCEPT ![j].pc = "disconnect", ![j].attempt = @ + 1, ![j].leased = FALSE]
      BY <2>2 DEF JoinType, Joins, JoinPcs
    <2> QED  BY <1>7, <2>1, <2>2 DEF AttemptFails
  <1>8. CASE \E j \in Joiners : JoinStep(j)
    <2> SUFFICES ASSUME NEW j \in Joiners, JoinStep(j) PROVE JoinType'
      BY <1>8
    <2>1. CASE Disconnect(j)
      BY <1>0, <1>6, <2>1, QueueStep DEF Disconnect, JoinType, JoinPcs
    <2>2. CASE Drain(j)
      BY <1>6, <2>2, QueueStep DEF Drain, Forget, JoinType, JoinPcs
    <2>3. CASE Connect(j)
      <3>1. join' \in [Joiners -> Joins] /\ UNCHANGED <<sem, gotIp>>
        BY <1>6, <1>7, <2>3 DEF Connect, JoinPcs
      <3>2. link' \in [network : Networks \cup {NoNetwork}, up : BOOLEAN]
        <4>1. join[j].ssid \in Networks \cup {NoNetwork}
          BY DEF JoinType, Joins
        <4>2. link' = link \/ link' = [network |-> join[j].ssid, up |-> FALSE]
          BY <2>3 DEF Connect
        <4>3. link \in [network : Networks \cup {NoNetwork}, up : BOOLEAN]
          BY DEF JoinType
        <4>4. [network |-> join[j].ssid, up |-> FALSE] \in [network : Networks \cup {NoNetwork}, up : BOOLEAN]
          BY <4>1
        <4> QED  BY <4>2, <4>3, <4>4
      <3> QED  BY <3>1, <3>2, QueueStep DEF JoinType
    <2>4. CASE Wait(j)
      <3>1. join' \in [Joiners -> Joins] /\ UNCHANGED <<link, gotIp>> /\ sem' \in BOOLEAN
        BY <1>6, <1>7, <2>4 DEF Wait, JoinPcs, JoinType
      <3> QED  BY <3>1, QueueStep DEF JoinType
    <2> QED  BY <2>1, <2>2, <2>3, <2>4 DEF JoinStep
  <1>9. CASE Associate
    <2>1. /\ link' \in [network : Networks \cup {NoNetwork}, up : BOOLEAN]
          /\ join' \in [Joiners -> Joins] /\ UNCHANGED <<sem, gotIp>>
      BY <1>9 DEF Associate, JoinType, Joins
    <2> QED  BY <2>1, QueueStep DEF JoinType
  <1>10. CASE BootJoin
    <2>1. CASE BootNetwork # NoNetwork /\ Begin("boot", BootNetwork)
      BY <1>4, <1>10, <2>1, StartupAssumption DEF BootJoin, Joiners
    <2>2. CASE Return("boot")
      BY <1>5, <1>10, <2>2 DEF BootJoin, Joiners
    <2> QED  BY <1>10, <2>1, <2>2 DEF BootJoin
  <1>11. CASE Console
    <2>1. CASE SaveNetwork
      BY <1>5, <1>11, <2>1 DEF SaveNetwork, Joiners
    <2>2. ASSUME NEW ssid \in ConsoleNetworks, WifiConnect(ssid) PROVE JoinType'
      BY <1>4, <2>2, StartupAssumption DEF WifiConnect, Joiners
    <2> QED  BY <1>11, <2>1, <2>2 DEF Console
  <1>12. CASE StartStage \/ MountStorage \/ Started \/ WifiBegin \/ WifiStep \/ FailedStart \/ TearDown
              \/ StopWifi \/ WifiStopped \/ Failed \/ WriteStatus \/ Client
    BY <1>1, <1>12 DEF StartStage, MountStorage, Started, WifiBegin, WifiStep, FailedStart, TearDown,
                       StopWifi, WifiStopped, Failed, WriteStatus, Client, stationVars
  <1>13. CASE FailStart \/ StopCleansUp \/ Lose
    BY <1>2, <1>13 DEF FailStart, StopCleansUp, CleanUp, Lose
  <1>14. CASE UNCHANGED vars
    BY <1>1, <1>14 DEF vars, stationVars
  <1> QED
    BY <1>3, <1>8, <1>9, <1>10, <1>11, <1>12, <1>13, <1>14 DEF Next, MainTask, EventTask, Driver

-----------------------------------------------------------------------------
\* A report that is added, or taken, leaves a queue quiet that was.
LEMMA QuietStep ==
    ASSUME JoinType, NEW outcomes, Quiet(outcomes),
           \/ events' = events
           \/ \E e \in Reports \cup {"stopped"} : e \notin outcomes /\ Post(e)
           \/ events # <<>> /\ events' = Tail(events)
    PROVE  Quiet(outcomes)'
  <1> USE DEF JoinType, Quiet
  <1>1. CASE events' = events
    BY <1>1
  <1>2. ASSUME NEW e \in Reports \cup {"stopped"}, e \notin outcomes, Post(e) PROVE Quiet(outcomes)'
    <2>1. /\ Len(events') = Len(events) + 1 /\ events'[Len(events) + 1] = e
          /\ \A i \in 1 .. Len(events) : events'[i] = events[i]
      BY <1>2, AppendProperties DEF Post
    <2>2. Len(events) \in Nat
      OBVIOUS
    <2>3. \A i \in 1 .. Len(events') : i \in 1 .. Len(events) \/ i = Len(events) + 1
      BY <2>1, <2>2
    <2> QED  BY <1>2, <2>1, <2>3
  <1>3. CASE events # <<>> /\ events' = Tail(events)
    <2>1. /\ Len(events') = Len(events) - 1
          /\ \A i \in 1 .. Len(events') : events'[i] = events[i + 1]
      BY <1>3, HeadTailProperties
    <2>2. Len(events) \in Nat
      OBVIOUS
    <2>3. \A i \in 1 .. Len(events') : i + 1 \in 1 .. Len(events)
      BY <2>1, <2>2
    <2> QED  BY <2>1, <2>3
  <1> QED  BY <1>1, <1>2, <1>3

\* Neither the driver nor the event task makes an attempt of a join succeed that has no
\* lease, when the other task joins nothing.
LEMMA AttemptKept ==
    ASSUME JoinType, NEW j \in Joiners, Attempt(j), join'[j] = join[j],
           \/ UNCHANGED <<sem, gotIp>> /\ link' \in {link, Free}
              /\ \/ events' = events
                 \/ \E e \in {"started", "stopped", "joined", "left"} : Post(e)
                 \/ Post("lost") /\ link # Free
           \/ TakeEvent
    PROVE  Attempt(j)'
  <1>1. CASE TakeEvent
    <2>1. /\ events # <<>> /\ events' = Tail(events) /\ UNCHANGED link
          /\ \/ UNCHANGED <<sem, gotIp>>
             \/ Head(events) = "lost" /\ gotIp' = gotIp
             \/ Head(events) = "ip"
      BY <1>1 DEF TakeEvent, JoinType
    <2>2. Head(events) = events[1] /\ 1 \in 1 .. Len(events)
      BY <2>1, EmptySeq DEF JoinType
    <2>3. \A outcomes : Quiet(outcomes) => Quiet(outcomes)' /\ Head(events) \notin outcomes
      BY <2>1, <2>2, QuietStep DEF Quiet
    <2> QED  BY <2>1, <2>3 DEF Attempt
  <1>2. CASE /\ UNCHANGED <<sem, gotIp>> /\ link' \in {link, Free}
             /\ \/ events' = events
                \/ \E e \in {"started", "stopped", "joined", "left"} : Post(e)
                \/ Post("lost") /\ link # Free
    <2>1. Quiet({"ip"}) => Quiet({"ip"})'
      BY <1>2, QuietStep DEF Reports
    <2>2. link = Free /\ Quiet({"lost", "ip"}) => Quiet({"lost", "ip"})'
      BY <1>2, QuietStep DEF Reports
    <2> QED  BY <1>2, <2>1, <2>2 DEF Attempt
  <1> QED  BY <1>1, <1>2

LEMMA JoinInvStep ==
    ASSUME JoinType, JoinInv, [Next]_vars
    PROVE  JoinInv'
  <1> DEFINE Sole(j) == join[j].pc # "idle" /\ join[j].alone
             RestIdle(j) == \A k \in Joiners \ {j} : join[k].pc = "idle"
             OutsideStep == \/ UNCHANGED <<sem, gotIp>> /\ link' \in {link, Free}
                               /\ \/ events' = events
                                  \/ \E e \in {"started", "stopped", "joined", "left"} : Post(e)
                                  \/ Post("lost") /\ link # Free
                            \/ TakeEvent
  <1>1. ASSUME UNCHANGED join, OutsideStep PROVE JoinInv'
    BY <1>1, AttemptKept DEF JoinInv
  <1>2. ASSUME NEW i \in Joiners, NEW ssid \in Networks, join[i].pc = "idle", Begin(i, ssid) PROVE JoinInv'
    <2> SUFFICES ASSUME NEW j \in Joiners, Sole(j)' PROVE RestIdle(j)' /\ Attempt(j)'
      BY DEF JoinInv
    <2>1. CASE j = i
      <3>1. \A k \in Joiners \ {i} : join[k].pc = "idle"
        BY <1>2, <2>1 DEF Begin, JoinType, Joins
      <3>2. join'[i].pc = "disconnect" /\ \A k \in Joiners \ {i} : join'[k].pc = join[k].pc
        BY <1>2 DEF Begin, JoinType, Joins
      <3> QED  BY <2>1, <3>1, <3>2 DEF Attempt
    <2>2. CASE j # i
      BY <1>2, <2>2 DEF Begin, JoinType, Joins
    <2> QED  BY <2>1, <2>2
  <1>3. ASSUME NEW i \in Joiners, Return(i), UNCHANGED <<events, link, sem, gotIp>> PROVE JoinInv'
    <2> SUFFICES ASSUME NEW j \in Joiners, Sole(j)' PROVE RestIdle(j)' /\ Attempt(j)'
      BY DEF JoinInv
    <2>1. join'[i].pc = "idle" /\ \A k \in Joiners \ {i} : join'[k] = join[k]
      BY <1>3 DEF Return, NoJoin, JoinType
    <2>2. join'[j] = join[j] /\ Sole(j)
      BY <2>1
    <2>3. RestIdle(j) /\ Attempt(j)
      BY <2>2 DEF JoinInv
    <2>4. Attempt(j)'
      BY <1>3, <2>2, <2>3, AttemptKept
    <2> QED  BY <2>1, <2>3, <2>4
  <1>4. ASSUME NEW i \in Joiners, join[i].pc # "idle",
               \A k \in Joiners \ {i} : join'[k] = join[k],
               join'[i].alone = join[i].alone,
               Attempt(i) /\ RestIdle(i) => Attempt(i)'
        PROVE  JoinInv'
    BY <1>4 DEF JoinInv
  <1>5. ASSUME NEW i \in Joiners, NEW pc \in JoinPcs, Enter(i, pc)
        PROVE  /\ \A k \in Joiners \ {i} : join'[k] = join[k]
               /\ join'[i] = [join[i] EXCEPT !.pc = pc] /\ join'[i].pc = pc
               /\ join'[i].alone = join[i].alone /\ join'[i].leased = join[i].leased
               /\ join'[i].ssid = join[i].ssid
    BY <1>5 DEF Enter, JoinType, Joins
  <1>6. ASSUME NEW i \in Joiners, AttemptFails(i)
        PROVE  /\ \A k \in Joiners \ {i} : join'[k] = join[k]
               /\ join'[i].pc \in {"disconnect", "failed"} /\ join'[i].alone = join[i].alone
    <2>1. CASE Enter(i, "failed")
      BY <1>5, <2>1 DEF JoinPcs
    <2>2. CASE join' = [join EXCEPT ![i].pc = "disconnect", ![i].attempt = @ + 1, ![i].leased = FALSE]
      BY <2>2 DEF JoinType, Joins
    <2> QED  BY <1>6, <2>1, <2>2 DEF AttemptFails
  <1>7. ASSUME NEW i \in Joiners, JoinStep(i) PROVE JoinInv'
    <2>0. join[i].pc # "idle"
      BY <1>7 DEF JoinStep, Disconnect, Drain, Connect, Wait
    <2>1. CASE Disconnect(i)
      BY <1>4, <1>5, <2>0, <2>1 DEF Disconnect, Attempt, JoinPcs
    <2>2. CASE Drain(i)
      <3>1. Quiet({"lost", "ip"})'
        BY <2>2 DEF Drain, Quiet, apVars, JoinType
      <3>2. Attempt(i) => Attempt(i)'
        BY <1>5, <2>2, <3>1 DEF Drain, Forget, Attempt, JoinPcs
      <3> QED  BY <1>4, <1>5, <2>0, <2>2, <3>2 DEF Drain, JoinPcs
    <2>3. CASE Connect(i)
      <3>1. CASE Enter(i, "wait") /\ link' = [network |-> join[i].ssid, up |-> FALSE]
        <4>1. Attempt(i) => ~gotIp /\ Quiet({"ip"})
          BY <2>3 DEF Connect, Attempt, Quiet
        <4>2. Quiet({"ip"}) => Quiet({"ip"})'
          BY <2>3 DEF Connect, Quiet, apVars
        <4>3. link'.network = join'[i].ssid
          BY <1>5, <3>1 DEF JoinPcs
        <4>4. Attempt(i) => Attempt(i)'
          BY <1>5, <2>3, <3>1, <4>1, <4>2, <4>3 DEF Connect, Attempt, JoinPcs
        <4> QED  BY <1>4, <1>5, <2>0, <3>1, <4>4 DEF JoinPcs
      <3>2. CASE AttemptFails(i)
        BY <1>4, <1>6, <2>0, <3>2 DEF Attempt
      <3> QED  BY <2>3, <3>1, <3>2 DEF Connect
    <2>4. CASE Wait(i)
      <3>1. CASE AttemptFails(i)
        BY <1>4, <1>6, <2>0, <3>1 DEF Attempt
      <3>2. CASE gotIp /\ Enter(i, "joined")
        <4>1. Attempt(i) => Attempt(i)'
          BY <1>5, <2>4, <3>2 DEF Wait, Attempt, JoinPcs
        <4> QED  BY <1>4, <1>5, <2>0, <3>2, <4>1 DEF JoinPcs
      <3> QED  BY <2>4, <3>1, <3>2 DEF Wait
    <2> QED  BY <1>7, <2>1, <2>2, <2>3, <2>4 DEF JoinStep
  <1>8. CASE Associate
    <2> SUFFICES ASSUME NEW j \in Joiners, Sole(j)' PROVE RestIdle(j)' /\ Attempt(j)'
      BY DEF JoinInv
    <2>1. \A k \in Joiners : /\ join'[k].pc = join[k].pc /\ join'[k].alone = join[k].alone
                             /\ join'[k].ssid = join[k].ssid
                             /\ join'[k].leased = (join[k].leased \/ (join[k].pc = "wait" /\ join[k].ssid = link.network))
      BY <1>8 DEF Associate, JoinType, Joins
    <2>2. RestIdle(j) /\ Attempt(j)
      BY <2>1 DEF JoinInv
    <2>3. link # Free /\ join[j].pc \notin {"drain", "connect"}
      BY <1>8, <2>2 DEF Associate, Attempt
    <2>4. CASE join[j].pc = "wait"
      <3>1. join'[j].leased
        BY <2>1, <2>2, <2>3, <2>4 DEF Attempt
      <3> QED  BY <2>1, <2>2, <2>4, <3>1 DEF Attempt
    <2>5. CASE join[j].pc = "joined"
      BY <2>1, <2>2, <2>5 DEF Attempt
    <2>6. CASE join[j].pc \notin {"drain", "connect", "wait", "joined"}
      BY <2>1, <2>2, <2>6 DEF Attempt
    <2> QED  BY <2>3, <2>4, <2>5, <2>6
  <1>9. CASE BootJoin
    <2>1. CASE BootNetwork # NoNetwork /\ join["boot"].pc = "idle" /\ Begin("boot", BootNetwork)
      BY <1>2, <2>1, StartupAssumption DEF Joiners
    <2>2. CASE Return("boot")
      BY <1>3, <1>9, <2>2 DEF BootJoin, Joiners, apVars
    <2> QED  BY <1>9, <2>1, <2>2 DEF BootJoin
  <1>10. CASE Console
    <2>1. CASE SaveNetwork
      BY <1>3, <2>1 DEF SaveNetwork, Joiners, apVars
    <2>2. ASSUME NEW ssid \in ConsoleNetworks, WifiConnect(ssid) PROVE JoinInv'
      BY <1>2, <2>2, StartupAssumption DEF WifiConnect, Joiners
    <2> QED  BY <1>10, <2>1, <2>2 DEF Console
  <1>11. CASE StartStage \/ MountStorage \/ Started \/ WifiBegin \/ FailedStart \/ TearDown
              \/ StopWifi \/ WifiStopped \/ Failed \/ WriteStatus \/ UNCHANGED vars
    <2>1. UNCHANGED <<join, events, link, sem, gotIp>>
      BY <1>11 DEF StartStage, MountStorage, Started, WifiBegin, FailedStart, TearDown, StopWifi,
                   WifiStopped, Failed, WriteStatus, vars, apVars, stationVars
    <2> QED  BY <1>1, <2>1
  <1>12. CASE WifiStep \/ Client
    <2>1. /\ UNCHANGED <<join, link, sem, gotIp>>
          /\ events' = events \/ \E e \in {"started", "joined", "left"} : Post(e)
      BY <1>12 DEF WifiStep, Client, stationVars
    <2> QED  BY <1>1, <2>1
  <1>13. CASE FailStart \/ StopCleansUp
    <2>1. /\ UNCHANGED <<join, sem, gotIp>> /\ link' \in {link, Free}
          /\ events' = events \/ Post("stopped")
      BY <1>13 DEF FailStart, StopCleansUp, CleanUp
    <2> QED  BY <1>1, <2>1
  <1>14. CASE Lose
    BY <1>1, <1>14 DEF Lose
  <1>15. CASE TakeEvent
    BY <1>1, <1>15 DEF TakeEvent
  <1> QED
    BY <1>7, <1>8, <1>9, <1>10, <1>11, <1>12, <1>13, <1>14, <1>15
       DEF Next, MainTask, EventTask, Driver

LEMMA JoinInit == Init => JoinType /\ JoinInv
  <1>1. Init => events \in Seq(Reports \cup {"stopped"})
    BY EmptySeq DEF Init
  <1>2. NoJoin \in Joins /\ Free \in [network : Networks \cup {NoNetwork}, up : BOOLEAN]
    BY DEF NoJoin, Joins, JoinPcs, Free
  <1>3. Init => \A j \in Joiners : join[j].pc = "idle"
    BY DEF Init, NoJoin
  <1> QED  BY <1>1, <1>2, <1>3 DEF Init, JoinType, JoinInv

\* A join that no other one has overlapped says "connected" only with a lease from its own
\* network (attempt_station_connect_once(), wifi_ap.h).
THEOREM SoleJoinIsTrue == Spec => []SoleJoinMeansLease
  <1>1. Init => JoinType /\ JoinInv
    BY JoinInit
  <1>2. JoinType /\ JoinInv /\ [Next]_vars => (JoinType /\ JoinInv)'
    BY JoinTypeStep, JoinInvStep
  <1>3. JoinInv => SoleJoinMeansLease
    BY DEF JoinInv, Attempt, SoleJoinMeansLease
  <1> QED  BY <1>1, <1>2, <1>3, PTL DEF Spec

-----------------------------------------------------------------------------
(* What the reports that wait make of the number of clients.                *)

All == Reports \cup {"stopped"}

LEMMA LeadsNowhere ==
    ASSUME NEW from, NEW to, Leads(<<>>, from, to)
    PROVE  from = to /\ from \in 0 .. MaxClients
  BY EmptySeq DEF Leads

LEMMA LeadsFurther ==
    ASSUME NEW queue \in Seq(All), NEW from, NEW to, Leads(queue, from, to),
           NEW event \in Reports, NEW n \in 0 .. MaxClients, Counted(to, event, n)
    PROVE  Leads(Append(queue, event), from, n)
  <1> DEFINE last == Len(queue) + 1
  <1>1. PICK count \in [0 .. Len(queue) -> 0 .. MaxClients] :
           /\ count[0] = from /\ count[Len(queue)] = to
           /\ \A i \in 1 .. Len(queue) : /\ queue[i] \in Reports
                                         /\ Counted(count[i - 1], queue[i], count[i])
    BY DEF Leads
  <1>2. /\ Len(Append(queue, event)) = last /\ Append(queue, event)[last] = event
        /\ \A i \in 1 .. Len(queue) : Append(queue, event)[i] = queue[i]
    BY AppendProperties DEF All
  <1>3. Len(queue) \in Nat
    OBVIOUS
  <1> DEFINE more == [i \in 0 .. last |-> IF i = last THEN n ELSE count[i]]
  <1>4. more \in [0 .. last -> 0 .. MaxClients]
    BY <1>3
  <1>5. more[last] = n /\ more[last - 1] = to /\ more[0] = from
    BY <1>1, <1>3
  <1>6. ASSUME NEW i \in 1 .. last
        PROVE  /\ Append(queue, event)[i] \in Reports
               /\ Counted(more[i - 1], Append(queue, event)[i], more[i])
    <2>1. CASE i = last
      BY <1>2, <1>5, <2>1
    <2>2. CASE i # last
      <3>1. i \in 1 .. Len(queue) /\ more[i] = count[i] /\ more[i - 1] = count[i - 1]
        BY <1>3, <2>2
      <3> QED  BY <1>1, <1>2, <3>1
    <2> QED  BY <2>1, <2>2
  <1> HIDE DEF more
  <1> QED  BY <1>2, <1>4, <1>5, <1>6 DEF Leads

LEMMA LeadsOn ==
    ASSUME NEW queue \in Seq(All), queue # <<>>, NEW from, NEW to, Leads(queue, from, to)
    PROVE  /\ Head(queue) \in Reports
           /\ \E n \in 0 .. MaxClients : Counted(from, Head(queue), n) /\ Leads(Tail(queue), n, to)
  <1> DEFINE rest == Len(queue) - 1
  <1>1. PICK count \in [0 .. Len(queue) -> 0 .. MaxClients] :
           /\ count[0] = from /\ count[Len(queue)] = to
           /\ \A i \in 1 .. Len(queue) : /\ queue[i] \in Reports
                                         /\ Counted(count[i - 1], queue[i], count[i])
    BY DEF Leads
  <1>2. /\ Len(Tail(queue)) = rest /\ Head(queue) = queue[1]
        /\ \A i \in 1 .. rest : Tail(queue)[i] = queue[i + 1]
    BY HeadTailProperties
  <1>3. Len(queue) \in Nat \ {0}
    BY EmptySeq
  <1> DEFINE later == [i \in 0 .. rest |-> count[i + 1]]
  <1>4. later \in [0 .. rest -> 0 .. MaxClients] /\ rest \in Nat
    BY <1>3
  <1>5. later[0] = count[1] /\ later[rest] = to
    BY <1>1, <1>3
  <1>6. ASSUME NEW i \in 1 .. rest
        PROVE  Tail(queue)[i] \in Reports /\ Counted(later[i - 1], Tail(queue)[i], later[i])
    <2>1. later[i - 1] = count[i] /\ later[i] = count[i + 1] /\ i + 1 \in 1 .. Len(queue)
          /\ (i + 1) - 1 = i
      BY <1>3
    <2> QED  BY <1>1, <1>2, <2>1
  <1>7. count[1] \in 0 .. MaxClients /\ 1 \in 1 .. Len(queue) /\ 1 - 1 = 0
    BY <1>3
  <1> HIDE DEF later
  <1>8. Leads(Tail(queue), count[1], to)
    BY <1>2, <1>4, <1>5, <1>6 DEF Leads
  <1> QED  BY <1>1, <1>2, <1>7, <1>8

\* What one report makes of a status of an access point that is on.
LEMMA AfterReport ==
    ASSUME NEW s \in Statuses, NEW event \in {"started", "joined", "left"}
    PROVE  /\ After(s, event) \in Statuses
           /\ \A n \in 0 .. MaxClients : Counted(s.clients, event, n) => After(s, event).clients = n
  <1> USE StartupAssumption
  <1>1. s.state \in On /\ s.clients \in 0 .. MaxClients /\ MaxClients \in Nat
    BY DEF Statuses
  <1>2. CASE event = "started"
    <2>1. After(s, event) \in {s, [s EXCEPT !.state = "ready", !.error = FALSE]}
      BY <1>2 DEF After
    <2> QED  BY <1>2, <2>1 DEF Statuses, On, Counted
  <1>3. CASE event = "joined"
    <2>1. CASE s.clients < MaxClients
      <3>1. After(s, event) = [s EXCEPT !.clients = @ + 1]
        BY <1>1, <1>3, <2>1 DEF After, On
      <3> QED  BY <1>1, <1>3, <2>1, <3>1 DEF Statuses, Counted
    <2>2. CASE ~(s.clients < MaxClients)
      <3>1. After(s, event) = s
        BY <1>1, <1>3, <2>2 DEF After, On
      <3> QED  BY <1>1, <1>3, <2>2, <3>1 DEF Counted
    <2> QED  BY <2>1, <2>2
  <1>4. CASE event = "left"
    <2>1. CASE s.clients > 0
      <3>1. After(s, event) = [s EXCEPT !.clients = @ - 1]
        BY <1>1, <1>4, <2>1 DEF After, On
      <3> QED  BY <1>1, <1>4, <2>1, <3>1 DEF Statuses, Counted
    <2>2. CASE ~(s.clients > 0)
      <3>1. After(s, event) = s
        BY <1>1, <1>4, <2>2 DEF After, On
      <3> QED  BY <1>1, <1>4, <2>2, <3>1 DEF Counted
    <2> QED  BY <2>1, <2>2
  <1> QED  BY <1>2, <1>3, <1>4

LEMMA WifiPlace ==
    ASSUME NEW p \in BOOLEAN
    PROVE  LET stages == Stages(p)
               last   == Len(stages)
           IN  /\ last \in Nat /\ last > 2 /\ stages[last - 1] = "wifi"
               /\ \A i \in 1 .. last : stages[i] = "wifi" => i = last - 1
               /\ stages[last] = "http"
  BY DEF Stages, NormalMode, SetupMode

-----------------------------------------------------------------------------
(* The access point, while the other tasks and the driver do something.     *)

Others == EventTask \/ Console \/ Driver \/ (\E j \in Joiners : JoinStep(j))

LEMMA OthersLeave ==
    ASSUME Others
    PROVE  UNCHANGED <<provisioned, main, held, owned, refused, air>>
  BY DEF Others, EventTask, TakeEvent, WriteStatus, Console, WifiConnect, SaveNetwork, Driver,
         Client, Associate, Lose, JoinStep, Disconnect, Drain, Connect, Wait, apVars

LEMMA DarkStays ==
    ASSUME Others, Dark
    PROVE  Dark' /\ status' = status
  <1> USE DEF Dark
  <1>1. CASE EventTask
    BY <1>1 DEF EventTask, TakeEvent, WriteStatus
  <1>2. CASE Console
    BY <1>2 DEF Console, WifiConnect, SaveNetwork, apVars
  <1>3. CASE Driver
    BY <1>3 DEF Driver, Client, Associate, Lose
  <1>4. CASE \E j \in Joiners : JoinStep(j)
    BY <1>4 DEF JoinStep, Disconnect, Drain, Connect, Wait, apVars
  <1> QED  BY <1>1, <1>2, <1>3, <1>4 DEF Others

\* Without the handler the event task changes no status.
LEMMA NoHandler ==
    ASSUME Others, handling = <<>>
    PROVE  /\ status' = status
           /\ handling' # <<>> => "handler" \in held
  BY DEF Others, EventTask, TakeEvent, WriteStatus, Console, WifiConnect, SaveNetwork, Driver,
         Client, Associate, Lose, JoinStep, Disconnect, Drain, Connect, Wait, apVars

LEMMA HandlingNeedsHandler ==
    ASSUME Others, handling # <<>> => "handler" \in held
    PROVE  handling' # <<>> => "handler" \in held'
  <1>1. CASE handling = <<>>
    BY <1>1, NoHandler, OthersLeave
  <1>2. CASE handling # <<>>
    BY <1>2, OthersLeave
  <1> QED  BY <1>1, <1>2

LEMMA ServesOn ==
    ASSUME JoinType, Others, Serves
    PROVE  Serves'
  <1> USE DEF Serves
  <1>0. events \in Seq(All) /\ UNCHANGED <<held, air>>
    BY OthersLeave DEF JoinType, All
  <1>1. ASSUME NEW event \in Reports, Post(event), UNCHANGED <<status, handling>>, clients' \in 0 .. MaxClients,
               Counted(clients, event, clients')
        PROVE  Serves'
    <2>1. \A from : Leads(events, from, clients) => Leads(events', from, clients')
      BY <1>0, <1>1, LeadsFurther DEF Post
    <2> QED  BY <1>0, <1>1, <2>1
  <1>2. clients \in 0 .. MaxClients
    <2>1. ASSUME NEW from, Leads(events, from, clients) PROVE clients \in 0 .. MaxClients
      <3>1. PICK count \in [0 .. Len(events) -> 0 .. MaxClients] : count[Len(events)] = clients
        BY <2>1 DEF Leads
      <3>2. Len(events) \in 0 .. Len(events)
        BY <1>0
      <3> QED  BY <3>1, <3>2
    <2> QED  BY <2>1
  <1>3. CASE UNCHANGED <<status, handling, events, clients>>
    BY <1>0, <1>3
  <1>4. CASE TakeEvent
    <2>1. handling = <<>> /\ events # <<>> /\ events' = Tail(events) /\ UNCHANGED <<status, clients>>
      BY <1>4 DEF TakeEvent
    <2>2. Head(events) \in Reports
      BY <1>0, <2>1, LeadsOn
    <2>3. PICK n \in 0 .. MaxClients :
             Counted(status.clients, Head(events), n) /\ Leads(Tail(events), n, clients)
      BY <1>0, <2>1, LeadsOn
    <2>4. CASE Head(events) \in {"lost", "ip"}
      <3>1. n = status.clients /\ handling' = <<>>
        BY <1>4, <2>1, <2>3, <2>4 DEF TakeEvent, Counted
      <3> QED  BY <1>0, <2>1, <2>3, <3>1
    <2>5. CASE Head(events) \in {"started", "joined", "left"}
      <3>1. handling' = <<Head(events), status>>
        BY <1>4, <2>5 DEF TakeEvent, WifiParts
      <3>2. After(status, Head(events)).clients = n
        BY <2>3, <2>5, AfterReport
      <3> QED  BY <1>0, <2>1, <2>3, <2>5, <3>1, <3>2
    <2> QED  BY <2>2, <2>4, <2>5 DEF Reports
  <1>5. CASE WriteStatus
    <2>1. PICK event \in {"started", "joined", "left"} :
             handling = <<event, status>> /\ Leads(events, After(status, event).clients, clients)
      BY <1>5 DEF WriteStatus
    <2>2. status' = After(status, event) /\ handling' = <<>> /\ UNCHANGED <<events, clients>>
      BY <1>5, <2>1 DEF WriteStatus
    <2> QED  BY <1>0, <2>1, <2>2, AfterReport
  <1>6. CASE Console
    BY <1>3, <1>6 DEF Console, WifiConnect, SaveNetwork, apVars
  <1>7. CASE Driver
    <2>1. CASE Client
      <3>1. CASE clients < MaxClients /\ clients' = clients + 1 /\ Post("joined")
        BY <1>1, <1>2, <2>1, <3>1, StartupAssumption DEF Client, Counted, Reports
      <3>2. CASE clients > 0 /\ clients' = clients - 1 /\ Post("left")
        BY <1>1, <1>2, <2>1, <3>2, StartupAssumption DEF Client, Counted, Reports
      <3> QED  BY <2>1, <3>1, <3>2 DEF Client
    <2>2. CASE Associate \/ Lose
      <3>1. Post("ip") \/ Post("lost")
        BY <2>2 DEF Associate, Lose
      <3>2. UNCHANGED <<status, handling, clients>>
        BY <2>2 DEF Associate, Lose
      <3> QED  BY <1>1, <1>2, <3>1, <3>2 DEF Reports, Counted
    <2> QED  BY <1>7, <2>1, <2>2 DEF Driver
  <1>8. CASE \E j \in Joiners : JoinStep(j)
    <2>1. UNCHANGED <<status, handling, clients>> /\ (events' = events \/ Post("lost"))
      BY <1>8 DEF JoinStep, Disconnect, Drain, Connect, Wait, apVars
    <2> QED  BY <1>1, <1>2, <1>3, <2>1 DEF Reports, Counted
  <1> QED  BY <1>4, <1>5, <1>6, <1>7, <1>8 DEF Others, EventTask

LEMMA ApKeptByOthers ==
    ASSUME JoinType, ApInv, Others
    PROVE  ApInv'
  <1>1. UNCHANGED <<provisioned, main, held, owned, refused>> /\ Last' = Last
    BY OthersLeave DEF Last
  <1>2. handling' # <<>> => "handler" \in held'
    BY HandlingNeedsHandler DEF ApInv
  <1>3. Dark => Dark' /\ status' = status
    BY DarkStays
  <1>4. Serves => Serves'
    BY ServesOn
  <1>5. "handler" \notin held /\ handling = <<>> => handling' = <<>> /\ status' = status
    BY NoHandler
  <1> HIDE DEF Dark, Serves
  <1>6. Dark => handling' = <<>>
    BY <1>3 DEF Dark
  <1> QED  BY <1>1, <1>2, <1>3, <1>4, <1>5, <1>6 DEF ApInv, Off

-----------------------------------------------------------------------------
(* The access point, while the main task starts and stops it.               *)

LEMMA ServesKept ==
    ASSUME Serves, UNCHANGED apVars, WifiParts \cap held \subseteq held'
    PROVE  Serves'
  BY DEF Serves, apVars

LEMMA ApKeptByStages ==
    ASSUME IInv, ApInv, StartStage \/ MountStorage
    PROVE  ApInv'
  <1>1. /\ main.phase = "start" /\ main.at \in 1 .. Last /\ Last \in Nat /\ Last > 2
        /\ Stage # "wifi" /\ main.at # Last - 1
    BY WifiPlace DEF StartStage, MountStorage, IInv, Last, Stage
  <1>2. /\ main' = Forward \/ main' = Back
        /\ UNCHANGED <<provisioned, refused, apVars, link>> /\ Last' = Last
    BY DEF StartStage, MountStorage, stationVars, Last
  <1>3. held' \cap WifiParts = held \cap WifiParts
    <2>1. CASE StartStage
      <3>1. PartsOf(Stage) \cap WifiParts = {} /\ "http" \notin WifiParts
        BY <2>1, StageHolds DEF StartStage, StageNames, PartsOf, WifiParts
      <3> QED  BY <2>1, <3>1 DEF StartStage
    <2>2. CASE MountStorage
      <3>1. held' \in {held, held \cup {"web"}, held \cup {"data"}, held \cup {"web", "data"}}
        BY <2>2 DEF MountStorage
      <3> QED  BY <3>1 DEF WifiParts
    <2> QED  BY <2>1, <2>2
  <1>4. "handler" \in held => "handler" \in held'
    BY <1>3 DEF WifiParts
  <1>5. \/ main'.phase = "start" /\ main'.at = main.at + 1
        \/ main'.phase = "rollback" /\ main'.at = 1
    <2>1. CASE main' = Forward
      BY <2>1 DEF Forward
    <2>2. CASE main' = Back
      BY <2>2 DEF Back
    <2> QED  BY <1>2, <2>1, <2>2
  <1>6. CASE main.at < Last
    <2>1. Dark' /\ status' = Status("stopped", FALSE) /\ held' \cap WifiParts = {}
      BY <1>1, <1>2, <1>3, <1>6 DEF ApInv, Dark, apVars
    <2>2. main.at + 1 < Last
      BY <1>1, <1>6
    <2>3. Off'
      BY <2>1 DEF Off, Dark, Status
    <2>4. handling' = <<>>
      BY <2>1 DEF Dark
    <2>5. CASE main'.phase = "start" /\ main'.at = main.at + 1
      <3>1. Last' = Last /\ Last \in Nat /\ main.at \in Nat /\ main'.at < Last'
        BY <1>1, <1>2, <2>2, <2>5
      <3>2. ~(main'.at >= Last')
        BY <2>5, <3>1
      <3> QED  BY <2>1, <2>4, <2>5, <3>1, <3>2 DEF ApInv
    <2>6. CASE main'.phase = "rollback" /\ main'.at = 1
      BY <2>1, <2>3, <2>4, <2>6 DEF ApInv
    <2> QED  BY <1>5, <2>5, <2>6
  <1>7. CASE main.at = Last
    <2>1. Serves'
      BY <1>1, <1>2, <1>3, <1>7, ServesKept DEF ApInv
    <2>2. WifiParts \subseteq held'
      BY <2>1 DEF Serves
    <2>3. handling' # <<>> => "handler" \in held'
      BY <2>2 DEF WifiParts
    <2>4. CASE main'.phase = "start" /\ main'.at = main.at + 1
      <3>1. ~(main'.at < Last')
        BY <1>1, <1>2, <1>7, <2>4
      <3> QED  BY <2>1, <2>3, <2>4, <3>1 DEF ApInv
    <2>5. CASE main'.phase = "rollback" /\ main'.at = 1
      BY <2>2, <2>3, <2>5 DEF ApInv
    <2> QED  BY <1>5, <2>4, <2>5
  <1> QED  BY <1>1, <1>6, <1>7

LEMMA ApKeptByWifi ==
    ASSUME IInv, JoinType, ApInv, WifiBegin \/ WifiStep
    PROVE  ApInv'
  <1>1. CASE WifiBegin
    <2>1. main.phase = "start" /\ main.at < Last
      BY <1>1, WifiPlace DEF WifiBegin, IInv, Last, Stage
    <2>2. Dark /\ status = Status("stopped", FALSE) /\ held \cap WifiParts = {}
      BY <2>1 DEF ApInv
    <2>3. /\ main' = [phase |-> "wifi", at |-> 1] /\ status' = Status("starting", FALSE)
          /\ UNCHANGED <<held, events, handling, air, clients, link>>
      BY <1>1, <2>2 DEF WifiBegin, Status, stationVars
    <2> QED  BY <2>2, <2>3 DEF ApInv, Dark
  <1>2. CASE WifiStep
    <2>1. /\ main.phase = "wifi" /\ Dark /\ status = Status("starting", FALSE) /\ main.at \in 1 .. 8
          /\ \A i \in 1 .. main.at - 1 : WifiSteps[i] \in WifiParts => WifiSteps[i] \in held
      BY <1>2 DEF WifiStep, ApInv
    <2>2. UNCHANGED <<status, handling, clients, link>> /\ held \subseteq held'
      BY <1>2 DEF WifiStep, stationVars
    <2>3. CASE main' = [main EXCEPT !.phase = "fail_start"] /\ UNCHANGED <<air, events>>
      BY <2>1, <2>2, <2>3 DEF ApInv, Dark, IInv
    <2>4. CASE WifiSteps[main.at] # "radio" /\ main' = [main EXCEPT !.at = @ + 1] /\ UNCHANGED <<air, events>>
               /\ held' = held \cup ({WifiSteps[main.at]} \cap WifiParts)
      <3>1. main'.phase = "wifi" /\ main'.at = main.at + 1
        BY <2>1, <2>4 DEF IInv
      <3>2. main.at # 8
        BY <2>4 DEF WifiSteps
      <3>3. \A i \in 1 .. main'.at - 1 : WifiSteps[i] \in WifiParts => WifiSteps[i] \in held'
        BY <2>1, <2>4, <3>1
      <3>4. Dark' /\ handling' = <<>> /\ status' = Status("starting", FALSE)
        BY <2>1, <2>2, <2>4 DEF Dark, Status
      <3>5. main'.at \in 1 .. 8
        BY <2>1, <3>1, <3>2
      <3> QED  BY <3>1, <3>3, <3>4, <3>5 DEF ApInv
    <2>5. CASE WifiSteps[main.at] = "radio" /\ main' = [main EXCEPT !.phase = "join"] /\ air' /\ Post("started")
               /\ held' = held \cup ({WifiSteps[main.at]} \cap WifiParts)
      <3>1. main.at = 8
        BY <2>1, <2>5 DEF WifiSteps
      <3>2. WifiParts \subseteq held'
        <4>1. \A part \in WifiParts : part = "radio" \/ \E i \in 1 .. 7 : WifiSteps[i] = part
          BY DEF WifiParts, WifiSteps
        <4> QED  BY <2>1, <2>5, <3>1, <4>1 DEF WifiParts
      <3>3. Leads(<<>>, 0, 0)
        <4> DEFINE none == [i \in 0 .. 0 |-> 0]
        <4>1. none \in [0 .. 0 -> 0 .. MaxClients] /\ none[0] = 0
          BY StartupAssumption
        <4>2. Len(<<>>) = 0 /\ 1 .. 0 = {}
          BY EmptySeq
        <4> HIDE DEF none
        <4> QED  BY <4>1, <4>2 DEF Leads
      <3>4. Leads(events', 0, 0)
        <4>1. <<>> \in Seq(All) /\ "started" \in Reports /\ 0 \in 0 .. MaxClients /\ Counted(0, "started", 0)
          BY EmptySeq, StartupAssumption DEF All, Reports, Counted
        <4> QED  BY <2>1, <2>5, <3>3, <4>1, LeadsFurther DEF Dark, Post
      <3>5. status' \in Statuses /\ status'.clients = 0
        BY <2>1, <2>2, StartupAssumption DEF Status, Statuses, On
      <3>6. Serves'
        BY <2>1, <2>2, <2>5, <3>2, <3>4, <3>5 DEF Serves, Dark
      <3>7. main'.phase = "join"
        BY <2>5 DEF IInv
      <3>8. handling' = <<>>
        BY <2>1, <2>2 DEF Dark
      <3> QED  BY <3>6, <3>7, <3>8 DEF ApInv
    <2> QED  BY <1>2, <2>3, <2>4, <2>5 DEF WifiStep
  <1> QED  BY <1>1, <1>2

LEMMA ApKeptByStart ==
    ASSUME IInv, ApInv, Started \/ FailStart \/ FailedStart \/ BootJoin
    PROVE  ApInv'
  <1>0. Last' = Last /\ Last \in Nat /\ Last > 2
    BY WifiPlace DEF Started, FailStart, FailedStart, BootJoin, IInv, Last
  <1>1. CASE Started
    <2>1. main.phase = "start" /\ main.at > Last /\ main'.phase = "running" /\ UNCHANGED <<held, apVars>>
      BY <1>1 DEF Started, IInv, Last
    <2>2. main.at >= Last
      BY <1>0, <2>1 DEF IInv
    <2>3. Serves'
      BY <2>1, <2>2, ServesKept DEF ApInv
    <2>4. handling' # <<>> => "handler" \in held'
      BY <2>3 DEF Serves, WifiParts
    <2> QED  BY <2>1, <2>3, <2>4 DEF ApInv
  <1>2. CASE FailStart
    <2>1. main'.phase = "failed_start" /\ Dark'
      BY <1>2 DEF FailStart, CleanUp, ApInv, Dark, IInv
    <2>2. handling' = <<>>
      BY <2>1 DEF Dark
    <2> QED  BY <2>1, <2>2 DEF ApInv
  <1>3. CASE FailedStart
    <2>1. /\ main' = Back /\ status' = Status("error", TRUE) /\ Dark'
      BY <1>3 DEF FailedStart, ApInv, Dark, stationVars
    <2>2. main'.phase = "rollback" /\ main'.at = 1 /\ handling' = <<>> /\ Off'
      BY <2>1 DEF Back, Off, Dark, Status
    <2> QED  BY <2>1, <2>2 DEF ApInv
  <1>4. CASE BootJoin
    <2>1. Serves /\ UNCHANGED <<held, apVars>>
      BY <1>4 DEF BootJoin, ApInv
    <2>2. Serves'
      BY <2>1, ServesKept
    <2>3. handling' # <<>> => "handler" \in held'
      BY <2>2 DEF Serves, WifiParts
    <2>4. main'.phase = "join" \/ main' = [phase |-> "start", at |-> Last]
      BY <1>4 DEF BootJoin, Last
    <2>5. CASE main'.phase = "join"
      BY <2>2, <2>3, <2>5 DEF ApInv
    <2>6. CASE main' = [phase |-> "start", at |-> Last]
      <3>1. main'.phase = "start" /\ ~(main'.at < Last')
        BY <1>0, <2>6
      <3> QED  BY <2>2, <2>3, <3>1 DEF ApInv
    <2> QED  BY <2>4, <2>5, <2>6
  <1> QED  BY <1>1, <1>2, <1>3, <1>4

LEMMA ApKeptByRollback ==
    ASSUME IInv, ApInv, TearDown \/ StopWifi \/ StopCleansUp \/ WifiStopped \/ Failed
    PROVE  ApInv'
  <1>1. CASE TearDown
    <2> DEFINE at == main.at
    <2>1. /\ main.phase = "rollback" /\ at \in 1 .. 10 /\ at # 3
          /\ main'.phase = "rollback" /\ main'.at = at + 1
          /\ refused \subseteq refused' /\ UNCHANGED <<status, events, handling, air, clients, link>>
      BY <1>1, RankOfParts DEF TearDown, IInv, Ahead, apVars, stationVars
    <2>2. held' \cap WifiParts = held \cap WifiParts
      <3>1. PartsOf(Teardown[at]) = {part \in Parts : Rank[part] = at}
        BY <2>1, RankOfParts
      <3>2. PartsOf(Teardown[at]) \cap WifiParts = {}
        BY <2>1, <3>1, RankOfParts
      <3>3. held' \subseteq held /\ held \ held' \subseteq PartsOf(Teardown[at])
        BY <1>1 DEF TearDown
      <3> QED  BY <3>2, <3>3
    <2>3. "handler" \in held' <=> "handler" \in held
      BY <2>2 DEF WifiParts
    <2>4. Off => Off'
      BY <2>1, <2>2 DEF Off
    <2>5. Dark => Dark'
      BY <2>1 DEF Dark
    <2>6. WifiParts \subseteq held => WifiParts \subseteq held'
      BY <2>2
    <2>7. handling' # <<>> => "handler" \in held'
      BY <2>1, <2>3 DEF ApInv
    <2>8. CASE at < 3
      <3>1. at <= 3 /\ ~(at > 3) /\ at + 1 <= 3 /\ ~(at + 1 > 3)
        BY <2>1, <2>8
      <3> QED  BY <2>1, <2>4, <2>5, <2>6, <2>7, <3>1 DEF ApInv
    <2>9. CASE at > 3
      <3>1. ~(at + 1 <= 3)
        BY <2>1, <2>9
      <3> QED  BY <2>1, <2>3, <2>4, <2>7, <2>9, <3>1 DEF ApInv
    <2> QED  BY <2>1, <2>8, <2>9
  <1>2. CASE StopWifi
    <2>1. /\ main.phase = "rollback" /\ main.at = 3
          /\ UNCHANGED <<status, events, handling, air, clients, link, held, refused>>
      BY <1>2, RankOfParts DEF StopWifi, IInv, Ahead, apVars, stationVars
    <2>2. handling' # <<>> => "handler" \in held'
      BY <2>1 DEF ApInv
    <2>3. CASE main' = [main EXCEPT !.phase = "stop_wifi"]
      <3>1. main'.phase = "stop_wifi"
        BY <2>3 DEF IInv
      <3> QED  BY <2>2, <3>1 DEF ApInv
    <2>4. CASE main' = [main EXCEPT !.at = @ + 1] /\ held \cap WifiParts = {}
      <3>1. main'.phase = "rollback" /\ main'.at = 4
        BY <2>1, <2>4 DEF IInv
      <3>2. "handler" \notin held /\ ~(WifiParts \subseteq held)
        BY <2>4 DEF WifiParts
      <3>3. Off
        BY <2>1, <3>2 DEF ApInv
      <3>4. "handler" \notin held' /\ Off'
        BY <2>1, <3>2, <3>3 DEF Off
      <3> QED  BY <2>2, <3>1, <3>4 DEF ApInv
    <2> QED  BY <1>2, <2>3, <2>4 DEF StopWifi, ShouldRun, PartsOf
  <1>3. CASE StopCleansUp
    <2>1. PICK stuck \in SUBSET WifiParts : CleanUp(stuck) /\ refused' = refused \cup stuck
      BY <1>3 DEF StopCleansUp
    <2>2. main'.phase = "stopped_wifi" /\ handling' = handling /\ held' = held \ (WifiParts \ stuck)
      BY <1>3, <2>1 DEF StopCleansUp, CleanUp, Released, IInv
    <2>3. "handler" \in held' => "handler" \in stuck
      BY <2>2 DEF WifiParts
    <2>4. handling' # <<>> => "handler" \in held'
      <3>1. CASE handling = <<>>
        BY <2>2, <3>1
      <3>2. CASE handling # <<>>
        <4>1. "handler" \in held
          BY <3>2 DEF ApInv
        <4>2. "handler" \notin Released(stuck)
          BY <2>1, <3>2, <4>1 DEF CleanUp
        <4> QED  BY <2>2, <4>1, <4>2 DEF Released
      <3> QED  BY <3>1, <3>2
    <2> QED  BY <2>1, <2>2, <2>3, <2>4 DEF ApInv
  <1>4. CASE WifiStopped
    <2>1. /\ main.phase = "stopped_wifi" /\ main.at = 3 /\ status' = StopStatus
          /\ main'.phase = "rollback" /\ main'.at = 4 /\ UNCHANGED <<held, refused, handling>>
      BY <1>4 DEF WifiStopped, IInv, Ahead
    <2>2. handling' # <<>> => "handler" \in held'
      BY <2>1 DEF ApInv
    <2>3. "handler" \notin held => Off'
      BY <2>1, <2>2 DEF Off, StopStatus, Status
    <2>4. "handler" \in refused' \/ "handler" \notin held'
      BY <2>1 DEF ApInv
    <2> QED  BY <2>1, <2>2, <2>3, <2>4 DEF ApInv
  <1>5. CASE Failed
    <2>1. /\ main.phase = "rollback" /\ main.at > 3 /\ main'.phase = "failed"
          /\ UNCHANGED <<held, refused, status, handling>>
      BY <1>5, RankOfParts DEF Failed, IInv, Ahead, apVars
    <2>2. Off => Off'
      BY <2>1 DEF Off
    <2> QED  BY <2>1, <2>2 DEF ApInv
  <1> QED  BY <1>1, <1>2, <1>3, <1>4, <1>5

LEMMA ApInvStep ==
    ASSUME IInv, JoinType, ApInv, [Next]_vars
    PROVE  ApInv'
  <1>1. CASE UNCHANGED vars
    <2>1. UNCHANGED <<main, held, refused, status, handling>> /\ Last' = Last
      BY <1>1 DEF vars, apVars, Last
    <2>2. (Dark => Dark') /\ (Serves => Serves') /\ (Off => Off')
      BY <1>1 DEF vars, apVars, stationVars, Dark, Serves, Off
    <2> QED  BY <2>1, <2>2 DEF ApInv
  <1> QED
    BY <1>1, ApKeptByOthers, ApKeptByStages, ApKeptByWifi, ApKeptByStart, ApKeptByRollback
       DEF Next, MainTask, Others

\* What diagnostics say of the access point is true in every run of the start and of its
\* rollback (wifi_ap_engine_handle_event(), wifi_ap_engine_stop()).
THEOREM ApStatusTold == Spec => []ApStatusIsTrue
  <1>1. Init => JoinType /\ ApInv
    <2>1. Init => Dark /\ status = Status("stopped", FALSE)
      BY DEF Init, Dark, Status
    <2>2. Init => main.phase = "start" /\ main.at = 1 /\ 1 < Last
      BY WifiPlace DEF Init, Last
    <2>3. Init => handling = <<>> /\ held \cap WifiParts = {} /\ ~(main.at >= Last)
      BY WifiPlace DEF Init, Last
    <2> QED  BY JoinInit, <2>1, <2>2, <2>3 DEF ApInv
  <1>2. IInv /\ JoinType /\ ApInv /\ [Next]_vars => (JoinType /\ ApInv)'
    BY JoinTypeStep, ApInvStep
  <1>3. IInv /\ ApInv => ApStatusIsTrue
    <2> SUFFICES ASSUME IInv, ApInv PROVE ApStatusIsTrue
      OBVIOUS
    <2>1. ASSUME status.state = "ready", main.phase \in {"start", "running", "failed"},
                 "handler" \notin refused
          PROVE  air
      <3>1. CASE main.phase = "failed"
        BY <2>1, <3>1 DEF ApInv, Off
      <3>2. CASE main.phase = "running"
        BY <3>2 DEF ApInv, Serves
      <3>3. CASE main.phase = "start"
        <4>1. ~(main.at < Last)
          BY <2>1, <3>3 DEF ApInv, Status
        <4>2. main.at >= Last
          BY <4>1, WifiPlace DEF IInv, Last
        <4> QED  BY <3>3, <4>2 DEF ApInv, Serves
      <3> QED  BY <2>1, <3>1, <3>2, <3>3
    <2>2. ASSUME main.phase = "running", events = <<>>, handling = <<>> PROVE status.clients = clients
      BY <2>2, LeadsNowhere DEF ApInv, Serves
    <2>3. ASSUME main.phase = "failed", held \cap WifiParts # {}, "handler" \notin refused
          PROVE  status.state = "error"
      BY <2>3 DEF ApInv, Off
    <2> QED  BY <2>1, <2>2, <2>3 DEF ApStatusIsTrue
  <1> QED  BY <1>1, <1>2, <1>3, Invariant, PTL DEF Spec
=============================================================================
