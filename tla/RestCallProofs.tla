--------------------------- MODULE RestCallProofs ----------------------------
(***************************************************************************)
(* Proofs about module RestCall, for every choice of the operations that   *)
(* are called, of what may be wrong with a call, of the callbacks of the   *)
(* fake server, and any number of attempts.                                *)
(***************************************************************************)
EXTENDS RestCallInvariant, SequenceTheorems, TLAPS

----------------------------------------------------------------------------
(* The operations.                                                         *)

(* The tables of the requests.                                             *)
LEMMA RequestTables ==
  /\ DOMAIN PlayerRequests = {"GetPlayer", "GetBattleLimit", "IncrementBattleCount", "AddExp"}
  /\ DOMAIN FactionRequests = {"ListFactions", "GrantFaction", "SelectInitialFaction"}
  /\ DOMAIN NameRequests = {"UpdateName", "ValidateNameForOnboarding", "UpdatePremium"}
  /\ DOMAIN SettingsRequests =
       {"GetPlayerSettings", "UpdatePlayerSettings", "GetHealth", "GetPlayerByFirebaseUID"}
  /\ DOMAIN AuthRequests = {"LoginPlayer", "RegisterPlayer"}
  /\ DOMAIN BattleRequests = {"AwardGameExp", "RevertBattleCount"}
  BY DEF PlayerRequests, FactionRequests, NameRequests, SettingsRequests, AuthRequests,
         BattleRequests

(* The request of an operation.                                            *)
LEMMA RequestRows ==
  /\ Operation = {"GetPlayer", "GetBattleLimit", "IncrementBattleCount", "AddExp",
                  "ListFactions", "GrantFaction", "SelectInitialFaction", "UpdateName",
                  "ValidateNameForOnboarding", "UpdatePremium", "GetPlayerSettings",
                  "UpdatePlayerSettings", "GetHealth", "GetPlayerByFirebaseUID",
                  "LoginPlayer", "RegisterPlayer", "AwardGameExp", "RevertBattleCount"}
  /\ \A o \in DOMAIN PlayerRequests : Request[o] = PlayerRequests[o]
  /\ \A o \in DOMAIN FactionRequests : Request[o] = FactionRequests[o]
  /\ \A o \in DOMAIN NameRequests : Request[o] = NameRequests[o]
  /\ \A o \in DOMAIN SettingsRequests : Request[o] = SettingsRequests[o]
  /\ \A o \in DOMAIN AuthRequests : Request[o] = AuthRequests[o]
  /\ \A o \in DOMAIN BattleRequests : Request[o] = BattleRequests[o]
<1>1. /\ DOMAIN Request = DOMAIN PlayerRequests \cup DOMAIN FactionRequests
           \cup DOMAIN NameRequests \cup DOMAIN SettingsRequests
           \cup DOMAIN AuthRequests \cup DOMAIN BattleRequests
      /\ \A o \in DOMAIN PlayerRequests : Request[o] = PlayerRequests[o]
      /\ \A o \in DOMAIN FactionRequests : Request[o] = FactionRequests[o]
      /\ \A o \in DOMAIN NameRequests : Request[o] = NameRequests[o]
      /\ \A o \in DOMAIN SettingsRequests : Request[o] = SettingsRequests[o]
      /\ \A o \in DOMAIN AuthRequests : Request[o] = AuthRequests[o]
      /\ \A o \in DOMAIN BattleRequests : Request[o] = BattleRequests[o]
  BY RequestTables DEF Request, ++
<1>. QED
  BY <1>1, RequestTables DEF Operation

(* The request of an operation matches its own route and no other.         *)
LEMMA RouteOf ==
  ASSUME NEW o \in Operation
  PROVE  Matches(Request[o]) = {<<Request[o][1], Request[o][2], o>>}
<1>1. CASE o \in DOMAIN PlayerRequests
  <2>1. Matches(PlayerRequests[o]) = {<<PlayerRequests[o][1], PlayerRequests[o][2], o>>}
    BY <1>1 DEF PlayerRequests, Matches, ServiceRoutes, AccountRoutes
  <2>. QED
    BY <1>1, <2>1, RequestRows
<1>2. CASE o \in DOMAIN FactionRequests
  <2>1. Matches(FactionRequests[o]) = {<<FactionRequests[o][1], FactionRequests[o][2], o>>}
    BY <1>2 DEF FactionRequests, Matches, ServiceRoutes, AccountRoutes
  <2>. QED
    BY <1>2, <2>1, RequestRows
<1>3. CASE o \in DOMAIN NameRequests
  <2>1. Matches(NameRequests[o]) = {<<NameRequests[o][1], NameRequests[o][2], o>>}
    BY <1>3 DEF NameRequests, Matches, ServiceRoutes, AccountRoutes
  <2>. QED
    BY <1>3, <2>1, RequestRows
<1>4. CASE o \in DOMAIN SettingsRequests
  <2>1. Matches(SettingsRequests[o]) = {<<SettingsRequests[o][1], SettingsRequests[o][2], o>>}
    BY <1>4 DEF SettingsRequests, Matches, ServiceRoutes, AccountRoutes
  <2>. QED
    BY <1>4, <2>1, RequestRows
<1>5. CASE o \in DOMAIN AuthRequests
  <2>1. Matches(AuthRequests[o]) = {<<AuthRequests[o][1], AuthRequests[o][2], o>>}
    BY <1>5 DEF AuthRequests, Matches, ServiceRoutes, AccountRoutes
  <2>. QED
    BY <1>5, <2>1, RequestRows
<1>6. CASE o \in DOMAIN BattleRequests
  <2>1. Matches(BattleRequests[o]) = {<<BattleRequests[o][1], BattleRequests[o][2], o>>}
    BY <1>6 DEF BattleRequests, Matches, ServiceRoutes, AccountRoutes
  <2>. QED
    BY <1>6, <2>1, RequestRows
<1>. QED
  BY <1>1, <1>2, <1>3, <1>4, <1>5, <1>6, RequestRows, RequestTables

(* No route matches a path without its last segment.                       *)
LEMMA NoRouteWithoutUid == Matches(<<"GET", "/internal/v1/auth/by-firebase-uid/">>) = {}
  BY DEF Matches, ServiceRoutes, AccountRoutes

----------------------------------------------------------------------------
(* The handlers and the parsers of their answers.                          *)

(* The tables of the handlers.                                             *)
LEMMA HandlerTables ==
  /\ DOMAIN AuthHandler = {"RegisterPlayer", "GetPlayerByFirebaseUID", "LoginPlayer"}
  /\ DOMAIN PlayerHandler =
       {"GetPlayer", "UpdateName", "ValidateNameForOnboarding", "GetBattleLimit",
        "IncrementBattleCount", "UpdatePremium", "AddExp"}
  /\ DOMAIN BattleHandler = {"AwardGameExp", "RevertBattleCount"}
  /\ DOMAIN FactionHandler =
       {"SelectInitialFaction", "GrantFaction", "ListFactions", "ListPlayerFactions"}
  /\ DOMAIN SettingsHandler = {"GetPlayerSettings", "UpdatePlayerSettings"}
  /\ DOMAIN HealthHandler = {"GetHealth"}
  BY DEF AuthHandler, PlayerHandler, BattleHandler, FactionHandler, SettingsHandler,
         HealthHandler

(* The handler of an operation.                                            *)
LEMMA HandlerRows ==
  /\ \A o \in DOMAIN AuthHandler : Handler[o] = AuthHandler[o]
  /\ \A o \in DOMAIN PlayerHandler : Handler[o] = PlayerHandler[o]
  /\ \A o \in DOMAIN BattleHandler : Handler[o] = BattleHandler[o]
  /\ \A o \in DOMAIN FactionHandler : Handler[o] = FactionHandler[o]
  /\ \A o \in DOMAIN SettingsHandler : Handler[o] = SettingsHandler[o]
  /\ \A o \in DOMAIN HealthHandler : Handler[o] = HealthHandler[o]
  BY HandlerTables DEF Handler, ++

(* The operations by their answer to a success.                            *)
AnswersJSON ==
  {"GetPlayerByFirebaseUID", "LoginPlayer", "GetPlayer", "UpdateName", "GetBattleLimit",
   "ListFactions", "GetPlayerSettings", "UpdatePlayerSettings", "GetHealth"}

AnswersNothing ==
  {"ValidateNameForOnboarding", "IncrementBattleCount", "UpdatePremium", "AddExp",
   "AwardGameExp", "RevertBattleCount", "GrantFaction"}

(* The handler of each operation.                                          *)
LEMMA HandlerAnswers ==
  /\ \A o \in AnswersJSON : Handler[o].status = 200 /\ Handler[o].json = TRUE
  /\ \A o \in AnswersNothing : Handler[o].status = 204 /\ Handler[o].json = FALSE
  /\ Handler["RegisterPlayer"].status = 201 /\ Handler["RegisterPlayer"].json = TRUE
  /\ Handler["SelectInitialFaction"].status = 200 /\ Handler["SelectInitialFaction"].json = FALSE
<1>1. /\ \A o \in AnswersJSON \cap DOMAIN AuthHandler :
           AuthHandler[o].status = 200 /\ AuthHandler[o].json = TRUE
      /\ AuthHandler["RegisterPlayer"].status = 201 /\ AuthHandler["RegisterPlayer"].json = TRUE
      /\ AnswersNothing \cap DOMAIN AuthHandler = {}
  BY DEF AnswersJSON, AnswersNothing, AuthHandler
<1>2. /\ \A o \in AnswersJSON \cap DOMAIN PlayerHandler :
           PlayerHandler[o].status = 200 /\ PlayerHandler[o].json = TRUE
      /\ \A o \in AnswersNothing \cap DOMAIN PlayerHandler :
           PlayerHandler[o].status = 204 /\ PlayerHandler[o].json = FALSE
  BY DEF AnswersJSON, AnswersNothing, PlayerHandler
<1>3. \A o \in DOMAIN BattleHandler :
        BattleHandler[o].status = 204 /\ BattleHandler[o].json = FALSE
  BY DEF BattleHandler
<1>4. /\ \A o \in AnswersJSON \cap DOMAIN FactionHandler :
           FactionHandler[o].status = 200 /\ FactionHandler[o].json = TRUE
      /\ \A o \in AnswersNothing \cap DOMAIN FactionHandler :
           FactionHandler[o].status = 204 /\ FactionHandler[o].json = FALSE
      /\ FactionHandler["SelectInitialFaction"].status = 200
      /\ FactionHandler["SelectInitialFaction"].json = FALSE
  BY DEF AnswersJSON, AnswersNothing, FactionHandler
<1>5. \A o \in DOMAIN SettingsHandler :
        SettingsHandler[o].status = 200 /\ SettingsHandler[o].json = TRUE
  BY DEF SettingsHandler
<1>6. \A o \in DOMAIN HealthHandler :
        HealthHandler[o].status = 200 /\ HealthHandler[o].json = TRUE
  BY DEF HealthHandler
<1>7. \A o \in AnswersJSON : Handler[o].status = 200 /\ Handler[o].json = TRUE
  BY <1>1, <1>2, <1>4, <1>5, <1>6, HandlerRows, HandlerTables DEF AnswersJSON
<1>8. \A o \in AnswersNothing : Handler[o].status = 204 /\ Handler[o].json = FALSE
  BY <1>2, <1>3, <1>4, HandlerRows, HandlerTables DEF AnswersNothing
<1>. QED
  BY <1>1, <1>4, <1>7, <1>8, HandlerRows, HandlerTables

(* A handler checks at most the body.                                      *)
LEMMA HandlerChecks == \A o \in Operation : Handler[o].check \in {<<>>, <<"bind">>}
<1>1. /\ \A o \in DOMAIN AuthHandler : AuthHandler[o].check \in {<<>>, <<"bind">>}
      /\ \A o \in DOMAIN PlayerHandler : PlayerHandler[o].check \in {<<>>, <<"bind">>}
      /\ \A o \in DOMAIN BattleHandler : BattleHandler[o].check \in {<<>>, <<"bind">>}
      /\ \A o \in DOMAIN FactionHandler : FactionHandler[o].check \in {<<>>, <<"bind">>}
      /\ \A o \in DOMAIN SettingsHandler : SettingsHandler[o].check \in {<<>>, <<"bind">>}
      /\ \A o \in DOMAIN HealthHandler : HealthHandler[o].check \in {<<>>, <<"bind">>}
  BY DEF AuthHandler, PlayerHandler, BattleHandler, FactionHandler, SettingsHandler,
         HealthHandler
<1>. QED
  BY <1>1, HandlerRows, HandlerTables, RequestRows

(* The client of each operation.                                           *)
LEMMA ClientExpects ==
  /\ Operation = AnswersJSON \cup AnswersNothing \cup {"RegisterPlayer", "SelectInitialFaction"}
  /\ \A o \in AnswersJSON : Payload[o] = 200 /\ Success[o] = OnPayload
  /\ \A o \in AnswersNothing : Payload[o] = NoPayload /\ Success[o] = 204
  /\ Payload["RegisterPlayer"] = 201 /\ Success["RegisterPlayer"] = OnPayload
  /\ Payload["SelectInitialFaction"] = NoPayload /\ Success["SelectInitialFaction"] = 200
<1>1. Operation = AnswersJSON \cup AnswersNothing \cup {"RegisterPlayer", "SelectInitialFaction"}
  BY RequestRows DEF AnswersJSON, AnswersNothing
<1>2. /\ \A o \in AnswersJSON : Payload[o] = 200
      /\ \A o \in AnswersNothing : Payload[o] = NoPayload
      /\ Payload["RegisterPlayer"] = 201 /\ Payload["SelectInitialFaction"] = NoPayload
  BY DEF AnswersJSON, AnswersNothing, NoPayload, Payload, PlayerPayload, NamePayload, AuthPayload, ++
<1>3. /\ \A o \in AnswersJSON : Success[o] = OnPayload
      /\ \A o \in AnswersNothing : Success[o] = 204
      /\ Success["RegisterPlayer"] = OnPayload /\ Success["SelectInitialFaction"] = 200
  BY DEF AnswersJSON, AnswersNothing, OnPayload, Success, ServiceSuccess, PlayerSuccess, ++
<1>. QED
  BY <1>1, <1>2, <1>3

(* The statuses that a client takes for success.                           *)
SuccessStatus == {200, 201, 204}

(* What a client makes of an answer that arrives whole.                    *)
Taken(o, status, json) == Verdict(o, [status |-> status, json |-> json, whole |-> TRUE])

(* Server and client agree on success.                                     *)
LEMMA HandlerAgrees ==
  ASSUME NEW o \in Operation
  PROVE  /\ Handler[o].status \in Nat /\ Handler[o].json \in BOOLEAN
         /\ Taken(o, Handler[o].status, Handler[o].json) = "success"
<1>1. Handler[o].status \in Nat /\ Handler[o].json \in BOOLEAN
  <2>1. Handler[o].status \in {200, 201, 204}
    BY HandlerAnswers, ClientExpects
  <2>2. Handler[o].json \in BOOLEAN
    BY HandlerAnswers, ClientExpects, Zenon
  <2>3. Handler[o].status \in Nat
    BY <2>1
  <2>. QED
    BY <2>2, <2>3, Zenon
<1>2. CASE o \in AnswersJSON
  <2>1. Taken(o, 200, TRUE) = "success"
    BY <1>2, ClientExpects DEF Taken, Verdict, Parse, OnPayload
  <2>. QED
    BY <1>1, <1>2, <2>1, HandlerAnswers, Zenon
<1>3. CASE o \in AnswersNothing
  <2>1. Taken(o, 204, FALSE) = "success"
    BY <1>3, ClientExpects DEF Taken, Verdict, Parse, OnPayload
  <2>. QED
    BY <1>1, <1>3, <2>1, HandlerAnswers, Zenon
<1>4. CASE o = "RegisterPlayer"
  <2>1. Taken("RegisterPlayer", 201, TRUE) = "success"
    BY ClientExpects DEF Taken, Verdict, Parse, OnPayload
  <2>2. Taken("RegisterPlayer", Handler["RegisterPlayer"].status, Handler["RegisterPlayer"].json) = "success"
    BY <2>1, HandlerAnswers, Zenon
  <2>. QED
    BY <1>1, <1>4, <2>2, Zenon
<1>5. CASE o = "SelectInitialFaction"
  <2>1. Taken("SelectInitialFaction", 200, FALSE) = "success"
    BY ClientExpects DEF Taken, Verdict, Parse, OnPayload
  <2>2. Taken("SelectInitialFaction", Handler["SelectInitialFaction"].status, Handler["SelectInitialFaction"].json) = "success"
    BY <2>1, HandlerAnswers, Zenon
  <2>. QED
    BY <1>1, <1>5, <2>2, Zenon
<1>. QED
  BY <1>2, <1>3, <1>4, <1>5, ClientExpects

(* No other status is taken for success.                                   *)
LEMMA OthersFail ==
  ASSUME NEW o \in Operation, NEW json \in BOOLEAN,
         NEW status \in Nat \ (SuccessStatus \cup {0})
  PROVE  Taken(o, status, json) = StatusError(status)
  BY ClientExpects DEF Taken, Verdict, Parse, OnPayload, NoPayload, SuccessStatus

----------------------------------------------------------------------------
(* The use cases.                                                          *)

(* The tables of the use cases.                                            *)
LEMMA UsecaseTables ==
  /\ DOMAIN AuthUsecase = {"RegisterPlayer", "GetPlayerByFirebaseUID", "LoginPlayer"}
  /\ DOMAIN PlayerUsecase = {"UpdatePremium", "UpdateName", "ValidateNameForOnboarding",
                             "GetBattleLimit", "IncrementBattleCount"}
  /\ DOMAIN ProgressUsecase = {"RevertBattleCount", "AddExp", "AwardGameExp", "GetPlayer"}
  /\ DOMAIN FactionUsecase =
       {"GrantFaction", "ListFactions", "ListPlayerFactions", "SelectInitialFaction"}
  /\ DOMAIN SettingsUsecase = {"GetPlayerSettings", "UpdatePlayerSettings"}
  /\ DOMAIN HealthUsecase = {"GetHealth"}
  BY DEF AuthUsecase, PlayerUsecase, ProgressUsecase, FactionUsecase, SettingsUsecase,
         HealthUsecase

(* The use case of an operation.                                           *)
LEMMA UsecaseRows ==
  /\ \A o \in DOMAIN AuthUsecase : Usecase[o] = AuthUsecase[o]
  /\ \A o \in DOMAIN PlayerUsecase : Usecase[o] = PlayerUsecase[o]
  /\ \A o \in DOMAIN ProgressUsecase : Usecase[o] = ProgressUsecase[o]
  /\ \A o \in DOMAIN FactionUsecase : Usecase[o] = FactionUsecase[o]
  /\ \A o \in DOMAIN SettingsUsecase : Usecase[o] = SettingsUsecase[o]
  /\ \A o \in DOMAIN HealthUsecase : Usecase[o] = HealthUsecase[o]
  BY UsecaseTables DEF Usecase, ++

(* Steps are fit but for what operation they belong to.                    *)
Ordered(steps) ==
  /\ steps \in Seq(StepName)
  /\ \A i \in 1 .. Len(steps) :
       /\ steps[i] = "first" => Len(steps) = i + 1 /\ steps[i + 1] = "second"
       /\ steps[i] = "once" => Len(steps) = i
       /\ \A j \in 1 .. Len(steps) : i < j => MayFollow(steps[i], steps[j])

(* What may follow what.                                                   *)
LEMMA Follows ==
  /\ \A s \in StepName \ Writes, t \in StepName : MayFollow(s, t)
  /\ \A t \in StepName : MayFollow("first", t)
  /\ MayFollow("claim", "config")
  /\ MayFollow("update", "player") /\ MayFollow("update", "config")
  BY DEF MayFollow, Writes, StepTrouble

(* Two, three and four steps in order.                                     *)
LEMMA TwoOrdered ==
  ASSUME NEW a \in StepName \ {"first", "once"}, NEW b \in StepName \ {"first"},
         MayFollow(a, b)
  PROVE  Ordered(<<a, b>>)
<1>. DEFINE p == <<a, b>>
<1>1. p \in Seq(StepName) /\ Len(p) = 2 /\ p[1] = a /\ p[2] = b
  OBVIOUS
<1>. HIDE DEF p
<1>. QED
  BY <1>1 DEF Ordered, p

LEMMA ThreeOrdered ==
  ASSUME NEW a \in StepName \ {"first", "once"}, NEW b \in StepName \ {"first", "once"},
         NEW c \in StepName \ {"first"},
         MayFollow(a, b), MayFollow(a, c), MayFollow(b, c)
  PROVE  Ordered(<<a, b, c>>)
<1>. DEFINE p == <<a, b, c>>
<1>1. p \in Seq(StepName) /\ Len(p) = 3 /\ p[1] = a /\ p[2] = b /\ p[3] = c
  OBVIOUS
<1>. HIDE DEF p
<1>2. Ordered(p)
  BY <1>1 DEF Ordered
<1>. QED
  BY <1>2 DEF p

LEMMA FourOrdered ==
  ASSUME NEW a \in StepName \ {"first", "once"}, NEW b \in StepName \ {"first", "once"},
         NEW c \in StepName \ {"once"}, NEW d \in StepName \ {"first"},
         c = "first" => d = "second",
         MayFollow(a, b), MayFollow(a, c), MayFollow(a, d),
         MayFollow(b, c), MayFollow(b, d), MayFollow(c, d)
  PROVE  Ordered(<<a, b, c, d>>)
<1>. DEFINE p == <<a, b, c, d>>
<1>1. /\ p \in Seq(StepName) /\ Len(p) = 4
      /\ p[1] = a /\ p[2] = b /\ p[3] = c /\ p[4] = d
  OBVIOUS
<1>. HIDE DEF p
<1>2. Ordered(p)
  BY <1>1 DEF Ordered
<1>. QED
  BY <1>2 DEF p

(* The use case of each operation, in order.                               *)
LEMMA UsecaseOrdered ==
  ASSUME NEW o \in Operation
  PROVE  Ordered(Usecase[o])
<1>1. Ordered(<<>>) /\ \A s \in StepName \ {"first"} : Ordered(<<s>>)
  BY DEF Ordered
<1>. USE Follows DEF StepName, Writes
<1>2. \A u \in DOMAIN AuthUsecase : Ordered(AuthUsecase[u])
  <2>1. Ordered(<<"taken", "claim", "config">>) /\ Ordered(<<"player", "config">>)
    BY TwoOrdered, ThreeOrdered
  <2>. QED
    BY <2>1 DEF AuthUsecase
<1>3. \A u \in DOMAIN PlayerUsecase : Ordered(PlayerUsecase[u])
  <2>1. Ordered(<<"update">>) /\ Ordered(<<"player", "value">>) /\ Ordered(<<"player", "config">>)
    BY <1>1, TwoOrdered
  <2>2. Ordered(<<"value", "update", "player", "config">>)
    BY FourOrdered
  <2>3. Ordered(<<"player", "config", "limit", "write">>)
    BY FourOrdered
  <2>. QED
    BY <2>1, <2>2, <2>3 DEF PlayerUsecase
<1>4. \A u \in DOMAIN ProgressUsecase : Ordered(ProgressUsecase[u])
  <2>1. Ordered(<<"once">>) /\ Ordered(<<"player", "config">>)
    BY <1>1, TwoOrdered
  <2>2. Ordered(<<"moot?", "config", "update">>)
    BY ThreeOrdered
  <2>3. Ordered(<<"config", "moot?", "first", "second">>)
    BY FourOrdered
  <2>. QED
    BY <2>1, <2>2, <2>3 DEF ProgressUsecase
<1>5. \A u \in DOMAIN FactionUsecase : Ordered(FactionUsecase[u])
  <2>1. Ordered(<<"value", "player", "taken", "claim">>)
    BY FourOrdered
  <2>2. Ordered(<<"grant">>)
    BY <1>1
  <2>. QED
    BY <1>1, <2>1, <2>2 DEF FactionUsecase
<1>6. \A u \in DOMAIN SettingsUsecase : Ordered(SettingsUsecase[u])
  <2>1. Ordered(<<"player">>) /\ Ordered(<<"update", "player">>)
    BY <1>1, TwoOrdered
  <2>. QED
    BY <2>1 DEF SettingsUsecase
<1>7. \A u \in DOMAIN HealthUsecase : Ordered(HealthUsecase[u])
  BY <1>1 DEF HealthUsecase
<1>. QED
  BY <1>2, <1>3, <1>4, <1>5, <1>6, <1>7, UsecaseRows, UsecaseTables, RequestRows

(* The writes of each use case.                                            *)
LEMMA UsecaseWrites ==
  ASSUME NEW o \in Operation, NEW i \in 1 .. Len(Usecase[o]), Usecase[o][i] \in Writes
  PROVE  MayWrite(o, Usecase[o][i])
<1>1. Usecase[o][i] \in ToSet(Usecase[o])
  BY UsecaseOrdered DEF Ordered, ToSet
<1>2. o \in {"RegisterPlayer", "SelectInitialFaction"} => Usecase[o][i] = "claim"
  <2>1. /\ \A k \in 1 .. 3 : <<"taken", "claim", "config">>[k] \in Writes => k = 2
        /\ \A k \in 1 .. 4 : <<"value", "player", "taken", "claim">>[k] \in Writes => k = 4
    BY DEF Writes
  <2>2. /\ Usecase["RegisterPlayer"] = <<"taken", "claim", "config">>
        /\ Usecase["SelectInitialFaction"] = <<"value", "player", "taken", "claim">>
    BY UsecaseRows, UsecaseTables DEF AuthUsecase, FactionUsecase
  <2>. QED
    BY <2>1, <2>2
<1>3. o = "RevertBattleCount" => Usecase[o][i] = "once"
  <2>1. Usecase["RevertBattleCount"] = <<"once">>
    BY UsecaseRows, UsecaseTables DEF ProgressUsecase
  <2>. QED
    BY <2>1
<1>4. Usecase[o][i] = "first" => o = "AwardGameExp"
  <2>1. CASE o \in DOMAIN AuthUsecase
    <3>1. AuthUsecase[o] \in {<<"taken", "claim", "config">>, <<"player", "config">>}
      BY <2>1 DEF AuthUsecase
    <3>. QED
      BY <2>1, <3>1, UsecaseRows
  <2>2. CASE o \in DOMAIN PlayerUsecase
    <3>1. PlayerUsecase[o] \in
            {<<"update">>, <<"value", "update", "player", "config">>, <<"player", "value">>,
             <<"player", "config">>, <<"player", "config", "limit", "write">>}
      BY <2>2 DEF PlayerUsecase
    <3>. QED
      BY <2>2, <3>1, UsecaseRows
  <2>3. CASE o \in DOMAIN ProgressUsecase \ {"AwardGameExp"}
    <3>1. ProgressUsecase[o] \in
            {<<"once">>, <<"moot?", "config", "update">>, <<"player", "config">>}
      BY <2>3 DEF ProgressUsecase
    <3>. QED
      BY <2>3, <3>1, UsecaseRows
  <2>4. CASE o \in DOMAIN FactionUsecase
    <3>1. FactionUsecase[o] \in {<<"grant">>, <<>>, <<"value", "player", "taken", "claim">>}
      BY <2>4 DEF FactionUsecase
    <3>. QED
      BY <2>4, <3>1, UsecaseRows
  <2>5. CASE o \in DOMAIN SettingsUsecase
    <3>1. SettingsUsecase[o] \in {<<"player">>, <<"update", "player">>}
      BY <2>5 DEF SettingsUsecase
    <3>. QED
      BY <2>5, <3>1, UsecaseRows
  <2>6. CASE o \in DOMAIN HealthUsecase
    <3>1. HealthUsecase[o] = <<>>
      BY <2>6 DEF HealthUsecase
    <3>. QED
      BY <2>6, <3>1, UsecaseRows
  <2>. QED
    BY <2>1, <2>2, <2>3, <2>4, <2>5, <2>6, UsecaseTables, RequestRows
<1>. QED
  BY <1>1, <1>2, <1>3, <1>4 DEF MayWrite

----------------------------------------------------------------------------
(* What the server runs.                                                   *)

(* The handler of an operation is found; it runs its gate and its check,   *)
(* which write nothing, before its use case.                               *)
LEMMA ProgramOf ==
  ASSUME NEW o \in Operation
  PROVE  /\ Matches(Request[o]) # {}
         /\ Routed(Request[o]) = o
         /\ \E gate \in Seq({"authenticate", "bind"}) :
              Program(Request[o]) = gate \o Usecase[o]
<1>. DEFINE route == <<Request[o][1], Request[o][2], o>>
<1>1. Matches(Request[o]) = {route}
  BY RouteOf
<1>2. (CHOOSE r \in Matches(Request[o]) : TRUE) = route /\ route[3] = o
  BY <1>1
<1>. HIDE DEF route
<1>3. Routed(Request[o]) = o /\ Matches(Request[o]) # {}
  BY <1>1, <1>2 DEF Routed
<1>4. PICK gate \in {<<>>, <<"authenticate">>} :
        Program(Request[o]) = gate \o Handler[o].check \o Usecase[o]
  BY <1>2 DEF Program
<1>5. Handler[o].check \in {<<>>, <<"bind">>}
  BY HandlerChecks
<1>6. gate \in Seq({"authenticate", "bind"}) /\ Handler[o].check \in Seq({"authenticate", "bind"})
  <2>1. {<<>>, <<"authenticate">>, <<"bind">>} \subseteq Seq({"authenticate", "bind"})
    OBVIOUS
  <2>. QED
    BY <1>4, <1>5, <2>1, Zenon
<1>7. gate \o Handler[o].check \in Seq({"authenticate", "bind"})
  BY <1>6, ConcatProperties
<1>. QED
  BY <1>3, <1>4, <1>7

(* The program of an operation is fit, and makes the write it promises.    *)
LEMMA ProgramFits ==
  ASSUME NEW o \in Operation
  PROVE  /\ Fit(o, Program(Request[o]))
         /\ ToSet(Usecase[o]) \cap Writes # {} =>
              \E i \in 1 .. Len(Program(Request[o])) : Program(Request[o])[i] \in Writes
<1>. DEFINE body == Usecase[o]
            all == Program(Request[o])
<1>1. PICK gate \in Seq({"authenticate", "bind"}) : all = gate \o body
  BY ProgramOf
<1>2. body \in Seq(StepName) /\ Ordered(body)
  BY UsecaseOrdered DEF Ordered
<1>3. gate \in Seq(StepName) /\ \A i \in 1 .. Len(gate) : gate[i] \in {"authenticate", "bind"}
  BY <1>1 DEF StepName
<1>4. \A i \in 1 .. Len(body) : body[i] \in Writes => MayWrite(o, body[i])
  BY UsecaseWrites
<1>5. ToSet(body) \cap Writes # {} => \E i \in 1 .. Len(body) : body[i] \in Writes
  BY <1>2 DEF ToSet
<1>. HIDE DEF body, all
<1>6. /\ all \in Seq(StepName) /\ Len(all) = Len(gate) + Len(body)
      /\ \A i \in 1 .. Len(gate) : all[i] = gate[i]
      /\ \A i \in 1 .. Len(body) : all[i + Len(gate)] = body[i]
      /\ \A i \in 1 .. Len(all) : i > Len(gate) =>
           i - Len(gate) \in 1 .. Len(body) /\ all[i] = body[i - Len(gate)]
  BY <1>1, <1>2, <1>3, ConcatProperties
<1>7. \A i \in 1 .. Len(all) : i <= Len(gate) => all[i] \in {"authenticate", "bind"}
  BY <1>3, <1>6
<1>8. {"authenticate", "bind"} \cap (Writes \cup {"first", "once"}) = {}
  BY DEF Writes
<1>9. ASSUME NEW i \in 1 .. Len(all)
      PROVE  /\ all[i] \in Writes => MayWrite(o, all[i])
             /\ all[i] = "first" => Len(all) = i + 1 /\ all[i + 1] = "second"
             /\ all[i] = "once" => Len(all) = i
             /\ \A j \in 1 .. Len(all) : i < j => MayFollow(all[i], all[j])
  <2>1. CASE i <= Len(gate)
    BY <1>7, <1>8, <2>1 DEF MayFollow
  <2>2. CASE i > Len(gate)
    <3>1. PICK k \in 1 .. Len(body) : k = i - Len(gate) /\ all[i] = body[k]
      BY <1>6, <2>2
    <3>2. all[i] \in Writes => MayWrite(o, all[i])
      BY <1>4, <3>1
    <3>3. all[i] = "first" => Len(all) = i + 1 /\ all[i + 1] = "second"
      <4>1. body[k] = "first" => Len(body) = k + 1 /\ body[k + 1] = "second"
        BY <1>2 DEF Ordered
      <4>2. Len(body) = k + 1 => k + 1 \in 1 .. Len(body) /\ all[k + 1 + Len(gate)] = body[k + 1]
        BY <1>6
      <4>. QED
        BY <1>6, <3>1, <4>1, <4>2
    <3>4. all[i] = "once" => Len(all) = i
      <4>1. body[k] = "once" => Len(body) = k
        BY <1>2 DEF Ordered
      <4>. QED
        BY <1>6, <3>1, <4>1
    <3>5. ASSUME NEW j \in 1 .. Len(all), i < j
          PROVE  MayFollow(all[i], all[j])
      <4>1. j - Len(gate) \in 1 .. Len(body) /\ all[j] = body[j - Len(gate)] /\ k < j - Len(gate)
        BY <1>3, <1>6, <2>2, <3>1, <3>5
      <4>. QED
        BY <1>2, <3>1, <4>1 DEF Ordered
    <3>. QED
      BY <3>2, <3>3, <3>4, <3>5
  <2>. QED
    BY <1>3, <2>1, <2>2
<1>10. Fit(o, all)
  BY <1>6, <1>9 DEF Fit
<1>11. (\E i \in 1 .. Len(body) : body[i] \in Writes) => \E i \in 1 .. Len(all) : all[i] \in Writes
  BY <1>2, <1>3, <1>6
<1>. QED
  BY <1>5, <1>10, <1>11 DEF body, all

(* What is left after a step is fit.                                       *)
LEMMA FitTail ==
  ASSUME NEW o, NEW steps, Fit(o, steps), steps # <<>>
  PROVE  /\ Head(steps) \in StepName
         /\ Len(Tail(steps)) = Len(steps) - 1
         /\ \A i \in 1 .. Len(Tail(steps)) :
              i + 1 \in 1 .. Len(steps) /\ Tail(steps)[i] = steps[i + 1]
         /\ Fit(o, Tail(steps))
<1>1. /\ Head(steps) \in StepName /\ Tail(steps) \in Seq(StepName)
      /\ Len(Tail(steps)) = Len(steps) - 1
      /\ \A i \in 1 .. Len(Tail(steps)) :
           i + 1 \in 1 .. Len(steps) /\ Tail(steps)[i] = steps[i + 1]
  BY HeadTailProperties DEF Fit
<1>. DEFINE rest == Tail(steps)
<1>. HIDE DEF rest
<1>2. ASSUME NEW i \in 1 .. Len(rest)
      PROVE  /\ rest[i] \in Writes => MayWrite(o, rest[i])
             /\ rest[i] = "first" => Len(rest) = i + 1 /\ rest[i + 1] = "second"
             /\ rest[i] = "once" => Len(rest) = i
             /\ \A j \in 1 .. Len(rest) : i < j => MayFollow(rest[i], rest[j])
  <2>1. PICK k \in 1 .. Len(steps) : k = i + 1 /\ rest[i] = steps[k]
    BY <1>1 DEF rest
  <2>2. /\ steps[k] \in Writes => MayWrite(o, steps[k])
        /\ steps[k] = "first" => Len(steps) = k + 1 /\ steps[k + 1] = "second"
        /\ steps[k] = "once" => Len(steps) = k
        /\ \A j \in 1 .. Len(steps) : k < j => MayFollow(steps[k], steps[j])
    BY DEF Fit
  <2>3. Len(rest) = i + 1 => rest[i + 1] = steps[k + 1]
    BY <1>1, <2>1 DEF rest
  <2>4. \A j \in 1 .. Len(rest) : i < j => k < j + 1 /\ j + 1 \in 1 .. Len(steps) /\ rest[j] = steps[j + 1]
    BY <1>1, <2>1 DEF rest
  <2>5. Len(rest) = Len(steps) - 1 /\ Len(steps) \in Nat
    <3>1. Len(steps) \in Nat
      BY LenProperties DEF Fit
    <3>. QED
      BY <1>1, <3>1 DEF rest
  <2>6. rest[i] = "first" => Len(rest) = i + 1 /\ rest[i + 1] = "second"
    BY <2>1, <2>2, <2>3, <2>5
  <2>7. rest[i] = "once" => Len(rest) = i
    BY <2>1, <2>2, <2>5
  <2>8. \A j \in 1 .. Len(rest) : i < j => MayFollow(rest[i], rest[j])
    BY <2>1, <2>2, <2>4
  <2>. QED
    BY <2>1, <2>2, <2>6, <2>7, <2>8
<1>3. Fit(o, rest)
  BY <1>1, <1>2 DEF Fit, rest
<1>. QED
  BY <1>1, <1>3 DEF rest

----------------------------------------------------------------------------
(* What a step does.                                                       *)

(* A refused step is answered with a status that the client takes for the  *)
(* sentinel of what was wrong.                                             *)
LEMMA RefusalNamed ==
  ASSUME NEW step \in StepName, StepTrouble(step) \cap trouble # {},
         NEW o \in Operation
  PROVE  LET status == toHTTPStatus(StepError(step))
         IN  /\ status \in Nat
             /\ Taken(o, status, TRUE) \in Verdicts \ {"error", "success"}
             /\ "config" \notin trouble => Named(Taken(o, status, TRUE))
<1>. DEFINE status == toHTTPStatus(StepError(step))
<1>1. status \in {401, 400, 404, 409, 429, 500}
  BY DEF toHTTPStatus
<1>2. status \in Nat \ (SuccessStatus \cup {0})
  BY <1>1 DEF SuccessStatus
<1>3. Taken(o, status, TRUE) = StatusError(status)
  BY <1>2, OthersFail
<1>4. StatusError(status) \in Verdicts \ {"error", "success"}
  BY <1>1 DEF StatusError, Verdicts
<1>5. "config" \notin trouble => Named(StatusError(status))
  BY DEF Named, StatusError, toHTTPStatus, StepError, StepTrouble, StepName
<1>. QED
  BY <1>2, <1>3, <1>4, <1>5

(* Troubles that grow by what is taken or moot change nothing else.        *)
Grows == trouble \subseteq trouble' /\ trouble' \subseteq trouble \cup {"taken", "moot"}

LEMMA SameCall ==
  ASSUME UNCHANGED <<op, target>>, Grows
  PROVE  /\ Wire' = Wire /\ Promise' = Promise
         /\ \A step : Harmless(step) => Harmless(step)'
         /\ \A v : Named(v) => Named(v)'
  BY DEF Grows, Wire, Promise, Harmless, Named

(* What holds of an attempt holds when another one goes on.                *)
LEMMA AttemptKept ==
  ASSUME NEW m \in Attempt, AttemptInv(m), UNCHANGED <<op, target>>, Grows,
         attempts \in Nat, attempts' \in Nat, attempts <= attempts',
         run'[m] = run[m], effect'[m] = effect[m], reply'[m] = reply[m],
         verdict'[m] = verdict[m]
  PROVE  AttemptInv(m)'
<1>1. Meaning(m)' = Meaning(m)
  BY DEF Meaning
<1>2. HandlerInv(m) => HandlerInv(m)'
  BY SameCall DEF HandlerInv
<1>3. Tells(m, Meaning(m)) => Tells(m, Meaning(m))'
  BY <1>1, SameCall DEF Tells
<1>4. VerdictInv(m)'
  BY <1>1 DEF AttemptInv, VerdictInv
<1>5. "uid" \in trouble' <=> "uid" \in trouble
  BY DEF Grows
<1>6. m > attempts' => m > attempts
  BY DEF Attempt
<1>. QED
  BY <1>1, <1>2, <1>3, <1>4, <1>5, <1>6 DEF AttemptInv

(* A step of one attempt.                                                  *)
LEMMA OneAttempt ==
  ASSUME IInv, NEW n \in Attempt, TypeOK', CallerInv', OnceInv', AttemptInv(n)',
         UNCHANGED <<op, target>>, Grows, attempts <= attempts',
         \A m \in Attempt \ {n} :
           /\ run'[m] = run[m] /\ effect'[m] = effect[m]
           /\ reply'[m] = reply[m] /\ verdict'[m] = verdict[m]
  PROVE  IInv'
<1>1. attempts \in Nat /\ attempts' \in Nat
  BY RestCallAssumption DEF IInv, TypeOK
<1>2. ASSUME NEW m \in Attempt PROVE AttemptInv(m)'
  <2>1. CASE m = n
    BY <2>1
  <2>2. CASE m # n
    BY <1>1, <2>2, AttemptKept DEF IInv
  <2>. QED
    BY <2>1, <2>2
<1>. QED
  BY <1>2 DEF IInv

(* What is left once the first step is done.                               *)
Rest(n) == Tail(run[n].left)

(* A handler that runs, and the step it takes.                             *)
LEMMA AtAStep ==
  ASSUME IInv, NEW n \in Attempt, Running(n)
  PROVE  /\ op \in Operation /\ target = "server" /\ HandlerInv(n)
         /\ reply[n] = NoReply /\ n <= attempts
         /\ run[n].left \in Seq(StepName) /\ Len(run[n].left) >= 1
         /\ Step(n) = run[n].left[1] /\ Step(n) \in StepName
         /\ Rest(n) \in Seq(StepName) /\ Fit(op, Rest(n))
         /\ Len(Rest(n)) = Len(run[n].left) - 1
         /\ \A i \in 1 .. Len(Rest(n)) :
              i + 1 \in 1 .. Len(run[n].left) /\ Rest(n)[i] = run[n].left[i + 1]
<1>1. HandlerInv(n) /\ reply[n] = NoReply /\ target # "fake"
  BY DEF IInv, AttemptInv, Running
<1>2. op \in Operation /\ target = "server" /\ n <= attempts
  <2>1. run[n] # Unsent
    BY DEF Running, Unsent
  <2>2. ~ (n > attempts)
    BY <2>1 DEF IInv, AttemptInv
  <2>3. n \in Nat /\ attempts \in Nat
    BY RestCallAssumption DEF IInv, TypeOK, Attempt
  <2>. QED
    BY <1>1, <2>2, <2>3, RestCallAssumption DEF IInv, TypeOK
<1>3. Fit(op, run[n].left) /\ run[n].left # <<>>
  BY <1>1 DEF HandlerInv, Running
<1>4. run[n].left \in Seq(StepName)
  BY <1>3 DEF Fit
<1>5. Len(run[n].left) >= 1 /\ Step(n) = run[n].left[1]
  BY <1>3, <1>4, LenProperties, EmptySeq, HeadTailProperties DEF Step
<1>6. /\ Step(n) \in StepName /\ Fit(op, Rest(n))
      /\ Len(Rest(n)) = Len(run[n].left) - 1
      /\ \A i \in 1 .. Len(Rest(n)) :
           i + 1 \in 1 .. Len(run[n].left) /\ Rest(n)[i] = run[n].left[i + 1]
  BY <1>3, FitTail DEF Step, Rest
<1>7. Rest(n) \in Seq(StepName)
  BY <1>6 DEF Fit
<1>. QED
  BY <1>1, <1>2, <1>4, <1>5, <1>6, <1>7

(* What the handler has done after a step that goes through.               *)
LEMMA TakeEffect ==
  ASSUME IInv, NEW n \in Attempt, Running(n), Take(n), UNCHANGED <<op, target>>,
         StepTrouble(Step(n)) \cap trouble = {}
  PROVE  /\ effect' \in [Attempt -> {"none", "part", "all", "moot"}]
         /\ \A m \in Attempt \ {n} : effect'[m] = effect[m]
         /\ Grows
         /\ effect'[n] = "none" =>
              Promise = "none" \/ \E i \in 1 .. Len(Rest(n)) : Rest(n)[i] \in Writes
         /\ effect'[n] = "part" => op = "AwardGameExp" /\ Rest(n) = <<"second">>
         /\ effect'[n] = "all" =>
              Promise = "all" /\ \A i \in 1 .. Len(Rest(n)) : Harmless(Rest(n)[i])
         /\ effect'[n] = "moot" => Rest(n) = <<>>
<1>. DEFINE left == run[n].left
            step == Step(n)
            rest == Rest(n)
<1>1. /\ HandlerInv(n) /\ left \in Seq(StepName) /\ Len(left) >= 1 /\ Len(left) \in Nat
      /\ step = left[1] /\ rest \in Seq(StepName) /\ Len(rest) = Len(left) - 1
      /\ \A i \in 1 .. Len(rest) : i + 1 \in 1 .. Len(left) /\ rest[i] = left[i + 1]
  BY AtAStep, LenProperties
<1>2. effect \in [Attempt -> {"none", "part", "all", "moot"}]
  BY DEF IInv, TypeOK
<1>3. effect' = [effect EXCEPT ![n] =
                   IF step \notin Writes THEN effect[n]
                   ELSE IF step = "once" /\ "moot" \in trouble THEN "moot"
                   ELSE IF step = "first" THEN "part"
                   ELSE "all"]
  BY DEF Take
<1>4. /\ effect' \in [Attempt -> {"none", "part", "all", "moot"}]
      /\ \A m \in Attempt \ {n} : effect'[m] = effect[m]
  BY <1>2, <1>3
<1>5. Grows
  BY DEF Take, Grows
<1>6. Fit(op, left)
  BY <1>1 DEF HandlerInv
<1>7. /\ step \in Writes => MayWrite(op, step)
      /\ step = "first" => Len(left) = 2 /\ left[2] = "second"
      /\ step = "once" => Len(left) = 1
      /\ \A i \in 1 .. Len(rest) : MayFollow(step, rest[i])
  <2>1. 1 \in 1 .. Len(left)
    BY <1>1
  <2>2. /\ left[1] \in Writes => MayWrite(op, left[1])
        /\ left[1] = "first" => Len(left) = 1 + 1 /\ left[1 + 1] = "second"
        /\ left[1] = "once" => Len(left) = 1
        /\ \A j \in 1 .. Len(left) : 1 < j => MayFollow(left[1], left[j])
    BY <1>6, <2>1 DEF Fit
  <2>3. \A i \in 1 .. Len(rest) : 1 < i + 1
    OBVIOUS
  <2>. QED
    BY <1>1, <2>2, <2>3
<1>. HIDE DEF left, step, rest
<1>8. CASE step \notin Writes
  <2>1. effect'[n] = effect[n]
    BY <1>2, <1>3, <1>8
  <2>2. \A i \in 1 .. Len(left) : i = 1 \/ (i - 1 \in 1 .. Len(rest) /\ left[i] = rest[i - 1])
    BY <1>1
  <2>3. effect[n] = "none" =>
          Promise = "none" \/ \E i \in 1 .. Len(rest) : rest[i] \in Writes
    BY <1>1, <1>8, <2>2 DEF HandlerInv, left
  <2>4. effect[n] # "part"
    <3>1. <<"second">>[1] \in Writes
      BY DEF Writes
    <3>. QED
      BY <1>1, <1>8, <3>1 DEF HandlerInv, left
  <2>5. effect[n] = "all" => Promise = "all" /\ \A i \in 1 .. Len(rest) : Harmless(rest[i])
    BY <1>1 DEF HandlerInv, left
  <2>6. effect[n] # "moot"
    BY DEF HandlerInv, left, Running, IInv, AttemptInv
  <2>. QED
    BY <1>4, <1>5, <2>1, <2>3, <2>4, <2>5, <2>6 DEF rest
<1>9. CASE step = "once" /\ "moot" \in trouble
  <2>1. effect'[n] = "moot"
    BY <1>2, <1>3, <1>9 DEF Writes
  <2>2. rest = <<>>
    BY <1>1, <1>7, <1>9, EmptySeq
  <2>. QED
    BY <1>4, <1>5, <2>1, <2>2 DEF rest
<1>10. CASE step = "first"
  <2>1. effect'[n] = "part"
    BY <1>2, <1>3, <1>10 DEF Writes
  <2>2. op = "AwardGameExp"
    BY <1>7, <1>10 DEF Writes, MayWrite
  <2>3. Len(rest) = 1 /\ rest[1] = "second"
    <3>1. Len(left) = 2 /\ left[2] = "second"
      BY <1>7, <1>10
    <3>2. Len(rest) = 1
      BY <1>1, <3>1
    <3>3. rest[1] = left[1 + 1]
      BY <1>1, <3>2
    <3>. QED
      BY <3>1, <3>2, <3>3
  <2>4. rest = <<"second">>
    BY <1>1, <2>3
  <2>. QED
    BY <1>4, <1>5, <2>1, <2>2, <2>4 DEF rest
<1>11. CASE step \in Writes /\ step # "first" /\ ~ (step = "once" /\ "moot" \in trouble)
  <2>1. effect'[n] = "all"
    BY <1>2, <1>3, <1>11
  <2>2. Promise = "all"
    BY <1>7, <1>11 DEF MayWrite, Promise
  <2>3. ASSUME NEW i \in 1 .. Len(rest) PROVE Harmless(rest[i])
    <3>1. /\ rest[i] \notin Writes
          /\ StepTrouble(rest[i]) \subseteq (StepTrouble(step) \cup {"config"}) \ {"taken", "moot"}
      BY <1>7, <1>11 DEF MayFollow
    <3>2. StepTrouble(step) \cap trouble = {}
      BY DEF step
    <3>. QED
      BY <3>1, <3>2 DEF Harmless
  <2>. QED
    BY <1>4, <1>5, <2>1, <2>2, <2>3 DEF rest
<1>. QED
  BY <1>8, <1>9, <1>10, <1>11

(* What is there once is claimed or done by one attempt.                   *)
LEMMA TakeOnce ==
  ASSUME IInv, NEW n \in Attempt, Running(n), Take(n), UNCHANGED <<op, target>>,
         StepTrouble(Step(n)) \cap trouble = {}
  PROVE  OnceInv'
<1>. SUFFICES ASSUME op \in {"RegisterPlayer", "SelectInitialFaction", "RevertBattleCount"}
              PROVE  OnceInv'
  BY DEF OnceInv
<1>. DEFINE mark == IF op = "RevertBattleCount" THEN "moot" ELSE "taken"
<1>1. /\ effect' \in [Attempt -> {"none", "part", "all", "moot"}]
      /\ \A m \in Attempt \ {n} : effect'[m] = effect[m]
      /\ trouble \subseteq trouble'
  BY TakeEffect DEF Grows
<1>2. /\ \A m \in Attempt : effect[m] = "all" => mark \in trouble
      /\ \A l, m \in Attempt : effect[l] = "all" /\ effect[m] = "all" => l = m
  BY DEF IInv, OnceInv
<1>3. CASE Step(n) \notin Writes
  <2>1. effect' = effect
    BY <1>3 DEF Take, IInv, TypeOK
  <2>. QED
    BY <1>1, <1>2, <2>1 DEF OnceInv
<1>4. CASE Step(n) \in Writes
  <2>1. Step(n) = (IF op = "RevertBattleCount" THEN "once" ELSE "claim")
    <3>1. Fit(op, run[n].left) /\ 1 \in 1 .. Len(run[n].left) /\ Step(n) = run[n].left[1]
      BY AtAStep, LenProperties DEF HandlerInv
    <3>2. MayWrite(op, Step(n))
      BY <1>4, <3>1 DEF Fit
    <3>. QED
      BY <3>2 DEF MayWrite
  <2>2. mark \in trouble'
    BY <2>1 DEF Take
  <2>3. mark \in trouble => effect'[n] = "moot"
    <3>1. CASE op = "RevertBattleCount"
      BY <1>4, <2>1, <3>1 DEF Take, IInv, TypeOK
    <3>2. CASE op # "RevertBattleCount"
      BY <2>1, <3>2 DEF StepTrouble
    <3>. QED
      BY <3>1, <3>2
  <2>4. effect'[n] = "all" => \A m \in Attempt : effect[m] # "all"
    BY <1>2, <2>3
  <2>. QED
    BY <1>1, <1>2, <2>2, <2>4 DEF OnceInv
<1>. QED
  BY <1>3, <1>4

----------------------------------------------------------------------------
(* The caller.                                                             *)

(* A call that is not yet made is there to be made.                        *)
LEMMA NextAttempt ==
  ASSUME IInv, MayCall
  PROVE  /\ attempts + 1 \in Attempt /\ attempts \in Nat /\ attempts + 1 <= MaxAttempts
         /\ run[attempts + 1] = Unsent /\ effect[attempts + 1] = "none"
         /\ reply[attempts + 1] = NoReply
<1>1. attempts \in Nat /\ attempts < MaxAttempts /\ MaxAttempts \in Nat
  BY RestCallAssumption DEF IInv, TypeOK, CallerInv, MayCall
<1>2. attempts + 1 \in Attempt /\ attempts + 1 > attempts
  BY <1>1 DEF Attempt
<1>3. AttemptInv(attempts + 1)
  BY <1>2 DEF IInv
<1>. QED
  BY <1>1, <1>2, <1>3 DEF AttemptInv, Unsent

(* What the client returns is one of its verdicts.                         *)
LEMMA VerdictTyped == \A o, r : Verdict(o, r) \in Verdicts
  BY DEF Verdict, Parse, StatusError, Verdicts

(* A request is sent.                                                      *)
LEMMA SendStep ==
  ASSUME IInv, Send
  PROVE  IInv'
<1>1. PICK n \in Attempt :
        /\ n = attempts + 1 /\ attempts \in Nat /\ n <= MaxAttempts
        /\ run[n] = Unsent /\ effect[n] = "none" /\ reply[n] = NoReply
  BY NextAttempt DEF Send
<1>2. /\ run' = [run EXCEPT ![n].at = "wire"] /\ attempts' = n /\ phase' = "waiting"
      /\ UNCHANGED <<op, target, trouble, effect, reply, verdict>>
  BY <1>1 DEF Send, call
<1>3. run \in [Attempt -> [at : {"unsent", "wire", "running", "over", "default"},
                           left : Seq(StepName)]]
  BY DEF IInv, TypeOK
<1>4. /\ run'[n].at = "wire" /\ \A m \in Attempt \ {n} : run'[m] = run[m]
      /\ run' \in [Attempt -> [at : {"unsent", "wire", "running", "over", "default"},
                               left : Seq(StepName)]]
  BY <1>1, <1>2, <1>3
<1>5. n \in 0 .. MaxAttempts /\ n # 0 /\ attempts <= n
  BY <1>1, RestCallAssumption
<1>6. TypeOK' /\ CallerInv' /\ OnceInv' /\ Grows
  BY <1>2, <1>4, <1>5 DEF IInv, TypeOK, CallerInv, OnceInv, Grows
<1>7. AttemptInv(n)'
  <2>1. VerdictInv(n)'
    <3>1. run[n].at = "unsent"
      BY <1>1 DEF Unsent
    <3>2. VerdictInv(n)
      BY <1>1 DEF IInv, AttemptInv
    <3>. QED
      BY <1>2, <3>1, <3>2 DEF VerdictInv
  <2>2. ~ (n > attempts')
    BY <1>2, <1>5
  <2>. QED
    BY <1>1, <1>2, <1>4, <2>1, <2>2 DEF AttemptInv
<1>. QED
  BY <1>1, <1>2, <1>4, <1>5, <1>6, <1>7, OneAttempt

(* The caller is told something.                                           *)
LEMMA TellStep ==
  ASSUME IInv, NEW v \in Verdicts, Tell(v), NEW n \in Attempt, attempts' = n,
         UNCHANGED <<op, target, trouble, run, effect, reply>>,
         n = attempts \/ n = attempts + 1,
         \/ v = "error"
         \/ v = "ErrInternalServer" /\ target = "server"
         \/ v = Meaning(n) /\ run[n].at \in {"over", "default"}
  PROVE  IInv'
<1>1. attempts \in Nat /\ n \in Nat /\ n # 0 /\ n \in 0 .. MaxAttempts /\ attempts <= n
  BY RestCallAssumption DEF IInv, TypeOK, Attempt
<1>2. /\ verdict'[n] = v /\ \A m \in Attempt \ {n} : verdict'[m] = verdict[m]
      /\ verdict' \in [Attempt -> Verdicts \cup {"none"}]
  BY DEF Tell, IInv, TypeOK
<1>3. TypeOK' /\ CallerInv' /\ OnceInv' /\ Grows
  BY <1>1, <1>2 DEF IInv, TypeOK, CallerInv, OnceInv, Grows, Tell
<1>4. AttemptInv(n)'
  <2>1. Meaning(n)' = Meaning(n)
    BY DEF Meaning
  <2>2. VerdictInv(n)'
    BY <1>2, <2>1 DEF VerdictInv
  <2>3. HandlerInv(n) => HandlerInv(n)'
    BY <1>3, SameCall DEF HandlerInv
  <2>4. Tells(n, Meaning(n)) => Tells(n, Meaning(n))'
    BY <1>3, <2>1, SameCall DEF Tells
  <2>5. AttemptInv(n)
    BY DEF IInv
  <2>6. ~ (n > attempts')
    BY <1>1
  <2>. QED
    BY <2>1, <2>2, <2>3, <2>4, <2>5, <2>6 DEF AttemptInv
<1>5. \A m \in Attempt \ {n} :
        /\ run'[m] = run[m] /\ effect'[m] = effect[m]
        /\ reply'[m] = reply[m] /\ verdict'[m] = verdict[m]
  BY <1>2
<1>. QED
  BY <1>1, <1>3, <1>4, <1>5, OneAttempt

(* Nothing is sent, and the caller told so.                                *)
LEMMA FailToSendStep ==
  ASSUME IInv, FailToSend
  PROVE  IInv'
<1>1. PICK n \in Attempt : attempts' = n /\ n = attempts + 1
  BY NextAttempt DEF FailToSend
<1>. QED
  BY <1>1, TellStep DEF FailToSend, call, Verdicts

(* A caller that waits does so for an attempt.                             *)
LEMMA Waiting ==
  ASSUME IInv, phase = "waiting"
  PROVE  attempts \in Attempt
  BY RestCallAssumption DEF IInv, TypeOK, CallerInv, Attempt

(* The caller stops waiting.                                               *)
LEMMA GiveUpStep ==
  ASSUME IInv, GiveUp
  PROVE  IInv'
<1>1. PICK n \in Attempt : attempts' = n /\ n = attempts
  BY Waiting DEF GiveUp
<1>. QED
  BY <1>1, TellStep DEF GiveUp, call, Verdicts

(* A reply that has arrived whole means what it says.                      *)
LEMMA WholeReply ==
  ASSUME NEW r \in [status : Nat, json : BOOLEAN, whole : BOOLEAN], r.whole
  PROVE  Whole(r) = r
  BY DEF Whole

(* The reply arrives, whole or cut.                                        *)
LEMMA ReceiveStep ==
  ASSUME IInv, Receive
  PROVE  IInv'
<1>1. PICK n \in Attempt : attempts' = n /\ n = attempts
  BY Waiting DEF Receive
<1>. DEFINE v == Verdict(op, reply[n])
<1>2. run[n].at \in {"over", "default"}
  BY <1>1 DEF Receive, IInv, TypeOK, AttemptInv
<1>3. v = "error" \/ v = Meaning(n)
  <2>1. reply[n] \in [status : Nat, json : BOOLEAN, whole : BOOLEAN]
    BY <1>1 DEF IInv, TypeOK
  <2>2. CASE reply[n].whole
    <3>1. Whole(reply[n]) = reply[n]
      BY <2>1, <2>2, WholeReply
    <3>. QED
      BY <3>1 DEF Meaning
  <2>3. CASE ~ reply[n].whole
    BY <2>3 DEF Verdict, Parse
  <2>. QED
    BY <2>2, <2>3
<1>4. v \in Verdicts
  BY VerdictTyped
<1>. HIDE DEF v
<1>5. UNCHANGED <<op, target, trouble, run, effect, reply>>
  BY DEF Receive, call
<1>6. Tell(v)
  BY <1>1 DEF Receive, v
<1>. QED
  BY <1>1, <1>2, <1>3, <1>4, <1>5, <1>6, TellStep

(* A proxy answers.                                                        *)
LEMMA BadGatewayStep ==
  ASSUME IInv, BadGateway
  PROVE  IInv'
<1>1. target = "server" /\ \E n \in Attempt : attempts' = n /\ n = attempts
  BY Waiting DEF BadGateway
<1>2. op \in Operation
  BY RestCallAssumption DEF IInv, TypeOK
<1>3. Taken(op, 502, FALSE) = "ErrInternalServer"
  <2>1. 502 \in Nat \ (SuccessStatus \cup {0})
    BY DEF SuccessStatus
  <2>2. \A json \in BOOLEAN : Taken(op, 502, json) = StatusError(502)
    BY <1>2, <2>1, OthersFail
  <2>3. StatusError(502) = "ErrInternalServer"
    BY DEF StatusError
  <2>. QED
    BY <2>2, <2>3, Zenon
<1>4. Tell("ErrInternalServer")
  BY <1>3, Zenon DEF BadGateway, Taken
<1>. QED
  BY <1>1, <1>4, TellStep DEF BadGateway, call, Verdicts

----------------------------------------------------------------------------
(* The server.                                                             *)

(* A reply that is cut is told as an error, and means what it meant.       *)
LEMMA CutStep ==
  ASSUME IInv, NEW n \in Attempt, Cut(n)
  PROVE  IInv'
<1>1. reply \in [Attempt -> [status : Nat, json : BOOLEAN, whole : BOOLEAN]]
  BY DEF IInv, TypeOK
<1>2. /\ reply' = [reply EXCEPT ![n].whole = FALSE] /\ reply[n] # NoReply
      /\ UNCHANGED <<op, target, trouble, phase, attempts, run, effect, verdict>>
  BY DEF Cut, call
<1>3. TypeOK' /\ CallerInv' /\ OnceInv' /\ Grows
  <2>1. reply' \in [Attempt -> [status : Nat, json : BOOLEAN, whole : BOOLEAN]]
    BY <1>1, <1>2
  <2>. QED
    BY <1>2, <2>1 DEF IInv, TypeOK, CallerInv, OnceInv, Grows
<1>4. Meaning(n)' = Meaning(n)
  <2>1. Whole(reply'[n]) = Whole(reply[n])
    BY <1>1, <1>2 DEF Whole
  <2>. QED
    BY <1>2, <2>1 DEF Meaning
<1>5. AttemptInv(n)'
  <2>1. AttemptInv(n)
    BY DEF IInv
  <2>2. run[n].at \notin {"unsent", "wire", "running"}
    BY <1>2, <2>1 DEF AttemptInv
  <2>3. Tells(n, Meaning(n)) => Tells(n, Meaning(n))'
    BY <1>2, <1>3, <1>4, SameCall DEF Tells
  <2>4. VerdictInv(n)'
    BY <1>2, <1>4, <2>1 DEF AttemptInv, VerdictInv
  <2>. QED
    BY <1>2, <1>4, <2>1, <2>2, <2>3, <2>4 DEF AttemptInv
<1>6. attempts <= attempts' /\ \A m \in Attempt \ {n} : reply'[m] = reply[m]
  BY <1>1, <1>2, RestCallAssumption DEF IInv, TypeOK
<1>. QED
  BY <1>2, <1>3, <1>5, <1>6, OneAttempt

(* An answer that tells the truth ends an attempt.                         *)
LEMMA OverStep ==
  ASSUME IInv, NEW n \in Attempt, NEW status \in Nat, NEW json \in BOOLEAN,
         target = "server", run[n].at \in {"wire", "running"}, Reply(n, status, json),
         UNCHANGED <<op, target, phase, attempts, verdict>>, Grows,
         effect' \in [Attempt -> {"none", "part", "all", "moot"}],
         \A m \in Attempt \ {n} : effect'[m] = effect[m],
         OnceInv', Tells(n, Taken(op, status, json))'
  PROVE  IInv'
<1>1. /\ run' = [run EXCEPT ![n] = [at |-> "over", left |-> <<>>]]
      /\ reply' = [reply EXCEPT ![n] = [status |-> status, json |-> json, whole |-> TRUE]]
  BY DEF Reply
<1>2. TypeOK
  BY DEF IInv
<1>3. /\ run'[n] = [at |-> "over", left |-> <<>>]
      /\ \A m \in Attempt \ {n} : run'[m] = run[m]
      /\ run' \in [Attempt -> [at : {"unsent", "wire", "running", "over", "default"},
                               left : Seq(StepName)]]
  BY <1>1, <1>2 DEF TypeOK
<1>4. /\ reply'[n] = [status |-> status, json |-> json, whole |-> TRUE]
      /\ \A m \in Attempt \ {n} : reply'[m] = reply[m]
      /\ reply' \in [Attempt -> [status : Nat, json : BOOLEAN, whole : BOOLEAN]]
  BY <1>1, <1>2 DEF TypeOK
<1>5. TypeOK'
  <2>1. trouble' \subseteq Trouble
    BY <1>2 DEF TypeOK, Grows, Trouble
  <2>. QED
    BY <1>2, <1>3, <1>4, <2>1 DEF TypeOK
<1>6. CallerInv'
  BY DEF IInv, CallerInv, Grows
<1>7. Meaning(n)' = Taken(op, status, json)'
  <2>1. reply'[n] \in [status : Nat, json : BOOLEAN, whole : BOOLEAN] /\ reply'[n].whole
    BY <1>4
  <2>2. Whole(reply'[n]) = reply'[n]
    BY <2>1, WholeReply
  <2>. QED
    BY <1>4, <2>2, Zenon DEF Meaning, Taken
<1>8. AttemptInv(n)'
  <2>1. AttemptInv(n)
    BY DEF IInv
  <2>2. ~ (n > attempts')
    <3>1. run[n] # Unsent
      BY DEF Unsent
    <3>. QED
      BY <2>1, <3>1 DEF AttemptInv
  <2>3. Tells(n, Meaning(n))'
    BY <1>7, Zenon DEF Tells, Named
  <2>4. VerdictInv(n)'
    BY <2>1 DEF AttemptInv, VerdictInv
  <2>. QED
    BY <1>3, <2>2, <2>3, <2>4 DEF AttemptInv
<1>9. attempts <= attempts'
  BY <1>2, RestCallAssumption DEF TypeOK
<1>. QED
  BY <1>3, <1>4, <1>5, <1>6, <1>8, <1>9, OneAttempt

(* The type of run.                                                        *)
RunTyped ==
  run \in [Attempt -> [at : {"unsent", "wire", "running", "over", "default"},
                       left : Seq(StepName)]]

(* The handler of an attempt goes on.                                      *)
LEMMA GoOnStep ==
  ASSUME IInv, NEW n \in Attempt, target = "server", run[n].at \in {"wire", "running"},
         RunTyped', run'[n].at = "running", \A m \in Attempt \ {n} : run'[m] = run[m],
         UNCHANGED <<op, target, phase, attempts, reply, verdict>>, Grows,
         effect' \in [Attempt -> {"none", "part", "all", "moot"}],
         \A m \in Attempt \ {n} : effect'[m] = effect[m],
         OnceInv', HandlerInv(n)'
  PROVE  IInv'
<1>1. TypeOK /\ AttemptInv(n)
  BY DEF IInv
<1>2. TypeOK'
  <2>1. trouble' \subseteq Trouble
    BY <1>1 DEF TypeOK, Grows, Trouble
  <2>. QED
    BY <1>1, <2>1 DEF TypeOK, RunTyped
<1>3. CallerInv'
  BY DEF IInv, CallerInv, Grows
<1>4. AttemptInv(n)'
  <2>1. ~ (n > attempts')
    <3>1. run[n] # Unsent
      BY DEF Unsent
    <3>. QED
      BY <1>1, <3>1 DEF AttemptInv
  <2>2. VerdictInv(n)'
    BY <1>1 DEF AttemptInv, VerdictInv
  <2>3. reply'[n] = NoReply
    BY <1>1 DEF AttemptInv
  <2>. QED
    BY <2>1, <2>2, <2>3 DEF AttemptInv
<1>5. attempts <= attempts'
  BY <1>1, RestCallAssumption DEF TypeOK
<1>. QED
  BY <1>2, <1>3, <1>4, <1>5, OneAttempt

(* The request of an operation is what the client sends, but for an empty  *)
(* firebase_uid, which no route matches.                                   *)
LEMMA WireOf ==
  ASSUME IInv
  PROVE  /\ op \in Operation
         /\ \/ Wire = Request[op]
            \/ "uid" \in trouble /\ Matches(Wire) = {}
         /\ "uid" \notin trouble => Wire = Request[op]
  BY NoRouteWithoutUid, RestCallAssumption DEF IInv, TypeOK, Wire

(* The router answers, or starts the handler of the operation.             *)
LEMMA RouteStep ==
  ASSUME IInv, NEW n \in Attempt, Route(n)
  PROVE  IInv'
<1>1. /\ target = "server" /\ run[n].at = "wire"
      /\ UNCHANGED <<op, target, trouble, phase, attempts, effect, verdict>>
  BY DEF Route, call
<1>2. effect[n] = "none" /\ OnceInv' /\ Grows
  BY <1>1 DEF IInv, AttemptInv, OnceInv, Grows
<1>3. /\ effect' \in [Attempt -> {"none", "part", "all", "moot"}]
      /\ \A m \in Attempt \ {n} : effect'[m] = effect[m]
  BY <1>1 DEF IInv, TypeOK
<1>4. CASE Matches(Wire) = {} /\ Reply(n, 404, FALSE)
  <2>1. "uid" \in trouble /\ op \in Operation
    BY <1>4, WireOf, ProgramOf
  <2>2. \A json \in BOOLEAN : Taken(op, 404, json) = "ErrNotFound"
    <3>1. 404 \in Nat \ (SuccessStatus \cup {0})
      BY DEF SuccessStatus
    <3>2. StatusError(404) = "ErrNotFound"
      BY DEF StatusError
    <3>. QED
      BY <2>1, <3>1, <3>2, OthersFail
  <2>3. PICK json \in BOOLEAN : Reply(n, 404, json)
    BY <1>4, Zenon
  <2>4. Taken(op, 404, json)' = "ErrNotFound"
    BY <1>1, <2>2, Zenon DEF Taken
  <2>5. Tells(n, "ErrNotFound")'
    BY <1>1, <1>2, <2>1 DEF Tells, Named, Verdicts
  <2>6. Tells(n, Taken(op, 404, json))'
    BY <2>4, <2>5, Zenon DEF Tells, Named
  <2>. QED
    BY <1>1, <1>2, <1>3, <2>3, <2>6, OverStep
<1>5. CASE /\ Matches(Wire) # {}
           /\ run' = [run EXCEPT ![n] = [at |-> "running", left |-> Program(Wire)]]
           /\ UNCHANGED reply
  <2>1. op \in Operation /\ Wire = Request[op]
    BY <1>5, WireOf
  <2>2. PICK left \in Seq(StepName) :
          /\ left = Program(Wire)
          /\ Fit(op, left)
          /\ ToSet(Usecase[op]) \cap Writes # {} => \E i \in 1 .. Len(left) : left[i] \in Writes
    BY <2>1, ProgramFits DEF Fit
  <2>3. /\ run'[n].at = "running" /\ run'[n].left = left /\ RunTyped'
        /\ \A m \in Attempt \ {n} : run'[m] = run[m]
    BY <1>5, <2>2 DEF IInv, TypeOK, RunTyped
  <2>4. HandlerInv(n)'
    <3>1. Wire' = Wire /\ Promise' = Promise /\ op' = op /\ effect'[n] = "none"
      BY <1>1, <1>2, SameCall
    <3>2. Promise = "none" \/ \E i \in 1 .. Len(left) : left[i] \in Writes
      BY <2>2 DEF Promise
    <3>. QED
      BY <2>1, <2>2, <2>3, <3>1, <3>2 DEF HandlerInv
  <2>. QED
    BY <1>1, <1>2, <1>3, <1>5, <2>3, <2>4, GoOnStep
<1>. QED
  BY <1>4, <1>5 DEF Route

(* A step goes through.                                                    *)
LEMMA PassStep ==
  ASSUME IInv, NEW n \in Attempt, Pass(n)
  PROVE  IInv'
<1>1. /\ Running(n) /\ Take(n) /\ StepTrouble(Step(n)) \cap trouble = {}
      /\ UNCHANGED <<op, target, phase, attempts, reply, verdict>>
  BY DEF Pass, call
<1>2. target = "server" /\ HandlerInv(n) /\ Rest(n) \in Seq(StepName) /\ Fit(op, Rest(n))
  BY <1>1, AtAStep
<1>3. PICK left \in Seq(StepName) : left = Rest(n)
  BY <1>2
<1>4. run' = [run EXCEPT ![n].left = left]
  BY <1>3 DEF Pass, Rest, IInv, TypeOK
<1>5. /\ run'[n].at = "running" /\ run'[n].left = left /\ RunTyped'
      /\ \A m \in Attempt \ {n} : run'[m] = run[m]
  BY <1>1, <1>4 DEF IInv, TypeOK, RunTyped, Running
<1>6. /\ effect' \in [Attempt -> {"none", "part", "all", "moot"}]
      /\ \A m \in Attempt \ {n} : effect'[m] = effect[m]
      /\ Grows
      /\ effect'[n] = "none" =>
           Promise = "none" \/ \E i \in 1 .. Len(left) : left[i] \in Writes
      /\ effect'[n] = "part" => op = "AwardGameExp" /\ left = <<"second">>
      /\ effect'[n] = "all" =>
           Promise = "all" /\ \A i \in 1 .. Len(left) : Harmless(left[i])
      /\ effect'[n] = "moot" => left = <<>>
  BY <1>1, <1>3, TakeEffect
<1>7. HandlerInv(n)'
  <2>1. /\ Wire' = Wire /\ Promise' = Promise
        /\ \A step : Harmless(step) => Harmless(step)'
    BY <1>1, <1>6, SameCall
  <2>2. Wire = Request[op] /\ Fit(op, left)
    BY <1>2, <1>3 DEF HandlerInv
  <2>. QED
    BY <1>1, <1>5, <1>6, <2>1, <2>2 DEF HandlerInv
<1>8. OnceInv'
  BY <1>1, TakeOnce
<1>9. run[n].at = "running"
  BY <1>1 DEF Running
<1>. QED
  BY <1>1, <1>2, <1>5, <1>6, <1>7, <1>8, <1>9, GoOnStep

(* There is nothing to do.                                                 *)
LEMMA ReturnEarlyStep ==
  ASSUME IInv, NEW n \in Attempt, ReturnEarly(n)
  PROVE  IInv'
<1>1. /\ Running(n) /\ effect' = [effect EXCEPT ![n] = "moot"]
      /\ UNCHANGED <<op, target, trouble, phase, attempts, reply, verdict>>
  BY DEF ReturnEarly, call
<1>2. target = "server" /\ HandlerInv(n)
  BY <1>1, AtAStep
<1>3. <<>> \in Seq(StepName)
  OBVIOUS
<1>4. run' = [run EXCEPT ![n].left = <<>>]
  BY DEF ReturnEarly
<1>5. /\ run'[n].at = "running" /\ run'[n].left = <<>> /\ RunTyped'
      /\ \A m \in Attempt \ {n} : run'[m] = run[m]
  BY <1>1, <1>3, <1>4 DEF IInv, TypeOK, RunTyped, Running
<1>6. /\ effect' \in [Attempt -> {"none", "part", "all", "moot"}]
      /\ effect'[n] = "moot"
      /\ \A m \in Attempt \ {n} : effect'[m] = effect[m]
  BY <1>1 DEF IInv, TypeOK
<1>7. Grows /\ OnceInv'
  BY <1>1, <1>6 DEF Grows, IInv, OnceInv
<1>8. HandlerInv(n)'
  <2>1. Wire' = Request[op]'
    BY <1>1, <1>2, <1>7, SameCall DEF HandlerInv
  <2>2. Fit(op, <<>>)'
    BY DEF Fit
  <2>. QED
    BY <1>5, <1>6, <2>1, <2>2 DEF HandlerInv
<1>9. run[n].at = "running"
  BY <1>1 DEF Running
<1>. QED
  BY <1>1, <1>2, <1>5, <1>6, <1>7, <1>8, <1>9, GoOnStep

(* A step is refused: nothing has been written that it should have stopped.*)
LEMMA RefuseStep ==
  ASSUME IInv, NEW n \in Attempt, Refuse(n)
  PROVE  IInv'
<1>1. /\ Running(n) /\ StepTrouble(Step(n)) \cap trouble # {}
      /\ UNCHANGED <<op, target, trouble, phase, attempts, effect, verdict>>
  BY DEF Refuse, call
<1>2. /\ op \in Operation /\ target = "server" /\ HandlerInv(n) /\ Step(n) \in StepName
      /\ 1 \in 1 .. Len(run[n].left) /\ Step(n) = run[n].left[1]
  BY <1>1, AtAStep, LenProperties
<1>3. PICK status \in Nat, json \in BOOLEAN :
        /\ Reply(n, status, json)
        /\ Taken(op, status, json) \in Verdicts \ {"error", "success"}
        /\ "config" \notin trouble => Named(Taken(op, status, json))
  <2>1. /\ toHTTPStatus(StepError(Step(n))) \in Nat
        /\ Taken(op, toHTTPStatus(StepError(Step(n))), TRUE) \in Verdicts \ {"error", "success"}
        /\ "config" \notin trouble =>
             Named(Taken(op, toHTTPStatus(StepError(Step(n))), TRUE))
    BY <1>1, <1>2, RefusalNamed
  <2>. QED
    BY <2>1, Zenon DEF Refuse
<1>4. "config" \notin Troubles =>
        "config" \notin trouble
          /\ (effect[n] = "none" \/ (op = "AwardGameExp" /\ effect[n] = "part"))
  <2>1. "config" \notin Troubles => "config" \notin trouble
    BY DEF IInv, CallerInv
  <2>2. effect[n] = "all" => "config" \in trouble
    <3>1. effect[n] = "all" => Harmless(Step(n))
      BY <1>2 DEF HandlerInv
    <3>. QED
      BY <1>1, <3>1 DEF Harmless
  <2>3. effect[n] # "moot"
    BY <1>1, <1>2 DEF HandlerInv, Running
  <2>4. effect[n] = "part" => op = "AwardGameExp"
    BY <1>2 DEF HandlerInv
  <2>. QED
    BY <2>1, <2>2, <2>3, <2>4 DEF IInv, TypeOK
<1>5. PICK v \in Verdicts \ {"error", "success"} : v = Taken(op, status, json)
  BY <1>3
<1>6. Tells(n, v)'
  BY <1>1, <1>3, <1>4, <1>5 DEF Tells, Named
<1>7. Tells(n, Taken(op, status, json))'
  <2>1. Taken(op, status, json)' = v
    BY <1>1, <1>5, Zenon DEF Taken
  <2>. QED
    BY <1>6, <2>1, Zenon DEF Tells, Named
<1>8. /\ effect' \in [Attempt -> {"none", "part", "all", "moot"}]
      /\ \A m \in Attempt \ {n} : effect'[m] = effect[m]
      /\ Grows /\ OnceInv'
  BY <1>1 DEF IInv, TypeOK, Grows, OnceInv
<1>9. run[n].at = "running"
  BY <1>1 DEF Running
<1>. QED
  BY <1>1, <1>2, <1>3, <1>7, <1>8, <1>9, OverStep

(* The database or the handler breaks; what was written stays.             *)
LEMMA BreakStep ==
  ASSUME IInv, NEW n \in Attempt, Break(n)
  PROVE  IInv'
<1>1. Running(n) /\ UNCHANGED <<op, target, phase, attempts, verdict>> /\ run[n].at = "running"
  BY DEF Break, call, Running
<1>2. op \in Operation /\ target = "server"
  BY <1>1, AtAStep
<1>3. /\ effect' \in [Attempt -> {"none", "part", "all", "moot"}]
      /\ \A m \in Attempt \ {n} : effect'[m] = effect[m]
      /\ Grows /\ OnceInv'
  <2>1. CASE UNCHANGED <<effect, trouble>>
    BY <1>1, <2>1 DEF IInv, TypeOK, Grows, OnceInv
  <2>2. CASE StepTrouble(Step(n)) \cap trouble = {} /\ Take(n)
    BY <1>1, <2>2, TakeEffect, TakeOnce
  <2>. QED
    BY <2>1, <2>2 DEF Break
<1>4. PICK json \in BOOLEAN : Reply(n, 500, json)
  BY Zenon DEF Break
<1>5. Taken(op, 500, json) = "ErrInternalServer"
  <2>1. 500 \in Nat \ (SuccessStatus \cup {0})
    BY DEF SuccessStatus
  <2>2. StatusError(500) = "ErrInternalServer"
    BY DEF StatusError
  <2>. QED
    BY <1>2, <2>1, <2>2, OthersFail
<1>6. Tells(n, Taken(op, 500, json))'
  <2>1. Taken(op, 500, json)' = "ErrInternalServer"
    BY <1>1, <1>5, Zenon DEF Taken
  <2>2. Tells(n, "ErrInternalServer")'
    BY DEF Tells, Verdicts, Refusals
  <2>. QED
    BY <2>1, <2>2, Zenon DEF Tells, Named
<1>. QED
  BY <1>1, <1>2, <1>3, <1>4, <1>6, OverStep

(* The handler is through, and has kept what the operation promises.       *)
LEMMA SucceedStep ==
  ASSUME IInv, NEW n \in Attempt, Succeed(n)
  PROVE  IInv'
<1>1. /\ run[n] = [at |-> "running", left |-> <<>>]
      /\ UNCHANGED <<op, target, trouble, phase, attempts, effect, verdict>>
  BY DEF Succeed, call
<1>2. target = "server" /\ HandlerInv(n)
  <2>1. AttemptInv(n) /\ target \in {"server", "fake"}
    BY RestCallAssumption DEF IInv, TypeOK
  <2>. QED
    BY <1>1, <2>1 DEF AttemptInv
<1>3. op \in Operation /\ Routed(Wire) = op
  BY <1>2, WireOf, ProgramOf DEF HandlerInv
<1>4. PICK status \in Nat, json \in BOOLEAN :
        Reply(n, status, json) /\ Taken(op, status, json) = "success"
  <2>1. Reply(n, Handler[op].status, Handler[op].json)
    BY <1>3, Zenon DEF Succeed
  <2>. QED
    BY <1>3, <2>1, HandlerAgrees, Zenon
<1>5. effect[n] \in {Promise, "moot"}
  <2>1. effect[n] # "part"
    <3>1. <<>> # <<"second">>
      OBVIOUS
    <3>. QED
      BY <1>1, <1>2, <3>1 DEF HandlerInv
  <2>2. effect[n] = "none" => Promise = "none"
    BY <1>1, <1>2 DEF HandlerInv
  <2>3. effect[n] = "all" => Promise = "all"
    BY <1>2 DEF HandlerInv
  <2>. QED
    BY <2>1, <2>2, <2>3 DEF IInv, TypeOK
<1>6. Tells(n, Taken(op, status, json))'
  <2>1. Taken(op, status, json)' = "success"
    BY <1>1, <1>4, Zenon DEF Taken
  <2>2. Tells(n, "success")'
    BY <1>1, <1>5 DEF Tells, Verdicts, Refusals, Promise
  <2>. QED
    BY <2>1, <2>2, Zenon DEF Tells, Named
<1>7. /\ effect' \in [Attempt -> {"none", "part", "all", "moot"}]
      /\ \A m \in Attempt \ {n} : effect'[m] = effect[m]
      /\ Grows /\ OnceInv'
  BY <1>1 DEF IInv, TypeOK, Grows, OnceInv
<1>. QED
  BY <1>1, <1>2, <1>4, <1>6, <1>7, OverStep

----------------------------------------------------------------------------
(* The fake server.                                                        *)

(* The callback of the fake server that stands for an operation.           *)
FakeField == [
  GetPlayer                 |-> "GetPlayerFn",
  GetBattleLimit            |-> "GetBattleLimitFn",
  IncrementBattleCount      |-> "IncrementBattleCountFn",
  AddExp                    |-> "AddExpFn",
  ListFactions              |-> "ListFactionsFn",
  GrantFaction              |-> "GrantFactionFn",
  SelectInitialFaction      |-> "SelectInitialFactionFn",
  UpdateName                |-> "UpdateNameFn",
  ValidateNameForOnboarding |-> "ValidateNameForOnboardingFn",
  UpdatePremium             |-> "UpdatePremiumFn",
  GetPlayerSettings         |-> "GetSettingsFn",
  UpdatePlayerSettings      |-> "UpdateSettingsFn",
  GetPlayerByFirebaseUID    |-> "FindByFirebaseUIDFn",
  LoginPlayer               |-> "LoginFn",
  RegisterPlayer            |-> "RegisterFn",
  AwardGameExp              |-> "AwardGameExpFn",
  RevertBattleCount         |-> "RevertBattleCountFn"]

(* The routes of the fake server for a request.                            *)
FakeMatches(request) == {r \in FakeRoutes : <<r[1], r[2]>> = request}

(* The fake server has one route for the request of an operation.          *)
LEMMA FakeRouteOf ==
  ASSUME NEW o \in Operation \ {"GetHealth"}
  PROVE  FakeMatches(Request[o]) = {<<Request[o][1], Request[o][2], FakeField[o]>>}
<1>1. CASE o \in DOMAIN PlayerRequests
  <2>1. FakeMatches(PlayerRequests[o])
          = {<<PlayerRequests[o][1], PlayerRequests[o][2], FakeField[o]>>}
    BY <1>1 DEF PlayerRequests, FakeMatches, FakeRoutes, FakeField
  <2>. QED
    BY <1>1, <2>1, RequestRows
<1>2. CASE o \in DOMAIN FactionRequests
  <2>1. FakeMatches(FactionRequests[o])
          = {<<FactionRequests[o][1], FactionRequests[o][2], FakeField[o]>>}
    BY <1>2 DEF FactionRequests, FakeMatches, FakeRoutes, FakeField
  <2>. QED
    BY <1>2, <2>1, RequestRows
<1>3. CASE o \in DOMAIN NameRequests
  <2>1. FakeMatches(NameRequests[o])
          = {<<NameRequests[o][1], NameRequests[o][2], FakeField[o]>>}
    BY <1>3 DEF NameRequests, FakeMatches, FakeRoutes, FakeField
  <2>. QED
    BY <1>3, <2>1, RequestRows
<1>4. CASE o \in DOMAIN SettingsRequests
  <2>1. FakeMatches(SettingsRequests[o])
          = {<<SettingsRequests[o][1], SettingsRequests[o][2], FakeField[o]>>}
    BY <1>4 DEF SettingsRequests, FakeMatches, FakeRoutes, FakeField
  <2>. QED
    BY <1>4, <2>1, RequestRows
<1>5. CASE o \in DOMAIN AuthRequests
  <2>1. FakeMatches(AuthRequests[o])
          = {<<AuthRequests[o][1], AuthRequests[o][2], FakeField[o]>>}
    BY <1>5 DEF AuthRequests, FakeMatches, FakeRoutes, FakeField
  <2>. QED
    BY <1>5, <2>1, RequestRows
<1>6. CASE o \in DOMAIN BattleRequests
  <2>1. FakeMatches(BattleRequests[o])
          = {<<BattleRequests[o][1], BattleRequests[o][2], FakeField[o]>>}
    BY <1>6 DEF BattleRequests, FakeMatches, FakeRoutes, FakeField
  <2>. QED
    BY <1>6, <2>1, RequestRows
<1>. QED
  BY <1>1, <1>2, <1>3, <1>4, <1>5, <1>6, RequestRows, RequestTables

(* The tables of the defaults.                                             *)
LEMMA DefaultTables ==
  /\ DOMAIN ServiceDefault = {"RegisterFn", "LoginFn", "FindByFirebaseUIDFn", "AwardGameExpFn",
       "RevertBattleCountFn", "GetPlayerFn", "UpdateNameFn", "ValidateNameForOnboardingFn",
       "GetBattleLimitFn"}
  /\ DOMAIN AccountDefault = {"IncrementBattleCountFn", "UpdatePremiumFn", "GrantFactionFn",
       "SelectInitialFactionFn", "ListFactionsFn", "AddExpFn", "GetSettingsFn",
       "UpdateSettingsFn"}
  BY DEF ServiceDefault, AccountDefault

(* The default of a callback.                                              *)
LEMMA DefaultRows ==
  /\ DOMAIN FakeDefault = DOMAIN ServiceDefault \cup DOMAIN AccountDefault
  /\ \A field \in DOMAIN ServiceDefault : FakeDefault[field] = ServiceDefault[field]
  /\ \A field \in DOMAIN AccountDefault : FakeDefault[field] = AccountDefault[field]
  BY DefaultTables DEF FakeDefault, ++

(* The default of every callback is what the handler answers.              *)
LEMMA FakeDefaults ==
  /\ \A o \in AnswersJSON \ {"GetHealth"} : FakeDefault[FakeField[o]] = <<200, EmptyJSON>>
  /\ \A o \in AnswersNothing : FakeDefault[FakeField[o]] = <<204, NoBody>>
  /\ FakeDefault[FakeField["RegisterPlayer"]] = <<201, EmptyJSON>>
  /\ FakeDefault[FakeField["SelectInitialFaction"]] = <<200, NoBody>>
<1>1. /\ \A o \in AnswersJSON \ {"GetHealth"} :
           FakeField[o] \in {"LoginFn", "FindByFirebaseUIDFn", "GetPlayerFn", "UpdateNameFn",
                            "GetBattleLimitFn", "ListFactionsFn", "GetSettingsFn",
                            "UpdateSettingsFn"}
      /\ \A o \in AnswersNothing :
           FakeField[o] \in {"AwardGameExpFn", "RevertBattleCountFn",
                            "ValidateNameForOnboardingFn", "IncrementBattleCountFn",
                            "UpdatePremiumFn", "GrantFactionFn", "AddExpFn"}
      /\ FakeField["RegisterPlayer"] = "RegisterFn"
      /\ FakeField["SelectInitialFaction"] = "SelectInitialFactionFn"
  BY DEF AnswersJSON, AnswersNothing, FakeField
<1>2. /\ \A field \in {"LoginFn", "FindByFirebaseUIDFn", "GetPlayerFn", "UpdateNameFn",
                      "GetBattleLimitFn"} : ServiceDefault[field] = <<200, EmptyJSON>>
      /\ \A field \in {"AwardGameExpFn", "RevertBattleCountFn",
                      "ValidateNameForOnboardingFn"} : ServiceDefault[field] = <<204, NoBody>>
      /\ ServiceDefault["RegisterFn"] = <<201, EmptyJSON>>
  BY DEF ServiceDefault
<1>3. /\ \A field \in {"ListFactionsFn", "GetSettingsFn", "UpdateSettingsFn"} :
           AccountDefault[field] = <<200, EmptyJSON>>
      /\ \A field \in {"IncrementBattleCountFn", "UpdatePremiumFn", "GrantFactionFn",
                      "AddExpFn"} : AccountDefault[field] = <<204, NoBody>>
      /\ AccountDefault["SelectInitialFactionFn"] = <<200, NoBody>>
  BY DEF AccountDefault
<1>. QED
  BY <1>1, <1>2, <1>3, DefaultTables, DefaultRows

(* Every default has a status and says whether there is a body.            *)
LEMMA DefaultTyped ==
  \A field \in DOMAIN FakeDefault : FakeDefault[field] \in Nat \X {EmptyJSON, NoBody}
<1>1. /\ \A field \in DOMAIN ServiceDefault :
           ServiceDefault[field] \in {<<201, EmptyJSON>>, <<200, EmptyJSON>>, <<204, NoBody>>}
      /\ \A field \in DOMAIN AccountDefault :
           AccountDefault[field] \in {<<200, EmptyJSON>>, <<200, NoBody>>, <<204, NoBody>>}
  BY DEF ServiceDefault, AccountDefault
<1>2. {<<201, EmptyJSON>>, <<200, EmptyJSON>>, <<200, NoBody>>, <<204, NoBody>>} \subseteq Nat \X {EmptyJSON, NoBody}
  OBVIOUS
<1>. QED
  BY <1>1, <1>2, DefaultRows

(* Every route of the fake server has a default.                           *)
LEMMA RouteHasDefault == \A r \in FakeRoutes : r[3] \in DOMAIN FakeDefault
  BY DEF FakeRoutes, FakeDefault, ServiceDefault, AccountDefault, ++
(* What comes back from a server.                                          *)
Answer == [status : Nat, json : BOOLEAN, whole : BOOLEAN]

(* Whatever the fake server answers is an answer.                          *)
LEMMA FakeTyped ==
  ASSUME NEW request, NEW fn \in {<<>>} \cup (Nat \X BOOLEAN)
  PROVE  FakeReply(request, fn) \in Answer
<1>. DEFINE routes == FakeMatches(request)
            answer == IF fn = <<>> THEN FakeDefault[(CHOOSE r \in routes : TRUE)[3]] ELSE fn
<1>1. FakeReply(request, fn) =
        IF routes = {} THEN writeJSON(404, NoBody) ELSE writeJSON(answer[1], answer[2])
  BY Zenon DEF FakeReply, FakeMatches
<1>2. ASSUME NEW status \in Nat, NEW body \in BOOLEAN
      PROVE  writeJSON(status, body) \in Answer
  BY DEF writeJSON, Answer
<1>3. NoBody \in BOOLEAN /\ EmptyJSON \in BOOLEAN
  BY Zenon DEF NoBody, EmptyJSON
<1>4. CASE routes = {}
  <2>1. \A body \in BOOLEAN : writeJSON(404, body) \in Answer
    BY <1>2
  <2>. QED
    BY <1>1, <1>3, <1>4, <2>1, Zenon
<1>5. CASE routes # {}
  <2>1. (CHOOSE r \in routes : TRUE) \in FakeRoutes
    BY <1>5, Zenon DEF FakeMatches
  <2>2. fn = <<>> => answer \in Nat \X {EmptyJSON, NoBody}
    BY <2>1, RouteHasDefault, DefaultTyped
  <2>3. fn # <<>> => answer \in Nat \X BOOLEAN
    OBVIOUS
  <2>. HIDE DEF answer
  <2>4. answer[1] \in Nat /\ answer[2] \in BOOLEAN
    <3>1. answer \in Nat \X {EmptyJSON, NoBody} => answer[1] \in Nat /\ answer[2] \in {EmptyJSON, NoBody}
      OBVIOUS
    <3>2. answer \in Nat \X BOOLEAN => answer[1] \in Nat /\ answer[2] \in BOOLEAN
      OBVIOUS
    <3>. QED
      BY <1>3, <2>2, <2>3, <3>1, <3>2, Zenon
  <2>5. FakeReply(request, fn) = writeJSON(answer[1], answer[2])
    BY <1>1, <1>5, Zenon DEF answer
  <2>. QED
    BY <1>2, <2>4, <2>5, Zenon
<1>. QED
  BY <1>4, <1>5

(* The client takes every default for success.                             *)
LEMMA DefaultSucceeds ==
  ASSUME NEW o \in Operation \ {"GetHealth"}
  PROVE  Verdict(o, FakeReply(Request[o], <<>>)) = "success"
<1>. DEFINE routes == FakeMatches(Request[o])
            default == FakeDefault[FakeField[o]]
<1>1. routes # {} /\ (CHOOSE r \in routes : TRUE)[3] = FakeField[o]
  <2>. DEFINE route == <<Request[o][1], Request[o][2], FakeField[o]>>
  <2>1. routes = {route} /\ route[3] = FakeField[o]
    BY FakeRouteOf
  <2>. HIDE DEF routes, route
  <2>2. routes # {} /\ (CHOOSE r \in routes : TRUE) = route
    BY <2>1
  <2>. QED
    BY <2>1, <2>2
<1>2. FakeReply(Request[o], <<>>) = writeJSON(default[1], default[2])
  BY <1>1, Zenon DEF FakeReply, FakeMatches
<1>3. Verdict(o, FakeReply(Request[o], <<>>)) = Taken(o, default[1], default[2])
  BY <1>2, Zenon DEF writeJSON, Taken
<1>4. CASE o \in AnswersJSON
  <2>1. default[1] = 200 /\ default[2] = EmptyJSON
    <3>1. default = <<200, EmptyJSON>>
      BY <1>4, FakeDefaults
    <3>. QED
      BY <3>1
  <2>2. Taken(o, 200, TRUE) = "success"
    BY <1>4, ClientExpects DEF Taken, Verdict, Parse, OnPayload
  <2>. QED
    BY <1>3, <2>1, <2>2, Zenon DEF EmptyJSON
<1>5. CASE o \in AnswersNothing
  <2>1. default[1] = 204 /\ default[2] = NoBody
    <3>1. default = <<204, NoBody>>
      BY <1>5, FakeDefaults
    <3>. QED
      BY <3>1
  <2>2. Taken(o, 204, FALSE) = "success"
    BY <1>5, ClientExpects DEF Taken, Verdict, Parse, OnPayload
  <2>. QED
    BY <1>3, <2>1, <2>2, Zenon DEF NoBody
<1>6. CASE o = "RegisterPlayer"
  <2>1. default[1] = 201 /\ default[2] = EmptyJSON
    <3>1. default = <<201, EmptyJSON>>
      BY <1>6, FakeDefaults
    <3>. QED
      BY <3>1
  <2>2. Taken("RegisterPlayer", 201, TRUE) = "success"
    BY ClientExpects DEF Taken, Verdict, Parse, OnPayload
  <2>. QED
    BY <1>3, <1>6, <2>1, <2>2, Zenon DEF EmptyJSON
<1>7. CASE o = "SelectInitialFaction"
  <2>1. default[1] = 200 /\ default[2] = NoBody
    <3>1. default = <<200, NoBody>>
      BY <1>7, FakeDefaults
    <3>. QED
      BY <3>1
  <2>2. Taken("SelectInitialFaction", 200, FALSE) = "success"
    BY ClientExpects DEF Taken, Verdict, Parse, OnPayload
  <2>. QED
    BY <1>3, <1>7, <2>1, <2>2, Zenon DEF NoBody
<1>. QED
  BY <1>4, <1>5, <1>6, <1>7, ClientExpects

(* The fake server answers a request.                                      *)
LEMMA FakeServeStep ==
  ASSUME IInv, NEW n \in Attempt, FakeServe(n)
  PROVE  IInv'
<1>1. PICK fn \in Callback :
        /\ run' = [run EXCEPT ![n] = [at |-> IF fn = <<>> THEN "default" ELSE "over",
                                     left |-> <<>>]]
        /\ reply' = [reply EXCEPT ![n] = FakeReply(Wire, fn)]
  BY DEF FakeServe
<1>2. /\ target = "fake" /\ run[n].at = "wire"
      /\ UNCHANGED <<op, target, trouble, phase, attempts, effect, verdict>>
  BY DEF FakeServe, call
<1>3. TypeOK /\ AttemptInv(n) /\ CallerInv /\ OnceInv
  BY DEF IInv
<1>4. PICK answer \in Answer : answer = FakeReply(Wire, fn)
  BY FakeTyped, RestCallAssumption, Zenon
<1>5. <<>> \in Seq(StepName)
  OBVIOUS
<1>6. /\ run'[n].at \in {"default", "over"}
      /\ run'[n].at = "default" => fn = <<>>
      /\ \A m \in Attempt \ {n} : run'[m] = run[m]
      /\ RunTyped'
  BY <1>1, <1>3, <1>5 DEF TypeOK, RunTyped
<1>7. /\ reply'[n] = answer
      /\ \A m \in Attempt \ {n} : reply'[m] = reply[m]
      /\ reply' \in [Attempt -> [status : Nat, json : BOOLEAN, whole : BOOLEAN]]
  BY <1>1, <1>3, <1>4 DEF TypeOK, Answer
<1>8. TypeOK' /\ CallerInv' /\ OnceInv'
  BY <1>2, <1>3, <1>6, <1>7 DEF TypeOK, CallerInv, OnceInv, RunTyped
<1>9. run'[n].at = "default" /\ op # "GetHealth" /\ "uid" \notin trouble =>
        Meaning(n)' = "success"
  <2>. SUFFICES ASSUME run'[n].at = "default", op # "GetHealth", "uid" \notin trouble
                PROVE  Meaning(n)' = "success"
    OBVIOUS
  <2>1. op \in Operation \ {"GetHealth"} /\ Wire = Request[op]
    BY WireOf
  <2>2. Verdict(op, answer) = "success"
    BY <1>4, <1>6, <2>1, DefaultSucceeds, Zenon
  <2>3. Whole(answer) = answer
    <3>1. answer.whole = TRUE
      <4>1. FakeReply(Wire, fn).whole = TRUE
        BY DEF FakeReply, writeJSON
      <4>. QED
        BY <1>4, <4>1, Zenon
    <3>. QED
      BY <3>1, WholeReply DEF Answer
  <2>4. Whole(reply'[n]) = answer
    BY <1>7, <2>3, Zenon
  <2>. QED
    BY <1>2, <2>2, <2>4, Zenon DEF Meaning
<1>10. AttemptInv(n)'
  <2>1. ~ (n > attempts')
    <3>1. run[n] # Unsent
      BY <1>2 DEF Unsent
    <3>. QED
      BY <1>2, <1>3, <3>1 DEF AttemptInv
  <2>2. VerdictInv(n)'
    BY <1>2, <1>3 DEF AttemptInv, VerdictInv
  <2>3. effect'[n] = "none" /\ target' = "fake"
    BY <1>2, <1>3 DEF AttemptInv
  <2>4. (run[n].at = "default" /\ op # "GetHealth" /\ "uid" \notin trouble =>
           Meaning(n) = "success")'
    BY <1>2, <1>9
  <2>5. run'[n].at \notin {"unsent", "wire", "running"}
    BY <1>6
  <2>. QED
    BY <2>1, <2>2, <2>3, <2>4, <2>5 DEF AttemptInv
<1>11. Grows /\ attempts <= attempts'
  BY <1>2, <1>3, RestCallAssumption DEF Grows, TypeOK
<1>. QED
  BY <1>2, <1>6, <1>7, <1>8, <1>10, <1>11, OneAttempt

----------------------------------------------------------------------------
(* The invariant.                                                          *)

(* No attempt is on its way at first.                                      *)
LEMMA InitIInv ==
  ASSUME Init
  PROVE  IInv
<1>1. \A step : StepTrouble(step) \subseteq Trouble
  BY DEF StepTrouble, Trouble
<1>2. trouble \subseteq Trouble
  <2>1. Concern(op) \subseteq Trouble
    <3>. DEFINE steps == ToSet(Program(Request[op]))
                troubles == UNION {StepTrouble(step) : step \in steps}
    <3>1. troubles \subseteq Trouble
      <4>. HIDE DEF steps
      <4>. QED
        BY <1>1
    <3>2. Concern(op) \subseteq troubles \cup {"moot", "uid"}
      BY DEF Concern
    <3>. HIDE DEF troubles
    <3>. QED
      BY <3>1, <3>2 DEF Trouble
  <2>. QED
    BY <2>1 DEF Init
<1>3. TypeOK
  <2>1. <<>> \in Seq(StepName)
    OBVIOUS
  <2>2. run \in [Attempt -> [at : {"unsent", "wire", "running", "over", "default"},
                            left : Seq(StepName)]]
    BY <2>1 DEF Init, Unsent
  <2>3. reply \in [Attempt -> [status : Nat, json : BOOLEAN, whole : BOOLEAN]]
    BY DEF Init, NoReply
  <2>4. 0 \in 0 .. MaxAttempts
    BY RestCallAssumption
  <2>. QED
    BY <1>2, <2>2, <2>3, <2>4 DEF Init, TypeOK
<1>4. CallerInv
  BY DEF Init, CallerInv
<1>5. ASSUME NEW n \in Attempt
      PROVE  AttemptInv(n)
  <2>1. /\ run[n] = Unsent /\ effect[n] = "none" /\ reply[n] = NoReply
        /\ verdict[n] = "none"
    BY DEF Init
  <2>2. run[n].at = "unsent"
    BY <2>1 DEF Unsent
  <2>. QED
    BY <2>1, <2>2 DEF AttemptInv, VerdictInv
<1>6. OnceInv
  BY DEF Init, OnceInv
<1>. QED
  BY <1>3, <1>4, <1>5, <1>6 DEF IInv

(* Every step keeps the invariant.                                         *)
LEMMA NextIInv ==
  ASSUME IInv, [Next]_vars
  PROVE  IInv'
<1>1. CASE Send
  BY <1>1, SendStep
<1>2. CASE FailToSend
  BY <1>2, FailToSendStep
<1>3. CASE GiveUp
  BY <1>3, GiveUpStep
<1>4. CASE Receive
  BY <1>4, ReceiveStep
<1>5. CASE BadGateway
  BY <1>5, BadGatewayStep
<1>6. ASSUME NEW n \in Attempt, Serve(n)
      PROVE  IInv'
  <2>1. CASE Route(n)
    BY <2>1, RouteStep
  <2>2. CASE Pass(n)
    BY <2>2, PassStep
  <2>3. CASE ReturnEarly(n)
    BY <2>3, ReturnEarlyStep
  <2>4. CASE Refuse(n)
    BY <2>4, RefuseStep
  <2>5. CASE Break(n)
    BY <2>5, BreakStep
  <2>6. CASE Succeed(n)
    BY <2>6, SucceedStep
  <2>7. CASE FakeServe(n)
    BY <2>7, FakeServeStep
  <2>8. CASE Cut(n)
    BY <2>8, CutStep
  <2>. QED
    BY <1>6, <2>1, <2>2, <2>3, <2>4, <2>5, <2>6, <2>7, <2>8 DEF Serve
<1>7. CASE UNCHANGED vars
  <2>. USE <1>7 DEF vars
  <2>1. TypeOK' /\ CallerInv' /\ OnceInv'
    BY DEF IInv, TypeOK, CallerInv, OnceInv
  <2>2. ASSUME NEW n \in Attempt
        PROVE  AttemptInv(n)'
    <3>1. Grows /\ attempts \in Nat
      BY RestCallAssumption DEF Grows, IInv, TypeOK
    <3>. QED
      BY <3>1, AttemptKept DEF IInv
  <2>. QED
    BY <2>1, <2>2 DEF IInv
<1>. QED
  BY <1>1, <1>2, <1>3, <1>4, <1>5, <1>6, <1>7 DEF Next

(* The invariant holds throughout: a handler that runs still has before it *)
(* the write that it promises, or has behind it every check that could     *)
(* refuse; an answer tells what was done, and a verdict what was answered. *)
THEOREM Invariance == Spec => []IInv
<1>. QED
  BY InitIInv, NextIInv, PTL DEF Spec

(* Every variable keeps its type.                                          *)
THEOREM TypeCorrect == Spec => []TypeOK
<1>1. IInv => TypeOK
  BY DEF IInv
<1>. QED
  BY <1>1, Invariance, PTL

----------------------------------------------------------------------------
(* What follows.                                                           *)

(* A success or a refusal comes from the service, which tells the truth.   *)
LEMMA ToldByTheService ==
  ASSUME IInv, target = "server", NEW n \in Attempt,
         verdict[n] \in Refusals \cup {"success"}
  PROVE  Tells(n, verdict[n])
<1>1. verdict[n] \notin {"none", "error", "ErrInternalServer"}
  BY DEF Refusals
<1>2. verdict[n] = Meaning(n) /\ run[n].at = "over"
  BY <1>1 DEF IInv, AttemptInv, VerdictInv
<1>3. Tells(n, Meaning(n))
  BY <1>2 DEF IInv, AttemptInv
<1>. QED
  BY <1>2, <1>3, Zenon

(* An operation that the client reports as done has been done, or there    *)
(* was nothing to do (the handlers answer success only after the last step *)
(* of the use case, respondError never with a success), whatever else is   *)
(* wrong, the configuration included.                                      *)
THEOREM SuccessIsTrue ==
  Spec => [](target = "server" =>
               \A n \in Attempt : verdict[n] = "success" => effect[n] \in {Promise, "moot"})
<1>1. IInv => (target = "server" =>
               \A n \in Attempt : verdict[n] = "success" => effect[n] \in {Promise, "moot"})
  BY ToldByTheService DEF Tells
<1>. QED
  BY <1>1, Invariance, PTL

(* While the configuration is in place, what the client tells is true of   *)
(* the attempt: a success was done, a refusal has changed nothing but, at  *)
(* most, the first player's award (newStatusError and respondError).       *)
THEOREM VerdictsAreTrue ==
  ASSUME "config" \notin Troubles
  PROVE  Spec => []VerdictIsTrue
<1>1. IInv => VerdictIsTrue
  BY ToldByTheService DEF VerdictIsTrue, Tells
<1>. QED
  BY <1>1, Invariance, PTL

(* While the configuration is in place, a sentinel error of the client     *)
(* names what was wrong, through the routes, the order of the checks, the  *)
(* statuses of respondError and newStatusError.                            *)
THEOREM SentinelsNameTheCause ==
  ASSUME "config" \notin Troubles
  PROVE  Spec => []SentinelNamesTheCause
<1>1. IInv => SentinelNamesTheCause
  BY ToldByTheService DEF SentinelNamesTheCause, Tells, Named, Refusals
<1>. QED
  BY <1>1, Invariance, PTL

(* A retry of a registration, of a first faction or of a reversal takes    *)
(* effect once, however often and however late the attempts are served     *)
(* (the unique indexes and the locked battle history row).                 *)
THEOREM RetriesTakeEffectOnce == Spec => []RetriesCountOnce
<1>1. IInv => RetriesCountOnce
  BY DEF IInv, OnceInv, RetriesCountOnce
<1>. QED
  BY <1>1, Invariance, PTL

(* The fake server without callbacks answers every call with what the      *)
(* client takes for success (the defaults of NewServer).                   *)
THEOREM FakeSucceedsByDefault == Spec => []FakeDefaultSucceeds
<1>1. ASSUME IInv, target = "fake", op # "GetHealth", "uid" \notin trouble,
             NEW n \in Attempt, run[n].at = "default"
      PROVE  verdict[n] \in {"none", "success", "error"}
  <2>1. Meaning(n) = "success" /\ VerdictInv(n)
    BY <1>1 DEF IInv, AttemptInv
  <2>. QED
    BY <1>1, <2>1 DEF VerdictInv
<1>2. IInv => FakeDefaultSucceeds
  BY <1>1 DEF FakeDefaultSucceeds
<1>. QED
  BY <1>2, Invariance, PTL
=============================================================================
