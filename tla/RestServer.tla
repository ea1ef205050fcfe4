----------------------------- MODULE RestServer -----------------------------
(***************************************************************************)
(* The server side of the REST contract: the routes, and what each handler *)
(* does as the sequence of the steps that can end it.                      *)
(*                                                                         *)
(* A step is a check, a read or a write.  It fails when the trouble it     *)
(* looks for is there (StepTrouble) with an error (StepError) that the     *)
(* handlers turn into a status (toHTTPStatus).                             *)
(***************************************************************************)
EXTENDS Naturals, Sequences, SequencesExt, RestTable

ServiceRoutes == {
  <<"GET",  "/health", "GetHealth">>,
  <<"POST", "/internal/v1/auth/register", "RegisterPlayer">>,
  <<"POST", "/internal/v1/auth/login", "LoginPlayer">>,
  <<"GET",  "/internal/v1/auth/by-firebase-uid/:firebaseUID", "GetPlayerByFirebaseUID">>,
  <<"GET",  "/internal/v1/players/:playerID/factions", "ListPlayerFactions">>,
  <<"POST", "/internal/v1/players/award-game-exp", "AwardGameExp">>,
  <<"POST", "/internal/v1/players/revert-battle-count", "RevertBattleCount">>}

(* Behind VerifyInternalAuth.                                              *)
AccountRoutes == {
  <<"GET",  "/api/v1/account/me", "GetPlayer">>,
  <<"PUT",  "/api/v1/account/me/name", "UpdateName">>,
  <<"POST", "/api/v1/account/me/onboarding/name/validate", "ValidateNameForOnboarding">>,
  <<"GET",  "/api/v1/account/me/battle-limit", "GetBattleLimit">>,
  <<"POST", "/api/v1/account/me/battle-limit/increment", "IncrementBattleCount">>,
  <<"PUT",  "/api/v1/account/me/premium", "UpdatePremium">>,
  <<"POST", "/api/v1/account/me/exp", "AddExp">>,
  <<"POST", "/api/v1/account/me/factions", "GrantFaction">>,
  <<"POST", "/api/v1/account/me/factions/select", "SelectInitialFaction">>,
  <<"GET",  "/api/v1/account/me/factions", "ListFactions">>,
  <<"GET",  "/api/v1/account/me/settings", "GetPlayerSettings">>,
  <<"PUT",  "/api/v1/account/me/settings", "UpdatePlayerSettings">>}

----------------------------------------------------------------------------
(* The handlers: the check of the request, and the status and the body of  *)
(* the answer to a success.                                                *)
AuthHandler == [
  RegisterPlayer         |-> [check |-> <<"bind">>, status |-> 201, json |-> TRUE],
  GetPlayerByFirebaseUID |-> [check |-> <<>>,       status |-> 200, json |-> TRUE],
  LoginPlayer            |-> [check |-> <<"bind">>, status |-> 200, json |-> TRUE]]

PlayerHandler == [
  GetPlayer                 |-> [check |-> <<>>,       status |-> 200, json |-> TRUE],
  UpdateName                |-> [check |-> <<"bind">>, status |-> 200, json |-> TRUE],
  ValidateNameForOnboarding |-> [check |-> <<"bind">>, status |-> 204, json |-> FALSE],
  GetBattleLimit            |-> [check |-> <<>>,       status |-> 200, json |-> TRUE],
  IncrementBattleCount      |-> [check |-> <<>>,       status |-> 204, json |-> FALSE],
  UpdatePremium             |-> [check |-> <<"bind">>, status |-> 204, json |-> FALSE],
  AddExp                    |-> [check |-> <<"bind">>, status |-> 204, json |-> FALSE]]

BattleHandler == [
  AwardGameExp      |-> [check |-> <<"bind">>, status |-> 204, json |-> FALSE],
  RevertBattleCount |-> [check |-> <<"bind">>, status |-> 204, json |-> FALSE]]

FactionHandler == [
  SelectInitialFaction |-> [check |-> <<"bind">>, status |-> 200, json |-> FALSE],
  GrantFaction         |-> [check |-> <<"bind">>, status |-> 204, json |-> FALSE],
  ListFactions         |-> [check |-> <<>>,       status |-> 200, json |-> TRUE],
  ListPlayerFactions   |-> [check |-> <<>>,       status |-> 200, json |-> TRUE]]

SettingsHandler == [
  GetPlayerSettings    |-> [check |-> <<>>,       status |-> 200, json |-> TRUE],
  UpdatePlayerSettings |-> [check |-> <<"bind">>, status |-> 200, json |-> TRUE]]

HealthHandler == [GetHealth |-> [check |-> <<>>, status |-> 200, json |-> TRUE]]

Handler ==
  AuthHandler ++ PlayerHandler ++ BattleHandler ++ FactionHandler
    ++ SettingsHandler ++ HealthHandler

----------------------------------------------------------------------------
(* The use cases.  "player" reads the player, "update" writes a row of the *)
(* player, "write" writes without asking for it, "claim" and "once" write  *)
(* what can be there once; "moot?" returns success when there is nothing   *)
(* to do; "first" and "second" are the awards of a game (a computer        *)
(* opponent is known and is awarded nothing).  A premium player is without *)
(* the troubles "config" and "limit".                                      *)
AuthUsecase == [
  RegisterPlayer         |-> <<"taken", "claim", "config">>,
  GetPlayerByFirebaseUID |-> <<"player", "config">>,
  LoginPlayer            |-> <<"player", "config">>]

(* A bug: the name is validated after it is stored.                        *)
StoresThenValidates == [
  UpdatePremium             |-> <<"update">>,
  UpdateName                |-> <<"update", "value", "player", "config">>,
  ValidateNameForOnboarding |-> <<"player", "value">>,
  GetBattleLimit            |-> <<"player", "config">>,
  IncrementBattleCount      |-> <<"player", "config", "limit", "write">>]

PlayerUsecase == [
  UpdatePremium             |-> <<"update">>,
  UpdateName                |-> <<"value", "update", "player", "config">>,
  ValidateNameForOnboarding |-> <<"player", "value">>,
  GetBattleLimit            |-> <<"player", "config">>,
  IncrementBattleCount      |-> <<"player", "config", "limit", "write">>]

ProgressUsecase == [
  RevertBattleCount |-> <<"once">>,
  AddExp            |-> <<"moot?", "config", "update">>,
  AwardGameExp      |-> <<"config", "moot?", "first", "second">>,
  GetPlayer         |-> <<"player", "config">>]

FactionUsecase == [
  GrantFaction         |-> <<"grant">>,
  ListFactions         |-> <<>>,
  ListPlayerFactions   |-> <<>>,
  SelectInitialFaction |-> <<"value", "player", "taken", "claim">>]

SettingsUsecase == [
  GetPlayerSettings    |-> <<"player">>,
  UpdatePlayerSettings |-> <<"update", "player">>]

HealthUsecase == [GetHealth |-> <<>>]

Usecase ==
  AuthUsecase ++ PlayerUsecase ++ ProgressUsecase ++ FactionUsecase
    ++ SettingsUsecase ++ HealthUsecase

(* What the server runs for a request: nothing when no route matches.      *)
Matches(request) ==
  {r \in ServiceRoutes \cup AccountRoutes : <<r[1], r[2]>> = request}

Program(request) ==
  LET route == CHOOSE r \in Matches(request) : TRUE
      gate  == IF route \in AccountRoutes THEN <<"authenticate">> ELSE <<>>
  IN  gate \o Handler[route[3]].check \o Usecase[route[3]]

Routed(request) == (CHOOSE r \in Matches(request) : TRUE)[3]

----------------------------------------------------------------------------
(* The trouble a step fails on.                                            *)
StepTrouble(step) ==
  CASE step = "authenticate"                     -> {"credential"}
    [] step = "bind"                             -> {"body"}
    [] step = "value"                            -> {"value"}
    [] step \in {"player", "update", "first"}    -> {"player"}
    [] step = "grant"                            -> {"player", "value"}
    [] step = "second"                           -> {"opponent"}
    [] step \in {"taken", "claim"}               -> {"taken"}
    [] step = "limit"                            -> {"limit"}
    [] step = "config"                           -> {"config"}
    [] OTHER                                     -> {}

Writes == {"update", "write", "claim", "once", "grant", "first", "second"}

(* The error of a failed step; "claim" and "grant" fail on a constraint    *)
(* of the database.                                                        *)
StepError(step) ==
  CASE step = "authenticate"                            -> "unauthorized"
    [] step = "bind"                                    -> "malformed"
    [] step = "value"                                   -> "ErrInvalid"
    [] step \in {"player", "update", "first", "second"} -> "ErrNotFound"
    [] step = "config"                                  -> "ErrNotFound"
    [] step = "taken"                                   -> "ErrAlready"
    [] step = "limit"                                   -> "ErrBattleLimitExceeded"
    [] OTHER                                            -> "sql"

toHTTPStatus(error) ==
  CASE error = "unauthorized"           -> 401
    [] error = "malformed"              -> 400
    [] error = "ErrNotFound"            -> 404
    [] error = "ErrAlready"             -> 409
    [] error = "ErrBattleLimitExceeded" -> 429
    [] error = "ErrInvalid"             -> 400
    [] OTHER                            -> 500
=============================================================================
