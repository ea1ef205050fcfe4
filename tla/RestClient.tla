----------------------------- MODULE RestClient -----------------------------
(***************************************************************************)
(* The client side of the REST contract: the generated client of           *)
(* packages/api-account (one request and one parser per operation) and the *)
(* wrapper apiaccountclient, which turns a response into a result or a     *)
(* sentinel error.                                                         *)
(*                                                                         *)
(* A request is <<method, path>>; its body is data that only the server    *)
(* looks at.  A reply is [status, json, whole]: the HTTP status, whether   *)
(* its Content-Type is JSON, and whether the body arrived completely.      *)
(***************************************************************************)
EXTENDS Naturals, RestTable

(* The requests, by operation: NewXxxRequest.  The operations are those of *)
(* the wrapper, which has no method for ListPlayerFactions.                *)
PlayerRequests == [
  GetPlayer            |-> <<"GET",  "/api/v1/account/me">>,
  GetBattleLimit       |-> <<"GET",  "/api/v1/account/me/battle-limit">>,
  IncrementBattleCount |-> <<"POST", "/api/v1/account/me/battle-limit/increment">>,
  AddExp               |-> <<"POST", "/api/v1/account/me/exp">>]

FactionRequests == [
  ListFactions         |-> <<"GET",  "/api/v1/account/me/factions">>,
  GrantFaction         |-> <<"POST", "/api/v1/account/me/factions">>,
  SelectInitialFaction |-> <<"POST", "/api/v1/account/me/factions/select">>]

NameRequests == [
  UpdateName                |-> <<"PUT",  "/api/v1/account/me/name">>,
  ValidateNameForOnboarding |-> <<"POST", "/api/v1/account/me/onboarding/name/validate">>,
  UpdatePremium             |-> <<"PUT",  "/api/v1/account/me/premium">>]

SettingsRequests == [
  GetPlayerSettings      |-> <<"GET", "/api/v1/account/me/settings">>,
  UpdatePlayerSettings   |-> <<"PUT", "/api/v1/account/me/settings">>,
  GetHealth              |-> <<"GET", "/health">>,
  GetPlayerByFirebaseUID |-> <<"GET", "/internal/v1/auth/by-firebase-uid/:firebaseUID">>]

AuthRequests == [
  LoginPlayer    |-> <<"POST", "/internal/v1/auth/login">>,
  RegisterPlayer |-> <<"POST", "/internal/v1/auth/register">>]

BattleRequests == [
  AwardGameExp      |-> <<"POST", "/internal/v1/players/award-game-exp">>,
  RevertBattleCount |-> <<"POST", "/internal/v1/players/revert-battle-count">>]

Request ==
  PlayerRequests ++ FactionRequests ++ NameRequests ++ SettingsRequests
    ++ AuthRequests ++ BattleRequests

Operation == DOMAIN Request

----------------------------------------------------------------------------
(* The status whose JSON body ParseXxxResponse decodes.                    *)
NoPayload == 0

PlayerPayload == [
  GetPlayer            |-> 200,
  GetBattleLimit       |-> 200,
  IncrementBattleCount |-> NoPayload,
  AddExp               |-> NoPayload,
  ListFactions         |-> 200,
  GrantFaction         |-> NoPayload,
  SelectInitialFaction |-> NoPayload]

NamePayload == [
  UpdateName                |-> 200,
  ValidateNameForOnboarding |-> NoPayload,
  UpdatePremium             |-> NoPayload,
  GetPlayerSettings         |-> 200,
  UpdatePlayerSettings      |-> 200,
  GetHealth                 |-> 200]

AuthPayload == [
  GetPlayerByFirebaseUID |-> 200,
  LoginPlayer            |-> 200,
  RegisterPlayer         |-> 201,
  AwardGameExp           |-> NoPayload,
  RevertBattleCount      |-> NoPayload]

Payload == PlayerPayload ++ NamePayload ++ AuthPayload

(* What a parser returns: an error when the body cannot be read, else a    *)
(* response whose payload is set or nil.                                   *)
Parse(op, reply) ==
  IF ~ reply.whole THEN "error"
  ELSE IF reply.json /\ reply.status = Payload[op] THEN "payload"
  ELSE "nil"

----------------------------------------------------------------------------
(* What the wrapper takes for success: the payload, or else this status.   *)
OnPayload == 0

ServiceSuccess == [
  GetHealth              |-> OnPayload,
  RegisterPlayer         |-> OnPayload,
  LoginPlayer            |-> OnPayload,
  GetPlayerByFirebaseUID |-> OnPayload,
  AwardGameExp           |-> 204,
  RevertBattleCount      |-> 204]

PlayerSuccess == [
  GetPlayer                 |-> OnPayload,
  UpdateName                |-> OnPayload,
  ValidateNameForOnboarding |-> 204,
  GetBattleLimit            |-> OnPayload,
  IncrementBattleCount      |-> 204,
  UpdatePremium             |-> 204,
  AddExp                    |-> 204,
  ListFactions              |-> OnPayload,
  GrantFaction              |-> 204,
  SelectInitialFaction      |-> 200,
  GetPlayerSettings         |-> OnPayload,
  UpdatePlayerSettings      |-> OnPayload]

Success == ServiceSuccess ++ PlayerSuccess

(* A bug: 404 and 400 change places.                                       *)
SwappedStatusError(status) ==
  CASE status = 401  -> "ErrUnauthorized"
    [] status = 400  -> "ErrNotFound"
    [] status = 404  -> "ErrBadRequest"
    [] status = 409  -> "ErrConflict"
    [] status >= 500 -> "ErrInternalServer"
    [] OTHER         -> "unexpected status"

(* newStatusError: the sentinel of a status.                               *)
StatusError(status) ==
  CASE status = 401  -> "ErrUnauthorized"
    [] status = 404  -> "ErrNotFound"
    [] status = 400  -> "ErrBadRequest"
    [] status = 409  -> "ErrConflict"
    [] status >= 500 -> "ErrInternalServer"
    [] OTHER         -> "unexpected status"

Verdicts ==
  {"success", "error", "unexpected status", "ErrUnauthorized", "ErrNotFound",
   "ErrBadRequest", "ErrConflict", "ErrInternalServer"}

(* What a call returns for a reply.                                        *)
Verdict(op, reply) ==
  LET parsed == Parse(op, reply)
      done   == IF Success[op] = OnPayload THEN parsed = "payload"
                ELSE reply.status = Success[op]
  IN  IF parsed = "error" THEN "error"
      ELSE IF done THEN "success"
      ELSE StatusError(reply.status)
=============================================================================
