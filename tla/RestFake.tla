------------------------------ MODULE RestFake ------------------------------
(***************************************************************************)
(* apiaccountserverfake: the server that consumers test their handlers     *)
(* against.  Each route has a callback of the test, or answers its default *)
(* when the test set none; no credential and no field is checked.          *)
(***************************************************************************)
EXTENDS Naturals, RestTable

(* The routes of NewServer.                                                *)
FakeRoutes == {
  <<"POST", "/internal/v1/auth/register", "RegisterFn">>,
  <<"POST", "/internal/v1/auth/login", "LoginFn">>,
  <<"GET",  "/internal/v1/auth/by-firebase-uid/:firebaseUID", "FindByFirebaseUIDFn">>,
  <<"POST", "/internal/v1/players/award-game-exp", "AwardGameExpFn">>,
  <<"POST", "/internal/v1/players/revert-battle-count", "RevertBattleCountFn">>,
  <<"GET",  "/api/v1/account/me", "GetPlayerFn">>,
  <<"PUT",  "/api/v1/account/me/name", "UpdateNameFn">>,
  <<"POST", "/api/v1/account/me/onboarding/name/validate", "ValidateNameForOnboardingFn">>,
  <<"GET",  "/api/v1/account/me/battle-limit", "GetBattleLimitFn">>,
  <<"POST", "/api/v1/account/me/battle-limit/increment", "IncrementBattleCountFn">>,
  <<"PUT",  "/api/v1/account/me/premium", "UpdatePremiumFn">>,
  <<"POST", "/api/v1/account/me/exp", "AddExpFn">>,
  <<"POST", "/api/v1/account/me/factions", "GrantFactionFn">>,
  <<"POST", "/api/v1/account/me/factions/select", "SelectInitialFactionFn">>,
  <<"GET",  "/api/v1/account/me/factions", "ListFactionsFn">>,
  <<"GET",  "/api/v1/account/me/settings", "GetSettingsFn">>,
  <<"PUT",  "/api/v1/account/me/settings", "UpdateSettingsFn">>}

(* The answers without a callback: a status, and an empty value as JSON.   *)
EmptyJSON == TRUE

NoBody == FALSE

ServiceDefault == [
  RegisterFn                  |-> <<201, EmptyJSON>>,
  LoginFn                     |-> <<200, EmptyJSON>>,
  FindByFirebaseUIDFn         |-> <<200, EmptyJSON>>,
  AwardGameExpFn              |-> <<204, NoBody>>,
  RevertBattleCountFn         |-> <<204, NoBody>>,
  GetPlayerFn                 |-> <<200, EmptyJSON>>,
  UpdateNameFn                |-> <<200, EmptyJSON>>,
  ValidateNameForOnboardingFn |-> <<204, NoBody>>,
  GetBattleLimitFn            |-> <<200, EmptyJSON>>]

(* A bug: the choice of a faction defaults to 204, like the other writes.  *)
NoContentDefault == [
  IncrementBattleCountFn |-> <<204, NoBody>>,
  UpdatePremiumFn        |-> <<204, NoBody>>,
  GrantFactionFn         |-> <<204, NoBody>>,
  SelectInitialFactionFn |-> <<204, NoBody>>,
  ListFactionsFn         |-> <<200, EmptyJSON>>,
  AddExpFn               |-> <<204, NoBody>>,
  GetSettingsFn          |-> <<200, EmptyJSON>>,
  UpdateSettingsFn       |-> <<200, EmptyJSON>>]

AccountDefault == [
  IncrementBattleCountFn |-> <<204, NoBody>>,
  UpdatePremiumFn        |-> <<204, NoBody>>,
  GrantFactionFn         |-> <<204, NoBody>>,
  SelectInitialFactionFn |-> <<200, NoBody>>,
  ListFactionsFn         |-> <<200, EmptyJSON>>,
  AddExpFn               |-> <<204, NoBody>>,
  GetSettingsFn          |-> <<200, EmptyJSON>>,
  UpdateSettingsFn       |-> <<200, EmptyJSON>>]

FakeDefault == ServiceDefault ++ AccountDefault

(* writeJSON: the Content-Type is set only with a body.                    *)
writeJSON(status, body) == [status |-> status, json |-> body, whole |-> TRUE]

(* What the fake answers: what the callback says (fn, a status and a body),*)
(* the default, or 404 of the mux for a request it has no route for.       *)
FakeReply(request, fn) ==
  LET routes == {r \in FakeRoutes : <<r[1], r[2]>> = request}
      field  == (CHOOSE r \in routes : TRUE)[3]
      answer == IF fn = <<>> THEN FakeDefault[field] ELSE fn
  IN  IF routes = {} THEN writeJSON(404, NoBody)
      ELSE writeJSON(answer[1], answer[2])
=============================================================================
