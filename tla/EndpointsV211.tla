---------------------------- MODULE EndpointsV211 ----------------------------
(***************************************************************************)
(* The generated interfaces of OCPI 2.1.1 (package v211): for each module  *)
(* and side the operations of its client and of its handler, in the order  *)
(* they are registered, and the role presets.                              *)
(***************************************************************************)
EXTENDS Codegen

LocationsSender ==
    << List("GetLocations", <<>>),
       Get("GetLocation", <<"{location_id}">>),
       Get("GetEvse", <<"{location_id}", "{evse_uid}">>),
       Get("GetConnector", <<"{location_id}", "{evse_uid}", "{connector_id}">>) >>

LocationsReceiver ==
       Pushed("Location", Owned(<<"{location_id}">>))
    \o Pushed("Evse", Owned(<<"{location_id}", "{evse_uid}">>))
    \o Pushed("Connector", Owned(<<"{location_id}", "{evse_uid}", "{connector_id}">>))

SessionsSender   == << List("GetSessions", <<>>) >>
SessionsReceiver == Pushed("Session", Owned(<<"{session_id}">>))

CdrsSender   == << List("GetCdrs", <<>>) >>
CdrsReceiver == << Push("POST", "PostCdr", <<>>), Get("GetCdr", <<"{cdr_id}">>) >>

TariffsSender   == << List("GetTariffs", <<>>) >>
TariffsReceiver ==
    << Get("GetTariff", Owned(<<"{tariff_id}">>)),
       Push("PUT", "PutTariff", Owned(<<"{tariff_id}">>)),
       Push("DELETE", "DeleteTariff", Owned(<<"{tariff_id}">>)) >>

TokensSender ==
    << List("GetTokens", <<>>),
       Ask("POST", "PostAuthorize", <<"{token_uid}", "authorize">>) >>
TokensReceiver == Pushed("Token", Owned(<<"{token_uid}">>))

CommandsSender   == << Push("POST", "PostCommandResult", <<>>) >>
CommandsReceiver ==
    << Ask("POST", "PostReserveNow", <<"RESERVE_NOW">>),
       Ask("POST", "PostStartSession", <<"START_SESSION">>),
       Ask("POST", "PostStopSession", <<"STOP_SESSION">>),
       Ask("POST", "PostUnlockConnector", <<"UNLOCK_CONNECTOR">>) >>

RegisterCPO ==
    << Interface("locations", "SENDER", LocationsSender),
       Interface("sessions", "SENDER", SessionsSender),
       Interface("cdrs", "SENDER", CdrsSender),
       Interface("tariffs", "SENDER", TariffsSender),
       Interface("tokens", "RECEIVER", TokensReceiver),
       Interface("commands", "RECEIVER", CommandsReceiver) >>

RegisterMSP ==
    << Interface("locations", "RECEIVER", LocationsReceiver),
       Interface("sessions", "RECEIVER", SessionsReceiver),
       Interface("cdrs", "RECEIVER", CdrsReceiver),
       Interface("tariffs", "RECEIVER", TariffsReceiver),
       Interface("tokens", "SENDER", TokensSender),
       Interface("commands", "SENDER", CommandsSender) >>
=============================================================================
