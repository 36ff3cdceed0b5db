---------------------------- MODULE EndpointsV221 ----------------------------
(***************************************************************************)
(* The generated interfaces of OCPI 2.2.1 (package v221), those that have  *)
(* the operations of 2.1.1 by reference, and the role presets.             *)
(***************************************************************************)
EXTENDS Codegen

LOCAL V211 == INSTANCE EndpointsV211

LocationsSender   == V211!LocationsSender
LocationsReceiver == V211!LocationsReceiver
SessionsSender ==
    Append(V211!SessionsSender,
           Ask("PUT", "PutChargingPreferences", <<"{session_id}", "charging_preferences">>))
SessionsReceiver  == V211!SessionsReceiver
CdrsSender        == V211!CdrsSender
CdrsReceiver      == V211!CdrsReceiver
TariffsSender     == V211!TariffsSender
TariffsReceiver   == V211!TariffsReceiver
TokensSender      == V211!TokensSender
TokensReceiver    == V211!TokensReceiver
CommandsSender    == V211!CommandsSender
CommandsReceiver ==
    << Ask("POST", "PostCancelReservation", <<"CANCEL_RESERVATION">>) >>
    \o V211!CommandsReceiver

ChargingprofilesSender ==
    << Push("POST", "PostChargingProfileCallback", <<"response">>),
       Push("PUT", "PutActiveChargingProfile", <<"{session_id}">>) >>
ChargingprofilesReceiver ==
    << Get("GetActiveChargingProfile", <<"{session_id}">>),
       Ask("PUT", "PutChargingProfile", <<"{session_id}">>),
       Ask("DELETE", "DeleteChargingProfile", <<"{session_id}">>) >>

HubclientinfoSender == << List("GetClientInfoList", <<>>) >>
HubclientinfoReceiver ==
    << Get("GetClientInfo", Owned(<<>>)),
       Push("PUT", "PutClientInfo", Owned(<<>>)) >>

RegisterCPO ==
    << Interface("locations", "SENDER", LocationsSender),
       Interface("sessions", "SENDER", SessionsSender),
       Interface("cdrs", "SENDER", CdrsSender),
       Interface("tariffs", "SENDER", TariffsSender),
       Interface("tokens", "RECEIVER", TokensReceiver),
       Interface("commands", "RECEIVER", CommandsReceiver),
       Interface("chargingprofiles", "RECEIVER", ChargingprofilesReceiver) >>

RegisterMSP ==
    << Interface("locations", "RECEIVER", LocationsReceiver),
       Interface("sessions", "RECEIVER", SessionsReceiver),
       Interface("cdrs", "RECEIVER", CdrsReceiver),
       Interface("tariffs", "RECEIVER", TariffsReceiver),
       Interface("tokens", "SENDER", TokensSender),
       Interface("commands", "SENDER", CommandsSender),
       Interface("chargingprofiles", "SENDER", ChargingprofilesSender) >>

RegisterHub == << Interface("hubclientinfo", "SENDER", HubclientinfoSender) >>
=============================================================================
