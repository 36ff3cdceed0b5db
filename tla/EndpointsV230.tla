---------------------------- MODULE EndpointsV230 ----------------------------
(***************************************************************************)
(* The generated interfaces of OCPI 2.3.0 (package v230): those of 2.2.1,  *)
(* and bookings and payments, which are in no role preset.                 *)
(***************************************************************************)
EXTENDS Codegen

LOCAL V221 == INSTANCE EndpointsV221

LocationsSender          == V221!LocationsSender
LocationsReceiver        == V221!LocationsReceiver
SessionsSender           == V221!SessionsSender
SessionsReceiver         == V221!SessionsReceiver
CdrsSender               == V221!CdrsSender
CdrsReceiver             == V221!CdrsReceiver
TariffsSender            == V221!TariffsSender
TariffsReceiver          == V221!TariffsReceiver
TokensSender             == V221!TokensSender
TokensReceiver           == V221!TokensReceiver
CommandsSender           == V221!CommandsSender
CommandsReceiver         == V221!CommandsReceiver
ChargingprofilesSender   == V221!ChargingprofilesSender
ChargingprofilesReceiver == V221!ChargingprofilesReceiver
HubclientinfoSender      == V221!HubclientinfoSender
HubclientinfoReceiver    == V221!HubclientinfoReceiver

BookingsSender ==
    << List("GetBookingLocations", <<"booking_locations">>),
       Get("GetBookingLocation", <<"booking_locations", "{booking_location_id}">>),
       Get("GetCalendar", <<"booking_locations", "{booking_location_id}", "{calendar_id}">>),
       List("GetBookings", <<>>),
       Ask("POST", "PostBooking", <<>>) >>

BookingsReceiver ==
       Pushed("BookingLocation", Owned(<<"booking_locations", "{booking_location_id}">>))
    \o Pushed("Calendar", Owned(<<"booking_locations", "{booking_location_id}", "{calendar_id}">>))
    \o Pushed("Booking", Owned(<<"{booking_id}">>))

PaymentsSender ==
    << List("GetTerminals", <<"terminals">>),
       Get("GetTerminal", <<"terminals", "{terminal_id}">>),
       Push("PUT", "PutTerminal", <<"terminals", "{terminal_id}">>),
       Push("PATCH", "PatchTerminal", <<"terminals", "{terminal_id}">>),
       Push("POST", "PostActivateTerminal", <<"terminals", "activate">>),
       Push("POST", "PostDeactivateTerminal", <<"terminals", "{terminal_id}", "deactivate">>),
       List("GetFinancialAdviceConfirmations", <<"financial-advice-confirmations">>),
       Get("GetFinancialAdviceConfirmation",
           <<"financial-advice-confirmations", "{financial_advice_confirmation_id}">>) >>

PaymentsReceiver ==
    << Get("GetTerminal", <<"terminals", "{terminal_id}">>),
       Push("POST", "PostTerminal", <<"terminals">>),
       Get("GetFinancialAdviceConfirmation",
           <<"financial-advice-confirmations", "{financial_advice_confirmation_id}">>),
       Push("POST", "PostFinancialAdviceConfirmation", <<"financial-advice-confirmations">>) >>

RegisterCPO ==
    << Interface("locations", "SENDER", LocationsSender),
       Interface("sessions", "SENDER", SessionsSender),
       Interface("cdrs", "SENDER", CdrsSender),
       Interface("tariffs", "SENDER", TariffsSender),
       Interface("tokens", "RECEIVER", TokensReceiver),
       Interface("commands", "RECEIVER", CommandsReceiver),
       Interface("chargingprofiles", "RECEIVER", ChargingprofilesReceiver) >>

RegisterMSP ==
    << Interface("locations", "RECEIVER", LocationsReceiver),
       Interface("sessions", "RECEIVER", SessionsReceiver),
       Interface("cdrs", "RECEIVER", CdrsReceiver),
       Interface("tariffs", "RECEIVER", TariffsReceiver),
       Interface("tokens", "SENDER", TokensSender),
       Interface("commands", "SENDER", CommandsSender),
       Interface("chargingprofiles", "SENDER", ChargingprofilesSender) >>

RegisterHub == << Interface("hubclientinfo", "SENDER", HubclientinfoSender) >>
=============================================================================
