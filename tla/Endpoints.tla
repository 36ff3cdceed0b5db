------------------------------ MODULE Endpoints ------------------------------
(***************************************************************************)
(* All generated interfaces by version: those of the role presets, and     *)
(* those an application registers on its own because no preset has them.   *)
(***************************************************************************)
EXTENDS Codegen

LOCAL V211 == INSTANCE EndpointsV211
LOCAL V221 == INSTANCE EndpointsV221
LOCAL V230 == INSTANCE EndpointsV230

Presets(version) ==
    CASE version = "2.1.1" -> {V211!RegisterCPO, V211!RegisterMSP}
      [] version = "2.2.1" -> {V221!RegisterCPO, V221!RegisterMSP, V221!RegisterHub}
      [] version = "2.3.0" -> {V230!RegisterCPO, V230!RegisterMSP, V230!RegisterHub}

Unassigned(version) ==
    CASE version = "2.1.1" -> {}
      [] version = "2.2.1" ->
            {Interface("hubclientinfo", "RECEIVER", V221!HubclientinfoReceiver)}
      [] version = "2.3.0" ->
            {Interface("hubclientinfo", "RECEIVER", V230!HubclientinfoReceiver),
             Interface("bookings", "SENDER", V230!BookingsSender),
             Interface("bookings", "RECEIVER", V230!BookingsReceiver),
             Interface("payments", "SENDER", V230!PaymentsSender),
             Interface("payments", "RECEIVER", V230!PaymentsReceiver)}

InterfacesOf(versions) ==
    UNION {Unassigned(v) : v \in versions}
    \cup UNION {{preset[i] : i \in 1 .. Len(preset)} :
                    preset \in UNION {Presets(v) : v \in versions}}
=============================================================================
