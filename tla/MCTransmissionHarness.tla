----------------------- MODULE MCTransmissionHarness -----------------------
(***************************************************************************)
(* Small instances of TransmissionHarness.  The ids are model values; the  *)
(* alphabets are the frames the push server may send in each scenario.     *)
(***************************************************************************)
EXTENDS TransmissionHarness

CONSTANTS OP1, OP2, TX1, TX2, SITE2, SITE3, INC1, INC2

\* A transmission update of multicast p for transmission t at destination d.
Tx(p, t, d, st, status) ==
    [type |-> TxType, ref |-> p, tx |-> t, dest |-> d, state |-> st, status |-> status]

\* An update of entity x of kind k (no transmission fields).
Ent(k, x) ==
    [type |-> k, ref |-> x, tx |-> TX2, dest |-> SITE3, state |-> "Pending", status |-> NoStatus]

Garbage == [type |-> Malformed, ref |-> OP2, tx |-> TX2, dest |-> SITE3,
            state |-> "Pending", status |-> NoStatus]

Failed == [code |-> 500, message |-> "transmission failed"]

\* Incident forwarding to site 2: the right lifecycle, a failed Partial, a
\* foreign multicast's update, a wrong transmission id, the incident's
\* close, another incident's close and an undecodable frame.
IncidentAlphabet ==
    { Tx(OP1, TX1, SITE2, "Pending", NoStatus),
      Tx(OP1, TX1, SITE2, "Partial", Sent),
      Tx(OP1, TX1, SITE2, "Success", Delivered),
      Tx(OP1, TX1, SITE2, "Partial", Failed),
      Tx(OP2, TX2, SITE3, "Pending", NoStatus),
      Tx(OP1, TX2, SITE2, "Success", Delivered),
      Ent("Incident/CLOSE", INC1),
      Ent("Incident/CLOSE", INC2),
      Garbage }

\* Device configuration via multicast to device 4 (destination is the
\* iridium subscriber): the lifecycle, a foreign multicast's update and the
\* device's own update.
DeviceAlphabet ==
    { Tx(OP1, TX1, SITE2, "Pending", NoStatus),
      Tx(OP1, TX1, SITE2, "Partial", Sent),
      Tx(OP1, TX1, SITE2, "Success", Delivered),
      Tx(OP2, TX2, SITE3, "Pending", NoStatus),
      Ent("Device/UPDATE", INC1) }
=============================================================================
