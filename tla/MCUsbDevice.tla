---------------------------- MODULE MCUsbDevice ----------------------------
(* UsbDevice with packets of three bytes and descriptors of one to six.     *)
EXTENDS UsbDevice

Get(v, l) == [request |-> "GET_DESCRIPTOR", wValue |-> v, wLength |-> l]
Req(q, v, l) == [request |-> q, wValue |-> v, wLength |-> l]

Data ==
  {Get(v, l) : v \in 0..6, l \in 1..7}
    \cup {Req("GET_STATUS", 0, 2), Req("GET_CONFIGURATION", 0, 1), Req("GET_INTERFACE", 0, 1),
          Req("SET_INTERFACE", 0, 0)}
    \cup {Req("CDC_GET_LINE_CODING", 0, l) : l \in 1..4}
    \cup {Req("CDC_SET_LINE_CODING", 0, l) : l \in 1..4}

States ==
  {Req("SET_ADDRESS", a, 0) : a \in 0..1}
    \cup {Req("SET_CONFIGURATION", c, 0) : c \in 0..2}
    \cup {Req("CDC_SET_CONTROL_LINE_STATE", dtr, 0) : dtr \in 0..1}

Halts == {Req(q, e, 0) : q \in {"SET_FEATURE", "CLEAR_FEATURE"}, e \in 1..2}

AllRequests == Data \cup States \cup Halts
=============================================================================
