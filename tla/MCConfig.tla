------------------------------ MODULE MCConfig ------------------------------
(* Lines that meet every branch of the loader: headers that are closed,    *)
(* unclosed, unknown, padded or alone; entries with and without key, value *)
(* and spaces; comments; numbers that fit, do not fit, or are none.        *)
EXTENDS Config

MCLines ==
    { <<>>,
      <<" ", ";", "port", "=", "1">>,
      <<"[", "Stun", " ", "]", "port", "=", "1">>,
      <<"[", "websocket", "]">>,
      <<"[", "stun">>,
      <<"[">>,
      <<"PORT", "=", "8", "0", " ">>,
      <<" ", "port", " ", "=", " ", "7", "0", "0", "0", "0">>,
      <<"port", "=", "0", "x", "5", "0">>,
      <<"port", "=", "8", "0", "a">>,
      <<"port", "=">>,
      <<"=", "8", "0">>,
      <<"port">>,
      <<"enable_tls", "=", "on", "#">>,
      <<"ip", "=", "host", "=", ";">> }
=============================================================================
