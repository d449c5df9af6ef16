---------------------------- MODULE MCHisiDaemon ----------------------------
EXTENDS HisiDaemon
MCConfFiles ==
  { <<"MAGIC NUMBER", "deadbeef", "text", "PROCs:", "text", "text", "empty">>,
    <<"MAGIC NUMBER", "text", "PROCs:", "text", "empty">> }
MCJumps == {-5, 3}
=============================================================================
