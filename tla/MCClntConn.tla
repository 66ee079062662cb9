----------------------------- MODULE MCClntConn -----------------------------
(* Instances of ClntConn: a TLS connection with every handler, whose client *)
(* pipelines or waits for its answers, and plain ones over TCP and TLS.     *)
EXTENDS ClntConn

TlsConf(p) ==
  [tls |-> TRUE, expect |-> TRUE, pipelining |-> p, handlers |-> HandlerKinds,
   reads |-> {1, 2, 3}, faults |-> TRUE]

PlainConf(t) ==
  [tls |-> t, expect |-> FALSE, pipelining |-> TRUE, handlers |-> {"api", "file"},
   reads |-> {1}, faults |-> FALSE]

MCConf == {TlsConf(TRUE), TlsConf(FALSE), PlainConf(TRUE), PlainConf(FALSE)}
=============================================================================
