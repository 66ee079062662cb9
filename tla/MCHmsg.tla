------------------------------- MODULE MCHmsg -------------------------------
(* A request and an answer with two headers and a body, and an answer with
   one header for a client that takes it away in pieces.  Each string is
   followed by the byte that ends it.  An answer may be chunked: there is a byte
   before and after each chunk. *)
EXTENDS Hmsg

El(k, a, b) == [kind |-> k, first |-> a, last |-> b]

Headers == <<El("key", 4, 5), El("val", 7, 7), El("key", 9, 9), El("val", 11, 11)>>
Header == <<El("key", 3, 3), El("val", 5, 5)>>

Rqst == [elements |-> <<El("url", 1, 2)>> \o Headers \o <<El("body", 13, 14)>>, len |-> 14]

\* An answer whose head h has n bytes, with a body of two bytes, or of two chunks.
Answers(h, n) ==
  {[elements |-> h \o <<El("body", n + 1, n + 2)>>, len |-> n + 2],
   [elements |-> h \o <<El("body", n + 2, n + 2), El("body", n + 4, n + 5)>>, len |-> n + 6]}

MCMessages ==
  [s \in Sides |->
     CASE s = "rqst" -> {Rqst}
       [] s = "resp" -> Answers(<<El("status", 1, 2)>> \o Headers, 12)
       [] s = "proxied" -> Answers(<<El("status", 1, 1)>> \o Header, 6)]
=============================================================================
