----------------------------- MODULE MCHttpSink -----------------------------
(* Two producers, two sink threads, a one-slot outbound queue, one retry.  *)
EXTENDS HttpSink
=============================================================================
