---------------------------- MODULE MCUrlRouter ----------------------------
(* Instances of UrlRouter.                                                 *)
EXTENDS UrlRouter

A == "a"
B == "b"
S == "/"

\* Every path of at most two letters, one slash between them or not.
StaticRoutes ==
  {<<S>>, <<S, A>>, <<S, B>>, <<S, A, B>>, <<S, B, A>>, <<S, A, A>>,
   <<S, A, S, B>>, <<A, S>>}

\* Routes with a parameter after a slash: the same and another one, at the
\* same depth and at different depths.
ParamRoutes ==
  {<<S, A>>, <<S, A, B>>, <<S, "<", A, ">">>, <<S, "<", B, ">">>,
   <<S, B, S, "<", A, ">">>, <<S, B, S, "<", A, ">", S, A>>, <<S, "<", A>>}

\* Two parameters whose names begin alike, and two that are alike.
NamedRoutes ==
  {<<S, "<", A, B, ">">>, <<S, "<", A, A, ">">>, <<S, A, S, "<", A, ">">>, <<S, B>>}

TerminalRoutes ==
  {<<S, A>>, <<S, A, "*">>, <<S, B, S, "*">>, <<S, A, B>>, <<S, B, A>>}

AllRoutes == StaticRoutes \cup ParamRoutes \cup NamedRoutes \cup TerminalRoutes

MCRank == (S :> 1) @@ (A :> 2) @@ (B :> 3)

Paths ==
  {<<S>> \o p : p \in UNION {[1..n -> {A, B, S}] : n \in 0..4}}
=============================================================================
