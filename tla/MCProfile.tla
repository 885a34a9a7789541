----------------------------- MODULE MCProfile ------------------------------
(***************************************************************************)
(* An instance of Profile: a program with the functions f (two call sites) *)
(* and g in one page, a library with the functions h and k in another that *)
(* comes and goes, and stacks in which they call each other and            *)
(* themselves.                                                             *)
(***************************************************************************)
EXTENDS Profile

MCObjects == {"prog", "lib"}

MCFunctionIn ==
  [o \in MCObjects |->
     IF o = "prog" THEN [a \in {"f1", "f2", "g1"} |-> IF a = "g1" THEN "g" ELSE "f"]
                   ELSE [a \in {"h1", "k1"} |-> IF a = "h1" THEN "h" ELSE "k"]]

MCPageOf ==
  [a \in {"f1", "f2", "g1", "h1", "k1"} |-> IF a \in {"h1", "k1"} THEN "page2" ELSE "page1"]

MCMappings == {{"prog"}, {"prog", "lib"}}

MCTraces ==
  {<<>>, <<"f1">>, <<"h1">>, <<"k1">>, <<"f2", "f1">>, <<"k1", "f1">>, <<"f2", "k1">>,
   <<"h1", "g1", "f2">>, <<"k1", "f1", "g1", "f2">>, <<"f1", "g1", "f1", "g1">>,
   <<"f1", "h1", "g1", "k1", "f1">>, <<"g1", "k1", "g1", "f1", "k1">>,
   <<"k1", "g1", "f1", "k1", "g1", "f1">>}

=============================================================================
