------------------------------- MODULE MCLogger -------------------------------
(***************************************************************************)
(* Bases: a tee of an output with two sinks and an output for errors only   *)
(* with a hook of its own and a sink that both have, and a core that writes *)
(* nothing.                                                                 *)
(***************************************************************************)
EXTENDS LoggerProps

CONSTANTS a, b, h1, h2, n1

From(min) == {l \in Levels : l >= min}

MCBases ==
    { NewTee(<<IoCore(<<a, b>>, From(0)), RegisterHooks(IoCore(<<b>>, {Error}), h2)>>),
      NewTee(<<>>) }

MCNames == {<<n1>>}
MCLogLevels == {0, Error}
MCArguments ==
    { <<>>, <<"error", "string", "error", "error", "other", "field", "string">> }
=============================================================================
