----------------------------- MODULE MCLifecycle -----------------------------
(***************************************************************************)
(* A single asynchronous output beside an error file; two outputs, one with *)
(* two paths of which one needs a registered sink; and two outputs of which *)
(* the second filters by misspelt levels.                                   *)
(***************************************************************************)
EXTENDS LifecycleProps

Plain(f) == [raw |-> f, scheme |-> "file", file |-> f]
Url(s, f) == [raw |-> "url", scheme |-> s, file |-> f]

Output(dir, async, paths, levels) ==
    [dir |-> dir, async |-> async, paths |-> paths, encoding |-> "json",
     levels |-> levels, exclude |-> {}]
Config(multi, outputs, errPaths) ==
    [level |-> TRUE, multi |-> multi, outputs |-> outputs, errPaths |-> errPaths]

Async == Output("logs", TRUE, <<>>, {})
Paths == Output("", FALSE, <<Plain("stdout"), Url("mem", "buf"), Plain("app")>>, {"info", "eror"})
Typo == Output("more", TRUE, <<>>, {"eror"})

MCConfigs ==
    LET NoEncoder == Config(TRUE, <<Async, [Paths EXCEPT !.encoding = "xml"]>>, <<>>)
    IN  { Config(FALSE, <<Async>>, <<Plain("errors")>>),
          Config(TRUE, <<Async, Paths>>, <<>>),
          Config(TRUE, <<Output("logs", FALSE, <<>>, {}), Typo>>, <<>>),
          NoEncoder, [NoEncoder EXCEPT !.level = FALSE] }

MCSpellings == {"MEM", "1st"}
MCNormalized == [s \in MCSpellings |-> IF s = "1st" THEN "" ELSE "mem"]

MCSymmetry == Permutations(Callers) \cup Permutations(Lines)
MCRefusable == {"logs", "url", "app", "errors"}
=============================================================================
