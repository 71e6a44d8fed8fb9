----------------------------- MODULE MCOptMinim -----------------------------
(***************************************************************************)
(* An instance of OptMinim for TLC.                                        *)
(***************************************************************************)
EXTENDS OptMinim

\* The options the second pass looks for, one that is always kept, one that is
\* like any other, and a token that is lost.
MCOptions ==
    {Opt("--mode", "1"), Opt("--lru", "1"), Opt("-s", "42"), Opt("--td", "5"),
     Opt("--arjun", "0"), Opt("--threads", "4"), Opt("--debugthreads", "1")}

=============================================================================
