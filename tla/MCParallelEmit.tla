--------------------------- MODULE MCParallelEmit ---------------------------
(* Small programs for ParallelEmit.                                        *)
EXTENDS ParallelEmit

\* Three expansions in one function, one in another.
MCContended == { << <<"atomic_cas", "atomic_cas", "atomic_cas">>, <<"atomic_cas">> >> }
MCHosted == {"pthreads"}
=============================================================================
