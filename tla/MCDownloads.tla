---------------------------- MODULE MCDownloads ----------------------------
(***************************************************************************)
(* Constants for the run of Downloads: every header with numbers up to the *)
(* size of the file, and a suffix longer than it.                          *)
(***************************************************************************)
EXTENDS Downloads, TLC

MCHeaders ==
    {h \in [form : {"whole", "span", "from", "open", "suffix"}, a : 0 .. FileSize + 1, b : 0 .. FileSize] :
        /\ h.form # "span" => h.b = 0
        /\ h.form # "suffix" => h.a <= FileSize
        /\ h.form \in {"whole", "open"} => h.a = 0}

MCSymmetry == Permutations(Procs)
=============================================================================
