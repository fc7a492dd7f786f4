----------------------------- MODULE IpiForkJoin -----------------------------
(***************************************************************************)
(* ipi_bench as an implementation of ForkJoin: the team are the workers of *)
(* the case that runs, from the allocation of their kthreads on.  insmod   *)
(* is given one option flag, so that there is one case.                    *)
(***************************************************************************)
EXTENDS IpiBench

HasTeam == \/ dpc \notin {"init", "next", "alloc", "build", "gone", "oops"}
           \/ \E i \in Slot : pc[<<cur, i>>] # "none"

Workers(places) == {i \in Slot : pc[<<cur, i>>] \in places}

FJ == INSTANCE ForkJoin WITH
        Member   <- Slot,
        team     <- IF HasTeam THEN 1 .. Count(cur) ELSE {},
        came     <- ArrivedSlots,
        began    <- {i \in Slot : Past(<<cur, i>>)},
        finished <- Workers({"wake", "ret", "ended"}),
        shown    <- {i \in Slot : printed[<<cur, i>>] = "exact"},
        over     <- dpc \in {"gone", "oops"} \/ mem[cur] = "freed"

\* With one flag, no fault and fair CPUs, a run of ipi_bench_init (lines
\* 518-559 of ipi_bench.c) with its workers is a run of ForkJoin: workers
\* start to send IPIs together, every final figure is reported, and the
\* arguments are freed only after that.
ImplementsForkJoin == FJ!Spec
=============================================================================
