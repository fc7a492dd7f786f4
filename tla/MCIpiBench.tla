----------------------------- MODULE MCIpiBench -----------------------------
(***************************************************************************)
(* Small machines and small sets of module parameters for IpiBench.        *)
(***************************************************************************)
EXTENDS IpiForkJoin

\* CPUs are dealt to two nodes in turn.
MCNodeOf == [c \in Cpu |-> c % 2]

Default == [options |-> {}, srccpu |-> 0, dstcpu |-> 1, pairs |-> -1,
            acrossnuma |-> TRUE, broadcasts |-> -1]

\* One flag at a time, with the parameters that this case reads.
OneFlag ==
  {Default}
  \cup {[Default EXCEPT !.options = {c}, !.srccpu = s, !.dstcpu = d] :
          c \in {SelfIpi, SingleIpi}, s \in {-1, 0, 1, NumCpus}, d \in {-1, 0}}
  \cup {[Default EXCEPT !.options = {MeshIpi}, !.pairs = p, !.acrossnuma = a] :
          p \in {-2, -1, 0, 1, NumCpus}, a \in BOOLEAN}
  \cup {[Default EXCEPT !.options = {AllIpi}, !.broadcasts = b] :
          b \in {-2, -1, 0, 2, NumCpus + 1}}

\* The flags alone, and up to two of them in one insmod.
ManyFlags == {[Default EXCEPT !.options = o] : o \in SUBSET Case}
FewFlags  == {p \in ManyFlags : Cardinality(p.options) <= 2}
=============================================================================
