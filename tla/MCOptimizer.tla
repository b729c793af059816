----------------------------- MODULE MCOptimizer -----------------------------
(***************************************************************************)
(* Knowledge bases and thresholds for checking Optimizer.                  *)
(***************************************************************************)
EXTENDS Optimizer

Item(k, v) == [key |-> k, value |-> v]
Line(k, config) == [key |-> k, config |-> config]

\* A key given twice, a malformed item, a bad number, an unknown key, two
\* values for one file, and a line that is no assignment.
MCKnowledgeBases ==
  { <<>>,
    << Line("cpu", <<Item("hugepages", "few")>>),
       Line("cpu", <<Item(NoKey, "none"), Item("cpu_governor", "performance")>>),
       Line("memory", <<Item("hugepages", "many"), Item("hugepages", "512"),
                        Item("hugepages", "1024"), Item("vm.swappiness", "10")>>),
       Line(NoKey, <<>>),
       Line("network", <<Item("net.core.rmem_max", "big"), Item("net.core.wmem_max", "big"),
                         Item("tcp_rmem", "big")>>),
       Line("storage", <<Item("vm.dirty_ratio", "10")>>) >>,
    << Line("cpu", <<Item("cpu_governor", "performance"), Item("irq_affinity", "f")>>),
       Line("network", <<Item("tcp_wmem", "big"), Item("cpu_governor", "powersave")>>) >> }

MCAbsent == {"maxsockbuf"}
MCNumbers == {"512", "1024"}

\* The defaults of main(), and the limits of what is accepted.
Default == [cpu |-> 80, memory |-> 90, network |-> 1, storage |-> 1]
MCThresholds == {Default, [Default EXCEPT !.cpu = 100]}
==============================================================================
