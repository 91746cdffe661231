---- MODULE Devices ----
(***************************************************************************)
(* What a host computes on: the engine, the llama.cpp backend and the plan *)
(* that spreads a model over its GPUs (hardware.py, multi_gpu.py).         *)
(*                                                                         *)
(* A host is [ram, drivers, compiled, mlx, gpus]: memory in MiB; the       *)
(* backends whose drivers are there; those llama.cpp was built for, {} if  *)
(* it was not; whether MLX can run; and, of each GPU, its name and memory, *)
(* the levels that its free memory may have among it.  Memory that a       *)
(* backend does not report is 0.  A device is its place in the report.     *)
(***************************************************************************)
EXTENDS Integers, Sequences, FiniteSets, FiniteSetsExt

Accelerators == {"metal", "cuda", "vulkan", "cpu"}
Refused == "refused"

Least(a, b) == IF a < b THEN a ELSE b
Most(a, b) == IF a < b THEN b ELSE a

Gpus == [name : STRING, backend : STRING, integrated : BOOLEAN, external : BOOLEAN,
         amd : BOOLEAN, free : Nat, total : Nat, levels : SUBSET Nat]
Hosts == [ram : Nat, cpus : Nat \ {0}, drivers : SUBSET Accelerators,
          compiled : SUBSET Accelerators, mlx : BOOLEAN, gpus : Seq(Gpus)]

(* The first of the GPU backends that is in a set, or the CPU.             *)
FirstGpu(ready) == IF "metal" \in ready THEN "metal"
                   ELSE IF "cuda" \in ready THEN "cuda"
                   ELSE IF "vulkan" \in ready THEN "vulkan" ELSE "cpu"

detect_hardware(host) ==
    FirstGpu(IF host.compiled = {} THEN host.drivers ELSE host.compiled \cap host.drivers)

select_engine(requested, host) ==
    IF requested # "auto" THEN requested ELSE IF host.mlx THEN "mlx" ELSE "llama.cpp"

select_llama_accelerator(requested, host) ==
    CASE requested = "auto" -> detect_hardware(host)
      [] requested = "cpu"  -> "cpu"
      [] requested # "auto" /\ requested # "cpu" ->
           IF /\ requested \in host.drivers
              /\ host.compiled # {} => requested \in host.compiled
           THEN requested ELSE Refused

-----------------------------------------------------------------------------
(* The members of a set of places, in the order of the report.             *)
InOrder(places, n) ==
    LET upto[i \in 0..n] == IF i = 0 THEN <<>>
                            ELSE IF i \in places THEN Append(upto[i - 1], i) ELSE upto[i - 1]
    IN  upto[n]

(* The GPUs a backend reports, all of Metal's if none is discrete and the  *)
(* external ones first, none but dedicated ones of Vulkan; a dedicated AMD *)
(* card is taken along by CUDA if the backend was chosen automatically.    *)
llama_devices(requested, accelerator, gpus) ==
    LET Of(backend) == {i \in DOMAIN gpus : gpus[i].backend = backend}
        Discrete(backend) == {i \in Of(backend) : ~gpus[i].integrated}
        External == {i \in DOMAIN gpus : gpus[i].external}
        Amd == {i \in DOMAIN gpus : requested = "auto" /\ gpus[i].amd}
        Listed(places) == InOrder(places, Len(gpus))
    IN  IF accelerator = "cpu" THEN <<>>
        ELSE IF accelerator = "vulkan" THEN Listed(Discrete("vulkan"))
        ELSE IF accelerator = "cuda"
        THEN Listed(Of("cuda")) \o Listed(Discrete("vulkan") \cap Amd)
        ELSE IF Discrete("metal") = {} THEN Listed(Of("metal"))
        ELSE Listed(Discrete("metal") \cap External) \o Listed(Discrete("metal") \ External)

(* Memory that may hold a shard: all but a tenth, and but 512 MiB; a       *)
(* weight is rounded, so that of a full GPU is zero.                       *)
Usable(memory) == Most(0, memory - Most(512, memory \div 10))

Plan(split, main) == [split |-> split, main |-> main]

(* Shards in proportion to the free memory, or the total where that is not *)
(* known; the largest GPU holds the shared buffers.                        *)
automatic_llama_device_plan(gpus) ==
    LET free == \A i \in DOMAIN gpus : gpus[i].free > 0
        total == \A i \in DOMAIN gpus : gpus[i].total > 0
        available(g) == IF free THEN g.free ELSE g.total
        physical(g) == IF total THEN g.total ELSE available(g)
        largest == {i \in DOMAIN gpus : \A j \in DOMAIN gpus : physical(gpus[j]) <= physical(gpus[i])}
    IN  IF Len(gpus) < 2 \/ ~(free \/ total) THEN Plan(<<>>, 1)
        ELSE Plan([i \in DOMAIN gpus |-> Usable(available(gpus[i]))], Min(largest))

(* The devices of a run: those asked for or those found, the first of them *)
(* where several are not wanted.                                           *)
ChosenDevices(accelerator, multi, gpus) ==
    IF accelerator = "cpu" THEN <<>>
    ELSE IF multi = "off" /\ gpus # <<>> THEN <<gpus[1]>> ELSE gpus

NotEnoughDevices(accelerator, multi, gpus) ==
    \/ multi = "on" /\ Len(gpus) < 2
    \/ accelerator # "cpu" /\ gpus = <<>>

(* The settings llama.cpp's device flags can express.                      *)
llama_device_arguments(multi, gpus, split) ==
    /\ multi = "on" /\ gpus # <<>> => Len(gpus) > 1
    /\ \A i \in DOMAIN split : split[i] > 0
    /\ multi # "off" /\ gpus # <<>> /\ split # <<>> => Len(split) = Len(gpus)
====
