---- MODULE MCAlignment ----
(* Train commands on hosts that differ in memory, engines and GPUs.        *)
EXTENDS Alignment

Gpu(name, backend, now, levels) ==
    [name |-> name, backend |-> backend, integrated |-> FALSE, external |-> name = "box",
     amd |-> name = "amd", free |-> now, total |-> 24576, levels |-> levels]
Host(gib, drivers, mlx, gpus) ==
    [ram |-> gib * 1024, cpus |-> 8, drivers |-> drivers, compiled |-> {}, mlx |-> mlx, gpus |-> gpus]

Cuda == Host(32, {"cuda"}, FALSE, <<Gpu("one", "cuda", 11500, {11500, 11300, 9000})>>)
TwoCuda == Host(64, {"cuda", "vulkan"}, FALSE,
                <<Gpu("one", "cuda", 24000, {24000, 12000}), Gpu("amd", "vulkan", 8000, {8000})>>)
FullGpu == Host(32, {"vulkan"}, FALSE,
                <<Gpu("one", "vulkan", 12000, {12000}), Gpu("two", "vulkan", 500, {500, 8000})>>)
Mac == Host(24, {"metal"}, TRUE, <<Gpu("inner", "metal", 16000, {16000}), Gpu("box", "metal", 16000, {16000})>>)
Linux == Host(32, {"cuda"}, TRUE, <<Gpu("one", "cuda", 24000, {24000}), Gpu("two", "cuda", 24000, {24000})>>)
Plain == Host(16, {}, FALSE, <<>>)
SmallHost == Host(8, {}, FALSE, <<>>)

Sized(size, limit, hybrid) == [size |-> size, limit |-> limit, blocks |-> 24, hybrid |-> hybrid]
Dense == Sized(8192, 4096, FALSE)
Light == Sized(2048, 1030, FALSE)
Mixed == Sized(4096, 0, TRUE)

Row(has, prompt, reward) == [has |-> has, prompt |-> prompt, reward |-> reward]
Pairs == <<Row({"prompt", "chosen", "rejected"}, 1, 0), Row({"ranked", "shared"}, 2, 0)>>
Scored == <<Row({"prompt", "response", "reward"}, 1, 1), Row({"prompt", "response", "label"}, 1, 0)>>
Single == <<Row({"prompt", "response", "reward"}, 1, 1)>>
Media == <<Row({"prompt", "chosen", "rejected", "media"}, 1, 0)>>

FineTune(host, gguf, full, longest) ==
    [host |-> host, gguf_model |-> gguf, mlx |-> NoModel, engine |-> "auto", accelerator |-> "auto",
     multi |-> "auto", auto |-> TRUE, full |-> full, resume |-> FALSE, file |-> FALSE,
     media |-> FALSE, raw |-> FALSE, raw_records |-> FALSE, context |-> 0, gguf |-> 0,
     verified |-> 0, rows |-> 8, epochs |-> 1, rate |-> FALSE,
     longest |-> [e \in {"mlx", "llama.cpp"} |-> IF e = "mlx" THEN longest ELSE longest + 40],
     stage |-> "fine-tuning", type |-> "none", live |-> FALSE, samples |-> 1, iterations |-> 1,
     records |-> <<>>]

Aligned(r, stage, type, live, records) ==
    [r EXCEPT !.stage = stage, !.type = type, !.live = live, !.records = records,
              !.samples = IF live THEN 2 ELSE 1, !.iterations = IF live THEN 1 ELSE 2]

OnMac == [FineTune(Mac, Light, TRUE, 300) EXCEPT !.mlx = Light]
OnLinux == [FineTune(Linux, NoModel, FALSE, 0) EXCEPT !.mlx = Light]
Manual == [FineTune(Plain, Light, TRUE, 900) EXCEPT !.auto = FALSE]

MCRequests ==
    {FineTune(Cuda, Dense, TRUE, 700), FineTune(TwoCuda, Mixed, FALSE, 0),
     [FineTune(TwoCuda, Mixed, FALSE, 0) EXCEPT !.accelerator = "cuda"],
     FineTune(FullGpu, Light, FALSE, 0),
     [FineTune(Plain, Light, TRUE, 926) EXCEPT !.epochs = 2],
     [FineTune(Cuda, Light, FALSE, 0) EXCEPT !.gguf = 6, !.multi = "on"],
     [FineTune(Plain, Light, FALSE, 0) EXCEPT !.gguf = 6, !.context = 100],
     [FineTune(Plain, Dense, TRUE, 5000) EXCEPT !.verified = 2000],
     [FineTune(Plain, Light, FALSE, 0) EXCEPT !.rows = 3],
     FineTune(Plain, Light, TRUE, 5000), FineTune(SmallHost, Light, FALSE, 0),
     [Manual EXCEPT !.verified = 500, !.context = 300],
     [Manual EXCEPT !.full = FALSE, !.context = 2000],
     [OnMac EXCEPT !.full = FALSE], [OnMac EXCEPT !.accelerator = "vulkan"],
     [OnMac EXCEPT !.auto = FALSE, !.raw = TRUE],
     [OnMac EXCEPT !.media = TRUE, !.engine = "llama.cpp"],
     [Manual EXCEPT !.media = TRUE], [Manual EXCEPT !.raw = TRUE, !.resume = TRUE],
     [Manual EXCEPT !.file = TRUE, !.full = FALSE, !.mlx = Light, !.accelerator = "cuda"],
     Aligned(OnMac, "fine-tune-align", "none", FALSE, Pairs),
     Aligned(Manual, "fine-tune-align", "grpo", TRUE, Scored),
     Aligned(Manual, "fine-tune-align", "none", FALSE, Media),
     [Aligned(Manual, "fine-tune-align", "none", FALSE, Scored) EXCEPT !.resume = TRUE],
     Aligned(OnMac, "alignment", "kto", TRUE, Single),
     Aligned(FineTune(Cuda, Light, FALSE, 0), "alignment", "rloo", TRUE, <<Pairs[1]>>),
     Aligned(FineTune(Plain, Light, FALSE, 0), "alignment", "reinforce", FALSE, Scored),
     [Aligned(Manual, "alignment", "grpo", TRUE, Single) EXCEPT !.samples = 1],
     [Aligned(Manual, "alignment", "ppo", FALSE, Scored) EXCEPT !.iterations = 0],
     Aligned(Manual, "alignment", "grpo", TRUE, Single), Aligned(Manual, "alignment", "grpo", FALSE, Single),
     [Aligned(OnMac, "alignment", "ppo", FALSE, Scored) EXCEPT !.auto = FALSE, !.accelerator = "mps"],
     [Aligned(OnLinux, "alignment", "rloo", TRUE, Pairs) EXCEPT !.multi = "on"],
     [Aligned(Manual, "alignment", "none", FALSE, Pairs) EXCEPT !.raw_records = TRUE]}

(* The host whose memory the trainer guards.                               *)
LowRequests == {FineTune(SmallHost, Light, FALSE, 0)}
====
