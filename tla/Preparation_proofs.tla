---- MODULE Preparation_proofs ----
(***************************************************************************)
(* Proofs about Preparation, for any requests, hosts and models: what the  *)
(* steps from a training command to the trainer keep true.  The theorems   *)
(* of whole commands, with their alignment, are in Alignment_proofs.       *)
(***************************************************************************)
EXTENDS Preparation, SequenceTheorems, WellFoundedInduction, TLAPS

-----------------------------------------------------------------------------
(* A set of numbers that is not empty has a least one.                     *)
LEMMA LeastNumber == ASSUME NEW T, T \subseteq Nat, T # {} PROVE \E m \in T : \A y \in T : m <= y
<1>1. PICK m \in T : \A y \in T : ~ (<<y, m>> \in OpToRel(<, Nat))
  BY WFMin, NatLessThanWellFounded, Zenon
<1>2. \A y \in T : y < m => <<y, m>> \in OpToRel(<, Nat)
  BY DEF OpToRel
<1>3. \A y \in T : ~(y < m)
  BY <1>1, <1>2
<1> QED
  BY <1>3

(* One that has an upper bound has a greatest one.                         *)
LEMMA GreatestNumber ==
    ASSUME NEW S, S \subseteq Nat, S # {}, NEW b \in Nat, \A x \in S : x <= b
    PROVE  \E x \in S : \A y \in S : y <= x
<1> DEFINE T == {b - x : x \in S}
<1>1. \A x \in S : b - x \in Nat
  OBVIOUS
<1>2. PICK m \in T : \A y \in T : m <= y
  <2>1. T \subseteq Nat /\ T # {}
    BY <1>1
  <2> QED
    BY <2>1, LeastNumber
<1>3. PICK x \in S : m = b - x
  OBVIOUS
<1>4. \A y \in S : m <= b - y
  BY <1>2
<1> QED
  BY <1>3, <1>4

(* So has every set of numbers up to one.                                  *)
LEMMA GreatestUpTo == ASSUME NEW b \in Nat, NEW S, S \subseteq 0..b, S # {}
                      PROVE  \E x \in S : \A y \in S : y <= x
<1>1. S \subseteq Nat /\ \A x \in S : x <= b
  OBVIOUS
<1> QED
  BY <1>1, GreatestNumber

-----------------------------------------------------------------------------
(* Padding: the next multiple, less than one batch away.                   *)
LEMMA Padding == ASSUME NEW n \in Nat, NEW b \in Nat \ {0}
                 PROVE  /\ PadTo(n, b) \in Nat /\ n <= PadTo(n, b) /\ PadTo(n, b) < n + b
                        /\ PadTo(n, b) % b = 0
<1>1. ((n + b - 1) \div b) * b >= n /\ ((n + b - 1) \div b) * b < n + b
  OBVIOUS
<1>2. (n + b - 1) \div b \in Nat
  OBVIOUS
<1>3. \A q \in Nat : q * b \in Nat /\ (q * b) % b = 0
  OBVIOUS
<1> QED
  BY <1>1, <1>2, <1>3 DEF PadTo, CeilDiv

(* The largest batch that divides a context exists: one divides them all.  *)
LEMMA Dividing == ASSUME NEW c \in Nat, NEW p \in Nat \ {0}
                  PROVE  DividingBatch(c, p) \in 1..p /\ c % DividingBatch(c, p) = 0
<1> DEFINE S == {b \in 1..p : c % b = 0}
<1>1. 1 \in S /\ S \subseteq 0..p
  OBVIOUS
<1>2. PICK x \in S : \A y \in S : y <= x
  <2> HIDE DEF S
  <2> QED
    BY <1>1, GreatestUpTo
<1>3. x \in 1..p /\ c % x = 0 /\ \A y \in (x + 1)..p : c % y # 0
  BY <1>2
<1> QED
  BY <1>3 DEF DividingBatch

-----------------------------------------------------------------------------
(* The tables of presets hold settings at each of their four places.       *)
LEMMA PresetsTyped == \A i \in 1..4 : MlxPresets[i] \in Settings /\ LlamaPresets[i] \in Settings
<1> USE DEF MlxPresets, LlamaPresets, Preset, Settings, Profiles
<1>1. MlxPresets[1] \in Settings /\ LlamaPresets[1] \in Settings
  OBVIOUS
<1>2. MlxPresets[2] \in Settings /\ LlamaPresets[2] \in Settings
  OBVIOUS
<1>3. MlxPresets[3] \in Settings /\ LlamaPresets[3] \in Settings
  OBVIOUS
<1>4. MlxPresets[4] \in Settings /\ LlamaPresets[4] \in Settings
  OBVIOUS
<1> HIDE DEF MlxPresets, LlamaPresets, Preset, Settings, Profiles
<1>5. \A i \in 1..4 : i = 1 \/ i = 2 \/ i = 3 \/ i = 4
  OBVIOUS
<1> QED
  BY <1>1, <1>2, <1>3, <1>4, <1>5

(* Automatic settings are settings, with a context that the trainer takes, *)
(* and of a hybrid model one module of one layer is adapted.               *)
LEMMA Selecting ==
    ASSUME NEW model \in Models, NEW e, NEW ram \in Nat, NEW cpus \in Nat \ {0},
           NEW limit \in 1..4, NEW s, s = select_auto_settings(model, e, ram, cpus, limit)
    PROVE  /\ s \in Settings /\ s.context >= 32
           /\ e = "llama.cpp" /\ model.hybrid => s.layers = 1 /\ ~s.several
<1> DEFINE place == Least(Profile(model, ram), limit)
           preset == IF e = "mlx" THEN MlxPresets[place] ELSE LlamaPresets[place]
           context == Most(32, Known(model.limit, preset.context))
           hybrid == e = "llama.cpp" /\ model.hybrid
           layers == IF hybrid THEN 1 ELSE preset.layers
<1>1. place \in 1..4
  BY DEF Profile, Least
<1>2. preset \in Settings
  BY <1>1, PresetsTyped
<1>3. model.limit \in Nat /\ model.blocks \in Nat /\ model.hybrid \in BOOLEAN
  BY DEF Models
<1> HIDE DEF preset
<1>4. context \in Nat \ {0} /\ context >= 32
  <2>1. preset.context \in Nat
    BY <1>2 DEF Settings
  <2> QED
    BY <1>3, <2>1 DEF Most, Known, Least
<1> HIDE DEF context
<1>5. DividingBatch(context, preset.gguf) \in Nat \ {0}
  <2>1. preset.gguf \in Nat \ {0} /\ context \in Nat
    BY <1>2, <1>4 DEF Settings
  <2>2. DividingBatch(context, preset.gguf) \in 1..preset.gguf
    BY <2>1, Dividing
  <2> QED
    BY <2>1, <2>2
<1> DEFINE l == Most(1, Known(model.blocks, layers))
           t == Least(preset.threads, cpus)
           g == DividingBatch(context, preset.gguf)
           v == preset.several /\ ~hybrid
<1>6. l \in Nat \ {0} /\ (hybrid => l = 1)
  <2>1. layers \in Nat /\ (hybrid => layers = 1)
    BY <1>2 DEF Settings
  <2> HIDE DEF layers, hybrid
  <2> QED
    BY <1>3, <2>1 DEF Most, Known, Least
<1>7. t \in Nat \ {0} /\ v \in BOOLEAN /\ (hybrid => ~v)
  BY <1>2 DEF Least, Settings
<1>8. s = [preset EXCEPT !.context = context, !.layers = l, !.several = v, !.threads = t,
                         !.gguf = g]
  BY DEF select_auto_settings, preset, context
<1> HIDE DEF l, t, g, v
<1>9. s \in Settings
  BY <1>2, <1>4, <1>5, <1>6, <1>7, <1>8 DEF Settings, g
<1>10. s.context = context /\ s.layers = l /\ s.several = v
  BY <1>2, <1>8 DEF Settings
<1> QED
  BY <1>4, <1>6, <1>7, <1>9, <1>10

(* A context that is required replaces that of the settings, and what it   *)
(* is paid for with does not grow.                                         *)
LEMMA Fitting ==
    ASSUME NEW s \in Settings, NEW n \in Nat, n >= 32, NEW t, t = FitRequiredContext(s, n)
    PROVE  /\ t \in Settings /\ t.context = n /\ t.several = s.several
           /\ s.layers = 1 => t.layers = 1
<1> DEFINE Within(r, m) == r * r * n <= m * m * s.context
           Shrunk(m) == IF n <= s.context THEN m
                        ELSE CHOOSE r \in 0..m : Within(r, m) /\ \A q \in (r + 1)..m : ~Within(q, m)
<1>1. ASSUME NEW m \in Nat PROVE Shrunk(m) \in 0..m
  <2> DEFINE S == {r \in 0..m : Within(r, m)}
  <2>1. 0 \in S
    <3>1. m * m * s.context \in Nat
      BY DEF Settings
    <3>2. 0 * 0 * n = 0
      OBVIOUS
    <3> QED
      BY <3>1, <3>2
  <2>2. PICK x \in S : \A y \in S : y <= x
    <3>1. S \subseteq 0..m
      OBVIOUS
    <3> HIDE DEF S
    <3> QED
      BY <2>1, <3>1, GreatestUpTo
  <2> HIDE DEF Within
  <2>3. x \in 0..m /\ Within(x, m) /\ \A q \in (x + 1)..m : ~Within(q, m)
    BY <2>2
  <2> QED
    BY <2>3
<1> HIDE DEF Shrunk
<1>2. /\ s.rank \in Nat /\ s.layers \in Nat \ {0} /\ s.gguf \in Nat
      /\ s.batch \in Nat /\ s.context \in Nat \ {0}
  BY DEF Settings
<1> DEFINE b == Most(1, s.batch \div Most(1, CeilDiv(n, s.context)))
           r == Most(2, Shrunk(s.rank))
           l == Most(1, Shrunk(s.layers))
           g == Most(1, Shrunk(s.gguf))
<1>3. /\ r \in Nat \ {0} /\ l \in Nat \ {0} /\ g \in Nat \ {0}
      /\ s.layers = 1 => l = 1
  BY <1>1, <1>2 DEF Most
<1>4. b \in Nat \ {0}
  <2>1. CeilDiv(n, s.context) \in Nat
    BY <1>2 DEF CeilDiv
  <2>2. Most(1, CeilDiv(n, s.context)) \in Nat \ {0}
    BY <2>1 DEF Most
  <2> QED
    BY <1>2, <2>2 DEF Most
<1>5. t = [s EXCEPT !.context = n, !.batch = b, !.rank = r, !.layers = l, !.gguf = g]
  BY DEF FitRequiredContext, Shrunk
<1> HIDE DEF b, r, l, g
<1>6. n \in Nat \ {0}
  OBVIOUS
<1>7. t \in Settings
  BY <1>3, <1>4, <1>5, <1>6 DEF Settings
<1>8. t.context = n /\ t.several = s.several /\ t.layers = l
  BY <1>5 DEF Settings
<1> QED
  BY <1>3, <1>7, <1>8

(* The greatest of some positive numbers is one of them.                   *)
LEMMA Greatest == ASSUME NEW b \in Nat, NEW S, S \subseteq 1..b, S # {}
                  PROVE  Max(S) \in Nat \ {0}
<1>1. S \subseteq 0..b
  OBVIOUS
<1>2. PICK x \in S : \A y \in S : y <= x
  BY <1>1, GreatestUpTo, Zenon
<1>3. \A y \in S : x >= y
  BY <1>1, <1>2
<1>4. Max(S) \in S
  BY <1>3, Zenon DEF Max
<1>5. Max(S) \in 1..b
  BY <1>4, Zenon
<1> DEFINE m == Max(S)
<1> HIDE DEF m
<1>6. m \in 1..b
  BY <1>5 DEF m
<1>7. m \in Nat \ {0}
  BY <1>6
<1> QED
  BY <1>7 DEF m

(* A number has a root.                                                    *)
LEMMA Rooted == ASSUME NEW n \in Nat PROVE Root(n) \in 0..n
<1> DEFINE S == {r \in 0..n : r * r <= n}
<1>1. S \subseteq 0..n /\ S # {}
  <2>1. 0 \in 0..n /\ 0 * 0 <= n
    OBVIOUS
  <2> QED
    BY <2>1
<1>2. PICK r \in S : \A q \in S : q <= r
  BY <1>1, GreatestUpTo, Zenon
<1>3. r \in 0..n /\ r * r <= n
  OBVIOUS
<1>4. n < (r + 1) * (r + 1)
  <2>1. CASE r + 1 \in 0..n
    <3>1. r + 1 \notin S
      BY <1>2, <1>3
    <3> QED
      BY <1>3, <2>1, <3>1
  <2>2. CASE r + 1 \notin 0..n
    <3>1. r = n
      BY <1>3, <2>2
    <3>2. n + 1 <= (n + 1) * (n + 1)
      OBVIOUS
    <3> QED
      BY <3>1, <3>2
  <2> QED
    BY <2>1, <2>2
<1> QED
  BY <1>3, <1>4 DEF Root

(* The greatest of one and some other positive numbers is positive.        *)
LEMMA GreatestOrOne ==
    ASSUME NEW b \in Nat \ {0}, NEW W, W \subseteq 1..b PROVE Max({1} \cup W) \in Nat \ {0}
<1> DEFINE S == {1} \cup W
<1>1. S \subseteq 1..b /\ S # {}
  OBVIOUS
<1> HIDE DEF S
<1>2. Max(S) \in Nat \ {0}
  BY <1>1, Greatest
<1> QED
  BY <1>2 DEF S

(* A pilot starts with a microbatch of at least one.                       *)
LEMMA Microbatch ==
    ASSUME NEW s \in Settings, NEW model, NEW budget, NEW accelerator, NEW gpus, NEW split
    PROVE  PilotMicrobatch(s, model, budget, accelerator, gpus, split) \in Nat \ {0}
<1> DEFINE left == Least(Headroom(model, budget, gpus, split), model.size)
           Holds(p) == model.limit = 0 \/ PadTo(s.context, p) <= model.limit
           share == Root(s.context) * left
           within == {p \in 1..Root(s.context) :
                         PowerOfTwo(p) /\ p * model.size <= share /\ Holds(p)}
           most == Max({1} \cup within)
<1>1. most \in Nat \ {0}
  <2>1. s.context \in Nat \ {0}
    BY DEF Settings
  <2>2. within \subseteq 1..Root(s.context)
    OBVIOUS
  <2> HIDE DEF within
  <2>3. within \subseteq 1..s.context
    BY <2>1, <2>2, Rooted
  <2> QED
    BY <2>1, <2>3, GreatestOrOne
<1>2. s.gguf \in Nat \ {0}
  BY DEF Settings
<1>3. \/ PilotMicrobatch(s, model, budget, accelerator, gpus, split) = s.gguf
      \/ PilotMicrobatch(s, model, budget, accelerator, gpus, split)
            = Least(Most(s.gguf, most), Most(s.gguf, 64))
      \/ PilotMicrobatch(s, model, budget, accelerator, gpus, split) = Most(s.gguf, most)
  BY DEF PilotMicrobatch
<1> HIDE DEF most
<1> QED
  BY <1>1, <1>2, <1>3 DEF Least, Most

(* The context of the score is one the trainer takes with that of the run. *)
LEMMA Scoring ==
    ASSUME NEW largest \in Nat, NEW c \in Nat, c >= 32, NEW b \in Nat \ {0}, c % b = 0
    PROVE  /\ EvaluationContext(largest, c, b) \in 32..c
           /\ EvaluationContext(largest, c, b) % b = 0
<1> DEFINE needed == Most(Least(c, Most(256, b)), largest + 512)
           least == Least(c, needed)
           padded == PadTo(least, b)
<1>1. least \in Nat /\ least >= 32
  BY DEF Least, Most
<1>2. padded \in Nat /\ padded >= 32 /\ padded % b = 0
  <2> HIDE DEF least
  <2> QED
    BY <1>1, Padding
<1>3. EvaluationContext(largest, c, b) = Least(c, padded)
  BY DEF EvaluationContext
<1> HIDE DEF padded
<1> QED
  BY <1>2, <1>3 DEF Least

(* A native run gets at least the context it was configured for and less   *)
(* than a batch more, in whole batches that are not larger.                *)
LEMMA NativeFitting ==
    ASSUME NEW c \in Nat \ {0}, NEW b \in Nat \ {0}, NEW limit \in Nat,
           NEW f, f = FitGgufContext(c, b, limit)
    PROVE  /\ f[1] \in Nat \ {0} /\ f[2] \in 1..b /\ c <= f[1] /\ f[1] < c + f[2]
           /\ c >= 32 => f[1] % f[2] = 0
<1>1. CASE c < 32 \/ b < 1 \/ c % b = 0
  BY <1>1 DEF FitGgufContext
<1>2. CASE ~(c < 32 \/ b < 1 \/ c % b = 0) /\ (limit = 0 \/ PadTo(c, b) <= limit)
  <2>1. f = <<PadTo(c, b), b>>
    BY <1>2 DEF FitGgufContext
  <2> QED
    BY <2>1, Padding
<1>3. CASE ~(c < 32 \/ b < 1 \/ c % b = 0) /\ ~(limit = 0 \/ PadTo(c, b) <= limit)
  <2>1. f = <<c, DividingBatch(c, b)>>
    BY <1>3 DEF FitGgufContext
  <2>2. DividingBatch(c, b) \in 1..b /\ c % DividingBatch(c, b) = 0
    BY Dividing
  <2> QED
    BY <2>1, <2>2
<1> QED
  BY <1>1, <1>2, <1>3

-----------------------------------------------------------------------------
(* A function defined along the numbers up to one exists.                  *)
Grows(g, W, n) == g = [i \in 0..n |-> IF i = 0 THEN <<>>
                                      ELSE IF i \in W THEN Append(g[i - 1], i) ELSE g[i - 1]]

LEMMA InOrderGrows ==
    ASSUME NEW n \in Nat, NEW W
    PROVE  \E g : InOrder(W, n) = g[n] /\ Grows(g, W, n)
<1> DEFINE F(f, m) == [i \in 0..m |-> IF i = 0 THEN <<>>
                                     ELSE IF i \in W THEN Append(f[i - 1], i) ELSE f[i - 1]]
           T == {m \in Nat : ~ \E f : f = F(f, m)}
           g == CHOOSE f : f = F(f, n)
<1>1. T = {}
  <2> SUFFICES ASSUME T # {} PROVE FALSE
    OBVIOUS
  <2>1. PICK m \in T : \A y \in T : m <= y
    <3>1. T \subseteq Nat
      OBVIOUS
    <3> HIDE DEF T
    <3> QED
      BY <3>1, LeastNumber
  <2>2. CASE m = 0
    <3>1. [i \in 0..0 |-> <<>>] = F([i \in 0..0 |-> <<>>], 0)
      OBVIOUS
    <3> QED
      BY <2>2, <3>1
  <2>3. CASE m # 0
    <3>1. m - 1 \in Nat /\ m - 1 \notin T
      <4>1. m \in Nat
        BY <2>1
      <4> HIDE DEF T
      <4> QED
        BY <2>1, <2>3, <4>1
    <3>2. PICK f : f = F(f, m - 1)
      BY <3>1
    <3> DEFINE last == IF m \in W THEN Append(f[m - 1], m) ELSE f[m - 1]
               h == [i \in 0..m |-> IF i = m THEN last ELSE f[i]]
    <3>3. h = F(h, m)
      <4>1. ASSUME NEW i \in 0..m PROVE h[i] = F(h, m)[i]
        <5>1. CASE i = 0
          <6>1. h[0] = f[0] /\ f[0] = <<>>
            BY <2>3, <3>1, <3>2
          <6> QED
            BY <5>1, <6>1
        <5>2. CASE i # 0 /\ i # m
          <6>1. h[i] = f[i] /\ h[i - 1] = f[i - 1] /\ i \in 0..(m - 1)
            BY <5>2, <3>1
          <6>2. f[i] = IF i \in W THEN Append(f[i - 1], i) ELSE f[i - 1]
            BY <3>2, <5>2, <6>1
          <6> QED
            BY <5>2, <6>1, <6>2
        <5>3. CASE i = m
          <6>1. h[i - 1] = f[i - 1] /\ h[i] = last
            BY <5>3, <2>3
          <6> QED
            BY <5>3, <2>3, <6>1
        <5> QED
          BY <5>1, <5>2, <5>3
      <4> HIDE DEF last
      <4> QED
        BY <4>1
    <3> QED
      BY <3>3, <2>1
  <2> QED
    BY <2>2, <2>3
<1>2. g = F(g, n)
  <2>1. \E f : f = F(f, n)
    BY <1>1
  <2> HIDE DEF F
  <2> QED
    BY <2>1
<1>3. InOrder(W, n) = g[n]
  BY DEF InOrder, g
<1>4. Grows(g, W, n)
  BY <1>2 DEF Grows
<1> HIDE DEF g
<1> QED
  BY <1>3, <1>4, Zenon

(* The places it collects are the wanted ones.                             *)
LEMMA InOrderTyped == ASSUME NEW n \in Nat, NEW W, W \subseteq Nat PROVE InOrder(W, n) \in Seq(W)
<1>0. PICK g : InOrder(W, n) = g[n] /\ Grows(g, W, n)
  BY InOrderGrows
<1>1. /\ InOrder(W, n) = g[n]
      /\ g = [i \in 0..n |-> IF i = 0 THEN <<>>
                             ELSE IF i \in W THEN Append(g[i - 1], i) ELSE g[i - 1]]
  BY <1>0 DEF Grows
<1> DEFINE U == {i \in 0..n : g[i] \notin Seq(W)}
<1>2. U = {}
  <2> SUFFICES ASSUME U # {} PROVE FALSE
    OBVIOUS
  <2>1. PICK m \in U : \A y \in U : m <= y
    <3>1. U \subseteq Nat
      OBVIOUS
    <3> HIDE DEF U
    <3> QED
      BY <3>1, LeastNumber
  <2>2. m # 0
    BY <1>1
  <2>3. g[m - 1] \in Seq(W)
    <3>1. m - 1 \in 0..n /\ m - 1 \notin U
      <4>1. m \in 0..n
        BY <2>1
      <4> HIDE DEF U
      <4> QED
        BY <2>1, <2>2, <4>1
    <3> QED
      BY <3>1
  <2>4. g[m] = IF m \in W THEN Append(g[m - 1], m) ELSE g[m - 1]
    BY <1>1, <2>2
  <2>5. g[m] \in Seq(W)
    BY <2>3, <2>4
  <2> QED
    BY <2>1, <2>5
<1>3. n \in 0..n /\ n \notin U
  BY <1>2
<1> QED
  BY <1>0, <1>3

(* It collects all of them.                                                *)
LEMMA InOrderLists ==
    ASSUME NEW n \in Nat, NEW W, W \subseteq Nat, NEW w \in W, w \in 1..n
    PROVE  \E j \in DOMAIN InOrder(W, n) : InOrder(W, n)[j] = w
<1>0. PICK g : InOrder(W, n) = g[n] /\ Grows(g, W, n)
  BY InOrderGrows
<1>1. /\ InOrder(W, n) = g[n]
      /\ g = [i \in 0..n |-> IF i = 0 THEN <<>>
                             ELSE IF i \in W THEN Append(g[i - 1], i) ELSE g[i - 1]]
  BY <1>0 DEF Grows
<1> DEFINE Lists(i) == g[i] \in Seq(Nat) /\ (w <= i => \E j \in 1..Len(g[i]) : g[i][j] = w)
           U == {i \in 0..n : ~Lists(i)}
<1>2. U = {}
  <2> SUFFICES ASSUME U # {} PROVE FALSE
    OBVIOUS
  <2>1. PICK m \in U : \A y \in U : m <= y
    <3>1. U \subseteq Nat
      OBVIOUS
    <3> HIDE DEF U
    <3> QED
      BY <3>1, LeastNumber
  <2>2. m \in 0..n /\ ~Lists(m)
    BY <2>1
  <2>3. m # 0
    <3>1. g[0] = <<>> /\ ~(w <= 0)
      BY <1>1
    <3> QED
      BY <2>2, <3>1, EmptySeq
  <2>4. Lists(m - 1)
    <3>1. m - 1 \in 0..n /\ ~(m <= m - 1)
      BY <2>2, <2>3
    <3>2. m - 1 \notin U
      <4> HIDE DEF U
      <4> QED
        BY <2>1, <3>1
    <3> QED
      BY <3>1, <3>2
  <2> DEFINE before == g[m - 1]
             after == g[m]
  <2>5. after = IF m \in W THEN Append(before, m) ELSE before
    BY <1>1, <2>2, <2>3
  <2>6. before \in Seq(Nat) /\ (w <= m - 1 => \E j \in 1..Len(before) : before[j] = w)
    BY <2>4
  <2> HIDE DEF before, after
  <2>7. CASE m \notin W
    <3>1. after = before /\ (w <= m => w <= m - 1)
      BY <2>2, <2>5, <2>7
    <3>2. Lists(m)
      BY <2>6, <3>1 DEF after
    <3> QED
      BY <2>2, <3>2
  <2>8. CASE m \in W
    <3>1. /\ after \in Seq(Nat) /\ Len(after) = Len(before) + 1 /\ Len(before) \in Nat
          /\ after[Len(before) + 1] = m /\ \A j \in 1..Len(before) : after[j] = before[j]
      BY <2>2, <2>5, <2>6, <2>8, AppendProperties, LenProperties
    <3>2. ASSUME w <= m PROVE \E j \in 1..Len(after) : after[j] = w
      <4>1. CASE w = m
        <5>1. Len(before) + 1 \in 1..Len(after)
          BY <3>1
        <5> QED
          BY <3>1, <4>1, <5>1
      <4>2. CASE w <= m - 1
        <5>1. PICK j \in 1..Len(before) : before[j] = w
          BY <2>6, <4>2
        <5>2. j \in 1..Len(after) /\ after[j] = w
          BY <3>1, <5>1
        <5> QED
          BY <5>2
      <4> QED
        BY <2>2, <3>2, <4>1, <4>2
    <3>3. Lists(m)
      BY <3>1, <3>2 DEF after
    <3> QED
      BY <2>2, <3>3
  <2> QED
    BY <2>7, <2>8
<1>3. Lists(n)
  <2>1. n \in 0..n /\ n \notin U
    BY <1>2
  <2> QED
    BY <2>1
<1>4. InOrder(W, n) \in Seq(Nat) /\ \E j \in 1..Len(InOrder(W, n)) : InOrder(W, n)[j] = w
  BY <1>1, <1>3
<1> QED
  BY <1>4


-----------------------------------------------------------------------------
(* A function on the numbers up to one, into a set, is a sequence on it.   *)
LEMMA ASequence == ASSUME NEW S, NEW n \in Nat, NEW f \in [1..n -> S]
                   PROVE  f \in Seq(S) /\ Len(f) = n
OBVIOUS

(* The places collected are places of the report.                          *)
LEMMA Listing == ASSUME NEW n \in Nat, NEW W, W \subseteq 1..n PROVE InOrder(W, n) \in Seq(1..n)
<1>1. W \subseteq Nat
  OBVIOUS
<1>2. InOrder(W, n) \in Seq(W)
  BY <1>1, InOrderTyped
<1> QED
  BY <1>2, SeqMonotonic

(* The devices of a backend are places of the report.                      *)
LEMMA DevicesTyped ==
    ASSUME NEW requested, NEW accelerator, NEW gpus \in Seq(Gpus)
    PROVE  llama_devices(requested, accelerator, gpus) \in Seq(DOMAIN gpus)
<1> DEFINE Of(backend) == {i \in DOMAIN gpus : gpus[i].backend = backend}
           Discrete(backend) == {i \in Of(backend) : ~gpus[i].integrated}
           External == {i \in DOMAIN gpus : gpus[i].external}
           Amd == {i \in DOMAIN gpus : requested = "auto" /\ gpus[i].amd}
           Listed(places) == InOrder(places, Len(gpus))
           D == llama_devices(requested, accelerator, gpus)
<1>1. Len(gpus) \in Nat /\ DOMAIN gpus = 1..Len(gpus)
  OBVIOUS
<1>2. ASSUME NEW W, W \subseteq DOMAIN gpus PROVE Listed(W) \in Seq(DOMAIN gpus)
  BY <1>1, <1>2, Listing
<1>3. \A b : Of(b) \subseteq DOMAIN gpus /\ Discrete(b) \subseteq DOMAIN gpus
  OBVIOUS
<1>4. \/ D = <<>> \/ \E b : D = Listed(Of(b)) \/ D = Listed(Discrete(b))
      \/ D = Listed(Of("cuda")) \o Listed(Discrete("vulkan") \cap Amd)
      \/ D = Listed(Discrete("metal") \cap External) \o Listed(Discrete("metal") \ External)
  BY Zenon DEF llama_devices
<1>5. Discrete("vulkan") \cap Amd \subseteq DOMAIN gpus
  BY <1>3
<1>6. /\ Discrete("metal") \cap External \subseteq DOMAIN gpus
      /\ Discrete("metal") \ External \subseteq DOMAIN gpus
  BY <1>3
<1> HIDE DEF Of, Discrete, External, Amd, Listed, D
<1>7. ASSUME D = <<>> PROVE D \in Seq(DOMAIN gpus)
  BY <1>7, EmptySeq
<1>8. ASSUME \E b : D = Listed(Of(b)) \/ D = Listed(Discrete(b))
      PROVE  D \in Seq(DOMAIN gpus)
  BY <1>2, <1>3, <1>8
<1>9. ASSUME D = Listed(Of("cuda")) \o Listed(Discrete("vulkan") \cap Amd)
      PROVE  D \in Seq(DOMAIN gpus)
  BY <1>2, <1>3, <1>5, <1>9, ConcatProperties
<1>10. ASSUME D = Listed(Discrete("metal") \cap External) \o Listed(Discrete("metal") \ External)
       PROVE  D \in Seq(DOMAIN gpus)
  BY <1>2, <1>6, <1>10, ConcatProperties
<1>11. D \in Seq(DOMAIN gpus)
  BY <1>4, <1>7, <1>8, <1>9, <1>10
<1> QED
  BY <1>11 DEF D

(* Among the first numbers of a sequence there is a greatest.              *)
LEMMA LargestOf == ASSUME NEW n \in Nat \ {0}, NEW f \in [1..n -> Nat]
                   PROVE  \E i \in 1..n : \A j \in 1..n : f[j] <= f[i]
<1> DEFINE T == {m \in 1..n : ~ \E i \in 1..m : \A j \in 1..m : f[j] <= f[i]}
<1>1. T = {}
  <2> SUFFICES ASSUME T # {} PROVE FALSE
    OBVIOUS
  <2>1. PICK m \in T : \A y \in T : m <= y
    <3>1. T \subseteq Nat
      OBVIOUS
    <3> HIDE DEF T
    <3> QED
      BY <3>1, LeastNumber
  <2>2. m \in 1..n
    BY <2>1
  <2>3. m # 1
    BY <2>1
  <2>4. m - 1 \in 1..n /\ m - 1 \notin T
    <3> HIDE DEF T
    <3> QED
      BY <2>1, <2>2, <2>3
  <2>5. PICK i \in 1..(m - 1) : \A j \in 1..(m - 1) : f[j] <= f[i]
    BY <2>4
  <2>6. /\ f[i] \in Nat /\ f[m] \in Nat /\ i \in 1..m /\ m \in 1..m
        /\ \A j \in 1..m : j = m \/ j \in 1..(m - 1)
    BY <2>2
  <2>7. \A j \in 1..(m - 1) : f[j] \in Nat
    BY <2>2
  <2>8. \A k \in 1..m : \E j \in 1..m : ~(f[j] <= f[k])
    BY <2>1
  <2> HIDE DEF T
  <2>9. CASE f[i] <= f[m]
    <3>1. \A j \in 1..m : f[j] <= f[m]
      BY <2>5, <2>6, <2>7, <2>9
    <3> QED
      BY <2>6, <2>8, <3>1
  <2>10. CASE ~(f[i] <= f[m])
    <3>1. \A j \in 1..m : f[j] <= f[i]
      BY <2>5, <2>6, <2>10
    <3> QED
      BY <2>6, <2>8, <3>1
  <2> QED
    BY <2>9, <2>10
<1>2. n \notin T
  <2> HIDE DEF T
  <2> QED
    BY <1>1
<1>3. n \in 1..n
  OBVIOUS
<1> QED
  BY <1>2, <1>3

(* Shards are divided by memory if there are several devices that all      *)
(* report it, and there is one for each of them.                           *)
LEMMA Planning ==
    ASSUME NEW gpus \in Seq(Gpus), \A i \in DOMAIN gpus : gpus[i].free <= gpus[i].total,
           NEW plan, plan = automatic_llama_device_plan(gpus)
    PROVE  /\ plan \in Plans
           /\ plan.split = <<>> <=> Len(gpus) < 2 \/ \E i \in DOMAIN gpus : gpus[i].total = 0
           /\ plan.split # <<>> => Len(plan.split) = Len(gpus)
<1> DEFINE known == \A i \in DOMAIN gpus : gpus[i].free > 0
           total == \A i \in DOMAIN gpus : gpus[i].total > 0
           available(g) == IF known THEN g.free ELSE g.total
           physical(g) == IF total THEN g.total ELSE available(g)
           largest == {i \in DOMAIN gpus :
                         \A j \in DOMAIN gpus : physical(gpus[j]) <= physical(gpus[i])}
           shards == [i \in DOMAIN gpus |-> Usable(available(gpus[i]))]
<1>1. /\ Len(gpus) \in Nat /\ DOMAIN gpus = 1..Len(gpus)
      /\ \A i \in DOMAIN gpus : gpus[i].free \in Nat /\ gpus[i].total \in Nat
  <2>1. Len(gpus) \in Nat /\ DOMAIN gpus = 1..Len(gpus)
    OBVIOUS
  <2>2. \A i \in DOMAIN gpus : gpus[i] \in Gpus
    OBVIOUS
  <2>3. ASSUME NEW g \in Gpus PROVE g.free \in Nat /\ g.total \in Nat
    BY DEF Gpus
  <2> QED
    BY <2>1, <2>2, <2>3
<1>2. known => total
  BY <1>1
<1>3. total <=> ~ \E i \in DOMAIN gpus : gpus[i].total = 0
  BY <1>1
<1>4. \A i \in DOMAIN gpus : available(gpus[i]) \in Nat /\ physical(gpus[i]) \in Nat
  BY <1>1, Zenon
<1> HIDE DEF known, total
<1>5. CASE Len(gpus) < 2 \/ ~total
  <2>1. plan = Plan(<<>>, 1)
    BY <1>2, <1>5 DEF automatic_llama_device_plan, known, total
  <2>2. plan.split = <<>> /\ plan.main = 1 /\ plan = [split |-> <<>>, main |-> 1]
    BY <2>1 DEF Plan
  <2> QED
    BY <1>1, <1>3, <1>5, <2>2 DEF Plans
<1>6. CASE ~(Len(gpus) < 2 \/ ~total)
  <2>1. plan = Plan(shards, Min(largest))
    BY <1>6 DEF automatic_llama_device_plan, known, total
  <2>2. shards \in Seq(Nat) /\ Len(shards) = Len(gpus)
    <3>1. \A m \in Nat : Usable(m) \in Nat
      BY DEF Usable, Most
    <3> HIDE DEF available
    <3>2. shards \in [1..Len(gpus) -> Nat]
      BY <1>1, <1>4, <3>1
    <3> HIDE DEF shards
    <3> QED
      BY <1>1, <3>2, ASequence
  <2>3. Min(largest) \in Nat
    <3> DEFINE f == [i \in 1..Len(gpus) |-> physical(gpus[i])]
    <3>1. f \in [1..Len(gpus) -> Nat] /\ Len(gpus) \in Nat \ {0}
      BY <1>1, <1>4, <1>6
    <3>2. PICK k \in 1..Len(gpus) : \A j \in 1..Len(gpus) : f[j] <= f[k]
      <4> HIDE DEF f
      <4> QED
        BY <3>1, LargestOf
    <3>3. k \in largest
      BY <1>1, <3>2
    <3>4. largest \subseteq Nat /\ largest # {}
      BY <1>1, <3>3
    <3> HIDE DEF largest
    <3>5. PICK m \in largest : \A y \in largest : m <= y
      BY <3>4, LeastNumber
    <3>6. Min(largest) \in largest
      BY <3>5 DEF Min
    <3> QED
      BY <3>4, <3>6, Zenon
  <2> HIDE DEF shards, largest
  <2> DEFINE main == Min(largest)
  <2> HIDE DEF main
  <2>4. plan = [split |-> shards, main |-> main] /\ main \in Nat
    BY <2>1, <2>3 DEF Plan, main
  <2>5. plan \in Plans /\ plan.split = shards
    BY <2>2, <2>4 DEF Plans
  <2>6. shards # <<>>
    BY <1>1, <1>6, <2>2
  <2> QED
    BY <1>3, <1>6, <2>2, <2>5, <2>6
<1> QED
  BY <1>5, <1>6

(* The host of a command.                                                  *)
LEMMA HostAsked == ASSUME NEW r \in Requests PROVE r.host \in Hosts
  BY RequestsAssumption

(* A host names a backend to compute on, or refuses the one asked for.     *)
LEMMA AcceleratorTyped ==
    ASSUME NEW requested \in Accelerators \cup {"auto", "mps"}, NEW host \in Hosts
    PROVE  select_llama_accelerator(requested, host) \in Accelerators \cup {Refused}
<1>. host.drivers \subseteq Accelerators
  BY DEF Hosts
<1>1. \A ready : FirstGpu(ready) \in Accelerators
  BY DEF FirstGpu, Accelerators
<1>2. detect_hardware(host) \in Accelerators
  BY <1>1 DEF detect_hardware
<1>3. CASE requested = "auto"
  BY <1>2, <1>3 DEF select_llama_accelerator
<1>4. CASE requested = "cpu"
  BY <1>4 DEF select_llama_accelerator, Accelerators
<1>5. CASE requested # "auto" /\ requested # "cpu"
  BY <1>5 DEF select_llama_accelerator
<1> QED
  BY <1>3, <1>4, <1>5

-----------------------------------------------------------------------------
(* The inductive invariant.                                                *)
(* Where a command is, and what for.                                       *)
Benching(purposes) == step \in {"probe", "measured"} /\ bench.for \in purposes
Trialling == step \in {"trial", "scale"}

(* The engine is known once the model has been looked for; a benchmark has *)
(* a purpose, and a command that keeps its settings is not automatic.      *)
Course == /\ step \notin {"start", "model", "align data", "refused"} =>
                engine \in {"mlx", "llama.cpp"}
          /\ step \in {"probe", "measured"} => bench.for # "none" /\ bench.place # 0
          /\ step \in {"trial", "scale"} => bench.for = "pilot"
          /\ step = "override" => ~Automatic
          /\ step = "native" => engine = "llama.cpp"

(* What the longest record needs is known before a context is chosen.      *)
Needing == \/ step \in {"settings", "override", "again", "data", "checks", "second", "trial",
                        "scale", "train", "native"}
           \/ Benching({"settings", "fallback", "pilot"})
Needs == /\ required = 0 \/ required >= 32
         /\ step = "scan" => request.verified = 0 \/ request.verified >= 32
         /\ request.full /\ Needing => /\ required >= 32
                                       /\ request.verified = 0 => required > request.longest[engine]

(* The configuration has been sized for this engine.                       *)
Configuring == \/ step \in {"data", "checks", "second", "trial", "scale", "train", "native"}
         \/ Benching({"pilot"})
Covers == request.full /\ Configuring => config.context >= required

(* A trial is made at the context of the configuration or above it, but    *)
(* for an MLX trial with windows.                                          *)
Tries == /\ Trialling => trial.asked.context = config.context
         /\ Trialling /\ (engine = "llama.cpp" \/ request.full) =>
               trial.settings.context >= config.context

(* The rate of a run for as many examples as it sees.                      *)
Scaled == /\ config.rate.measured = trial.rate /\ config.rate.piloted <= config.rate.planned
          /\ engine = "llama.cpp" => config.rate.piloted * Planned <= config.rate.planned * Piloted

(* What the successful pilot had, before and after it is applied.          *)
Bounded == /\ config.batch <= trial.settings.batch
           /\ engine = "llama.cpp" => /\ config.gguf <= trial.settings.gguf
                                      /\ trial.settings.context >= 32
Measures == /\ step = "scale" => /\ trial.rate # 0
                                 /\ engine = "llama.cpp" => trial.settings.context >= 32
            /\ step = "train" /\ Calibrated /\ bench.for = "pilot" =>
                  /\ trial.rate # 0 /\ Scaled
                  /\ Bounded /\ config.context <= trial.settings.context

-----------------------------------------------------------------------------
(* What the native trainer asks of settings and devices.  The devices of a *)
(* host do not change, nor does whether they report their memory.          *)
Trainable(s) == s.context >= 32 /\ _validate_hybrid_training_path(s)
Unreported == \/ Len(Places) < 2
              \/ \E k \in DOMAIN Places : request.host.gpus[Places[k]].total = 0
Splits(split) == /\ split = <<>> <=> Unreported
                 /\ split # <<>> => Len(split) = Len(Places)
Sees(count, split) == /\ count = Len(Places) /\ Splits(split)
                      /\ request.multi = "on" => count >= 2

FreeBelow == \A i \in DOMAIN request.host.gpus : free[i] <= request.host.gpus[i].total
Native == engine = "llama.cpp"
Benched == Native /\ (step \in {"probe", "measured"} \/ Trialling) =>
               Trainable(bench.settings) /\ Sees(Len(bench.seen), bench.plan.split)
Sized == Native /\ AutomaticOnly /\ Configuring =>
             /\ Trainable(config) /\ Sees(config.devices, config.split)
             /\ \A i \in DOMAIN config.split : config.split[i] > 0
Tried == Native /\ Trialling => _validate_hybrid_training_path(trial.settings)
Padded == AutomaticOnly /\ step = "native" => config.context % config.gguf = 0
Named(seen) == \A k \in DOMAIN seen : \E j \in DOMAIN Found :
                   seen[k].name = request.host.gpus[Found[j]].name
Sighted == Native /\ (step \in {"probe", "measured"} \/ Trialling) =>
               /\ bench.accelerator = Accelerator /\ Accelerator \in Accelerators
               /\ Named(bench.seen)
Suitable == Benched /\ Sized /\ Tried /\ Padded /\ Sighted

PrepInv == /\ Course /\ Needs /\ Covers /\ Tries /\ Measures
           /\ FreeBelow /\ Suitable

(* The invariant that the steps from the command to the trainer keep.      *)
PrepSafe == PrepTypeOK /\ PrepInv /\ MeasuredShape

-----------------------------------------------------------------------------
(* What a command is made of.                                              *)
LEMMA Asked ==
    ASSUME NEW r \in Requests
    PROVE  /\ r.engine \in {"auto", "mlx", "llama.cpp"}
           /\ r.accelerator \in Accelerators \cup {"auto", "mps"} /\ r.auto \in BOOLEAN
           /\ r.full \in BOOLEAN /\ r.file \in BOOLEAN /\ r.media \in BOOLEAN
           /\ r.rate \in BOOLEAN /\ r.context \in Nat /\ r.gguf \in Nat /\ r.verified \in Nat
           /\ r.rows \in Nat /\ r.epochs \in Nat \ {0}
           /\ r.longest["mlx"] \in Nat /\ r.longest["llama.cpp"] \in Nat
           /\ r.mlx \in Models /\ r.gguf_model \in Models
           /\ r.host.ram \in Nat /\ r.host.cpus \in Nat \ {0} /\ r.host.gpus \in Seq(Gpus)
           /\ r.mlx.limit \in Nat /\ r.gguf_model.limit \in Nat
           /\ \A i \in DOMAIN r.host.gpus :
                 /\ r.host.gpus[i].free <= r.host.gpus[i].total
                 /\ \A n \in r.host.gpus[i].levels : n \in Nat /\ n <= r.host.gpus[i].total
<1>1. r.host \in Hosts /\ r.mlx \in Models /\ r.gguf_model \in Models
  BY RequestsAssumption
<1>2. r.host.ram \in Nat /\ r.host.cpus \in Nat \ {0} /\ r.host.gpus \in Seq(Gpus)
  BY <1>1 DEF Hosts
<1>3. r.mlx.limit \in Nat /\ r.gguf_model.limit \in Nat
  BY <1>1 DEF Models
<1>4. ASSUME NEW i \in DOMAIN r.host.gpus
      PROVE  /\ r.host.gpus[i].free <= r.host.gpus[i].total
             /\ \A n \in r.host.gpus[i].levels : n \in Nat /\ n <= r.host.gpus[i].total
  <2>1. {r.host.gpus[i].free} \cup r.host.gpus[i].levels \subseteq 0..r.host.gpus[i].total
    BY RequestsAssumption
  <2>2. r.host.gpus[i].total \in Nat
    <3>1. r.host.gpus[i] \in Gpus
      BY <1>2
    <3> QED
      BY <3>1 DEF Gpus
  <2> QED
    BY <2>1, <2>2
<1>5. r.longest["mlx"] \in Nat /\ r.longest["llama.cpp"] \in Nat
  BY RequestsAssumption
<1>6. /\ r.engine \in {"auto", "mlx", "llama.cpp"} /\ r.rate \in BOOLEAN
      /\ r.accelerator \in Accelerators \cup {"auto", "mps"}
  BY RequestsAssumption
<1>7. /\ r.auto \in BOOLEAN /\ r.full \in BOOLEAN /\ r.file \in BOOLEAN /\ r.media \in BOOLEAN
      /\ r.context \in Nat /\ r.gguf \in Nat /\ r.verified \in Nat
      /\ r.rows \in Nat /\ r.epochs \in Nat \ {0}
  BY RequestsAssumption
<1> QED
  BY <1>1, <1>2, <1>3, <1>4, <1>5, <1>6, <1>7

(* The model is one, whichever the engine.                                 *)
LEMMA ModelTyped == ASSUME PrepTypeOK PROVE Model \in Models /\ Model.limit \in Nat
<1>1. request.mlx \in Models /\ request.gguf_model \in Models
  BY Asked DEF PrepTypeOK
<1>2. Model \in Models
  BY <1>1 DEF Model
<1> QED
  BY <1>2 DEF Models

(* The devices that are chosen are places of the host's report.            *)
LEMMA PlacesTyped ==
    ASSUME PrepTypeOK
    PROVE  /\ Accelerator \in Accelerators \cup {"auto", Refused}
           /\ Places \in Seq(DOMAIN request.host.gpus)
<1>1. request.host.gpus \in Seq(Gpus) /\ request.accelerator \in Accelerators \cup {"auto", "mps"}
  BY Asked DEF PrepTypeOK
<1>2. Accelerator \in Accelerators \cup {"auto", Refused}
  <2>1. select_llama_accelerator(request.accelerator, request.host) \in Accelerators \cup {Refused}
    BY <1>1, AcceleratorTyped, HostAsked DEF PrepTypeOK
  <2>2. \/ Accelerator = select_llama_accelerator(request.accelerator, request.host)
        \/ Accelerator = "cpu" \/ Accelerator = "auto"
    BY Zenon DEF Accelerator
  <2>3. "cpu" \in Accelerators
    BY DEF Accelerators
  <2> DEFINE a == Accelerator
  <2> HIDE DEF a
  <2>4. a \in Accelerators \cup {"auto", Refused}
    BY <2>1, <2>2, <2>3 DEF a
  <2> QED
    BY <2>4 DEF a
<1>3. Found \in Seq(DOMAIN request.host.gpus)
  BY <1>1, DevicesTyped, EmptySeq DEF Found
<1>4. ASSUME NEW S, NEW a, NEW m, NEW found \in Seq(S) PROVE ChosenDevices(a, m, found) \in Seq(S)
  <2>1. \/ ChosenDevices(a, m, found) \in {<<>>, found}
        \/ found # <<>> /\ ChosenDevices(a, m, found) = <<found[1]>>
    BY DEF ChosenDevices
  <2>2. found # <<>> => found[1] \in S
    OBVIOUS
  <2>3. found # <<>> => <<found[1]>> \in Seq(S)
    BY <2>2
  <2>4. <<>> \in Seq(S)
    OBVIOUS
  <2> QED
    BY <2>1, <2>3, <2>4
<1> QED
  BY <1>2, <1>3, <1>4 DEF Places

(* They are devices, with no more free memory than they have.              *)
LEMMA ChosenTyped ==
    ASSUME PrepTypeOK, FreeBelow
    PROVE  /\ Chosen \in Seq(Gpus) /\ Len(Chosen) = Len(Places)
           /\ Len(Chosen) \in Nat /\ DOMAIN Chosen = 1..Len(Chosen)
           /\ \A k \in DOMAIN Chosen : /\ Chosen[k].free <= Chosen[k].total
                                       /\ Chosen[k].total = request.host.gpus[Places[k]].total
<1> DEFINE G == request.host.gpus
<1>1. G \in Seq(Gpus) /\ Places \in Seq(DOMAIN G)
  BY Asked, PlacesTyped DEF PrepTypeOK
<1>2. Len(Places) \in Nat /\ DOMAIN Places = 1..Len(Places)
  BY <1>1
<1>3. ASSUME NEW k \in 1..Len(Places)
      PROVE  LET g == [G[Places[k]] EXCEPT !.free = free[Places[k]]]
             IN  g \in Gpus /\ g.free <= g.total /\ g.total = G[Places[k]].total
  <2>1. Places[k] \in DOMAIN G
    BY <1>1
  <2>2. free[Places[k]] \in Nat /\ free[Places[k]] <= G[Places[k]].total
    BY <2>1 DEF PrepTypeOK, FreeBelow
  <2>3. G[Places[k]] \in Gpus
    BY <1>1, <2>1
  <2> DEFINE h == G[Places[k]]
             n == free[Places[k]]
  <2> HIDE DEF h, n
  <2>4. h \in Gpus /\ n \in Nat /\ n <= h.total
    BY <2>2, <2>3 DEF h, n
  <2>5. [h EXCEPT !.free = n] \in Gpus
    BY <2>4 DEF Gpus
  <2>6. [h EXCEPT !.free = n].free = n /\ [h EXCEPT !.free = n].total = h.total
    BY <2>4 DEF Gpus
  <2> QED
    BY <2>4, <2>5, <2>6 DEF h, n
<1>4. Chosen = [k \in 1..Len(Places) |-> [G[Places[k]] EXCEPT !.free = free[Places[k]]]]
  BY <1>2 DEF Chosen
<1>5. Chosen \in [1..Len(Places) -> Gpus]
  BY <1>3, <1>4
<1>6. Chosen \in Seq(Gpus) /\ Len(Chosen) = Len(Places)
  BY <1>2, <1>5, ASequence
<1> QED
  BY <1>2, <1>3, <1>4, <1>6

(* Settings chosen for a place are settings, and on the native engine ones *)
(* that its checks of context and adapted layers accept.                   *)
LEMMA AutoTyped ==
    ASSUME PrepTypeOK, required = 0 \/ required >= 32, NEW place \in 1..4,
           NEW s, s = AutoFor(place)
    PROVE  s \in Settings /\ (Native => Trainable(s))
<1> DEFINE a == select_auto_settings(Model, engine, request.host.ram, request.host.cpus, place)
<1>1. /\ request.host.ram \in Nat /\ request.host.cpus \in Nat \ {0} /\ Model \in Models
      /\ required \in Nat
  BY Asked, ModelTyped DEF PrepTypeOK
<1>2. /\ a \in Settings /\ a.context >= 32
      /\ engine = "llama.cpp" /\ Model.hybrid => a.layers = 1 /\ ~a.several
  BY <1>1, Selecting
<1>3. s = IF required = 0 THEN a ELSE FitRequiredContext(a, required)
  BY DEF AutoFor
<1> HIDE DEF a
<1>4. /\ s \in Settings /\ s.context >= 32 /\ s.several = a.several
      /\ a.layers = 1 => s.layers = 1
  <2>1. CASE required = 0
    BY <1>2, <1>3, <2>1
  <2>2. CASE required # 0
    <3>1. s = FitRequiredContext(a, required) /\ required >= 32
      BY <1>3, <2>2
    <3>2. s \in Settings /\ s.context = required /\ s.several = a.several
      BY <1>1, <1>2, <3>1, Fitting
    <3>3. a.layers = 1 => s.layers = 1
      BY <1>1, <1>2, <3>1, Fitting
    <3> QED
      BY <3>1, <3>2, <3>3
  <2> QED
    BY <2>1, <2>2
<1>5. Native => Model = request.gguf_model
  BY DEF Native, Model
<1> QED
  BY <1>2, <1>4, <1>5 DEF Trainable, _validate_hybrid_training_path, Native

-----------------------------------------------------------------------------
(* What the command line says replaces context and microbatch alone.       *)
LEMMA Overriding ==
    ASSUME request \in Requests, NEW s \in Settings, NEW t, t = Override(s)
    PROVE  /\ t \in Settings /\ t.layers = s.layers /\ t.several = s.several
           /\ t.profile = s.profile /\ t.batch = s.batch
           /\ t.context = IF request.context = 0 THEN s.context ELSE request.context
           /\ t.gguf = IF request.gguf = 0 THEN s.gguf ELSE request.gguf
<1> DEFINE c == IF request.context = 0 THEN s.context ELSE request.context
           g == IF request.gguf = 0 THEN s.gguf ELSE request.gguf
<1>1. c \in Nat \ {0} /\ g \in Nat \ {0}
  <2>1. request.context \in Nat /\ request.gguf \in Nat
    BY Asked
  <2> QED
    BY <2>1 DEF Settings
<1>2. t = [s EXCEPT !.context = c, !.gguf = g]
  BY DEF Override, Settings
<1> HIDE DEF c, g
<1>3. t \in Settings
  BY <1>1, <1>2 DEF Settings
<1>4. /\ t.layers = s.layers /\ t.several = s.several /\ t.profile = s.profile
      /\ t.batch = s.batch /\ t.context = c /\ t.gguf = g
  BY <1>2 DEF Settings
<1> QED
  BY <1>3, <1>4 DEF c, g

(* Settings with devices and a rate make a configuration.                  *)
LEMMA ConfiguredTyped ==
    ASSUME NEW s \in Settings, NEW split \in Seq(Nat), NEW devices \in Nat, NEW rate \in Rated
    PROVE  Configured(s, split, devices, rate) \in Configurations
BY DEF Configured, Settings, Configurations

(* A configuration with another context is one.                            *)
LEMMA Recontexted == ASSUME NEW c \in Configurations, NEW x \in Nat \ {0}
                     PROVE  [c EXCEPT !.context = x] \in Configurations
BY DEF Configurations

(* So is one with another context and microbatch.                          *)
LEMMA Refitted == ASSUME NEW c \in Configurations, NEW x \in Nat \ {0}, NEW g \in Nat \ {0}
                  PROVE  [c EXCEPT !.context = x, !.gguf = g] \in Configurations
BY DEF Configurations

(* So is one with what was measured.                                       *)
LEMMA Measured ==
    ASSUME NEW c \in Configurations, NEW x \in Nat \ {0}, NEW g \in Nat \ {0},
           NEW b \in Nat \ {0}, NEW r \in Rated
    PROVE  [c EXCEPT !.rate = r, !.context = x, !.batch = b, !.gguf = g] \in Configurations
BY DEF Configurations

(* Settings with another context, microbatch or batch are settings.        *)
LEMMA Resettled ==
    ASSUME NEW s \in Settings, NEW x \in Nat \ {0}
    PROVE  /\ [s EXCEPT !.context = x] \in Settings /\ [s EXCEPT !.context = x].context = x
           /\ [s EXCEPT !.context = x].layers = s.layers
           /\ [s EXCEPT !.context = x].several = s.several
           /\ [s EXCEPT !.gguf = x] \in Settings /\ [s EXCEPT !.gguf = x].context = s.context
           /\ [s EXCEPT !.gguf = x].layers = s.layers
           /\ [s EXCEPT !.gguf = x].several = s.several
           /\ [s EXCEPT !.batch = x] \in Settings
<1>1. [s EXCEPT !.context = x] \in Settings
  BY DEF Settings
<1>2. [s EXCEPT !.gguf = x] \in Settings
  BY DEF Settings
<1>3. [s EXCEPT !.batch = x] \in Settings
  BY DEF Settings
<1>4. /\ [s EXCEPT !.context = x].context = x /\ [s EXCEPT !.context = x].layers = s.layers
      /\ [s EXCEPT !.context = x].several = s.several
  BY DEF Settings
<1>5. /\ [s EXCEPT !.gguf = x].context = s.context /\ [s EXCEPT !.gguf = x].layers = s.layers
      /\ [s EXCEPT !.gguf = x].several = s.several
  BY DEF Settings
<1> QED
  BY <1>1, <1>2, <1>3, <1>4, <1>5

(* A command starts with the default configuration, which is one.          *)
LEMMA DefaultsTyped == ASSUME request \in Requests PROVE Defaults \in Configurations
<1> DEFINE s == Preset("none", 1, 64, 1, 2, 8, 2, FALSE)
<1>1. s \in Settings
  BY DEF Preset, Settings, Profiles
<1> HIDE DEF s
<1>2. Override(s) \in Settings
  BY <1>1, Overriding
<1>3. <<>> \in Seq(Nat) /\ 0 \in Nat /\ Unscaled(0) \in Rated
  BY DEF Unscaled, Rated
<1>4. Configured(Override(s), <<>>, 0, Unscaled(0)) \in Configurations
  BY <1>2, <1>3, ConfiguredTyped
<1> QED
  BY <1>4 DEF Defaults, s

(* No benchmark and no trial are ones, of the smallest settings.           *)
LEMMA NoneTyped == NoBench \in Benchmarks /\ NoTrial \in Trials
<1>1. LlamaPresets[1] \in Settings
  BY PresetsTyped
<1> DEFINE s == LlamaPresets[1]
<1> HIDE DEF s
<1>2. s \in Settings
  BY <1>1 DEF s
<1>3. NoTrial = [place |-> 0, asked |-> s, settings |-> s, higher |-> FALSE, rate |-> 0,
                 largest |-> 0]
  BY DEF NoTrial, s
<1>4. NoTrial \in Trials
  BY <1>2, <1>3 DEF Trials
<1> DEFINE p == Plan(<<>>, 1)
<1>5. p \in Plans
  BY DEF Plan, Plans
<1>6. NoBench = [for |-> "none", accelerator |-> "cpu", seen |-> <<>>, plan |-> p, place |-> 0,
                 settings |-> s, cached |-> FALSE]
  BY DEF NoBench, s
<1> HIDE DEF p
<1>7. NoBench \in Benchmarks
  <2>1. "cpu" \in Accelerators /\ <<>> \in Seq(Gpus)
    BY DEF Accelerators
  <2> QED
    BY <1>2, <1>5, <1>6, <2>1 DEF Benchmarks
<1> QED
  BY <1>4, <1>7

(* The invariant holds of a command that has not begun.                    *)
LEMMA PrepStarts == ASSUME PrepInit("start") PROVE PrepSafe
<1>1. PrepTypeOK
  <2>1. request \in Requests
    BY DEF PrepInit
  <2>2. free \in [DOMAIN request.host.gpus -> Nat]
    <3>1. request.host.gpus \in Seq(Gpus)
      BY <2>1, Asked
    <3>2. \A i \in DOMAIN request.host.gpus : request.host.gpus[i].free \in Nat
      <4>1. \A g \in Gpus : g.free \in Nat
        BY DEF Gpus
      <4> QED
        BY <3>1, <4>1
    <3> QED
      BY <3>2 DEF PrepInit
  <2>3. config \in Configurations
    BY <2>1, DefaultsTyped DEF PrepInit
  <2> QED
    BY <2>1, <2>2, <2>3, NoneTyped DEF PrepInit, PrepTypeOK
<1>2. FreeBelow
  BY <1>1, Asked DEF PrepInit, PrepTypeOK, FreeBelow
<1>3. PrepInv
  BY <1>2 DEF PrepInit, PrepInv, Course, Needs, Covers, Tries, Measures, Suitable, Benched, Sized,
              Tried, Padded, Sighted, Benching, Trialling, Needing, Configuring
<1>4. MeasuredShape
  BY DEF PrepInit, MeasuredShape, Starting
<1> QED
  BY <1>1, <1>3, <1>4 DEF PrepSafe

-----------------------------------------------------------------------------
(* Type correctness.                                                       *)

(* The parts of the benchmark, the configuration and the trial.            *)
LEMMA PartsTyped ==
    ASSUME PrepTypeOK
    PROVE  /\ bench.settings \in Settings /\ bench.place \in 0..4 /\ bench.plan \in Plans
           /\ bench.plan.split \in Seq(Nat) /\ bench.seen \in Seq(Gpus)
           /\ config.batch \in Nat \ {0} /\ config.context \in Nat \ {0}
           /\ config.gguf \in Nat \ {0} /\ config.rate \in Rated /\ config.split \in Seq(Nat)
           /\ trial.settings \in Settings /\ trial.asked \in Settings /\ trial.place \in 0..4
           /\ trial.rate \in 0..3 /\ trial.higher \in BOOLEAN /\ trial.largest \in Nat
           /\ trial.settings.context \in Nat \ {0} /\ trial.settings.batch \in Nat \ {0}
           /\ trial.settings.gguf \in Nat \ {0} /\ trial.asked.context \in Nat \ {0}
<1>1. bench \in Benchmarks /\ config \in Configurations /\ trial \in Trials
  BY DEF PrepTypeOK
<1>2. /\ bench.settings \in Settings /\ bench.place \in 0..4 /\ bench.plan \in Plans
      /\ bench.seen \in Seq(Gpus)
  BY <1>1 DEF Benchmarks
<1>3. bench.plan.split \in Seq(Nat)
  BY <1>2 DEF Plans
<1>4. /\ config.batch \in Nat \ {0} /\ config.context \in Nat \ {0}
      /\ config.gguf \in Nat \ {0} /\ config.rate \in Rated /\ config.split \in Seq(Nat)
  BY <1>1 DEF Configurations
<1>5. /\ trial.settings \in Settings /\ trial.asked \in Settings /\ trial.place \in 0..4
      /\ trial.rate \in 0..3 /\ trial.higher \in BOOLEAN /\ trial.largest \in Nat
  BY <1>1 DEF Trials
<1>6. /\ trial.settings.context \in Nat \ {0} /\ trial.settings.batch \in Nat \ {0}
      /\ trial.settings.gguf \in Nat \ {0} /\ trial.asked.context \in Nat \ {0}
  BY <1>5 DEF Settings
<1> QED
  BY <1>2, <1>3, <1>4, <1>5, <1>6

(* The engine that is chosen is one of the two.                            *)
LEMMA EngineTyped == ASSUME request \in Requests PROVE ChosenEngine \in {"mlx", "llama.cpp"}
<1>1. request.engine \in {"auto", "mlx", "llama.cpp"}
  BY Asked
<1>2. select_engine(request.engine, request.host) \in {"mlx", "llama.cpp"}
  BY <1>1 DEF select_engine
<1> QED
  BY <1>2 DEF ChosenEngine

(* A benchmark that is begun has a purpose, sees the devices that are      *)
(* chosen now, with their plan, and has the settings of a place which are  *)
(* measured already only if they fit.                                      *)
LEMMA BenchmarkBegins ==
    ASSUME PrepTypeOK, Needs, FreeBelow, benchmark_auto_settings
    PROVE  \/ step' = "refused" /\ UNCHANGED bench
           \/ \E place \in 1..4, settings \in Settings, cached \in BOOLEAN :
                 /\ settings = AutoFor(place)
                 /\ bench' = [for |-> BenchmarkFor, accelerator |-> Accelerator, seen |-> Chosen,
                              plan |-> automatic_llama_device_plan(Chosen), place |-> place,
                              settings |-> settings, cached |-> cached]
                 /\ Accelerator # Refused
                 /\ Native => ~NotEnoughDevices(Accelerator, request.multi, Chosen)
                 /\ \/ step' = "probe"
                    \/ /\ step' = "measured"
                       /\ Fits(place, Chosen, automatic_llama_device_plan(Chosen).split)
<1> DEFINE plan == automatic_llama_device_plan(Chosen)
           known == _read_cache(Chosen, plan.split)
<1>1. SUFFICES ASSUME ~(step' = "refused" /\ UNCHANGED bench)
               PROVE  \E place \in 1..4, settings \in Settings, cached \in BOOLEAN :
                        /\ settings = AutoFor(place)
                        /\ bench' = [for |-> BenchmarkFor, accelerator |-> Accelerator,
                                     seen |-> Chosen, plan |-> plan, place |-> place,
                                     settings |-> settings, cached |-> cached]
                        /\ Accelerator # Refused
                        /\ Native => ~NotEnoughDevices(Accelerator, request.multi, Chosen)
                        /\ \/ step' = "probe"
                           \/ step' = "measured" /\ Fits(place, Chosen, plan.split)
  BY Zenon
<1>2. PICK place \in IF known = {} THEN {Profile(Model, request.host.ram)}
                     ELSE {e.place : e \in known} :
            /\ bench' = [for |-> BenchmarkFor, accelerator |-> Accelerator, seen |-> Chosen,
                         plan |-> plan, place |-> place, settings |-> AutoFor(place),
                         cached |-> known # {}]
            /\ Goto(IF known = {} THEN "probe" ELSE "measured")
  BY <1>1, Zenon DEF benchmark_auto_settings, Refuse, Goto
<1>3. /\ Accelerator # Refused
      /\ Native => ~NotEnoughDevices(Accelerator, request.multi, Chosen)
  BY <1>1, Zenon DEF benchmark_auto_settings, Refuse, Goto, Native
<1>4. place \in 1..4 /\ (known # {} => Fits(place, Chosen, plan.split))
  <2>1. CASE known = {}
    BY <1>2, <2>1 DEF Profile
  <2>2. CASE known # {}
    <3>1. PICK e \in known : place = e.place
      BY <1>2, <2>2
    <3> QED
      BY <3>1 DEF _read_cache, PrepTypeOK
  <2> QED
    BY <2>1, <2>2
<1>5. AutoFor(place) \in Settings
  BY <1>4, AutoTyped DEF Needs
<1> HIDE DEF plan, known
<1>6. (known # {}) \in BOOLEAN
  OBVIOUS
<1>7. IF known = {} THEN step' = "probe" ELSE step' = "measured"
  BY <1>2 DEF Goto
<1> QED
  BY <1>2, <1>3, <1>4, <1>5, <1>6, <1>7, Zenon

(* The benchmark keeps the types.                                          *)
LEMMA BenchmarkingTyped ==
    ASSUME PrepTypeOK, Course, Needs, FreeBelow, Benchmarking
    PROVE  PrepTypeOK'
<1>1. UNCHANGED <<request, engine, required, config, trial, free>>
  BY DEF Benchmarking, benchmark_auto_settings, SkipProfile, ProbeFails, ProbeSucceeds, Smaller,
         environment
<1>2. bench \in Benchmarks /\ \A e \in cache : e.place \in 1..4
  BY DEF PrepTypeOK
<1>3. CASE benchmark_auto_settings
  <2>1. bench' \in Benchmarks
    <3>1. CASE UNCHANGED bench
      BY <1>2, <3>1
    <3>2. ASSUME NEW place \in 1..4, NEW settings \in Settings, NEW cached \in BOOLEAN,
                 bench' = [for |-> BenchmarkFor, accelerator |-> Accelerator, seen |-> Chosen,
                           plan |-> automatic_llama_device_plan(Chosen), place |-> place,
                           settings |-> settings, cached |-> cached],
                 Accelerator # Refused
          PROVE  bench' \in Benchmarks
      <4>1. BenchmarkFor \in {"none", "settings", "fallback", "pilot", "alignment"}
        BY <1>3 DEF benchmark_auto_settings, BenchmarkFor
      <4>2. Accelerator \in Accelerators \cup {"auto"}
        BY <3>2, PlacesTyped
      <4>3. Chosen \in Seq(Gpus) /\ automatic_llama_device_plan(Chosen) \in Plans
        BY ChosenTyped, Planning
      <4>4. place \in 0..4
        OBVIOUS
      <4> QED
        BY <3>2, <4>1, <4>2, <4>3, <4>4 DEF Benchmarks
    <3> QED
      BY <1>3, <3>1, <3>2, BenchmarkBegins
  <2>2. UNCHANGED cache
    BY <1>3 DEF benchmark_auto_settings
  <2> QED
    BY <1>1, <2>1, <2>2 DEF PrepTypeOK
<1>4. CASE (SkipProfile \/ ProbeFails) /\ Smaller
  <2>1. bench.place - 1 \in 0..4
    <3>1. step = "probe"
      BY <1>4, Zenon DEF SkipProfile, ProbeFails
    <3>2. bench.place \in 0..4 /\ bench.place # 0
      BY <3>1, PartsTyped DEF Course
    <3> QED
      BY <3>2
  <2>2. bench' = [bench EXCEPT !.place = bench.place - 1] /\ UNCHANGED cache
    BY <1>4 DEF Smaller
  <2>3. bench' \in Benchmarks
    BY <1>2, <2>1, <2>2 DEF Benchmarks
  <2> QED
    BY <1>1, <2>2, <2>3 DEF PrepTypeOK
<1>5. CASE ProbeSucceeds
  <2>1. bench.place \in 1..4
    BY <1>2, <1>5, PartsTyped DEF ProbeSucceeds, Course
  <2>2. AutoFor(bench.place) \in Settings
    BY <2>1, AutoTyped DEF Needs
  <2> DEFINE s == AutoFor(bench.place)
  <2> HIDE DEF s
  <2>3. bench' = [bench EXCEPT !.settings = s] /\ s \in Settings
    BY <1>5, <2>2 DEF ProbeSucceeds, s
  <2>4. bench' \in Benchmarks
    BY <1>2, <2>3 DEF Benchmarks
  <2>5. cache' = cache \cup {Entry(bench.seen, bench.place)}
    BY <1>5 DEF ProbeSucceeds
  <2>6. \A e \in cache' : e.place \in 1..4
    BY <1>2, <2>1, <2>5 DEF Entry
  <2> QED
    BY <1>1, <2>4, <2>6 DEF PrepTypeOK
<1> QED
  BY <1>3, <1>4, <1>5 DEF Benchmarking, SkipProfile, ProbeFails

(* A pilot is run with settings, and lowers them to settings.              *)
LEMMA PilotTyped ==
    ASSUME PrepTypeOK, NEW used \in Used
    PROVE  /\ Pilot \in Settings /\ used \in Settings
           /\ engine = "mlx" => Pilot = trial.settings
           /\ engine # "mlx" => Pilot.context = PadTo(trial.asked.context, trial.settings.gguf)
           /\ engine # "mlx" \/ request.full => used = Pilot
           /\ Pilot.layers = trial.settings.layers /\ Pilot.several = trial.settings.several
<1>1. /\ trial.settings \in Settings /\ trial.asked.context \in Nat \ {0}
      /\ trial.settings.gguf \in Nat \ {0}
  BY PartsTyped
<1> DEFINE x == PadTo(trial.asked.context, trial.settings.gguf)
<1>2. x \in Nat \ {0}
  <2>1. trial.asked.context \in Nat /\ trial.asked.context >= 1
    BY <1>1
  <2>2. x \in Nat /\ trial.asked.context <= x
    BY <1>1, <2>1, Padding
  <2> QED
    BY <2>1, <2>2
<1>3. Pilot = IF engine = "mlx" THEN trial.settings ELSE [trial.settings EXCEPT !.context = x]
  BY DEF Pilot
<1> HIDE DEF x
<1>4. /\ [trial.settings EXCEPT !.context = x] \in Settings
      /\ [trial.settings EXCEPT !.context = x].context = x
      /\ [trial.settings EXCEPT !.context = x].layers = trial.settings.layers
      /\ [trial.settings EXCEPT !.context = x].several = trial.settings.several
  BY <1>1, <1>2, Resettled
<1>5. Pilot \in Settings
  BY <1>1, <1>3, <1>4
<1>6. Lowered(Pilot) \in Settings
  <2>1. Pilot.context \in Nat \ {0} /\ Pilot.batch \in Nat \ {0}
    BY <1>5 DEF Settings
  <2> DEFINE y == Most(64, Pilot.context \div 2)
             b == Most(1, Pilot.batch \div 2)
  <2>2. y \in Nat \ {0} /\ b \in Nat \ {0}
    BY <2>1 DEF Most
  <2>3. \/ Lowered(Pilot) = [Pilot EXCEPT !.context = y]
        \/ Lowered(Pilot) = [Pilot EXCEPT !.batch = b]
    BY DEF Lowered
  <2> HIDE DEF y, b
  <2> QED
    BY <1>5, <2>2, <2>3, Resettled
<1>7. used \in {Pilot, Lowered(Pilot)} /\ (engine # "mlx" \/ request.full => used = Pilot)
  BY DEF Used
<1> QED
  BY <1>1, <1>3, <1>4, <1>5, <1>6, <1>7 DEF x

(* The rate that is tried is one of the three, and there is one more place *)
(* than rates.                                                             *)
LEMMA RateTyped == ASSUME PrepTypeOK, ~NoMoreRates PROVE Rate \in 1..3 /\ trial.place + 1 \in 0..4
<1>1. trial.place \in 1..3
  BY DEF NoMoreRates, Rates
<1>2. \A p \in 1..3 : Rates[p] \in 1..3
  BY DEF Rates
<1> QED
  BY <1>1, <1>2 DEF Rate

(* A measured rate is lowered by what the run is longer than the pilot.    *)
LEMMA RateScaled ==
    ASSUME PrepTypeOK, NEW rate \in 0..3, NEW r, r = rate_factor(rate)
    PROVE  /\ r \in Rated /\ r.measured = rate /\ r.piloted <= r.planned
           /\ engine = "llama.cpp" => r.piloted * Planned <= r.planned * Piloted
<1> DEFINE n == Sampled
           p == Piloted
           q == Planned
           d == Most(4, Least(8, 2 * Len(bench.seen)))
<1>1. request.rows \in Nat /\ request.epochs \in Nat /\ Len(bench.seen) \in Nat
  BY Asked, PartsTyped DEF PrepTypeOK
<1>2. d \in Nat \ {0}
  BY <1>1 DEF Most, Least
<1>3. n = Least(request.rows, d) /\ p = n * 3 /\ q = request.rows * request.epochs
  BY DEF Sampled, Piloted, _PILOT_EPOCHS, Planned
<1> HIDE DEF n, d
<1>4. n \in Nat /\ (n = 0 => request.rows = 0)
  BY <1>1, <1>2, <1>3 DEF Least
<1>5. p \in Nat /\ q \in Nat /\ (p = 0 => q = 0)
  BY <1>1, <1>3, <1>4
<1>6. r = IF engine = "llama.cpp" /\ p < q
          THEN [measured |-> rate, piloted |-> p, planned |-> q]
          ELSE [measured |-> rate, piloted |-> 1, planned |-> 1]
  BY DEF rate_factor, Unscaled
<1> HIDE DEF p, q
<1>7. CASE engine = "llama.cpp" /\ p < q
  <2>1. p \in Nat \ {0} /\ q \in Nat \ {0} /\ p <= q
    BY <1>5, <1>7
  <2>2. r = [measured |-> rate, piloted |-> p, planned |-> q]
    BY <1>6, <1>7
  <2>3. r \in Rated /\ r.measured = rate /\ r.piloted = p /\ r.planned = q
    BY <2>1, <2>2 DEF Rated
  <2>4. p * q <= q * p
    BY <1>5
  <2> QED
    BY <2>1, <2>3, <2>4 DEF p, q
<1>8. CASE ~(engine = "llama.cpp" /\ p < q)
  <2>1. r = [measured |-> rate, piloted |-> 1, planned |-> 1]
    BY <1>6, <1>8
  <2>2. r \in Rated /\ r.measured = rate /\ r.piloted = 1 /\ r.planned = 1
    BY <2>1 DEF Rated
  <2>3. engine = "llama.cpp" => 1 * q <= 1 * p
    BY <1>5, <1>8
  <2> QED
    BY <2>2, <2>3 DEF p, q
<1> QED
  BY <1>7, <1>8

(* Calibration keeps the types.                                            *)
LEMMA CalibratingTyped ==
    ASSUME PrepTypeOK, FreeBelow, Calibrating
    PROVE  PrepTypeOK'
<1>1. UNCHANGED <<request, cache, engine, required, bench, free>>
  BY DEF Calibrating, sample_training_data, PilotRefused, PilotRunsOut, PilotFails, FallsBackToCpu,
         PilotEnds, NoRate, ApplyCalibration, TrialOnly, environment
<1>2. trial \in Trials /\ config \in Configurations
  BY DEF PrepTypeOK
<1>3. CASE UNCHANGED config
  <2>1. trial' \in Trials
    <3>1. CASE UNCHANGED trial
      BY <1>2, <3>1
    <3>2. CASE sample_training_data /\ ~UNCHANGED trial
      <4> DEFINE s == [bench.settings EXCEPT !.context = config.context]
      <4>1. PICK largest \in Largest, batch \in {FirstMicrobatch(s, Chosen)} :
              trial' = [place |-> 1, asked |-> [s EXCEPT !.gguf = batch],
                        settings |-> [s EXCEPT !.gguf = batch], higher |-> TRUE,
                        rate |-> 0, largest |-> largest]
        BY <3>2 DEF sample_training_data
      <4>2. s \in Settings
        BY PartsTyped, Resettled
      <4>3. batch \in Nat \ {0}
        <5>1. FirstMicrobatch(s, Chosen) \in Nat \ {0}
          <6> HIDE DEF s
          <6>1. s.gguf \in Nat \ {0}
            BY <4>2 DEF Settings
          <6> QED
            BY <4>2, <6>1, Microbatch DEF FirstMicrobatch
        <5> QED
          BY <5>1
      <4> HIDE DEF s
      <4> DEFINE t == [s EXCEPT !.gguf = batch]
      <4>4. t \in Settings
        BY <4>2, <4>3, Resettled
      <4>5. trial' = [place |-> 1, asked |-> t, settings |-> t, higher |-> TRUE, rate |-> 0,
                      largest |-> largest]
        BY <4>1 DEF s
      <4>6. largest \in Nat
        BY DEF Largest
      <4> HIDE DEF t
      <4> QED
        BY <4>4, <4>5, <4>6 DEF Trials
    <3>3. CASE PilotRunsOut
      <4> DEFINE g == Most(1, trial.settings.gguf \div 2)
                 s == [trial.settings EXCEPT !.gguf = g]
      <4>1. g \in Nat \ {0}
        BY PartsTyped DEF Most
      <4>2. s \in Settings
        BY <4>1, PartsTyped, Resettled
      <4>3. trial' = [trial EXCEPT !.settings = s]
        BY <1>2, <3>3 DEF PilotRunsOut, Trials
      <4> HIDE DEF s
      <4> QED
        BY <1>2, <4>2, <4>3 DEF Trials
    <3>4. CASE PilotFails
      <4> DEFINE p == trial.place + 1
      <4>1. p \in 0..4
        BY <3>4, RateTyped DEF PilotFails, Runs, Trying
      <4>2. trial' = [trial EXCEPT !.place = p, !.higher = FALSE]
        BY <3>4 DEF PilotFails, Onward
      <4> HIDE DEF p
      <4> QED
        BY <1>2, <4>1, <4>2 DEF Trials
    <3>5. CASE PilotEnds
      <4>1. PICK used \in Used, verdict \in {"better", "flat", "worse"} :
              \/ trial' = [trial EXCEPT !.settings = used, !.rate = Rate]
              \/ trial' = [Onward EXCEPT !.settings = used, !.higher = @ /\ verdict = "flat"]
        BY <3>5 DEF PilotEnds
      <4> DEFINE p == trial.place + 1
                 h == trial.higher /\ verdict = "flat"
      <4>2. used \in Settings /\ p \in 0..4 /\ Rate \in 0..3 /\ h \in BOOLEAN
        BY <3>5, PilotTyped, RateTyped DEF PilotEnds, Runs, Trying
      <4>3. \/ trial' = [trial EXCEPT !.settings = used, !.rate = Rate]
            \/ trial' = [trial EXCEPT !.place = p, !.settings = used, !.higher = h]
        BY <1>2, <4>1 DEF Onward, Trials
      <4> HIDE DEF p, h
      <4> QED
        BY <1>2, <4>2, <4>3 DEF Trials
    <3> QED
      BY <1>3, <3>1, <3>2, <3>3, <3>4, <3>5
         DEF Calibrating, PilotRefused, FallsBackToCpu, NoRate, ApplyCalibration
  <2> QED
    BY <1>1, <1>3, <2>1 DEF PrepTypeOK
<1>4. CASE ApplyCalibration /\ ~UNCHANGED config
  <2> DEFINE x == Least(config.context, trial.settings.context)
             b == Least(config.batch, trial.settings.batch)
             g == _calibrated_gguf_batch_size(config.gguf, trial.settings.gguf)
             r == rate_factor(trial.rate)
  <2>1. x \in Nat \ {0} /\ b \in Nat \ {0} /\ g \in Nat \ {0}
    BY PartsTyped DEF Least, _calibrated_gguf_batch_size
  <2>2. config' = [config EXCEPT !.rate = r, !.context = x, !.batch = b, !.gguf = g]
    BY <1>2, <1>4 DEF ApplyCalibration, Configurations
  <2>3. UNCHANGED trial
    BY <1>4 DEF ApplyCalibration
  <2>4. r \in Rated
    BY PartsTyped, RateScaled
  <2> HIDE DEF x, b, g, r
  <2>5. config' \in Configurations
    BY <1>2, <2>1, <2>2, <2>4, Measured
  <2> QED
    BY <1>1, <2>3, <2>5 DEF PrepTypeOK
<1> QED
  BY <1>3, <1>4
     DEF Calibrating, sample_training_data, PilotRefused, PilotRunsOut, PilotFails, FallsBackToCpu,
         PilotEnds, NoRate, TrialOnly

(* The context applied is one, and covers what is required.                *)
LEMMA Covering ==
    ASSUME required \in Nat, NEW context \in Nat \ {0}, NEW purpose
    PROVE  /\ Covered(purpose, context) \in Nat \ {0} /\ required <= Covered(purpose, context)
           /\ Covered(purpose, context) \in {context, required}
           /\ context <= Covered(purpose, context) \/ Covered(purpose, context) = required
BY DEF Covered, Most

(* The settings applied are settings, but for what is said otherwise.      *)
LEMMA Applying ==
    ASSUME PrepTypeOK, NEW s \in Settings, NEW purpose, NEW t, t = Applied(purpose, s)
    PROVE  /\ t \in Settings /\ t.layers = s.layers /\ t.several = s.several
           /\ t.context = Covered(purpose, IF request.context = 0 THEN s.context
                                           ELSE request.context)
           /\ t.gguf = IF request.gguf = 0 THEN s.gguf ELSE request.gguf
<1> DEFINE o == Override(s)
           x == Covered(purpose, o.context)
<1>1. /\ o \in Settings /\ o.layers = s.layers /\ o.several = s.several
      /\ o.context = IF request.context = 0 THEN s.context ELSE request.context
      /\ o.gguf = IF request.gguf = 0 THEN s.gguf ELSE request.gguf
  BY Overriding DEF PrepTypeOK
<1>2. o.context \in Nat \ {0}
  BY <1>1 DEF Settings
<1>3. t = [o EXCEPT !.context = x]
  BY <1>1 DEF Applied, Settings
<1> HIDE DEF o
<1>4. x \in Nat \ {0}
  BY <1>2, Covering DEF PrepTypeOK
<1> HIDE DEF x
<1>5. t \in Settings /\ t.context = x /\ t.layers = o.layers /\ t.several = o.several
  <2>1. o \in Settings
    BY <1>1
  <2>2. /\ [o EXCEPT !.context = x] \in Settings /\ [o EXCEPT !.context = x].context = x
        /\ [o EXCEPT !.context = x].layers = o.layers
        /\ [o EXCEPT !.context = x].several = o.several
    BY <1>4, <2>1, Resettled
  <2> QED
    BY <1>3, <2>2
<1>6. t.gguf = o.gguf
  BY <1>1, <1>3 DEF Settings
<1> QED
  BY <1>1, <1>5, <1>6 DEF x

(* Every step of the preparation keeps the types.                          *)
LEMMA TypesKept ==
    ASSUME PrepTypeOK, Course, Needs, FreeBelow, _fine_tune \/ Elsewhere
    PROVE  PrepTypeOK'
<1>1. bench \in Benchmarks /\ config \in Configurations /\ trial \in Trials
  BY DEF PrepTypeOK
<1>2. CASE _resolve_cli_model
  <2>1. engine' \in {"mlx", "llama.cpp"}
    BY <1>2, EngineTyped DEF _resolve_cli_model, PrepTypeOK
  <2> QED
    BY <1>2, <2>1 DEF _resolve_cli_model, PrepTypeOK, environment
<1>3. CASE largest_training_context
  <2>1. PICK context \in {IF request.verified # 0 /\ step = "scan" THEN request.verified
                          ELSE Most(32, request.longest[engine] + 64)} :
          /\ required' = context
          /\ config' = IF step = "rescan" THEN [config EXCEPT !.context = context] ELSE config
    BY <1>3, Zenon DEF largest_training_context
  <2>2. context \in Nat \ {0}
    <3>1. /\ request.verified \in Nat
          /\ request.longest["mlx"] \in Nat /\ request.longest["llama.cpp"] \in Nat
      BY Asked DEF PrepTypeOK
    <3>2. engine \in {"mlx", "llama.cpp"}
      BY <1>3 DEF largest_training_context, Course
    <3>3. Most(32, request.longest[engine] + 64) \in Nat \ {0}
      BY <3>1, <3>2 DEF Most
    <3> QED
      BY <3>1, <3>3
  <2>3. config' \in Configurations
    BY <1>1, <2>1, <2>2, Recontexted
  <2> QED
    BY <1>3, <2>1, <2>2, <2>3 DEF largest_training_context, PrepTypeOK, environment
<1>4. CASE CountFails \/ prepare_dataset_source \/ TrainMlx \/ train_gradient_gguf
  BY <1>4 DEF CountFails, prepare_dataset_source, TrainMlx, train_gradient_gguf, PrepTypeOK,
              environment
<1>5. CASE Benchmarking
  BY <1>5, BenchmarkingTyped
<1>6. CASE Calibrating
  BY <1>6, CalibratingTyped
<1>7. CASE _resolve_training_settings
  <2>1. config' \in Configurations
    <3>1. CASE UNCHANGED config
      BY <1>1, <3>1
    <3>2. CASE config' = Configured(Applied(bench.for, bench.settings), bench.plan.split,
                                    Len(bench.seen), config.rate)
      <4>1. Applied(bench.for, bench.settings) \in Settings
        BY PartsTyped, Applying
      <4>2. Len(bench.seen) \in Nat
        BY PartsTyped
      <4> QED
        BY <3>2, <4>1, <4>2, PartsTyped, ConfiguredTyped
    <3> QED
      BY <1>7, <3>1, <3>2, Zenon DEF _resolve_training_settings
  <2> QED
    BY <1>7, <2>1 DEF _resolve_training_settings, PrepTypeOK, environment
<1>8. CASE KeepSettings
  <2>1. Covered("settings", config.context) \in Nat \ {0}
    BY PartsTyped, Covering DEF PrepTypeOK
  <2>2. config' = [config EXCEPT !.context = Covered("settings", config.context)]
    BY <1>8 DEF KeepSettings
  <2>3. config' \in Configurations
    BY <1>1, <2>1, <2>2, Recontexted
  <2> QED
    BY <1>8, <2>3 DEF KeepSettings, PrepTypeOK, environment
<1>9. CASE CheckData
  <2>1. Most(2048, config.context) \in Nat \ {0}
    BY PartsTyped DEF Most
  <2>2. \/ UNCHANGED config
        \/ config' = [config EXCEPT !.context = Most(2048, config.context)]
    BY <1>9 DEF CheckData
  <2>3. config' \in Configurations
    BY <1>1, <2>1, <2>2, Recontexted
  <2> QED
    BY <1>9, <2>3 DEF CheckData, PrepTypeOK, environment
<1>10. CASE FallBack
  BY <1>10 DEF FallBack, PrepTypeOK, environment
<1>11. CASE _fit_gguf_context
  <2> DEFINE fitted == FitGgufContext(config.context, config.gguf, Model.limit)
             x == Most(32, fitted[1])
             g == fitted[2]
  <2>1. fitted[1] \in Nat \ {0} /\ fitted[2] \in 1..config.gguf
    BY PartsTyped, ModelTyped, NativeFitting
  <2>2. x \in Nat \ {0} /\ g \in Nat \ {0}
    <3>1. config.gguf \in Nat \ {0}
      BY PartsTyped, Zenon
    <3> HIDE DEF fitted
    <3> QED
      BY <2>1, <3>1 DEF Most
  <2>3. config' = [config EXCEPT !.context = x, !.gguf = g]
    BY <1>11 DEF _fit_gguf_context
  <2> HIDE DEF x, g
  <2>4. config' \in Configurations
    BY <1>1, <2>2, <2>3, Refitted
  <2> QED
    BY <1>11, <2>4 DEF _fit_gguf_context, PrepTypeOK, environment
<1>12. CASE MemoryMoves
  <2>1. PICK i \in DOMAIN free : \E n \in request.host.gpus[i].levels :
            free' = [free EXCEPT ![i] = n]
    BY <1>12 DEF MemoryMoves
  <2>2. DOMAIN free = DOMAIN request.host.gpus
    BY DEF PrepTypeOK
  <2>3. \A n \in request.host.gpus[i].levels : n \in Nat
    BY <2>1, <2>2, Asked DEF PrepTypeOK
  <2>4. free' \in [DOMAIN request.host.gpus -> Nat]
    BY <2>1, <2>2, <2>3 DEF PrepTypeOK
  <2> QED
    BY <1>12, <2>4 DEF MemoryMoves, PrepTypeOK, command
<1>13. CASE EntryExpires
  BY <1>13 DEF EntryExpires, PrepTypeOK
<1> QED
  BY <1>2, <1>3, <1>4, <1>5, <1>6, <1>7, <1>8, <1>9, <1>10, <1>11, <1>12, <1>13
     DEF _fine_tune, Elsewhere

-----------------------------------------------------------------------------
(* Each part of the invariant is kept by every step.                       *)

(* The devices that are chosen do not change with the free memory.         *)
LEMMA SamePlaces == ASSUME UNCHANGED <<request, engine>>
                    PROVE  /\ Places' = Places /\ Found' = Found
                           /\ Accelerator' = Accelerator /\ Model' = Model
<1>1. Accelerator' = Accelerator
  BY DEF Accelerator
<1>2. Found' = Found
  BY <1>1 DEF Found
<1> QED
  BY <1>1, <1>2 DEF Places, Model

(* No step but the choice of a model, a trial of the other engine, a       *)
(* change of free memory and one of the cache changes what these state.    *)
LEMMA Unmoved ==
    ASSUME _fine_tune \/ Elsewhere
    PROVE  /\ UNCHANGED request
           /\ ~(_resolve_cli_model \/ FallBack) => UNCHANGED engine
           /\ ~MemoryMoves => UNCHANGED free
           /\ ~largest_training_context => UNCHANGED required
<1>1. CASE _resolve_cli_model \/ FallBack \/ MemoryMoves \/ largest_training_context
  BY <1>1 DEF _resolve_cli_model, FallBack, MemoryMoves, largest_training_context, environment,
              command
<1>2. CASE CountFails \/ KeepSettings \/ prepare_dataset_source \/ CheckData \/ TrainMlx
  BY <1>2 DEF CountFails, KeepSettings, prepare_dataset_source, CheckData, TrainMlx, environment
<1>3. CASE Benchmarking \/ _resolve_training_settings
  <2>1. UNCHANGED <<request, engine, required, free>>
    BY <1>3 DEF Benchmarking, benchmark_auto_settings, SkipProfile, ProbeFails, ProbeSucceeds,
                Smaller, _resolve_training_settings, environment
  <2> QED
    BY <2>1
<1>4. CASE Calibrating
  <2>1. UNCHANGED <<request, engine, required, free>>
    BY <1>4 DEF Calibrating, sample_training_data, PilotRefused, PilotRunsOut, PilotFails,
                FallsBackToCpu, PilotEnds, NoRate, TrialOnly, ApplyCalibration, environment
  <2> QED
    BY <2>1
<1>5. CASE _fit_gguf_context \/ train_gradient_gguf \/ EntryExpires
  BY <1>5 DEF _fit_gguf_context, train_gradient_gguf, EntryExpires, environment
<1> QED
  BY <1>1, <1>2, <1>3, <1>4, <1>5 DEF _fine_tune, Elsewhere

(* The command stays on its course.                                        *)
LEMMA CourseKept == ASSUME PrepTypeOK, Course, Needs, FreeBelow, _fine_tune \/ Elsewhere
                    PROVE  Course'
<1> USE DEF Goto, Refuse, Automatic
<1>1. CASE _resolve_cli_model
  <2>1. engine' \in {"mlx", "llama.cpp"}
    BY <1>1, EngineTyped DEF _resolve_cli_model, PrepTypeOK
  <2>2. step' \in {"refused", "scan", Fitted} /\ UNCHANGED request
    BY <1>1 DEF _resolve_cli_model
  <2> QED
    BY <2>1, <2>2 DEF Fitted, Course
<1>2. CASE largest_training_context \/ CountFails
  BY <1>2 DEF largest_training_context, CountFails, Fitted, environment, Course
<1>3. CASE benchmark_auto_settings
  <2>1. CASE step' = "refused"
    BY <2>1 DEF Course
  <2>2. ASSUME NEW p \in 1..4, NEW settings \in Settings, NEW cached \in BOOLEAN,
               bench' = [for |-> BenchmarkFor, accelerator |-> Accelerator, seen |-> Chosen,
                         plan |-> automatic_llama_device_plan(Chosen), place |-> p,
                         settings |-> settings, cached |-> cached],
               step' \in {"probe", "measured"}
        PROVE  Course'
    <3>1. bench'.for = BenchmarkFor /\ bench'.place = p
      BY <2>2
    <3>2. BenchmarkFor # "none" /\ p # 0
      <4>1. BenchmarkFor \in {"settings", "fallback", "pilot", "alignment"}
        BY <1>3 DEF benchmark_auto_settings, BenchmarkFor
      <4> QED
        BY <4>1
    <3>3. UNCHANGED engine /\ engine \in {"mlx", "llama.cpp"}
      BY <1>3 DEF benchmark_auto_settings, Course
    <3> QED
      BY <2>2, <3>1, <3>2, <3>3 DEF Course
  <2> QED
    BY <1>3, <2>1, <2>2, BenchmarkBegins
<1>4. CASE (SkipProfile \/ ProbeFails) /\ Smaller
  <2>1. step = "probe"
    BY <1>4, Zenon DEF SkipProfile, ProbeFails
  <2>2. bench' = [bench EXCEPT !.place = bench.place - 1] /\ UNCHANGED engine
    BY <1>4 DEF Smaller
  <2>3. bench \in Benchmarks
    BY DEF PrepTypeOK
  <2>4. bench'.for = bench.for /\ bench'.place = bench.place - 1
    BY <2>2, <2>3 DEF Benchmarks
  <2>5. step' = IF bench.place = 1 THEN "refused" ELSE "probe"
    BY <1>4 DEF Smaller
  <2>6. bench.place \in 0..4
    BY PartsTyped
  <2> QED
    BY <2>1, <2>2, <2>4, <2>5, <2>6 DEF Course
<1>5. CASE ProbeSucceeds
  <2>1. bench' = [bench EXCEPT !.settings = AutoFor(bench.place)] /\ bench \in Benchmarks
    BY <1>5 DEF ProbeSucceeds, PrepTypeOK
  <2>2. bench'.for = bench.for /\ bench'.place = bench.place
    BY <2>1 DEF Benchmarks
  <2> QED
    BY <1>5, <2>2 DEF ProbeSucceeds, Course
<1>6. CASE _resolve_training_settings
  <2>1. step' \in {"refused", "data", "train", "align"} /\ UNCHANGED engine
    <3>1. bench.for \in {"settings", "fallback", "alignment"}
      <4>1. bench.for \in {"none", "settings", "fallback", "pilot", "alignment"}
        BY DEF PrepTypeOK, Benchmarks
      <4>2. bench.for # "none" /\ bench.for # "pilot"
        BY <1>6 DEF _resolve_training_settings, Course
      <4> QED
        BY <4>1, <4>2
    <3> QED
      BY <1>6, <3>1 DEF _resolve_training_settings
  <2> QED
    BY <1>6, <2>1 DEF _resolve_training_settings, Course
<1>7. CASE KeepSettings \/ prepare_dataset_source \/ CheckData
  BY <1>7 DEF KeepSettings, prepare_dataset_source, CheckData, Course
<1>8. CASE Calibrating
  BY <1>8 DEF Calibrating, sample_training_data, PilotRefused, PilotRunsOut, PilotFails,
              FallsBackToCpu, PilotEnds, NoRate, ApplyCalibration, TrialOnly, Trying, Runs,
              Course
<1>9. CASE TrainMlx \/ FallBack \/ _fit_gguf_context \/ train_gradient_gguf
  BY <1>9 DEF TrainMlx, FallBack, _fit_gguf_context, train_gradient_gguf, OnMlx, Course
<1>10. CASE Elsewhere
  BY <1>10 DEF Elsewhere, MemoryMoves, EntryExpires, command, Course
<1> QED
  BY <1>1, <1>2, <1>3, <1>4, <1>5, <1>6, <1>7, <1>8, <1>9, <1>10
     DEF _fine_tune, Benchmarking, SkipProfile, ProbeFails

(* The benchmark changes nothing else, and keeps its purpose.              *)
LEMMA BenchmarkSteps ==
    ASSUME PrepTypeOK, Course, Needs, FreeBelow, Benchmarking
    PROVE  /\ UNCHANGED <<request, engine, required, config, trial, free>>
           /\ step' \in {"probe", "measured", "refused"}
           /\ step = "probe" => bench'.for = bench.for
           /\ step' # "refused" /\ step # "probe" =>
                 \/ step = "settings" /\ bench'.for = "settings"
                 \/ step = "again" /\ bench'.for = "fallback"
                 \/ step = "second" /\ bench'.for = "pilot"
                 \/ step = "align settings" /\ bench'.for = "alignment"
<1>1. UNCHANGED <<request, engine, required, config, trial, free>>
  BY DEF Benchmarking, benchmark_auto_settings, SkipProfile, ProbeFails, ProbeSucceeds, Smaller,
         environment
<1>2. bench \in Benchmarks
  BY DEF PrepTypeOK
<1>3. CASE benchmark_auto_settings
  <2>1. step \in {"settings", "again", "second", "align settings"}
    BY <1>3, Zenon DEF benchmark_auto_settings
  <2>2. CASE step' = "refused"
    BY <1>1, <2>1, <2>2
  <2>3. ASSUME step' \in {"probe", "measured"}, bench'.for = BenchmarkFor
        PROVE  \/ step = "settings" /\ bench'.for = "settings"
               \/ step = "again" /\ bench'.for = "fallback"
               \/ step = "second" /\ bench'.for = "pilot"
               \/ step = "align settings" /\ bench'.for = "alignment"
    BY <2>1, <2>3 DEF BenchmarkFor
  <2>4. step' = "refused" \/ (step' \in {"probe", "measured"} /\ bench'.for = BenchmarkFor)
    <3>1. ASSUME NEW p \in 1..4, NEW settings \in Settings, NEW cached \in BOOLEAN,
                 bench' = [for |-> BenchmarkFor, accelerator |-> Accelerator, seen |-> Chosen,
                           plan |-> automatic_llama_device_plan(Chosen), place |-> p,
                           settings |-> settings, cached |-> cached]
          PROVE  bench'.for = BenchmarkFor
      BY <3>1
    <3>2. CASE step' = "refused"
      BY <3>2
    <3>3. CASE step' # "refused"
      <4>1. PICK p \in 1..4, settings \in Settings, cached \in BOOLEAN :
              /\ bench' = [for |-> BenchmarkFor, accelerator |-> Accelerator, seen |-> Chosen,
                           plan |-> automatic_llama_device_plan(Chosen), place |-> p,
                           settings |-> settings, cached |-> cached]
              /\ step' \in {"probe", "measured"}
        BY <1>3, <3>3, BenchmarkBegins
      <4> QED
        BY <3>1, <4>1
    <3> QED
      BY <3>2, <3>3
  <2> QED
    BY <1>1, <2>1, <2>3, <2>4
<1>4. CASE (SkipProfile \/ ProbeFails) /\ Smaller
  <2>1. step = "probe"
    BY <1>4, Zenon DEF SkipProfile, ProbeFails
  <2>2. bench' = [bench EXCEPT !.place = bench.place - 1] /\ step' \in {"refused", "probe"}
    BY <1>4 DEF Smaller, Goto, Refuse
  <2>3. bench'.for = bench.for
    BY <1>2, <2>2 DEF Benchmarks
  <2> QED
    BY <1>1, <2>1, <2>2, <2>3
<1>5. CASE ProbeSucceeds
  <2>1. bench' = [bench EXCEPT !.settings = AutoFor(bench.place)]
    BY <1>5 DEF ProbeSucceeds
  <2>2. bench'.for = bench.for
    BY <1>2, <2>1 DEF Benchmarks
  <2> QED
    BY <1>1, <1>5, <2>2 DEF ProbeSucceeds, Goto
<1> QED
  BY <1>3, <1>4, <1>5 DEF Benchmarking, SkipProfile, ProbeFails

(* What the longest record needs is known before a context is chosen.      *)
LEMMA NeedsKept == ASSUME PrepTypeOK, Course, Needs, FreeBelow, _fine_tune \/ Elsewhere
                   PROVE  Needs'
<1> USE DEF Goto, Refuse, Automatic
<1>1. CASE _resolve_cli_model
  <2>1. /\ UNCHANGED <<request, required>> /\ request.full \in BOOLEAN
        /\ step' \in {"refused", "scan", Fitted}
        /\ step' = "scan" => ~VerifiedRefused /\ request.full
        /\ request.verified \in Nat
        /\ step' # "refused" /\ step' # "scan" => ~request.full
    BY <1>1, Asked DEF _resolve_cli_model, Fitted, PrepTypeOK
  <2> QED
    BY <2>1 DEF Needs, Needing, Benching, Fitted, VerifiedRefused
<1>2. CASE largest_training_context
  <2>1. PICK context \in {IF request.verified # 0 /\ step = "scan" THEN request.verified
                          ELSE Most(32, request.longest[engine] + 64)} : required' = context
    BY <1>2, Zenon DEF largest_training_context
  <2>2. /\ UNCHANGED <<request, engine>> /\ step \in {"scan", "rescan"}
        /\ step' \in {"refused", Fitted, "again", "train"} /\ step' # "scan"
    BY <1>2 DEF largest_training_context, Fitted
  <2>3. /\ request.verified \in Nat
        /\ request.longest["mlx"] \in Nat /\ request.longest["llama.cpp"] \in Nat
    BY Asked DEF PrepTypeOK
  <2>4. engine \in {"mlx", "llama.cpp"}
    BY <2>2 DEF Course
  <2>5. request.longest[engine] \in Nat
    BY <2>3, <2>4
  <2>6. step = "scan" => request.verified = 0 \/ request.verified >= 32
    BY DEF Needs
  <2>7. context >= 32 /\ (request.verified = 0 => context > request.longest[engine])
    BY <2>2, <2>3, <2>5, <2>6 DEF Most
  <2> QED
    BY <2>1, <2>2, <2>7 DEF Needs
<1>3. CASE Benchmarking
  <2>1. step = "probe" \/ step' # "refused" => step' \in {"probe", "measured"} \/ step' = "refused"
    BY <1>3, BenchmarkSteps
  <2> QED
    BY <1>3, BenchmarkSteps DEF Needs, Needing, Benching
<1>4. CASE _resolve_training_settings
  <2>1. UNCHANGED <<request, engine, required>> /\ step = "measured"
    BY <1>4 DEF _resolve_training_settings
  <2>2. \/ step' \in {"refused", "align"}
        \/ step' \in {"data", "train"} /\ bench.for \in {"settings", "fallback"}
    <3>1. bench.for \in {"settings", "fallback", "alignment"}
      <4>1. bench.for \in {"none", "settings", "fallback", "pilot", "alignment"}
        BY DEF PrepTypeOK, Benchmarks
      <4>2. bench.for # "none" /\ bench.for # "pilot"
        BY <1>4 DEF _resolve_training_settings, Course
      <4> QED
        BY <4>1, <4>2
    <3> QED
      BY <1>4, <3>1 DEF _resolve_training_settings
  <2> QED
    BY <2>1, <2>2 DEF Needs, Needing, Benching
<1>5. CASE CountFails \/ KeepSettings \/ prepare_dataset_source \/ CheckData
  BY <1>5 DEF CountFails, KeepSettings, prepare_dataset_source, CheckData, Needs, Needing, Benching
<1>6. CASE Calibrating
  <2>1. /\ UNCHANGED <<request, engine, required, bench>>
        /\ step \in {"measured", "trial", "scale"} /\ (step = "measured" => bench.for = "pilot")
        /\ step' \in {"refused", "trial", "scale", "train"}
    BY <1>6 DEF Calibrating, sample_training_data, PilotRefused, PilotRunsOut, PilotFails,
                FallsBackToCpu, PilotEnds, NoRate, ApplyCalibration, TrialOnly, Trying, Runs
  <2> QED
    BY <2>1 DEF Needs, Needing, Benching
<1>7. CASE FallBack
  <2>1. /\ UNCHANGED <<request, required>>
        /\ step' = IF request.full THEN "rescan" ELSE IF request.auto THEN "again" ELSE "train"
    BY <1>7 DEF FallBack
  <2> QED
    BY <2>1 DEF Needs, Needing, Benching
<1>8. CASE TrainMlx \/ _fit_gguf_context \/ train_gradient_gguf
  BY <1>8 DEF TrainMlx, _fit_gguf_context, train_gradient_gguf, Needs, Needing, Benching
<1>9. CASE Elsewhere
  BY <1>9 DEF Elsewhere, MemoryMoves, EntryExpires, command, Needs, Needing, Benching
<1> QED
  BY <1>1, <1>2, <1>3, <1>4, <1>5, <1>6, <1>7, <1>8, <1>9 DEF _fine_tune

(* Calibration keeps to itself until it is applied.                        *)
LEMMA CalibrationSteps ==
    ASSUME Course, Calibrating
    PROVE  /\ UNCHANGED <<request, engine, required, bench, free>>
           /\ step \in {"measured", "trial", "scale"} /\ bench.for = "pilot"
           /\ step' \in {"refused", "trial", "scale", "train"}
           /\ step' = "train" => ApplyCalibration
           /\ step' # "train" => UNCHANGED config
<1>1. CASE sample_training_data
  BY <1>1 DEF sample_training_data, ApplyCalibration, Goto, Refuse, environment
<1>2. CASE PilotRefused \/ PilotRunsOut \/ PilotFails \/ FallsBackToCpu \/ PilotEnds \/ NoRate
  <2>1. UNCHANGED <<request, engine, required, bench, free, config>> /\ step = "trial"
    BY <1>2 DEF PilotRefused, PilotRunsOut, PilotFails, FallsBackToCpu, PilotEnds, NoRate,
                TrialOnly, Trying, Runs, environment
  <2>2. step' \in {"refused", "trial", "scale"}
    BY <1>2 DEF PilotRefused, PilotRunsOut, PilotFails, FallsBackToCpu, PilotEnds, NoRate,
                Trying, Runs, Goto, Refuse
  <2> QED
    BY <2>1, <2>2 DEF Course, ApplyCalibration
<1>3. CASE ApplyCalibration
  <2>1. /\ UNCHANGED <<request, engine, required, bench, free>> /\ step = "scale"
        /\ (step' = "refused" /\ UNCHANGED config) \/ step' = "train"
    BY <1>3 DEF ApplyCalibration, Goto, Refuse, environment
  <2> QED
    BY <1>3, <2>1 DEF Course
<1> QED
  BY <1>1, <1>2, <1>3 DEF Calibrating

(* Settings are resolved for one of three purposes.                        *)
LEMMA ResolvingSteps ==
    ASSUME PrepTypeOK, Course, _resolve_training_settings
    PROVE  /\ UNCHANGED <<request, engine, required, bench, trial, free>> /\ step = "measured"
           /\ \/ step' = "refused" /\ UNCHANGED config
              \/ /\ \/ bench.for = "settings" /\ step' = "data"
                    \/ bench.for = "fallback" /\ step' = "train"
                    \/ bench.for = "alignment" /\ step' = "align"
                 /\ \A i \in DOMAIN bench.plan.split : ~(bench.plan.split[i] <= 0)
                 /\ config' = Configured(Applied(bench.for, bench.settings), bench.plan.split,
                                         Len(bench.seen), config.rate)
<1>1. UNCHANGED <<request, engine, required, bench, trial, free>> /\ step = "measured"
  BY DEF _resolve_training_settings, environment
<1>2. bench.for \in {"settings", "fallback", "alignment"}
  <2>1. bench.for \in {"none", "settings", "fallback", "pilot", "alignment"}
    BY DEF PrepTypeOK, Benchmarks
  <2>2. bench.for # "none" /\ bench.for # "pilot"
    BY DEF _resolve_training_settings, Course
  <2> QED
    BY <2>1, <2>2
<1>3. \/ step' = "refused" /\ UNCHANGED config
      \/ /\ step' = CASE bench.for = "settings" -> "data" [] bench.for = "fallback" -> "train"
                      [] bench.for = "alignment" -> "align"
         /\ \A i \in DOMAIN bench.plan.split : ~(bench.plan.split[i] <= 0)
         /\ config' = Configured(Applied(bench.for, bench.settings), bench.plan.split,
                                 Len(bench.seen), config.rate)
  BY Zenon DEF _resolve_training_settings, Goto, Refuse
<1>4. CASE bench.for = "settings"
  BY <1>1, <1>3, <1>4
<1>5. CASE bench.for = "fallback"
  BY <1>1, <1>3, <1>5
<1>6. CASE bench.for = "alignment"
  BY <1>1, <1>3, <1>6
<1> QED
  BY <1>2, <1>4, <1>5, <1>6

(* What is resolved is a configuration of the settings that are applied.   *)
LEMMA Resolved ==
    ASSUME PrepTypeOK, config' = Configured(Applied(bench.for, bench.settings), bench.plan.split,
                                            Len(bench.seen), config.rate)
    PROVE  /\ config'.split = bench.plan.split /\ config'.devices = Len(bench.seen)
           /\ config'.layers = bench.settings.layers /\ config'.several = bench.settings.several
           /\ config'.context = Covered(bench.for, IF request.context = 0
                                                   THEN bench.settings.context
                                                   ELSE request.context)
           /\ required <= config'.context
<1> DEFINE t == Applied(bench.for, bench.settings)
           x == IF request.context = 0 THEN bench.settings.context ELSE request.context
<1>1. /\ t.layers = bench.settings.layers /\ t.several = bench.settings.several
      /\ t.context = Covered(bench.for, x)
  BY PartsTyped, Applying
<1>2. x \in Nat \ {0} /\ required \in Nat
  BY PartsTyped, Asked DEF Settings, PrepTypeOK
<1>3. required <= Covered(bench.for, x)
  <2> HIDE DEF x
  <2> QED
    BY <1>2, Covering
<1> HIDE DEF t
<1>4. /\ config'.split = bench.plan.split /\ config'.devices = Len(bench.seen)
      /\ config'.layers = t.layers /\ config'.several = t.several /\ config'.context = t.context
  BY DEF Configured, t
<1> QED
  BY <1>1, <1>3, <1>4

(* Which steps lead to the benchmark, to a trial and to the native run.    *)
LEMMA Heading ==
    ASSUME PrepTypeOK, Course, Needs, FreeBelow, _fine_tune
    PROVE  /\ ~Benchmarking => step' \notin {"probe", "measured"}
           /\ ~Calibrating => step' \notin {"trial", "scale"}
           /\ ~_fit_gguf_context => step' # "native"
<1> USE DEF Goto, Refuse
<1>1. CASE Calibrating
  BY <1>1, CalibrationSteps
<1>2. CASE Benchmarking
  BY <1>2, BenchmarkSteps
<1>3. CASE _resolve_training_settings
  BY <1>3, ResolvingSteps
<1>4. CASE _resolve_cli_model \/ largest_training_context \/ CountFails \/ KeepSettings
  BY <1>4 DEF _resolve_cli_model, largest_training_context, CountFails, KeepSettings, Fitted
<1>5. CASE prepare_dataset_source \/ CheckData \/ TrainMlx \/ FallBack \/ train_gradient_gguf
  BY <1>5 DEF prepare_dataset_source, CheckData, TrainMlx, FallBack, train_gradient_gguf
<1>6. CASE _fit_gguf_context
  BY <1>6 DEF _fit_gguf_context
<1> QED
  BY <1>1, <1>2, <1>3, <1>4, <1>5, <1>6 DEF _fine_tune

(* With Full context the configuration covers the longest record.          *)
LEMMA CoversKept ==
    ASSUME PrepTypeOK, Course, Needs, FreeBelow, Covers, Tries, _fine_tune \/ Elsewhere
    PROVE  Covers'
<1> USE DEF Goto, Refuse, Automatic
<1>1. required \in Nat /\ config.context \in Nat \ {0} /\ config \in Configurations
  BY PartsTyped DEF PrepTypeOK
<1>2. CASE _resolve_cli_model \/ CountFails
  BY <1>2 DEF _resolve_cli_model, CountFails, Fitted, Covers, Configuring, Benching
<1>3. CASE largest_training_context
  <2>1. PICK context \in {IF request.verified # 0 /\ step = "scan" THEN request.verified
                          ELSE Most(32, request.longest[engine] + 64)} :
          /\ required' = context
          /\ config' = IF step = "rescan" THEN [config EXCEPT !.context = context] ELSE config
    BY <1>3, Zenon DEF largest_training_context
  <2>2. context \in Nat
    <3>1. /\ request.verified \in Nat
          /\ request.longest["mlx"] \in Nat /\ request.longest["llama.cpp"] \in Nat
      BY Asked DEF PrepTypeOK
    <3>2. engine \in {"mlx", "llama.cpp"}
      BY <1>3 DEF largest_training_context, Course
    <3> QED
      BY <3>1, <3>2 DEF Most
  <2>3. /\ step \in {"scan", "rescan"}
        /\ step' \in {"refused", "settings", "override", "again", "train"}
        /\ step' = "train" => step = "rescan"
    BY <1>3 DEF largest_training_context, Fitted
  <2>4. step = "rescan" => config'.context = context
    BY <1>1, <2>1 DEF Configurations
  <2> QED
    BY <2>1, <2>2, <2>3, <2>4 DEF Covers, Configuring, Benching
<1>4. CASE Benchmarking
  BY <1>4, BenchmarkSteps DEF Covers, Configuring, Benching
<1>5. CASE _resolve_training_settings
  <2>1. CASE step' = "refused"
    BY <2>1 DEF Covers, Configuring, Benching
  <2>2. CASE step' # "refused"
    <3>1. config' = Configured(Applied(bench.for, bench.settings), bench.plan.split,
                               Len(bench.seen), config.rate)
      BY <1>5, <2>2, ResolvingSteps
    <3>2. required <= config'.context
      BY <3>1, Resolved
    <3>3. config'.context \in Nat /\ UNCHANGED required
      BY <1>5, TypesKept, ResolvingSteps DEF PrepTypeOK, Configurations, _fine_tune
    <3> QED
      BY <1>1, <3>2, <3>3 DEF Covers
  <2> QED
    BY <2>1, <2>2
<1>6. CASE KeepSettings
  <2> DEFINE x == Covered("settings", config.context)
  <2>1. config' = [config EXCEPT !.context = x] /\ UNCHANGED required
    BY <1>6 DEF KeepSettings
  <2>2. x \in Nat /\ required <= x
    BY <1>1, Covering
  <2> HIDE DEF x
  <2>3. config'.context = x
    BY <1>1, <2>1 DEF Configurations
  <2> QED
    BY <1>1, <2>1, <2>2, <2>3 DEF Covers
<1>7. CASE CheckData
  <2>1. \/ UNCHANGED config
        \/ config' = [config EXCEPT !.context = Most(2048, config.context)]
    BY <1>7 DEF CheckData
  <2>2. config'.context \in Nat /\ config.context <= config'.context
    BY <1>1, <2>1 DEF Configurations, Most
  <2> QED
    BY <1>1, <1>7, <2>2 DEF CheckData, Covers, Configuring
<1>8. CASE Calibrating
  <2>1. CASE step' = "train"
    <3>0. ApplyCalibration
      BY <1>8, <2>1, CalibrationSteps
    <3>1. config'.context = Least(config.context, trial.settings.context)
      BY <1>1, <2>1, <3>0 DEF ApplyCalibration, Configurations
    <3>2. /\ trial.settings.context \in Nat /\ step = "scale" /\ UNCHANGED <<request, required>>
          /\ request.full => trial.settings.context >= config.context
      BY <3>0, PartsTyped DEF ApplyCalibration, Tries, Trialling
    <3> QED
      BY <1>1, <3>1, <3>2 DEF Covers, Configuring, Least
  <2>2. CASE step' # "train"
    <3>1. /\ UNCHANGED <<request, engine, required, bench, config>>
          /\ step \in {"measured", "trial", "scale"} /\ bench.for = "pilot"
          /\ step' \in {"refused", "trial", "scale"}
      BY <1>8, <2>2, CalibrationSteps
    <3> QED
      BY <3>1 DEF Covers, Configuring, Benching
  <2> QED
    BY <2>1, <2>2
<1>9. CASE FallBack
  BY <1>9 DEF FallBack, Covers, Configuring, Benching
<1>10. CASE _fit_gguf_context
  <2> DEFINE fitted == FitGgufContext(config.context, config.gguf, Model.limit)
             x == Most(32, fitted[1])
  <2>1. fitted[1] \in Nat \ {0} /\ config.context <= fitted[1]
    BY PartsTyped, ModelTyped, NativeFitting
  <2>2. config' = [config EXCEPT !.context = x, !.gguf = fitted[2]]
    BY <1>10 DEF _fit_gguf_context
  <2>3. config'.context = x
    BY <1>1, <2>2 DEF Configurations
  <2> HIDE DEF fitted
  <2>4. x \in Nat /\ config.context <= x
    BY <1>1, <2>1 DEF Most
  <2> QED
    BY <1>1, <1>10, <2>3, <2>4 DEF _fit_gguf_context, Covers, Configuring
<1>11. CASE prepare_dataset_source \/ TrainMlx \/ train_gradient_gguf
  BY <1>11 DEF prepare_dataset_source, TrainMlx, train_gradient_gguf, Covers, Configuring, Benching
<1>12. CASE Elsewhere
  BY <1>12 DEF Elsewhere, MemoryMoves, EntryExpires, command, Covers, Configuring, Benching
<1> QED
  BY <1>2, <1>3, <1>4, <1>5, <1>6, <1>7, <1>8, <1>9, <1>10, <1>11, <1>12 DEF _fine_tune

(* A pilot that ends well or badly leaves what it used, and goes on with   *)
(* the rate and the place.                                                 *)
LEMMA PilotEnding ==
    ASSUME PrepTypeOK, PilotEnds
    PROVE  \E used \in Used :
              /\ trial'.settings = used /\ trial'.asked = trial.asked
              /\ \/ step' = "scale" /\ trial'.rate = Rate
                 \/ UNCHANGED step
<1>1. trial \in Trials
  BY DEF PrepTypeOK
<1>2. PICK used \in Used, verdict \in {"better", "flat", "worse"} :
        \/ trial' = [trial EXCEPT !.settings = used, !.rate = Rate] /\ step' = "scale"
        \/ /\ trial' = [Onward EXCEPT !.settings = used, !.higher = @ /\ verdict = "flat"]
           /\ UNCHANGED step
  BY DEF PilotEnds, Goto
<1>3. CASE trial' = [trial EXCEPT !.settings = used, !.rate = Rate] /\ step' = "scale"
  <2>1. trial'.settings = used /\ trial'.asked = trial.asked /\ trial'.rate = Rate
    BY <1>1, <1>3 DEF Trials
  <2> QED
    BY <1>3, <2>1
<1>4. CASE /\ trial' = [Onward EXCEPT !.settings = used, !.higher = @ /\ verdict = "flat"]
           /\ UNCHANGED step
  <2>1. trial'.settings = used /\ trial'.asked = trial.asked
    BY <1>1, <1>4 DEF Trials, Onward
  <2> QED
    BY <1>4, <2>1
<1> QED
  BY <1>2, <1>3, <1>4

(* A trial that starts asks for the context of the configuration.          *)
LEMMA Sampling ==
    ASSUME PrepTypeOK, sample_training_data, step' # "refused"
    PROVE  /\ step' = "trial" /\ UNCHANGED config
           /\ trial'.asked.context = config.context /\ trial'.settings.context = config.context
           /\ trial'.settings.layers = bench.settings.layers
           /\ trial'.settings.several = bench.settings.several
<1> DEFINE s == [bench.settings EXCEPT !.context = config.context]
<1>1. PICK largest \in Largest, batch \in {FirstMicrobatch(s, Chosen)} :
        trial' = [place |-> 1, asked |-> [s EXCEPT !.gguf = batch],
                  settings |-> [s EXCEPT !.gguf = batch], higher |-> TRUE,
                  rate |-> 0, largest |-> largest]
  BY Zenon DEF sample_training_data, Refuse, Goto
<1>2. /\ s \in Settings /\ s.context = config.context
      /\ s.layers = bench.settings.layers /\ s.several = bench.settings.several
  <2>1. bench.settings \in Settings /\ config.context \in Nat \ {0}
    BY PartsTyped, Zenon
  <2> QED
    BY <2>1, Resettled
<1>3. batch \in Nat \ {0}
  <2>1. FirstMicrobatch(s, Chosen) \in Nat \ {0}
    <3> HIDE DEF s
    <3>1. s.gguf \in Nat \ {0}
      BY <1>2 DEF Settings
    <3> QED
      BY <1>2, <3>1, Microbatch DEF FirstMicrobatch
  <2> QED
    BY <2>1
<1> HIDE DEF s
<1> DEFINE t == [s EXCEPT !.gguf = batch]
<1>4. t.context = s.context /\ t.layers = s.layers /\ t.several = s.several
  BY <1>2, <1>3, Resettled
<1>5. trial'.asked = t /\ trial'.settings = t
  BY <1>1
<1>6. step' = "trial" /\ UNCHANGED config
  BY DEF sample_training_data, Refuse, Goto
<1> QED
  BY <1>2, <1>4, <1>5, <1>6

(* A trial is made at no less than the context that was asked for, but for *)
(* windows on MLX.                                                         *)
LEMMA TriesKept ==
    ASSUME PrepTypeOK, Course, Needs, FreeBelow, Tries, _fine_tune \/ Elsewhere
    PROVE  Tries'
<1> USE DEF Goto, Refuse
<1>1. trial \in Trials /\ trial.settings \in Settings
  BY PartsTyped DEF PrepTypeOK
<1>2. CASE Calibrating
  <2>1. UNCHANGED <<request, engine>>
    BY <1>2, CalibrationSteps
  <2>2. CASE sample_training_data
    <3>1. CASE step' = "refused"
      BY <3>1 DEF Tries, Trialling
    <3>2. CASE step' # "refused"
      <4>1. /\ UNCHANGED config /\ trial'.asked.context = config.context
            /\ trial'.settings.context = config.context /\ config.context \in Nat
        BY <2>2, <3>2, Sampling, PartsTyped
      <4> QED
        BY <4>1 DEF Tries
    <3> QED
      BY <3>1, <3>2
  <2>3. CASE PilotRunsOut
    <3> DEFINE g == Most(1, trial.settings.gguf \div 2)
               s == [trial.settings EXCEPT !.gguf = g]
    <3>1. g \in Nat \ {0}
      BY PartsTyped DEF Most
    <3>2. s.context = trial.settings.context
      BY <1>1, <3>1, Resettled
    <3>3. trial' = [trial EXCEPT !.settings = s] /\ UNCHANGED config /\ step = "trial"
      BY <1>1, <2>3 DEF PilotRunsOut, Trials, TrialOnly, Runs, Trying
    <3> HIDE DEF s
    <3>4. trial'.asked = trial.asked /\ trial'.settings = s
      BY <1>1, <3>3 DEF Trials
    <3> QED
      BY <2>1, <3>2, <3>3, <3>4 DEF Tries, Trialling
  <2>4. CASE PilotFails
    <3>1. trial' = [trial EXCEPT !.place = @ + 1, !.higher = FALSE] /\ UNCHANGED config
      BY <2>4 DEF PilotFails, Onward, TrialOnly
    <3>2. trial'.asked = trial.asked /\ trial'.settings = trial.settings
      BY <1>1, <3>1 DEF Trials
    <3> QED
      BY <2>1, <2>4, <3>1, <3>2 DEF Tries, Trialling, PilotFails, Runs, Trying
  <2>5. CASE PilotEnds
    <3>1. PICK used \in Used : trial'.settings = used /\ trial'.asked = trial.asked
      BY <2>5, PilotEnding
    <3>2. /\ step = "trial" /\ UNCHANGED config
          /\ trial.asked.context = config.context
          /\ engine = "llama.cpp" \/ request.full =>
                trial.settings.context >= config.context
      BY <2>5 DEF PilotEnds, Runs, Trying, TrialOnly, Tries, Trialling
    <3>3. /\ engine = "mlx" => Pilot = trial.settings
          /\ engine # "mlx" => Pilot.context = PadTo(trial.asked.context, trial.settings.gguf)
          /\ engine # "mlx" \/ request.full => used = Pilot
      BY PilotTyped
    <3>4. /\ trial.asked.context \in Nat \ {0} /\ trial.settings.gguf \in Nat \ {0}
          /\ config.context \in Nat /\ trial.settings.context \in Nat
      BY PartsTyped
    <3>5. PadTo(trial.asked.context, trial.settings.gguf) \in Nat
          /\ trial.asked.context <= PadTo(trial.asked.context, trial.settings.gguf)
      BY <3>4, Padding
    <3>6. engine = "llama.cpp" \/ request.full => used.context >= config.context
      <4>1. CASE engine = "mlx"
        BY <3>2, <3>3, <4>1
      <4>2. CASE engine # "mlx"
        BY <3>2, <3>3, <3>5, <4>2
      <4> QED
        BY <4>1, <4>2
    <3> QED
      BY <2>1, <3>1, <3>2, <3>6 DEF Tries
  <2>6. CASE PilotRefused \/ FallsBackToCpu \/ NoRate
    BY <2>6 DEF PilotRefused, FallsBackToCpu, NoRate, Tries, Trialling
  <2>7. CASE ApplyCalibration
    BY <2>7 DEF ApplyCalibration, Tries, Trialling
  <2> QED
    BY <1>2, <2>2, <2>3, <2>4, <2>5, <2>6, <2>7 DEF Calibrating
<1>3. CASE Elsewhere
  BY <1>3 DEF Elsewhere, MemoryMoves, EntryExpires, command, Tries, Trialling
<1>4. CASE _fine_tune /\ ~Calibrating
  BY <1>4, Heading DEF Tries, Trialling
<1> QED
  BY <1>2, <1>3, <1>4

(* What a pilot of the native engine succeeded with is a context that the  *)
(* trainer takes.                                                          *)
LEMMA PilotContext ==
    ASSUME PrepTypeOK, Runs, NEW used \in Used, engine = "llama.cpp"
    PROVE  used.context >= 32
<1>1. used = Pilot
  BY PilotTyped
<1>2. AcceptsPilot
  BY DEF Runs
<1> QED
  BY <1>1, <1>2 DEF AcceptsPilot, Accepts, validate

(* Before training the measured bounds are kept, at the measured rate.     *)
LEMMA MeasuresKept ==
    ASSUME PrepTypeOK, Course, Needs, FreeBelow, Measures, _fine_tune \/ Elsewhere
    PROVE  Measures'
<1> USE DEF Goto, Refuse
<1>1. config \in Configurations /\ trial \in Trials
  BY DEF PrepTypeOK
<1>2. CASE PilotEnds
  <2>1. PICK used \in Used : /\ trial'.settings = used
                             /\ \/ step' = "scale" /\ trial'.rate = Rate
                                \/ UNCHANGED step
    BY <1>2, PilotEnding
  <2>2. step = "trial" /\ UNCHANGED engine /\ Runs /\ ~NoMoreRates
    BY <1>2 DEF PilotEnds, Runs, Trying, TrialOnly
  <2>3. Rate # 0
    BY <2>2, RateTyped
  <2>4. engine = "llama.cpp" => used.context >= 32
    BY <2>2, PilotContext
  <2> QED
    BY <2>1, <2>2, <2>3, <2>4 DEF Measures
<1>3. CASE ApplyCalibration /\ step' # "refused"
  <2> DEFINE x == Least(config.context, trial.settings.context)
             b == Least(config.batch, trial.settings.batch)
             g == _calibrated_gguf_batch_size(config.gguf, trial.settings.gguf)
             r == rate_factor(trial.rate)
  <2>1. config' = [config EXCEPT !.rate = r, !.context = x, !.batch = b, !.gguf = g]
    BY <1>1, <1>3 DEF ApplyCalibration, Configurations
  <2>2. x <= trial.settings.context /\ b <= trial.settings.batch /\ g <= trial.settings.gguf
    <3>1. /\ config.context \in Nat /\ config.batch \in Nat /\ config.gguf \in Nat
          /\ trial.settings.context \in Nat /\ trial.settings.batch \in Nat
          /\ trial.settings.gguf \in Nat
      BY PartsTyped, Zenon
    <3> QED
      BY <3>1 DEF Least, _calibrated_gguf_batch_size
  <2>3. step = "scale" /\ step' = "train" /\ UNCHANGED <<request, engine, bench, trial>>
    BY <1>3 DEF ApplyCalibration
  <2>4. /\ r.measured = trial.rate /\ r.piloted <= r.planned
        /\ engine = "llama.cpp" => r.piloted * Planned <= r.planned * Piloted
    BY PartsTyped, RateScaled
  <2> HIDE DEF x, b, g, r
  <2>5. /\ config'.rate = r /\ config'.context = x /\ config'.batch = b
        /\ config'.gguf = g
    BY <1>1, <2>1 DEF Configurations
  <2>6. Planned' = Planned /\ Piloted' = Piloted
    BY <2>3 DEF Planned, Piloted, Sampled
  <2>7. Scaled'
    BY <2>3, <2>4, <2>5, <2>6 DEF Scaled
  <2> QED
    BY <2>2, <2>3, <2>5, <2>7 DEF Measures, Bounded
<1>4. CASE Calibrating /\ ~PilotEnds /\ ~(ApplyCalibration /\ step' # "refused")
  <2>1. step' \in {"refused", "trial"}
    BY <1>4 DEF Calibrating, sample_training_data, PilotRefused, PilotRunsOut, PilotFails,
                FallsBackToCpu, NoRate, Runs, Trying, ApplyCalibration
  <2> QED
    BY <2>1 DEF Measures
<1>5. CASE Benchmarking
  <2>1. step' \in {"probe", "measured", "refused"}
    BY <1>5, BenchmarkSteps
  <2> QED
    BY <2>1 DEF Measures
<1>6. CASE _resolve_training_settings
  <2>1. step' = "train" => bench.for = "fallback" /\ UNCHANGED bench
    BY <1>6, ResolvingSteps
  <2>2. step' # "scale"
    BY <1>6, ResolvingSteps
  <2> QED
    BY <2>1, <2>2 DEF Measures
<1>7. CASE largest_training_context \/ CheckData \/ FallBack
  <2>1. step' # "scale" /\ UNCHANGED request
    BY <1>7 DEF largest_training_context, CheckData, FallBack, Fitted
  <2>2. step' = "train" => ~Calibrated
    BY <1>7 DEF largest_training_context, CheckData, FallBack, Fitted, Calibrated
  <2>3. Calibrated' = Calibrated
    BY <2>1 DEF Calibrated, Automatic
  <2> QED
    BY <2>1, <2>2, <2>3 DEF Measures
<1>8. CASE \/ _resolve_cli_model \/ CountFails \/ KeepSettings \/ prepare_dataset_source
           \/ TrainMlx \/ _fit_gguf_context \/ train_gradient_gguf
  <2>1. step' \notin {"scale", "train"}
    BY <1>8 DEF _resolve_cli_model, CountFails, KeepSettings, prepare_dataset_source, TrainMlx,
                _fit_gguf_context, train_gradient_gguf, Fitted
  <2> QED
    BY <2>1 DEF Measures
<1>9. CASE Elsewhere
  BY <1>9 DEF Elsewhere, MemoryMoves, EntryExpires, command, Measures, Bounded, Scaled,
              Planned, Piloted, Sampled, Calibrated, Automatic
<1> QED
  BY <1>2, <1>3, <1>4, <1>5, <1>6, <1>7, <1>8, <1>9 DEF _fine_tune

(* So they are in the run itself: a native run gets less than a microbatch *)
(* more context.                                                           *)
LEMMA MeasuredShapeKept ==
    ASSUME PrepTypeOK, Course, Needs, FreeBelow, Measures, MeasuredShape, _fine_tune \/ Elsewhere
    PROVE  MeasuredShape'
<1> USE DEF Goto, Refuse
<1>1. PrepTypeOK' /\ Measures'
  BY TypesKept, MeasuresKept
<1>2. CASE step' = "train"
  <2>1. /\ config'.context \in Nat \ {0} /\ config'.gguf \in Nat \ {0}
        /\ trial'.settings.context \in Nat
    <3>1. config' \in Configurations /\ trial' \in Trials
      BY <1>1 DEF PrepTypeOK
    <3>2. trial'.settings \in Settings
      BY <3>1 DEF Trials
    <3> QED
      BY <3>1, <3>2 DEF Configurations, Settings
  <2> QED
    BY <1>1, <1>2, <2>1 DEF Measures, Bounded, Scaled, MeasuredShape
<1>3. CASE _fit_gguf_context
  <2> DEFINE fitted == FitGgufContext(config.context, config.gguf, Model.limit)
             x == Most(32, fitted[1])
             g == fitted[2]
  <2>1. /\ step = "train" /\ engine = "llama.cpp" /\ UNCHANGED <<request, engine, bench, trial>>
        /\ config' = [config EXCEPT !.context = x, !.gguf = g] /\ config \in Configurations
    BY <1>3 DEF _fit_gguf_context, OnMlx, Course, PrepTypeOK
  <2>2. /\ fitted[1] \in Nat \ {0} /\ g \in 1..config.gguf /\ fitted[1] < config.context + g
    BY PartsTyped, ModelTyped, NativeFitting
  <2> HIDE DEF x, g, fitted
  <2>3. /\ config'.context = x /\ config'.gguf = g /\ config'.rate = config.rate
        /\ config'.batch = config.batch
    BY <2>1 DEF Configurations
  <2>4. /\ config.context \in Nat \ {0} /\ config.gguf \in Nat \ {0}
        /\ trial.settings.context \in Nat \ {0} /\ trial.settings.gguf \in Nat \ {0}
    BY PartsTyped
  <2>5. ASSUME config.context <= trial.settings.context, trial.settings.context >= 32
        PROVE  x < trial.settings.context + g
    BY <2>2, <2>4, <2>5 DEF x, Most
  <2>6. config.gguf <= trial.settings.gguf => g <= trial.settings.gguf
    BY <2>2, <2>4
  <2>7. Calibrated' = Calibrated
    BY <2>1 DEF Calibrated, Automatic
  <2>8. Planned' = Planned /\ Piloted' = Piloted
    BY <2>1 DEF Planned, Piloted, Sampled
  <2> QED
    BY <2>1, <2>3, <2>5, <2>6, <2>7, <2>8 DEF Measures, Bounded, Scaled, MeasuredShape
<1>4. CASE Elsewhere
  BY <1>4 DEF Elsewhere, MemoryMoves, EntryExpires, command, MeasuredShape, Starting, OnMlx,
              Calibrated, Automatic, Planned, Piloted, Sampled
<1>5. CASE _fine_tune /\ ~_fit_gguf_context
  <2>1. step' # "native"
    BY <1>5, Heading
  <2> QED
    BY <1>2, <2>1 DEF MeasuredShape, Starting
<1> QED
  BY <1>3, <1>4, <1>5

(* No GPU has more free memory than it has.                                *)
LEMMA FreeBelowKept == ASSUME PrepTypeOK, FreeBelow, _fine_tune \/ Elsewhere PROVE FreeBelow'
<1>1. CASE MemoryMoves
  <2>1. PICK i \in DOMAIN free : \E n \in request.host.gpus[i].levels :
            free' = [free EXCEPT ![i] = n]
    BY <1>1 DEF MemoryMoves
  <2>2. PICK n \in request.host.gpus[i].levels : free' = [free EXCEPT ![i] = n]
    BY <2>1
  <2>3. DOMAIN free = DOMAIN request.host.gpus
    BY DEF PrepTypeOK
  <2>4. n <= request.host.gpus[i].total
    BY <2>2, <2>3, Asked DEF PrepTypeOK
  <2>5. UNCHANGED request
    BY <1>1 DEF MemoryMoves, command
  <2> QED
    BY <2>2, <2>3, <2>4, <2>5 DEF FreeBelow
<1>2. CASE ~MemoryMoves
  BY <1>2, Unmoved DEF FreeBelow
<1> QED
  BY <1>1, <1>2

-----------------------------------------------------------------------------
(* What the settings are suited to does not change with the free memory.   *)
LEMMA SameSight ==
    ASSUME UNCHANGED <<request, engine>>
    PROVE  /\ Places' = Places /\ (Unreported' <=> Unreported) /\ (Native' <=> Native)
           /\ (AutomaticOnly' <=> AutomaticOnly)
<1>1. Places' = Places
  BY SamePlaces
<1> QED
  BY <1>1 DEF Unreported, Native, AutomaticOnly, Automatic

(* A plan made now divides a model as the devices that are chosen report.  *)
LEMMA PlanSuits ==
    ASSUME PrepTypeOK, FreeBelow, ~NotEnoughDevices(Accelerator, request.multi, Chosen)
    PROVE  Sees(Len(Chosen), automatic_llama_device_plan(Chosen).split)
<1> DEFINE split == automatic_llama_device_plan(Chosen).split
<1>1. /\ Chosen \in Seq(Gpus) /\ Len(Chosen) = Len(Places) /\ Len(Chosen) \in Nat
      /\ DOMAIN Chosen = 1..Len(Chosen)
      /\ \A k \in DOMAIN Chosen : /\ Chosen[k].free <= Chosen[k].total
                                  /\ Chosen[k].total = request.host.gpus[Places[k]].total
  BY ChosenTyped
<1>2. /\ split = <<>> <=> Len(Chosen) < 2 \/ \E i \in DOMAIN Chosen : Chosen[i].total = 0
      /\ split # <<>> => Len(split) = Len(Chosen)
  BY <1>1, Planning
<1>3. DOMAIN Places = DOMAIN Chosen
  BY <1>1, PlacesTyped
<1>4. split = <<>> <=> Unreported
  BY <1>1, <1>2, <1>3 DEF Unreported
<1>5. request.multi = "on" => Len(Chosen) >= 2
  BY <1>1 DEF NotEnoughDevices
<1> QED
  BY <1>1, <1>2, <1>4, <1>5 DEF Sees, Splits

(* What the benchmark measured suits the native trainer.                   *)
LEMMA BenchedKept ==
    ASSUME PrepTypeOK, Course, Needs, FreeBelow, Benched, _fine_tune \/ Elsewhere
    PROVE  Benched'
<1> USE DEF Goto, Refuse
<1>1. bench \in Benchmarks
  BY DEF PrepTypeOK
<1>2. CASE benchmark_auto_settings
  <2>1. CASE step' = "refused"
    BY <2>1 DEF Benched, Trialling
  <2>2. CASE step' # "refused"
    <3>1. PICK p \in 1..4, settings \in Settings, cached \in BOOLEAN :
            /\ settings = AutoFor(p)
            /\ bench' = [for |-> BenchmarkFor, accelerator |-> Accelerator, seen |-> Chosen,
                         plan |-> automatic_llama_device_plan(Chosen), place |-> p,
                         settings |-> settings, cached |-> cached]
            /\ Native => ~NotEnoughDevices(Accelerator, request.multi, Chosen)
      BY <1>2, <2>2, BenchmarkBegins
    <3>2. UNCHANGED <<request, engine>>
      BY <1>2, BenchmarkSteps DEF Benchmarking
    <3>3. /\ bench'.settings = settings /\ bench'.seen = Chosen
          /\ bench'.plan = automatic_llama_device_plan(Chosen)
      BY <3>1
    <3>4. Native => Trainable(settings)
      BY <3>1, AutoTyped DEF Needs
    <3>5. Native => Sees(Len(Chosen), automatic_llama_device_plan(Chosen).split)
      BY <3>1, PlanSuits
    <3>6. Trainable(settings) => Trainable(bench.settings)'
      BY <3>2, <3>3 DEF Trainable, _validate_hybrid_training_path
    <3>7. Sees(Len(Chosen), automatic_llama_device_plan(Chosen).split)
            => Sees(Len(bench.seen), bench.plan.split)'
      BY <3>2, <3>3, SameSight DEF Sees, Splits
    <3> QED
      BY <3>2, <3>4, <3>5, <3>6, <3>7, SameSight DEF Benched
  <2> QED
    BY <2>1, <2>2
<1>3. CASE (SkipProfile \/ ProbeFails) /\ Smaller
  <2>1. step = "probe"
    BY <1>3, Zenon DEF SkipProfile, ProbeFails
  <2>2. bench' = [bench EXCEPT !.place = bench.place - 1] /\ UNCHANGED <<request, engine>>
    BY <1>3 DEF Smaller
  <2>3. bench'.settings = bench.settings /\ bench'.seen = bench.seen /\ bench'.plan = bench.plan
    BY <1>1, <2>2 DEF Benchmarks
  <2> QED
    BY <2>1, <2>2, <2>3, SameSight
       DEF Benched, Sees, Splits, Trainable, _validate_hybrid_training_path
<1>4. CASE ProbeSucceeds
  <2>1. /\ step = "probe" /\ UNCHANGED <<request, engine>>
        /\ bench' = [bench EXCEPT !.settings = AutoFor(bench.place)]
    BY <1>4 DEF ProbeSucceeds
  <2>2. /\ bench'.settings = AutoFor(bench.place) /\ bench'.seen = bench.seen
        /\ bench'.plan = bench.plan
    BY <1>1, <2>1 DEF Benchmarks
  <2>3. bench.place \in 1..4
    BY <2>1, PartsTyped DEF Course
  <2>4. Native => Trainable(AutoFor(bench.place))
    BY <2>3, AutoTyped DEF Needs
  <2>5. Trainable(AutoFor(bench.place)) => Trainable(bench.settings)'
    BY <2>1, <2>2 DEF Trainable, _validate_hybrid_training_path
  <2>6. Sees(Len(bench.seen), bench.plan.split) => Sees(Len(bench.seen), bench.plan.split)'
    BY <2>1, <2>2, SameSight DEF Sees, Splits
  <2> QED
    BY <2>1, <2>4, <2>5, <2>6, SameSight DEF Benched
<1>5. ASSUME UNCHANGED <<request, engine, bench>>,
             step' \in {"probe", "measured", "trial", "scale"} =>
                step \in {"probe", "measured", "trial", "scale"}
      PROVE  Benched'
  BY <1>5, SameSight
     DEF Benched, Trialling, Sees, Splits, Trainable, _validate_hybrid_training_path
<1>6. CASE Calibrating
  BY <1>5, <1>6, CalibrationSteps
<1>7. CASE Elsewhere
  <2>1. UNCHANGED <<request, engine, bench, step>>
    BY <1>7 DEF Elsewhere, MemoryMoves, EntryExpires, command
  <2> QED
    BY <1>5, <2>1
<1>8. CASE _fine_tune /\ ~(Benchmarking \/ Calibrating)
  <2>1. step' \notin {"probe", "measured", "trial", "scale"}
    BY <1>8, Heading
  <2> QED
    BY <2>1 DEF Benched, Trialling
<1> QED
  BY <1>2, <1>3, <1>4, <1>6, <1>7, <1>8 DEF _fine_tune, Benchmarking, SkipProfile, ProbeFails

(* The devices that are chosen have names that were found.                 *)
LEMMA ChosenNamed == ASSUME PrepTypeOK PROVE Named(Chosen)
<1> DEFINE G == request.host.gpus
<1>1. G \in Seq(Gpus) /\ Places \in Seq(DOMAIN G)
  BY Asked, PlacesTyped DEF PrepTypeOK
<1>2. SUFFICES ASSUME NEW k \in DOMAIN Places
               PROVE  \E j \in DOMAIN Found : Chosen[k].name = G[Found[j]].name
  BY DEF Named, Chosen
<1>3. Chosen[k] = [G[Places[k]] EXCEPT !.free = free[Places[k]]]
  BY DEF Chosen
<1>4. G[Places[k]] \in Gpus
  BY <1>1
<1>5. Chosen[k].name = G[Places[k]].name
  BY <1>3, <1>4 DEF Gpus
<1>6. \E j \in DOMAIN Found : Places[k] = Found[j]
  <2>1. Found \in Seq(DOMAIN G)
    BY <1>1, Asked, DevicesTyped, EmptySeq DEF Found, PrepTypeOK
  <2>2. CASE Places = Found
    BY <2>2
  <2>3. CASE Found # <<>> /\ Places = <<Found[1]>>
    <3>1. k = 1 /\ 1 \in DOMAIN Found
      BY <2>1, <2>3
    <3> QED
      BY <2>3, <3>1
  <2>4. Places # <<>>
    OBVIOUS
  <2>5. Places = <<>> \/ Places = Found \/ (Found # <<>> /\ Places = <<Found[1]>>)
    BY Zenon DEF Places, ChosenDevices
  <2> QED
    BY <2>2, <2>3, <2>4, <2>5
<1> QED
  BY <1>5, <1>6

(* The benchmark has seen devices of the backend that was chosen.          *)
LEMMA SightedKept ==
    ASSUME PrepTypeOK, Course, Needs, FreeBelow, Sighted, _fine_tune \/ Elsewhere
    PROVE  Sighted'
<1> USE DEF Goto, Refuse
<1>1. bench \in Benchmarks
  BY DEF PrepTypeOK
<1>2. ASSUME UNCHANGED <<request, engine>>, bench'.accelerator = bench.accelerator,
             bench'.seen = bench.seen,
             step' \in {"probe", "measured", "trial", "scale"} =>
                step \in {"probe", "measured", "trial", "scale"}
      PROVE  Sighted'
  <2>1. Named(bench.seen)' <=> Named(bench.seen)
    BY <1>2, SamePlaces DEF Named
  <2> QED
    BY <1>2, <2>1, SamePlaces DEF Sighted, Native, Trialling
<1>3. CASE benchmark_auto_settings
  <2>1. CASE step' = "refused"
    BY <2>1 DEF Sighted, Trialling
  <2>2. CASE step' # "refused"
    <3>1. PICK p \in 1..4, settings \in Settings, cached \in BOOLEAN :
            /\ bench' = [for |-> BenchmarkFor, accelerator |-> Accelerator, seen |-> Chosen,
                         plan |-> automatic_llama_device_plan(Chosen), place |-> p,
                         settings |-> settings, cached |-> cached]
            /\ Accelerator # Refused
      BY <1>3, <2>2, BenchmarkBegins
    <3>2. UNCHANGED <<request, engine>>
      BY <1>3, BenchmarkSteps DEF Benchmarking
    <3>3. bench'.accelerator = Accelerator /\ bench'.seen = Chosen
      BY <3>1
    <3>4. Named(bench.seen)'
      <4>1. Named(Chosen)
        BY ChosenNamed
      <4> QED
        BY <3>2, <3>3, <4>1, SamePlaces DEF Named
    <3>5. Native => Accelerator \in Accelerators
      BY <3>1, AcceleratorTyped, Asked, HostAsked DEF Native, Accelerator, PrepTypeOK
    <3> QED
      BY <3>2, <3>3, <3>4, <3>5, SamePlaces, SameSight DEF Sighted
  <2> QED
    BY <2>1, <2>2
<1>4. CASE (SkipProfile \/ ProbeFails) /\ Smaller
  <2>1. step = "probe"
    BY <1>4, Zenon DEF SkipProfile, ProbeFails
  <2>2. bench' = [bench EXCEPT !.place = bench.place - 1] /\ UNCHANGED <<request, engine>>
    BY <1>4 DEF Smaller
  <2>3. bench'.accelerator = bench.accelerator /\ bench'.seen = bench.seen
    BY <1>1, <2>2 DEF Benchmarks
  <2> QED
    BY <1>2, <2>1, <2>2, <2>3
<1>5. CASE ProbeSucceeds
  <2>1. /\ step = "probe" /\ UNCHANGED <<request, engine>>
        /\ bench' = [bench EXCEPT !.settings = AutoFor(bench.place)]
    BY <1>5 DEF ProbeSucceeds
  <2>2. bench'.accelerator = bench.accelerator /\ bench'.seen = bench.seen
    BY <1>1, <2>1 DEF Benchmarks
  <2> QED
    BY <1>2, <2>1, <2>2
<1>6. CASE Calibrating
  BY <1>2, <1>6, CalibrationSteps
<1>7. CASE Elsewhere
  <2>1. UNCHANGED <<request, engine, bench, step>>
    BY <1>7 DEF Elsewhere, MemoryMoves, EntryExpires, command
  <2> QED
    BY <1>2, <2>1
<1>8. CASE _fine_tune /\ ~(Benchmarking \/ Calibrating)
  <2>1. step' \notin {"probe", "measured", "trial", "scale"}
    BY <1>8, Heading
  <2> QED
    BY <2>1 DEF Sighted, Trialling
<1> QED
  BY <1>3, <1>4, <1>5, <1>6, <1>7, <1>8 DEF _fine_tune, Benchmarking, SkipProfile, ProbeFails

(* An automatic configuration suits the native trainer.                    *)
LEMMA SizedKept ==
    ASSUME PrepTypeOK, Course, Needs, FreeBelow, Measures, Benched, Sized, _fine_tune \/ Elsewhere
    PROVE  Sized'
<1> USE DEF Goto, Refuse
<1>1. config \in Configurations /\ config.context \in Nat \ {0}
  BY PartsTyped DEF PrepTypeOK
<1>2. ASSUME UNCHANGED <<request, engine>>, Native /\ AutomaticOnly => Configuring,
             config'.layers = config.layers, config'.several = config.several,
             config'.split = config.split, config'.devices = config.devices,
             Native /\ config.context >= 32 => config'.context >= 32
      PROVE  Sized'
  BY <1>2, SameSight
     DEF Sized, Sees, Splits, Trainable, _validate_hybrid_training_path
<1>3. ASSUME NEW x \in Nat \ {0}, config' = [config EXCEPT !.context = x]
      PROVE  /\ config'.layers = config.layers /\ config'.several = config.several
             /\ config'.split = config.split /\ config'.devices = config.devices
             /\ config'.context = x
  BY <1>1, <1>3 DEF Configurations
<1>4. CASE _resolve_training_settings
  <2>1. CASE step' \in {"refused", "align"}
    BY <2>1 DEF Sized, Configuring, Benching
  <2>2. CASE step' \notin {"refused", "align"}
    <3>1. /\ UNCHANGED <<request, engine>> /\ step = "measured"
          /\ \A i \in DOMAIN bench.plan.split : ~(bench.plan.split[i] <= 0)
          /\ config' = Configured(Applied(bench.for, bench.settings), bench.plan.split,
                                  Len(bench.seen), config.rate)
      BY <1>4, <2>2, ResolvingSteps
    <3>2. /\ config'.split = bench.plan.split /\ config'.devices = Len(bench.seen)
          /\ config'.layers = bench.settings.layers /\ config'.several = bench.settings.several
          /\ config'.context = Covered(bench.for, IF request.context = 0
                                                  THEN bench.settings.context
                                                  ELSE request.context)
      BY <3>1, Resolved
    <3>3. \A i \in DOMAIN bench.plan.split : bench.plan.split[i] > 0
      BY <3>1, PartsTyped
    <3>4. Native /\ AutomaticOnly => Trainable(config)'
      <4>1. SUFFICES ASSUME Native, AutomaticOnly PROVE Trainable(config)'
        OBVIOUS
      <4>2. Trainable(bench.settings)
        BY <3>1, <4>1 DEF Benched
      <4>3. bench.settings.context \in Nat \ {0} /\ required \in Nat
        BY PartsTyped DEF Settings, PrepTypeOK
      <4>4. config'.context = Covered(bench.for, bench.settings.context)
        BY <3>2, <4>1 DEF AutomaticOnly
      <4>5. config'.context = bench.settings.context \/ (required # 0 /\ config'.context >= required)
        BY <4>3, <4>4 DEF Covered, Most
      <4>6. config'.context >= 32
        BY <4>2, <4>3, <4>4, <4>5, Covering DEF Trainable, Needs
      <4> QED
        BY <3>1, <3>2, <4>2, <4>6 DEF Trainable, _validate_hybrid_training_path
    <3>5. Native => Sees(config.devices, config.split)'
      BY <3>1, <3>2, SameSight DEF Benched, Sees, Splits
    <3> QED
      BY <3>1, <3>2, <3>3, <3>4, <3>5, SameSight DEF Sized
  <2> QED
    BY <2>1, <2>2
<1>5. CASE CheckData
  <2>1. /\ UNCHANGED <<request, engine>> /\ step = "checks"
        /\ \/ UNCHANGED config
           \/ config' = [config EXCEPT !.context = Most(2048, config.context)]
    BY <1>5 DEF CheckData
  <2> DEFINE x == Most(2048, config.context)
  <2>2. x \in Nat \ {0} /\ config.context <= x
    BY <1>1 DEF Most
  <2> HIDE DEF x
  <2>3. CASE UNCHANGED config
    BY <1>2, <2>1, <2>3 DEF Configuring
  <2>4. CASE config' = [config EXCEPT !.context = x]
    <3>1. /\ config'.layers = config.layers /\ config'.several = config.several
          /\ config'.split = config.split /\ config'.devices = config.devices
          /\ config'.context = x
      BY <1>3, <2>2, <2>4
    <3>2. config.context >= 32 => config'.context >= 32
      BY <1>1, <2>2, <3>1
    <3> QED
      BY <1>2, <2>1, <3>1, <3>2 DEF Configuring
  <2> QED
    BY <2>1, <2>3, <2>4 DEF x
<1>6. CASE ApplyCalibration /\ step' # "refused"
  <2> DEFINE x == Least(config.context, trial.settings.context)
             b == Least(config.batch, trial.settings.batch)
             g == _calibrated_gguf_batch_size(config.gguf, trial.settings.gguf)
             r == rate_factor(trial.rate)
  <2>1. /\ config' = [config EXCEPT !.rate = r, !.context = x, !.batch = b, !.gguf = g]
        /\ UNCHANGED <<request, engine>> /\ step = "scale"
    BY <1>1, <1>6 DEF ApplyCalibration, Configurations
  <2>2. Native /\ config.context >= 32 => x >= 32
    BY <2>1, PartsTyped DEF Measures, Native, Least
  <2> HIDE DEF x, b, g, r
  <2>3. /\ config'.layers = config.layers /\ config'.several = config.several
        /\ config'.split = config.split /\ config'.devices = config.devices
        /\ config'.context = x
    BY <1>1, <2>1 DEF Configurations
  <2> QED
    BY <1>2, <2>1, <2>2, <2>3 DEF Configuring
<1>7. CASE _fit_gguf_context
  <2> DEFINE fitted == FitGgufContext(config.context, config.gguf, Model.limit)
             x == Most(32, fitted[1])
             g == fitted[2]
  <2>1. /\ config' = [config EXCEPT !.context = x, !.gguf = g]
        /\ UNCHANGED <<request, engine>> /\ step = "train"
    BY <1>7 DEF _fit_gguf_context
  <2>2. x >= 32
    <3>1. fitted[1] \in Nat
      BY PartsTyped, ModelTyped, NativeFitting
    <3> QED
      BY <3>1 DEF Most
  <2> HIDE DEF x, g
  <2>3. /\ config'.layers = config.layers /\ config'.several = config.several
        /\ config'.split = config.split /\ config'.devices = config.devices
        /\ config'.context = x
    BY <1>1, <2>1 DEF Configurations
  <2> QED
    BY <1>2, <2>1, <2>2, <2>3 DEF Configuring
<1>8. CASE largest_training_context \/ FallBack \/ KeepSettings \/ _resolve_cli_model \/ CountFails
  <2>1. CASE KeepSettings
    BY <2>1 DEF KeepSettings, Course, Sized, AutomaticOnly, Automatic
  <2>2. CASE _resolve_cli_model \/ CountFails
    BY <2>2 DEF _resolve_cli_model, CountFails, Fitted, Sized, Configuring, Benching
  <2>3. CASE largest_training_context \/ FallBack
    <3>1. /\ UNCHANGED request /\ step' \in {"refused", Fitted, "again", "rescan", "train"}
          /\ step' = "train" => ~Automatic
      BY <2>3 DEF largest_training_context, FallBack, Fitted
    <3> QED
      BY <3>1 DEF Fitted, Sized, AutomaticOnly, Automatic, Configuring, Benching
  <2> QED
    BY <1>8, <2>1, <2>2, <2>3
<1>9. ASSUME UNCHANGED <<request, engine, config>>, Configuring' => Configuring
      PROVE  Sized'
  BY <1>9, SameSight DEF Sized, Sees, Splits, Trainable, _validate_hybrid_training_path
<1>10. CASE Calibrating /\ ~(ApplyCalibration /\ step' # "refused")
  <2>1. UNCHANGED <<request, engine, bench, config>> /\ (Configuring' => Configuring)
    BY <1>10, CalibrationSteps DEF Configuring, Benching
  <2> QED
    BY <1>9, <2>1
<1>11. CASE Benchmarking
  <2>1. UNCHANGED <<request, engine, config>> /\ (Configuring' => Configuring)
    BY <1>11, BenchmarkSteps DEF Configuring, Benching
  <2> QED
    BY <1>9, <2>1
<1>12. CASE prepare_dataset_source \/ TrainMlx \/ train_gradient_gguf
  <2>1. UNCHANGED <<request, engine, config>> /\ (Configuring' => Configuring)
    BY <1>12 DEF prepare_dataset_source, TrainMlx, train_gradient_gguf, Configuring, Benching
  <2> QED
    BY <1>9, <2>1
<1>13. CASE Elsewhere
  <2>1. UNCHANGED <<request, engine, config>> /\ (Configuring' => Configuring)
    BY <1>13 DEF Elsewhere, MemoryMoves, EntryExpires, command, Configuring, Benching
  <2> QED
    BY <1>9, <2>1
<1> QED
  BY <1>4, <1>5, <1>6, <1>7, <1>8, <1>10, <1>11, <1>12, <1>13 DEF _fine_tune

(* A pilot adapts the layers that the settings of the benchmark name.      *)
LEMMA TriedKept ==
    ASSUME PrepTypeOK, Course, Needs, FreeBelow, Benched, Tried, _fine_tune \/ Elsewhere
    PROVE  Tried'
<1> USE DEF Goto, Refuse
<1>1. trial \in Trials /\ trial.settings \in Settings
  BY PartsTyped DEF PrepTypeOK
<1>2. ASSUME UNCHANGED <<request, engine>>, step' \in {"trial", "scale"} => Trialling,
             trial'.settings.layers = trial.settings.layers,
             trial'.settings.several = trial.settings.several
      PROVE  Tried'
  BY <1>2 DEF Tried, Native, Trialling, _validate_hybrid_training_path
<1>3. CASE sample_training_data
  <2>1. CASE step' = "refused"
    BY <2>1 DEF Tried, Trialling
  <2>2. CASE step' # "refused"
    <3>1. /\ trial'.settings.layers = bench.settings.layers
          /\ trial'.settings.several = bench.settings.several
      BY <1>3, <2>2, Sampling
    <3>2. step = "measured" /\ UNCHANGED <<request, engine>>
      BY <1>3 DEF sample_training_data
    <3>3. Native => _validate_hybrid_training_path(bench.settings)
      BY <3>2 DEF Benched, Trainable
    <3> QED
      BY <3>1, <3>2, <3>3 DEF Tried, Native, _validate_hybrid_training_path
  <2> QED
    BY <2>1, <2>2
<1>4. CASE PilotRunsOut
  <2> DEFINE g == Most(1, trial.settings.gguf \div 2)
             s == [trial.settings EXCEPT !.gguf = g]
  <2>1. g \in Nat \ {0}
    BY PartsTyped DEF Most
  <2>2. s.layers = trial.settings.layers /\ s.several = trial.settings.several
    BY <1>1, <2>1, Resettled
  <2>3. trial' = [trial EXCEPT !.settings = s] /\ step = "trial" /\ UNCHANGED <<request, engine>>
    BY <1>1, <1>4 DEF PilotRunsOut, Trials, TrialOnly, Runs, Trying
  <2> HIDE DEF s
  <2>4. trial'.settings = s
    BY <1>1, <2>3 DEF Trials
  <2> QED
    BY <1>2, <2>2, <2>3, <2>4 DEF Trialling
<1>5. CASE PilotFails
  <2>1. /\ trial' = [trial EXCEPT !.place = @ + 1, !.higher = FALSE] /\ step = "trial"
        /\ UNCHANGED <<request, engine>>
    BY <1>5 DEF PilotFails, Onward, TrialOnly, Runs, Trying
  <2>2. trial'.settings = trial.settings
    BY <1>1, <2>1 DEF Trials
  <2> QED
    BY <1>2, <2>1, <2>2 DEF Trialling
<1>6. CASE PilotEnds
  <2>1. PICK used \in Used : trial'.settings = used
    BY <1>6, PilotEnding
  <2>2. step = "trial" /\ UNCHANGED <<request, engine>>
    BY <1>6 DEF PilotEnds, Runs, Trying, TrialOnly
  <2>3. CASE Native
    <3>1. used = Pilot
      BY <2>3, PilotTyped DEF Native
    <3>2. Pilot.layers = trial.settings.layers /\ Pilot.several = trial.settings.several
      BY <2>1, PilotTyped
    <3> QED
      BY <1>2, <2>1, <2>2, <3>1, <3>2 DEF Trialling
  <2>4. CASE ~Native
    BY <2>2, <2>4 DEF Tried, Native
  <2> QED
    BY <2>3, <2>4
<1>7. CASE PilotRefused \/ FallsBackToCpu \/ NoRate \/ ApplyCalibration
  <2>1. step' \notin {"trial", "scale"}
    BY <1>7 DEF PilotRefused, FallsBackToCpu, NoRate, ApplyCalibration
  <2> QED
    BY <2>1 DEF Tried, Trialling
<1>8. CASE Elsewhere
  <2>1. UNCHANGED <<request, engine, trial, step>>
    BY <1>8 DEF Elsewhere, MemoryMoves, EntryExpires, command
  <2> QED
    BY <1>2, <2>1 DEF Trialling
<1>9. CASE _fine_tune /\ ~Calibrating
  <2>1. step' \notin {"trial", "scale"}
    BY <1>9, Heading
  <2> QED
    BY <2>1 DEF Tried, Trialling
<1> QED
  BY <1>3, <1>4, <1>5, <1>6, <1>7, <1>8, <1>9 DEF Calibrating

(* The native run has whole microbatches.                                  *)
LEMMA PaddedKept ==
    ASSUME PrepTypeOK, Course, Needs, FreeBelow, Sized, Padded, _fine_tune \/ Elsewhere
    PROVE  Padded'
<1> USE DEF Goto, Refuse
<1>1. CASE _fit_gguf_context
  <2> DEFINE fitted == FitGgufContext(config.context, config.gguf, Model.limit)
             x == Most(32, fitted[1])
             g == fitted[2]
  <2>1. /\ config' = [config EXCEPT !.context = x, !.gguf = g]
        /\ UNCHANGED <<request, engine>> /\ step = "train" /\ Native
    BY <1>1 DEF _fit_gguf_context, OnMlx, Course, Native
  <2>2. AutomaticOnly => config.context >= 32
    BY <2>1 DEF Sized, Configuring, Trainable
  <2>3. /\ config.context \in Nat \ {0} /\ config.gguf \in Nat \ {0} /\ Model.limit \in Nat
        /\ fitted[1] \in Nat \ {0} /\ config.context <= fitted[1]
        /\ config.context >= 32 => fitted[1] % g = 0
    <3>1. config.context \in Nat \ {0} /\ config.gguf \in Nat \ {0} /\ Model.limit \in Nat
      BY PartsTyped, ModelTyped
    <3> DEFINE c == config.context
               b == config.gguf
               l == Model.limit
               f == fitted
    <3> HIDE DEF c, b, l, f
    <3>2. f = FitGgufContext(c, b, l) /\ c \in Nat \ {0} /\ b \in Nat \ {0} /\ l \in Nat
      BY <3>1 DEF c, b, l, f
    <3>3. /\ f[1] \in Nat \ {0} /\ c <= f[1]
          /\ c >= 32 => f[1] % f[2] = 0
      BY <3>2, NativeFitting, Zenon
    <3> QED
      BY <3>1, <3>3, Zenon DEF c, f
  <2> HIDE DEF fitted
  <2>4. config.context >= 32 => x = fitted[1]
    BY <2>3 DEF Most
  <2>5. config.context >= 32 => x % g = 0
    BY <2>3, <2>4
  <2> HIDE DEF x, g
  <2>6. config'.context = x /\ config'.gguf = g
    <3>1. config \in Configurations
      BY DEF PrepTypeOK
    <3> QED
      BY <2>1, <3>1 DEF Configurations
  <2> QED
    BY <2>1, <2>2, <2>5, <2>6 DEF Padded, AutomaticOnly, Automatic
<1>2. CASE Elsewhere
  BY <1>2 DEF Elsewhere, MemoryMoves, EntryExpires, command, Padded, AutomaticOnly, Automatic
<1>3. CASE _fine_tune /\ ~_fit_gguf_context
  <2>1. step' # "native"
    BY <1>3, Heading
  <2> QED
    BY <2>1 DEF Padded
<1> QED
  BY <1>1, <1>2, <1>3

(* Every step of the preparation keeps the invariant.                      *)
LEMMA PrepKept == ASSUME PrepSafe, _fine_tune \/ Elsewhere PROVE PrepSafe'
<1>1. /\ PrepTypeOK /\ Course /\ Needs /\ FreeBelow /\ Covers /\ Tries /\ Measures /\ Suitable
      /\ MeasuredShape
  BY DEF PrepSafe, PrepInv
<1>2. PrepTypeOK'
  BY <1>1, TypesKept
<1>3. Course' /\ Needs'
  BY <1>1, CourseKept, NeedsKept
<1>4. Covers' /\ Tries'
  BY <1>1, CoversKept, TriesKept
<1>5. Measures' /\ MeasuredShape'
  BY <1>1, MeasuresKept, MeasuredShapeKept
<1>6. FreeBelow'
  BY <1>1, FreeBelowKept
<1>7. Suitable'
  BY <1>1, BenchedKept, SizedKept, TriedKept, PaddedKept, SightedKept DEF Suitable
<1> QED
  BY <1>2, <1>3, <1>4, <1>5, <1>6, <1>7 DEF PrepSafe, PrepInv

(* Nothing changes where the command and its surroundings stay as they     *)
(* are.                                                                    *)
LEMMA PrepStays == ASSUME PrepSafe, UNCHANGED prepvars PROVE PrepSafe'
<1>1. /\ UNCHANGED <<request, cache, step, engine, required, bench, config, trial, free>>
      /\ PrepTypeOK /\ PrepInv /\ MeasuredShape
  BY DEF prepvars, command, environment, PrepSafe
<1>2. PrepTypeOK' /\ FreeBelow'
  BY <1>1 DEF PrepTypeOK, FreeBelow, PrepInv
<1>3. Course'
  BY <1>1 DEF PrepInv, Course, Automatic
<1>4. Needs' /\ Covers' /\ Tries'
  BY <1>1 DEF PrepInv, Needs, Needing, Benching, Covers, Configuring, Tries, Trialling
<1>5. Measures' /\ MeasuredShape'
  BY <1>1 DEF PrepInv, Measures, Bounded, Scaled, MeasuredShape, Starting, OnMlx, Calibrated,
              Automatic, Planned, Piloted, Sampled
<1>6. Sighted'
  <2>1. Named(bench.seen)' <=> Named(bench.seen)
    BY <1>1, SamePlaces DEF Named
  <2> QED
    BY <1>1, <2>1, SamePlaces, SameSight DEF PrepInv, Suitable, Sighted, Trialling
<1>7. Benched'
  BY <1>1, SameSight DEF PrepInv, Suitable, Benched, Trialling, Sees, Splits, Trainable,
                         _validate_hybrid_training_path
<1>8. Sized'
  BY <1>1, SameSight DEF PrepInv, Suitable, Sized, Configuring, Benching, Sees, Splits, Trainable,
                         _validate_hybrid_training_path
<1>9. Tried' /\ Padded'
  BY <1>1, SameSight DEF PrepInv, Suitable, Tried, Trialling, Padded,
                         _validate_hybrid_training_path
<1> QED
  BY <1>2, <1>3, <1>4, <1>5, <1>6, <1>7, <1>8, <1>9 DEF PrepSafe, PrepInv, Suitable

-----------------------------------------------------------------------------
(* What follows from the invariant.                                        *)

(* The trainer has room for the longest record.                            *)
LEMMA RoomForRecords == ASSUME PrepSafe PROVE FullContextKept
<1>1. PrepTypeOK /\ Course /\ Needs /\ Covers
  BY DEF PrepSafe, PrepInv
<1>2. config.context \in Nat /\ required \in Nat
  BY <1>1, PartsTyped DEF PrepTypeOK
<1>3. Starting => step \in {"train", "native"}
  BY DEF Starting
<1>4. step \in {"train", "native"} => request.longest[engine] \in Nat
  <2>1. request.longest["mlx"] \in Nat /\ request.longest["llama.cpp"] \in Nat
    BY <1>1, Asked DEF PrepTypeOK
  <2> QED
    BY <1>1, <2>1 DEF Course
<1> QED
  BY <1>1, <1>2, <1>3, <1>4 DEF Needs, Covers, Needing, Configuring, FullContextKept

(* Settings for devices that are counted are ones that llama.cpp's flags   *)
(* express.                                                                *)
LEMMA Expressed ==
    ASSUME NEW gpus \in Seq(Gpus), NEW split \in Seq(Nat), Sees(Len(gpus), split),
           \A i \in DOMAIN split : split[i] > 0
    PROVE  llama_device_arguments(request.multi, gpus, split)
<1>1. split # <<>> => Len(split) = Len(gpus)
  BY DEF Sees, Splits
<1>2. request.multi = "on" => Len(gpus) > 1
  BY DEF Sees
<1> QED
  BY <1>1, <1>2 DEF llama_device_arguments

(* Where no AMD card is taken along, a backend finds the same by its name. *)
LEMMA FoundAgain ==
    ASSUME NEW requested, NEW a \in Accelerators, NEW gpus,
           ~(/\ requested = "auto" /\ a = "cuda"
             /\ \E i \in DOMAIN gpus : /\ gpus[i].amd /\ ~gpus[i].integrated
                                       /\ gpus[i].backend = "vulkan")
    PROVE  llama_devices(requested, a, gpus) = llama_devices(a, a, gpus)
<1> DEFINE Discrete == {i \in {j \in DOMAIN gpus : gpus[j].backend = "vulkan"} :
                          ~gpus[i].integrated}
           Amd(name) == {i \in DOMAIN gpus : name = "auto" /\ gpus[i].amd}
<1>1. a # "auto"
  BY DEF Accelerators
<1>2. a = "cuda" => Discrete \cap Amd(requested) = {} /\ Discrete \cap Amd(a) = {}
  BY <1>1
<1>3. CASE a = "cuda"
  BY <1>2, <1>3, Zenon DEF llama_devices
<1>4. CASE a # "cuda"
  BY <1>4, Zenon DEF llama_devices
<1> QED
  BY <1>3, <1>4

(* A pilot knows the devices of the benchmark, but for such a card.        *)
LEMMA PilotRecognises ==
    ASSUME PrepTypeOK, Sighted, Native, Trialling, ~AmdAlong
    PROVE  Recognised(bench.seen)
<1>1. bench.accelerator = Accelerator /\ Accelerator \in Accelerators /\ Named(bench.seen)
  BY DEF Sighted
<1>2. Found = llama_devices(request.accelerator, Accelerator, request.host.gpus)
  BY <1>1 DEF Found, Native, Accelerators, Refused
<1>3. llama_devices(request.accelerator, bench.accelerator, request.host.gpus) = PilotPlaces
  BY <1>1, FoundAgain, Zenon DEF AmdAlong, PilotPlaces
<1>4. Found = PilotPlaces
  BY <1>1, <1>2, <1>3, Zenon
<1> QED
  BY <1>1, <1>4, Zenon DEF Recognised, Named

(* Automatic settings are accepted where the trainer does not guard the    *)
(* memory.                                                                 *)
LEMMA LargeHosts == ASSUME PrepSafe PROVE LargeHostAccepted
<1>1. PrepTypeOK /\ Course /\ FreeBelow /\ Tries /\ Suitable
  BY DEF PrepSafe, PrepInv
<1>2. SUFFICES ASSUME ~LowMemory, AutomaticOnly PROVE (~AmdAlong => PilotAccepted) /\ RunAccepted
  BY Zenon DEF LargeHostAccepted
<1>3. ASSUME NEW s, _validate_memory_budget(s) # TRUE PROVE FALSE
  BY <1>2, <1>3 DEF _validate_memory_budget
<1>4. ASSUME Trying, engine = "llama.cpp", ~AmdAlong PROVE AcceptsPilot
  <2>1. step = "trial" /\ Native /\ Trialling /\ Configuring
    BY <1>4 DEF Trying, Native, Trialling, Configuring
  <2>2. /\ Trainable(config) /\ Sees(config.devices, config.split)
        /\ \A i \in DOMAIN config.split : config.split[i] > 0
    BY <1>1, <1>2, <2>1 DEF Suitable, Sized
  <2>3. Sees(Len(bench.seen), bench.plan.split) /\ _validate_hybrid_training_path(trial.settings)
    BY <1>1, <2>1 DEF Suitable, Benched, Tried
  <2>4. /\ Pilot \in Settings
        /\ Pilot.context = PadTo(trial.asked.context, trial.settings.gguf)
        /\ Pilot.layers = trial.settings.layers /\ Pilot.several = trial.settings.several
    <3>1. Pilot \in Used
      BY DEF Used
    <3> QED
      BY <1>1, <1>4, <3>1, PilotTyped
  <2>5. Pilot.gguf = trial.settings.gguf
    <3>1. trial.settings \in Settings
      BY <1>1, PartsTyped
    <3> QED
      BY <1>4, <3>1 DEF Pilot, Settings
  <2>6. trial.asked.context = config.context /\ config.context >= 32
    BY <1>1, <2>1, <2>2 DEF Tries, Trainable
  <2>7. /\ trial.asked.context \in Nat /\ trial.settings.gguf \in Nat \ {0}
        /\ trial.largest \in Nat /\ bench.seen \in Seq(Gpus)
        /\ config.split \in Seq(Nat) /\ bench.plan.split \in Seq(Nat)
    BY <1>1, PartsTyped
  <2>8. Pilot.context \in Nat /\ Pilot.context >= 32 /\ Pilot.context % Pilot.gguf = 0
    <3> DEFINE n == trial.asked.context
               b == trial.settings.gguf
               c == Pilot.context
    <3>1. n \in Nat /\ n >= 32 /\ b \in Nat \ {0} /\ c = PadTo(n, b) /\ Pilot.gguf = b
      BY <2>4, <2>5, <2>6, <2>7
    <3> HIDE DEF n, b, c
    <3>2. PadTo(n, b) \in Nat /\ n <= PadTo(n, b) /\ PadTo(n, b) % b = 0
      BY <3>1, Padding
    <3>3. c \in Nat /\ c >= 32 /\ c % Pilot.gguf = 0
      BY <3>1, <3>2
    <3> QED
      BY <3>3 DEF c
  <2> DEFINE scored == EvaluationContext(trial.largest, Pilot.context, Pilot.gguf)
  <2>9. scored \in 32..Pilot.context /\ scored % Pilot.gguf = 0
    BY <2>5, <2>7, <2>8, Scoring
  <2>10. llama_device_arguments(request.multi, bench.seen, PilotSplit)
    <3>1. PilotSplit \in Seq(Nat) /\ \A i \in DOMAIN PilotSplit : PilotSplit[i] > 0
      <4>1. config.split = <<>> => bench.plan.split = <<>>
        BY <2>2, <2>3 DEF Sees, Splits
      <4>2. PilotSplit = config.split
        BY <4>1 DEF PilotSplit
      <4> QED
        BY <2>2, <2>7, <4>2
    <3>2. Sees(Len(bench.seen), PilotSplit)
      BY <2>2, <2>3 DEF Sees, PilotSplit
    <3> QED
      BY <2>7, <3>1, <3>2, Expressed
  <2>11. validate(Pilot, scored, bench.seen, PilotSplit)
    <3> HIDE DEF scored
    <3> QED
      BY <2>8, <2>9, <2>10 DEF validate
  <2>12. _validate_hybrid_training_path(Pilot)
    BY <2>3, <2>4 DEF _validate_hybrid_training_path
  <2>13. _validate_memory_budget(Pilot)
    BY <1>2 DEF _validate_memory_budget
  <2>14. Recognised(bench.seen)
    BY <1>1, <1>4, <2>1, PilotRecognises DEF Suitable
  <2> QED
    BY <2>11, <2>12, <2>13, <2>14 DEF AcceptsPilot, Accepts
<1>5. ASSUME step = "native" PROVE Accepts(config, config.context, NativeDevices, config.split)
  <2>1. Native /\ Configuring /\ config.context % config.gguf = 0
    BY <1>1, <1>2, <1>5 DEF Course, Native, Configuring, Suitable, Padded
  <2>2. /\ Trainable(config) /\ Sees(config.devices, config.split)
        /\ \A i \in DOMAIN config.split : config.split[i] > 0
    BY <1>1, <1>2, <2>1 DEF Suitable, Sized
  <2>3. config.context \in Nat /\ config.split \in Seq(Nat)
    BY <1>1, PartsTyped
  <2>4. Chosen \in Seq(Gpus) /\ Len(Chosen) = Len(Places)
    BY <1>1, ChosenTyped
  <2>5. NativeDevices = Chosen
    BY <2>2, <2>4 DEF NativeDevices, Sees
  <2>6. llama_device_arguments(request.multi, NativeDevices, config.split)
    BY <2>2, <2>3, <2>4, <2>5, Expressed DEF Sees
  <2>7. validate(config, config.context, NativeDevices, config.split)
    BY <2>1, <2>2, <2>3, <2>6 DEF validate, Trainable
  <2>8. _validate_hybrid_training_path(config) /\ _validate_memory_budget(config)
    BY <1>2, <2>2 DEF Trainable, _validate_memory_budget
  <2> QED
    BY <2>7, <2>8 DEF Accepts
<1> QED
  BY <1>4, <1>5, Zenon DEF PilotAccepted, RunAccepted
====
