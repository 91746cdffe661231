---- MODULE AlignmentData ----
(***************************************************************************)
(* What alignment trains on (alignment.py, and the rows that rollouts.py   *)
(* makes).  A record is [has, prompt, reward]: the fields it has under     *)
(* their first names, the prompt it is about, and its reward.  Rewards are *)
(* whole numbers, similarities the sign of their difference.               *)
(***************************************************************************)
EXTENDS Integers, Sequences, FiniteSets, FiniteSetsExt, Functions

Invalid == "invalid"
Fields == {"prompt", "shared", "chosen", "rejected", "ranked", "response", "reward", "label",
           "media"}
Records == [has : SUBSET Fields, prompt : Nat, reward : Int]

Pairwise == {"dpo", "ipo", "simpo", "orpo", "cpo"}
Grouped == {"rloo", "grpo"}
_REWARD_METHODS == {"kto", "ppo", "reinforce"} \cup Grouped
Methods == Pairwise \cup _REWARD_METHODS

(* A ranked pair or chosen and rejected answers make a preference, whose   *)
(* prompt may be the beginning that the answers share; an answer with a    *)
(* reward or a label makes a reward.                                       *)
_parse_example(item) ==
    LET has == item.has
        pair == {"chosen", "rejected"} \subseteq has
        ranked == "ranked" \in has /\ {"chosen", "rejected"} \cap has = {}
    IN  IF "media" \in has THEN Invalid
        ELSE IF pair \/ ranked
        THEN IF {"prompt", "shared"} \cap has # {} THEN "preference" ELSE Invalid
        ELSE IF /\ {"prompt", "response"} \subseteq has
                /\ {"reward", "label"} \cap has # {}
             THEN "reward" ELSE Invalid

(* A label that is not a reward says desirable or not.                     *)
_feedback_reward(item) == IF "reward" \in item.has THEN item.reward
                          ELSE IF item.reward > 0 THEN 1 ELSE -1

Same(rows, prompt) == {i \in DOMAIN rows : rows[i].prompt = prompt}
Total(rows, group) == SumFunctionOnSet([i \in DOMAIN rows |-> _feedback_reward(rows[i])], group)

(* The advantage of each row, times a factor that its group shares: its    *)
(* reward against the mean of the others (rloo) or of all (grpo), which    *)
(* must differ; the reward itself for the other methods.  <<>> if refused.  *)
reward_advantages(method, rows) ==
    LET Group(i) == Same(rows, rows[i].prompt)
        Apart(i) == Cardinality(Group(i)) * _feedback_reward(rows[i]) - Total(rows, Group(i))
    IN  IF \/ rows = <<>> \/ method \notin _REWARD_METHODS
           \/ method \in Grouped /\ \E i \in DOMAIN rows : Cardinality(Group(i)) < 2
           \/ method = "grpo" /\ \E i \in DOMAIN rows : \A j \in Group(i) : Apart(j) = 0
        THEN <<>>
        ELSE [i \in DOMAIN rows |-> IF method \in Grouped THEN Apart(i)
                                    ELSE _feedback_reward(rows[i])]

Schemas(rows) == {_parse_example(rows[i]) : i \in DOMAIN rows}

Selected(requested, schema) ==
    IF requested # "auto" THEN requested ELSE IF schema = "preference" THEN "dpo" ELSE "ppo"

(* Whether a method can learn from records of one schema.                  *)
Suits(method, schema, rows, live) ==
    /\ schema = "reward" => method \in _REWARD_METHODS
    /\ schema = "preference" /\ ~live => method \notin Grouped \cup {"reinforce"}
    /\ schema = "reward" /\ method = "kto" => \A i \in DOMAIN rows : _feedback_reward(rows[i]) # 0
    /\ schema = "reward" /\ method \in Grouped /\ ~live => reward_advantages(method, rows) # <<>>

(* Mutant: generated rows are read like the ones they come from.           *)
load_as_source(rows, requested, live) ==
    LET schema == CHOOSE s \in Schemas(rows) : TRUE
        method == Selected(requested, schema)
    IN  IF /\ rows # <<>> /\ Cardinality(Schemas(rows)) = 1 /\ schema # Invalid
           /\ Suits(method, schema, rows, TRUE)
        THEN method ELSE Invalid

(* The method that a data set is aligned with.                             *)
load_alignment_dataset(rows, requested, live) ==
    LET schema == CHOOSE s \in Schemas(rows) : TRUE
        method == Selected(requested, schema)
    IN  IF /\ rows # <<>> /\ Cardinality(Schemas(rows)) = 1 /\ schema # Invalid
           /\ Suits(method, schema, rows, live)
        THEN method ELSE Invalid

-----------------------------------------------------------------------------
(* The row a generated answer becomes.  It takes the place of the better   *)
(* or of the worse answer of a pair; otherwise it is rewarded for what it  *)
(* has in common with the answers, or with the one that was rewarded.      *)
_local_reward(item, likeness) ==
    IF _parse_example(item) = "preference" THEN likeness
    ELSE IF likeness > 0 THEN 2 * _feedback_reward(item) ELSE _feedback_reward(item)

_rollout_row(method, item, likeness) ==
    IF method \in Pairwise
    THEN [has |-> {"prompt", "chosen", "rejected"}, prompt |-> item.prompt, reward |-> 0]
    ELSE [has |-> {"prompt", "response", "reward"}, prompt |-> item.prompt,
          reward |-> IF method = "kto" /\ _local_reward(item, likeness) = 0 THEN -1
                     ELSE _local_reward(item, likeness)]

validate_rollouts(method, samples) == samples >= 1 /\ (method \in Grouped => samples >= 2)
====
