-------------------------- MODULE UsageAccounting --------------------------
(***************************************************************************)
(* Token counts and costs of model responses, per provider, and their sum  *)
(* (infra/providers/core/usage.ts).                                        *)
(*                                                                         *)
(* Tokens are counted in thousands; prices are in 1/100000 dollar per      *)
(* million tokens and costs in 1/100000 dollar, the digits calculateCost   *)
(* keeps.  Half a digit rounds up, as in Math.round; the code computes in  *)
(* floating point, which may break such a tie otherwise.                   *)
(***************************************************************************)
EXTENDS Integers, TLC

CONSTANTS Tokens,       \* token counts that a response reports
          MaxResponses  \* bound: responses aggregated

VARIABLES last,    \* the normalized usage of the last response
          summed,  \* aggregateUsage() of all of them
          count    \* responses so far

usageVars == <<last, summed, count>>

(* PROVIDER_PRICING; 0 is an absent price.  claude-opus-4-5-1h is left     *)
(* out: it differs from claude-opus-4-5 in its write price alone, of which *)
(* only the presence counts below.                                         *)
Price(input, output, write, read) ==
  [input |-> input, output |-> output, write |-> write, read |-> read]
Pricing ==
  [anthropic |-> {Price(500000, 2500000, 625000, 50000), Price(300000, 1500000, 375000, 30000),
                  Price(100000, 500000, 125000, 10000)},
   openai    |-> {Price(500000, 1500000, 0, 125000), Price(200000, 800000, 0, 50000)},
   gemini    |-> {Price(250000, 1000000, 0, 62500), Price(7500, 30000, 0, 1875)},
   deepseek  |-> {Price(28000, 110000, 0, 2800), Price(14000, 28000, 0, 1400)}]
Providers == DOMAIN Pricing

NoUsage == [input |-> 0, output |-> 0, total |-> 0, thinking |-> 0, written |-> 0, read |-> 0,
            inputCost |-> 0, outputCost |-> 0, writeCost |-> 0, totalCost |-> 0, savings |-> 0,
            listed |-> 0, provider |-> "none"]

UsageInit == last = NoUsage /\ summed = NoUsage /\ count = 0

-----------------------------------------------------------------------------

Cost(tokens, price) == tokens * price
Rounded(cost) == (cost + 500) \div 1000
\* Faulty variant: the cached tokens are charged twice.
AllInput(raw) == raw.input

Uncached(raw) == IF raw.input > raw.read THEN raw.input - raw.read ELSE 0

(* calculateCost(): cached tokens are taken off the input tokens.  Writes  *)
(* are charged by the input price and the cache's time to live, a quarter  *)
(* or the whole more; the listed write price only says whether at all.     *)
WriteCost(raw, price) ==
  IF price.write = 0 THEN 0
  ELSE (Cost(raw.written, price.input) * IF raw.ttl = "1h" THEN 8 ELSE 5) \div 4

CalculateCost(raw, price) ==
  LET input == Cost(Uncached(raw), price.input) + Cost(raw.read, price.read)
      output == Cost(raw.output, price.output)
      write == WriteCost(raw, price) IN
    [inputCost |-> Rounded(input), outputCost |-> Rounded(output), writeCost |-> Rounded(write),
     totalCost |-> Rounded(input + output + write),
     savings |-> Rounded(Cost(raw.read, price.input) - Cost(raw.read, price.read)),
     listed |-> Rounded(Cost(raw.input, price.input))]

(* What the providers report: only Anthropic names written tokens and a    *)
(* time to live, and its input tokens do not include the cached ones; of   *)
(* the others they are a part.  Thinking tokens come from OpenAI and       *)
(* Gemini.                                                                 *)
Raw(provider) ==
  {raw \in [input : Tokens, output : Tokens, read : Tokens, written : Tokens,
            thinking : Tokens, ttl : {"5m", "1h"}] :
     /\ provider # "anthropic" => raw.written = 0 /\ raw.ttl = "5m" /\ raw.read <= raw.input
     /\ provider \in {"anthropic", "deepseek"} => raw.thinking = 0}

Usage(provider, raw, total, price) ==
  CalculateCost(raw, price) @@
  [input |-> raw.input, output |-> raw.output, total |-> total, thinking |-> raw.thinking,
   written |-> raw.written, read |-> raw.read, provider |-> provider]

NormalizeAnthropicUsage(raw, price) ==
  Usage("anthropic", raw, raw.input + raw.output + raw.written + raw.read, price)
NormalizeOpenAIUsage(raw, price) == Usage("openai", raw, raw.input + raw.output, price)
NormalizeGeminiUsage(raw, price) == Usage("gemini", raw, raw.input + raw.output, price)
NormalizeDeepSeekUsage(raw, price) == Usage("deepseek", raw, raw.input + raw.output, price)

Normalized(provider, raw, price) ==
  CASE provider = "anthropic" -> NormalizeAnthropicUsage(raw, price)
    [] provider = "openai"    -> NormalizeOpenAIUsage(raw, price)
    [] provider = "gemini"    -> NormalizeGeminiUsage(raw, price)
    [] provider = "deepseek"  -> NormalizeDeepSeekUsage(raw, price)

(* aggregateUsage() adds field by field what was rounded before.           *)
Aggregated(sum, usage) ==
  [field \in DOMAIN sum |-> IF field = "provider" THEN "all" ELSE sum[field] + usage[field]]

(* A response arrives, and the aggregate is computed again.                *)
Respond ==
  /\ count < MaxResponses
  /\ count' = count + 1
  /\ \E provider \in Providers : \E raw \in Raw(provider), price \in Pricing[provider] :
       last' = Normalized(provider, raw, price)
  /\ summed' = Aggregated(summed, last')

UsageNext == Respond
UsageSpec == UsageInit /\ [][UsageNext]_usageVars

-----------------------------------------------------------------------------

Apart(x, y) == IF x > y THEN x - y ELSE y - x

(* The total of a response, rounded by itself, is the sum of its rounded   *)
(* parts up to one unit, and so is that of an aggregate per response.      *)
PartsAddUp ==
  \A usage \in {last, summed} :
    Apart(usage.totalCost, usage.inputCost + usage.outputCost + usage.writeCost) <= count

(* What caching saved is the difference to the cost of the input without   *)
(* it, for the providers whose input tokens include the cached ones; and   *)
(* no usage costs, or saves, less than nothing.                            *)
SavingsExplainCost ==
  /\ last.provider # "anthropic" => Apart(last.inputCost + last.savings, last.listed) <= 1
  /\ \A usage \in {last, summed} :
       usage.inputCost >= 0 /\ usage.savings >= 0 /\ usage.totalCost >= 0

(* Costs are consistent per response and over a session.                   *)
CostsAddUp == PartsAddUp /\ SavingsExplainCost
=============================================================================
