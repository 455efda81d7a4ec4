------------------------------ MODULE MCParser ------------------------------
(***************************************************************************)
(* Tweets of up to two cashtags and three phrases, out of phrases of every *)
(* kind the parser tells apart.                                            *)
(***************************************************************************)
EXTENDS Parser

MCTickers == {"A", "B"}

MCWeight == [add |-> 3, starter |-> 3, long |-> 2, trim |-> 3, reduce |-> 2]
MCKeywords == DOMAIN MCWeight

\* phrase |-> <<keywords of buying, keywords of selling, watch tier>>
Lexicon ==
  [adding     |-> <<{"add"}, {}, "none">>,          starter    |-> <<{"starter"}, {}, "none">>,
   longs      |-> <<{"long"}, {}, "none">>,         mightAdd   |-> <<{"add"}, {}, "soft">>,
   puked      |-> <<{}, {}, "none">>,               trimming   |-> <<{}, {"trim"}, "none">>,
   reducing   |-> <<{}, {"reduce"}, "none">>,       willTrim   |-> <<{}, {"trim"}, "none">>,
   sellOff    |-> <<{}, {}, "none">>,               downTo     |-> <<{}, {}, "none">>,
   watching   |-> <<{}, {}, "standard">>,           covered    |-> <<{}, {}, "none">>]
MCPhrases == DOMAIN Lexicon
MCBuyKeys == [p \in MCPhrases |-> Lexicon[p][1]]
MCSellKeys == [p \in MCPhrases |-> Lexicon[p][2]]
MCTierOf == [p \in MCPhrases |-> Lexicon[p][3]]

MCBuyVerbs == {"adding", "starter"}
MCSellVerbs == {"trimming", "reducing"}
MCBuyHypothetical == {"mightAdd"}
MCBuyTalk == {"puked"}
MCSellTalk == {"sellOff"}
MCRecaps == {"covered"}
MCReductions == {"downTo"}

\* A model with sure and unsure guesses, one too close to its runner-up, and one of either kind
\* that trades nothing; and a model without a BUY or a SELL.
Untraded ==
  {[action |-> "WATCH", confidence |-> 60, margin |-> 20],
   [action |-> "IGNORE", confidence |-> 92, margin |-> 20]}
MCModels ==
  {Untraded,
   Untraded \cup {[action |-> a, confidence |-> 92, margin |-> 20] : a \in Trades}
            \cup {[action |-> "BUY", confidence |-> 92, margin |-> 2],
                  [action |-> "SELL", confidence |-> 40, margin |-> 20]}}

Texts(n) == UNION {kSubset(k, MCPhrases) : k \in 0..n}

MCTweets ==
  LET tweets(leads, bares, mentions) ==
        [header : BOOLEAN, lead : leads, bare : bares, mentions : mentions]
      one(texts) == {[ticker |-> "A", text |-> t] : t \in texts}
      other(texts) == {[ticker |-> tk, text |-> t] : tk \in MCTickers, t \in texts}
  IN  tweets(Texts(3), {"A", NoTicker}, {<<>>})
      \cup tweets(Texts(1), {NoTicker}, {<<s>> : s \in one(Texts(2))})
      \cup tweets({{}}, {NoTicker}, {<<s, t>> : s \in one(Texts(1)), t \in other(Texts(2))})
      \cup tweets({{}}, {NoTicker}, {<<s, t>> : s \in one(Texts(2)), t \in other(Texts(1))})
      \cup tweets(kSubset(1, MCPhrases), {NoTicker},
                  {<<s, t>> : s \in one(Texts(1)), t \in other(Texts(1))})
=============================================================================
