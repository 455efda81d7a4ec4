------------------------------- MODULE Parser -------------------------------
(***************************************************************************)
(* How a tweet becomes signals: HybridSignalParser over the rule parser,   *)
(* the segments, the intent detectors and the action model.                *)
(*                                                                         *)
(* A text is the set of phrases the patterns find in it; what a phrase     *)
(* does is given by the constants: the keywords it scores, whether it      *)
(* affirms a trade, comments on one or is hypothetical, the watch tier it  *)
(* expresses.  A model is the set of the guesses it makes, and makes the   *)
(* same guess of the same text.  Confidences are in percent.               *)
(***************************************************************************)
EXTENDS Integers, Sequences, FiniteSets, FiniteSetsExt, SequencesExt

CONSTANTS Tickers, Phrases, Keywords,
          BuyKeys, SellKeys,        \* the keywords of either side in a phrase
          Weight,                   \* what a keyword scores
          BuyVerbs, SellVerbs,      \* phrases that affirm an executed trade
          BuyHypothetical,          \* a verb in a conditional or a recap
          BuyTalk, SellTalk,        \* market commentary
          Recaps,                   \* recounting of a past round trip
          Reductions,               \* a lower weight, or a target weight
          TierOf,                   \* the watch tier of a phrase, or NoTier
          Models,                   \* the models there may be, each the set of its guesses
          Tweets,                   \* the tweets considered
          MinConfidence, MinMargin, KeywordClear, Floor, ReviewBelow

Trades == {"BUY", "SELL"}
Actions == Trades \cup {"WATCH", "IGNORE"}
NoTier == "none"
NoTicker == "no ticker"
NoAction == "undecided"
TierOrder == <<"start", "heavy", "soft", "standard">>
WatchConfidence == [soft |-> 45, start |-> 55, standard |-> 65, heavy |-> 80]

ASSUME ThresholdsAssumption ==
  /\ {MinConfidence, MinMargin, KeywordClear, Floor, ReviewBelow} \subseteq Nat
  /\ Weight \in [Keywords -> Nat \ {0}]
  /\ {BuyKeys, SellKeys} \subseteq [Phrases -> SUBSET Keywords]
  /\ TierOf \in [Phrases -> DOMAIN WatchConfidence \cup {NoTier}]
  /\ Models \subseteq SUBSET [action : Actions, confidence : 0..100, margin : 0..100]
  /\ {NoTicker} \cap Tickers = {}

\* A tweet: its header, the phrases that belong to no cashtag, its cashtags in order, each with the
\* phrases around it, and the known ticker spelled without a cashtag, if any.
Mention == [ticker : Tickers, text : SUBSET Phrases]

ASSUME TweetsAssumption ==
  Tweets \subseteq [header : BOOLEAN, lead : SUBSET Phrases, bare : Tickers \cup {NoTicker},
                    mentions : Seq(Mention)]

VARIABLES tweet,     \* the tweet being parsed
          signals,   \* what parse returned, <<>> before
          phase      \* "given" or "parsed"

vars == <<tweet, signals, phase>>

-----------------------------------------------------------------------------
(* Words *)

\* A keyword scores once, however many phrases of the text have it.
Score(text, keys) ==
  MapThenSumSet(LAMBDA k : Weight[k], UNION {keys[p] : p \in text})

WatchTier(text) ==
  LET found == SelectSeq(TierOrder, LAMBDA tier : \E p \in text : TierOf[p] = tier)
  IN  IF found = <<>> THEN NoTier ELSE Head(found)

\* Commentary is removed and any verb left affirms, a hypothetical one too; without commentary
\* hypotheticals and recaps are removed.
AffirmsBuy(text) ==
  \/ text \cap BuyVerbs # {}
  \/ text \cap BuyTalk # {} /\ text \cap BuyHypothetical # {}

AffirmsSell(text) ==
  /\ text \cap SellVerbs # {}
  /\ text \cap SellTalk = {}
  /\ WatchTier(text) = NoTier \/ text \cap Recaps = {}

Affirms(action, text) ==
  /\ action = "BUY" => AffirmsBuy(text)
  /\ action = "SELL" => AffirmsSell(text)

KeywordAction(text) ==
  LET buy == Score(text, BuyKeys)
      sell == Score(text, SellKeys)
  IN  CASE buy > sell -> "BUY"
        [] sell > buy -> "SELL"
        [] OTHER -> NoAction

KeysOf(action) == IF action = "SELL" THEN SellKeys ELSE BuyKeys

\* Structure, then verbs, then intent.
StructureFirst(text) ==
  CASE text \cap Reductions # {} -> "SELL"
    [] text \cap Reductions = {} /\ KeywordAction(text) # NoAction ->
         IF Score(text, SellKeys) > 0 THEN "SELL" ELSE "BUY"
    [] OTHER -> IF AffirmsSell(text) THEN "SELL"
                ELSE IF AffirmsBuy(text) THEN "BUY" ELSE NoAction

-----------------------------------------------------------------------------
(* Signals *)

Signal(ticker, action, confidence) ==
  [ticker |-> ticker, action |-> action, confidence |-> confidence,
   tier |-> NoTier, review |-> FALSE]

Ignored(ticker) == Signal(ticker, "IGNORE", 0)

WatchOrIgnore(ticker, text) ==
  LET tier == WatchTier(text)
  IN  IF tier = NoTier THEN Ignored(ticker)
      ELSE [Signal(ticker, "WATCH", WatchConfidence[tier]) EXCEPT !.tier = tier]

\* Rules are put on the scale of the model's probabilities.
Keyed(ticker, action, score) ==
  Signal(ticker, action, Min({99, 50 + 8 * score}))

\* Raised to 50 at least; a predicted WATCH has no tier.
FromModel(ticker, guess) ==
  Signal(ticker, guess.action, Min({99, Max({50, guess.confidence})}))

Usable(guess) ==
  /\ guess.action # "IGNORE"
  /\ guess.confidence >= MinConfidence
  /\ guess.margin >= MinMargin

RuleScore(text) == Max({Score(text, BuyKeys), Score(text, SellKeys)})

RuleSignal(ticker, text) ==
  LET action == KeywordAction(text)
  IN  CASE action = NoAction -> WatchOrIgnore(ticker, text)
        [] action = "SELL" /\ WatchTier(text) # NoTier -> WatchOrIgnore(ticker, text)
        [] OTHER -> IF Affirms(action, text) THEN Keyed(ticker, action, RuleScore(text))
                    ELSE Ignored(ticker)

\* Without a header only trades above the floor are kept.
Gate(signal, text) ==
  IF signal.action \in Trades /\ signal.confidence < Floor
  THEN WatchOrIgnore(signal.ticker, text)
  ELSE signal

\* Mutant: the intent is not checked.
IntendedUnchecked(signal, text) == Gate(signal, text)

Intended(signal, text) ==
  IF Affirms(signal.action, text) THEN Gate(signal, text) ELSE Ignored(signal.ticker)

\* One segment by its own text: clear keywords, a usable guess, weaker keywords, watch interest.
Classified(ticker, text, guess) ==
  LET rule == RuleSignal(ticker, text)
      clear == rule.action \in Trades /\ RuleScore(text) >= KeywordClear
  IN  CASE rule.action = "WATCH" -> rule
        [] clear -> Intended(rule, text)
        [] rule.action # "WATCH" /\ ~clear /\ Usable(guess) ->
             Intended(FromModel(ticker, guess), text)
        [] OTHER -> IF rule.action \in Trades THEN Intended(rule, text)
                    ELSE WatchOrIgnore(ticker, text)

\* Under a header: words, else the better of BUY and SELL, to be reviewed when it is not sure.
Forced(ticker, text, guess) ==
  LET action == StructureFirst(text)
  IN  IF action # NoAction THEN Keyed(ticker, action, Max({Score(text, KeysOf(action)), 3}))
      ELSE [FromModel(ticker, guess) EXCEPT !.review = guess.confidence < ReviewBelow]

-----------------------------------------------------------------------------
(* Tweets *)

FullText(tw) == tw.lead \cup UNION {tw.mentions[i].text : i \in DOMAIN tw.mentions}

\* Mutant: mentions around which nothing is said of a trade are skipped, as a comment has it.
SegmentsWithWords(tw) ==
  SelectSeq(tw.mentions, LAMBDA s : s.text # {})

\* One segment per ticker, that of its first mention; a single cashtag has the whole tweet.
Segments(tw) ==
  IF Len(tw.mentions) = 1 THEN <<[tw.mentions[1] EXCEPT !.text = FullText(tw)]>>
  ELSE FoldLeft(LAMBDA segments, mention :
                  IF \E i \in DOMAIN segments : segments[i].ticker = mention.ticker
                  THEN segments ELSE Append(segments, mention),
                <<>>, tw.mentions)

Mixed(segments) ==
  \E i, j \in DOMAIN segments :
    KeywordAction(segments[i].text) = "BUY" /\ KeywordAction(segments[j].text) = "SELL"

\* Mutant: mixed keywords do not stop one verb from governing every ticker.
SharedThoughMixed(tw, segments) ==
  IF Len(segments) > 1 THEN StructureFirst(FullText(tw)) ELSE NoAction

\* One phrase that governs every ticker of the tweet.
SharedAction(tw, segments) ==
  IF Len(segments) > 1 /\ ~Mixed(segments) THEN StructureFirst(FullText(tw)) ELSE NoAction

\* Mutant: a verb shared by all tickers is not held to the floor.
SharedUngated(tw, ticker, action) ==
  Keyed(ticker, action, Max({Score(FullText(tw), KeysOf(action)), 3}))

SharedSignal(tw, ticker, action) ==
  LET signal == Keyed(ticker, action, Max({Score(FullText(tw), KeysOf(action)), 3}))
  IN  IF tw.header THEN signal ELSE Gate(signal, FullText(tw))

\* No cashtag: the rule parser looks for a known ticker.
BareSignal(tw) ==
  LET signal == RuleSignal(tw.bare, tw.lead)
  IN  CASE tw.bare = NoTicker -> Ignored(NoTicker)
        [] tw.bare # NoTicker /\ tw.header -> signal
        [] OTHER -> Gate(signal, tw.lead)

\* Under a header the better of BUY and SELL is asked for; a model that was trained without either
\* answers as it does without a header.
Predictions(model, header) ==
  LET trades == {g \in model : g.action \in Trades}
  IN  IF header /\ trades # {} THEN trades ELSE model

\* The answer of a model depends on the text alone.
Answers(tw) ==
  LET segments == Segments(tw)
  IN  UNION {[{segments[i].text : i \in DOMAIN segments} -> Predictions(m, tw.header)] : m \in Models}

\* parse; the signals of a tweet have different tickers, so that _dedupe_signals keeps them all.
Signals(tw, answer) ==
  LET segments == Segments(tw)
      shared == SharedAction(tw, segments)
      signal(ticker, text) ==
        CASE shared # NoAction -> SharedSignal(tw, ticker, shared)
          [] shared = NoAction /\ tw.header -> Forced(ticker, text, answer[text])
          [] OTHER -> Classified(ticker, text, answer[text])
  IN  IF tw.mentions = <<>> THEN <<BareSignal(tw)>>
      ELSE [i \in DOMAIN segments |-> signal(segments[i].ticker, segments[i].text)]

Init ==
  /\ tweet \in Tweets
  /\ signals = <<>>
  /\ phase = "given"

\* A call of parse, by a loop that then handles the signals one by one.
Parse ==
  /\ phase = "given"
  /\ \E answer \in Answers(tweet) : signals' = Signals(tweet, answer)
  /\ phase' = "parsed"
  /\ UNCHANGED tweet

Next == Parse
Spec == Init /\ [][Next]_vars

-----------------------------------------------------------------------------
(* Properties *)

\* What a signal can be: only watch signals have a tier, and the confidence of that tier.
WellFormed(s) ==
  /\ s.action \in Actions
  /\ s.tier # NoTier => s.action = "WATCH" /\ s.confidence = WatchConfidence[s.tier]

\* Every variable has its type; without a header nothing asks for review, and nothing is known of
\* what is ignored.
TypeOK ==
  /\ phase \in {"given", "parsed"}
  /\ \A i \in DOMAIN signals :
       /\ WellFormed(signals[i])
       /\ ~tweet.header => /\ ~signals[i].review
                           /\ signals[i].action = "IGNORE" => signals[i].confidence = 0

\* Without a Trade header no signal trades below the floor, whichever way it came about: own
\* keywords, a shared verb, the model, or a bare ticker.
NonHeaderFloor ==
  ~tweet.header =>
    \A i \in DOMAIN signals : signals[i].action \in Trades => ~(signals[i].confidence < Floor)

\* The cashtags of a tweet are answered one to one, however often each is mentioned and whatever
\* is said around it: the trading loop makes at most one call per ticker, tweet and manager.
EveryTickerAnswered ==
  phase = "parsed" /\ tweet.mentions # <<>> =>
    /\ {signals[i].ticker : i \in DOMAIN signals} =
         {tweet.mentions[i].ticker : i \in DOMAIN tweet.mentions}
    /\ \A i, j \in DOMAIN signals : signals[i].ticker = signals[j].ticker => i = j

\* Without a header the text behind a trade affirms it, unless a verb shared by all tickers of
\* the tweet decided: the model and weak keywords are never enough by themselves.
TradesHaveIntent ==
  ~tweet.header /\ tweet.mentions # <<>> =>
    \A i \in DOMAIN signals :
      LET s == signals[i] IN
      s.action \in Trades =>
        \/ Affirms(s.action, Segments(tweet)[i].text)
        \/ SharedAction(tweet, Segments(tweet)) = s.action

\* When the segments of a tweet contradict each other, each is read as if it stood alone.
MixedStandAlone ==
  phase = "parsed" /\ Mixed(Segments(tweet)) =>
    \A i \in DOMAIN signals :
      LET alone == [tweet EXCEPT !.lead = {}, !.mentions = <<Segments(tweet)[i]>>]
      IN  \E answer \in Answers(alone) : signals[i] = Signals(alone, answer)[1]
=============================================================================
